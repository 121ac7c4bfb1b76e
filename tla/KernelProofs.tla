---------------------------- MODULE KernelProofs ----------------------------
(***************************************************************************)
(* The invariant of the kernel, in four parts.                             *)
(*                                                                         *)
(* The shape: every function of KernelState leaves a record with the same  *)
(* fields, and changes only the fields named here.  This alone is enough   *)
(* to prove, for any number of tasks, mutexes, interrupts and groups, that *)
(* no call but task_create returns with a reschedule left undone.          *)
(*                                                                         *)
(* The lists: the list primitives keep every task on at most one list, and *)
(* t->lock, t->wait the name of the list that holds it.                    *)
(*                                                                         *)
(* The functions: every function of the kernel keeps the invariants of its *)
(* data, KInv, and, until it reschedules, drops no ready task and no       *)
(* reschedule due.                                                         *)
(*                                                                         *)
(* The actions: the invariant IInv of KernelInvariant is inductive, if no  *)
(* task that waits for a group is deleted.  It is proved in the form Inv,  *)
(* whose last part is said of each task by itself: a step changes it for   *)
(* the task that runs, and leaves it to the others.                        *)
(***************************************************************************)
EXTENDS KernelInvariant, TLAPS, SequenceTheorems, FiniteSetTheorems, WellFoundedInduction

(***************************************************************************)
(* The shape of the kernel's data.                                         *)
(***************************************************************************)
Fields ==
    {"current", "need", "list", "lock", "wait", "owned", "base", "prio", "message",
     "master", "mprio", "deep", "groups", "irq", "ilock", "fast", "pending", "allowed",
     "signalled", "gmessage", "waiter"}

Shaped(s) == s = [f \in Fields |-> s[f]]

\* The result r has the shape of s, and of the fields of s only those in F changed.
Changes(s, r, F) == Shaped(r) /\ \A f \in Fields \ F : r[f] = s[f]

-----------------------------------------------------------------------------
\* One operation after another.
LEMMA ChangesTrans ==
    ASSUME NEW s, NEW q, NEW r, NEW F, NEW G, NEW H,
           Changes(s, q, F), Changes(q, r, G), F \subseteq H, G \subseteq H
    PROVE  Changes(s, r, H)
BY DEF Changes

\* list_unlink changes the lists.
LEMMA UnlinkShape ==
    ASSUME NEW s, Shaped(s), NEW t
    PROVE  Changes(s, ListUnlink(s, t), {"list"})
BY DEF Shaped, Fields, Changes, ListUnlink

\* list_append changes the lists.
LEMMA AppendShape ==
    ASSUME NEW s, Shaped(s), NEW h, NEW t
    PROVE  Changes(s, ListAppend(s, h, t), {"list"})
BY DEF Shaped, Fields, Changes, ListAppend

\* task_schedule changes the running task and clears the flag.
LEMMA ScheduleShape ==
    ASSUME NEW s, Shaped(s)
    PROVE  Changes(s, TaskSchedule(s), {"current", "need"}) /\ ~TaskSchedule(s).need
BY DEF Shaped, Fields, Changes, TaskSchedule

\* So does a reschedule that is due.
LEMMA ScheduleIfNeededShape ==
    ASSUME NEW s, Shaped(s)
    PROVE  Changes(s, ScheduleIfNeeded(s), {"current", "need"}) /\ ~ScheduleIfNeeded(s).need
<1>1. CASE s.need BY <1>1, ScheduleShape DEF ScheduleIfNeeded
<1>2. CASE ~s.need BY <1>2 DEF ScheduleIfNeeded, Changes
<1>3. QED BY <1>1, <1>2

\* task_activate changes the lists and may set the flag.
LEMMA ActivateShape ==
    ASSUME NEW s, Shaped(s), NEW w
    PROVE  Changes(s, TaskActivate(s, w), {"list", "need"})
BY DEF Shaped, Fields, Changes, TaskActivate

Woken == {"list", "need", "wait", "message", "signalled", "gmessage", "waiter"}

\* The waiters that mutex_activate wakes get the message too.
LEMMA WaitersShape ==
    ASSUME NEW s, Shaped(s), NEW m, NEW msg
    PROVE  Changes(s, WaitersActivated(s, m, msg), Woken)
<1> DEFINE w  == s.list[Waiters(m)]
           s1 == [s EXCEPT !.list[Waiters(m)] = <<>>]
           s2 == TaskActivate(s1, w)
<1>1. Changes(s, s1, {"list"}) BY DEF Shaped, Fields, Changes
<1>2. Changes(s1, s2, {"list", "need"})
  <2> HIDE DEF s1, w
  <2> QED BY <1>1, ActivateShape DEF Changes
<1>3. Changes(s2, WaitersActivated(s, m, msg), {"wait", "message"})
  <2>1. Shaped(s2) BY <1>2 DEF Changes
  <2>2. WaitersActivated(s, m, msg) =
          [s2 EXCEPT
            !.wait    = [t \in AllTasks |-> IF t \in Range(w) THEN None ELSE @[t]],
            !.message = [t \in AllTasks |-> IF t \in Range(w) THEN msg ELSE @[t]]]
    BY DEF WaitersActivated
  <2> HIDE DEF s2, w
  <2> QED BY <2>1, <2>2 DEF Shaped, Fields, Changes
<1>4. QED
  <2> HIDE DEF s1, s2, w
  <2>1. Changes(s, s2, Woken) BY <1>1, <1>2, ChangesTrans DEF Woken
  <2>2. QED BY <2>1, <1>3, ChangesTrans DEF Woken

\* The groups that mutex_activate marks change too.
LEMMA GroupsShape ==
    ASSUME NEW s, Shaped(s), NEW m, NEW msg
    PROVE  Changes(s, GroupsActivated(s, m, msg), Woken)
<1> DEFINE s1 == TaskActivate(s, GroupsWoken(s, m))
           gs == Range(s.groups[m])
<1>1. Changes(s, s1, {"list", "need"}) BY ActivateShape
<1>2. Changes(s1, GroupsActivated(s, m, msg), {"signalled", "gmessage", "waiter"})
  <2>1. Shaped(s1) BY <1>1 DEF Changes
  <2>2. GroupsActivated(s, m, msg) =
          [s1 EXCEPT
            !.signalled = [g \in Groups |-> IF g \in gs THEN @[g] \cup {m} ELSE @[g]],
            !.gmessage  = [g \in Groups |-> IF g \in gs THEN [@[g] EXCEPT ![m] = msg]
                                            ELSE @[g]],
            !.waiter    = [g \in Groups |-> IF g \in gs THEN None ELSE @[g]]]
    BY DEF GroupsActivated
  <2> HIDE DEF s1, gs
  <2> QED BY <2>1, <2>2 DEF Shaped, Fields, Changes
<1>3. QED
  <2> HIDE DEF s1
  <2> QED BY <1>1, <1>2, ChangesTrans DEF Woken

\* mutex_activate, both parts.
LEMMA MutexActivateShape ==
    ASSUME NEW s, Shaped(s), NEW m, NEW msg
    PROVE  Changes(s, MutexActivate(s, m, msg), Woken)
<1> DEFINE s1 == WaitersActivated(s, m, msg)
<1>1. Changes(s, s1, Woken) BY WaitersShape
<1> HIDE DEF s1
<1>2. Changes(s1, GroupsActivated(s1, m, msg), Woken) BY <1>1, GroupsShape DEF Changes
<1>3. MutexActivate(s, m, msg) = GroupsActivated(s1, m, msg) BY DEF MutexActivate, s1
<1>4. QED BY <1>1, <1>2, <1>3, ChangesTrans

-----------------------------------------------------------------------------
(***************************************************************************)
(* Priority inheritance changes priorities, and may ask for a reschedule.  *)
(***************************************************************************)
Inherited == {"prio", "mprio", "need"}

\* A chain of recalculations changes priorities and may set the flag.
LEMMA RecalculateShape ==
    ASSUME NEW s, Shaped(s), NEW c
    PROVE  Changes(s, RecalculateFrom(s, c), Inherited)
<1> DEFINE chain[n \in 0 .. MaxLevels] ==
               IF n = 0 THEN c
               ELSE LET d == chain[n - 1]
                    IN  IF d.next = None THEN d ELSE TaskLevel(s, d)
           end == chain[MaxLevels]
<1>1. RecalculateFrom(s, c) = [s EXCEPT !.prio = end.prio, !.mprio = end.mprio, !.need = end.need]
  BY DEF RecalculateFrom
<1> HIDE DEF end
<1>2. QED BY <1>1 DEF Shaped, Fields, Changes, Inherited

\* The chain from a task.
LEMMA TaskRecalculateShape ==
    ASSUME NEW s, Shaped(s), NEW t
    PROVE  Changes(s, TaskRecalculatePrio(s, t), Inherited)
BY RecalculateShape DEF TaskRecalculatePrio

\* The chain from a lock.
LEMMA MutexRecalculateShape ==
    ASSUME NEW s, Shaped(s), NEW m
    PROVE  Changes(s, MutexRecalculatePrio(s, m), Inherited)
BY RecalculateShape DEF MutexRecalculatePrio

\* The acquisition of a lock.
LEMMA AcquireShape ==
    ASSUME NEW s, Shaped(s), NEW m
    PROVE  Changes(s, AcquireMutex(s, m), {"master", "owned", "prio"})
BY DEF Shaped, Fields, Changes, AcquireMutex

\* The acquisition and the depth.
LEMMA LockShape ==
    ASSUME NEW s, Shaped(s), NEW m
    PROVE  Changes(s, LockMutex(s, m), {"master", "owned", "prio", "deep"})
<1> DEFINE q == IF s.master[m] = None THEN AcquireMutex(s, m) ELSE s
<1>1. Changes(s, q, {"master", "owned", "prio"}) BY AcquireShape DEF Changes
<1>2. LockMutex(s, m) = [q EXCEPT !.deep[m] = @ + 1] BY DEF LockMutex
<1> HIDE DEF q
<1>3. QED BY <1>1, <1>2 DEF Shaped, Fields, Changes

\* The body of the loop of mutex_lock, which ends in task_schedule.
LEMMA BlockShape ==
    ASSUME NEW s, Shaped(s), NEW m
    PROVE  /\ Changes(s, BlockOnMutex(s, m), {"lock", "mprio", "prio", "list", "current", "need"})
           /\ ~BlockOnMutex(s, m).need
<1> DEFINE t == s.current
           master == s.master[m]
           p == s.prio[t]
           raise == s.mprio[m] < p
           q == [s EXCEPT !.lock[t] = m,
                          !.mprio[m] = IF raise THEN p ELSE @,
                          !.prio[master] = IF raise /\ @ < p THEN p ELSE @]
<1>1. Changes(s, q, {"lock", "mprio", "prio"}) BY DEF Shaped, Fields, Changes
<1>2. BlockOnMutex(s, m) = TaskSchedule(ListAppend(q, Slaves(m), t)) BY DEF BlockOnMutex
<1> HIDE DEF q
<1>3. Changes(q, ListAppend(q, Slaves(m), t), {"list"}) BY <1>1, AppendShape DEF Changes
<1>4. QED BY <1>1, <1>2, <1>3, ScheduleShape DEF Changes

\* The loss of a lock.
LEMMA DisownShape ==
    ASSUME NEW s, Shaped(s), NEW m
    PROVE  Changes(s, DisownMutex(s, m), Inherited \cup {"deep", "owned", "master"})
<1> DEFINE t == s.master[m]
           q == Unowned(s, t, m)
           r == IF s.prio[t] <= s.mprio[m] /\ s.base[t] < s.mprio[m]
                THEN TaskRecalculatePrio(q, t) ELSE q
<1>1. Changes(s, q, {"deep", "owned"}) BY DEF Shaped, Fields, Changes, Unowned
<1>2. DisownMutex(s, m) = [r EXCEPT !.master[m] = None] BY DEF DisownMutex
<1>3. Changes(q, r, Inherited)
  <2> HIDE DEF q
  <2> QED BY <1>1, TaskRecalculateShape DEF Changes
<1> HIDE DEF q, r
<1>4. Changes(r, DisownMutex(s, m), {"master"}) BY <1>2, <1>3 DEF Shaped, Fields, Changes
<1>5. QED BY <1>1, <1>3, <1>4 DEF Changes

\* The activation of the tasks blocked on a lock.
LEMMA SlavesShape ==
    ASSUME NEW s, Shaped(s), NEW m
    PROVE  Changes(s, SlavesActivated(s, m), {"list", "need", "lock"})
<1> DEFINE w == s.list[Slaves(m)]
           q == [s EXCEPT !.list[Slaves(m)] = <<>>]
           r == TaskActivate(q, w)
<1>1. Changes(s, q, {"list"}) BY DEF Shaped, Fields, Changes
<1>2. SlavesActivated(s, m) =
        [r EXCEPT !.lock = [t \in AllTasks |-> IF t \in Range(w) THEN None ELSE @[t]]]
  BY DEF SlavesActivated
<1> HIDE DEF q, w
<1>3. Changes(q, r, {"list", "need"}) BY <1>1, ActivateShape DEF Changes
<1> HIDE DEF r
<1>4. Changes(r, SlavesActivated(s, m), {"lock"}) BY <1>2, <1>3 DEF Shaped, Fields, Changes
<1>5. QED BY <1>1, <1>3, <1>4 DEF Changes

\* The fast handler.
LEMMA HandlerShape ==
    ASSUME NEW s, Shaped(s), NEW i, NEW outcome
    PROVE  Changes(s, HandlerCalled(s, i, outcome), {"pending", "allowed"})
BY DEF Shaped, Fields, Changes, HandlerCalled

Served == Woken \cup {"pending", "allowed"}

\* The pending interrupt served by a release.
LEMMA PendingShape ==
    ASSUME NEW s, Shaped(s), NEW m, NEW outcome
    PROVE  Changes(s, PendingServed(s, m, outcome), Served)
<1> DEFINE q == HandlerCalled(s, s.irq[m], outcome)
<1>1. Changes(s, q, {"pending", "allowed"}) BY HandlerShape
<1> HIDE DEF q
<1>2. Changes(q, MutexActivate(q, m, None), Woken) BY <1>1, MutexActivateShape DEF Changes
<1>3. Changes(s, MutexActivate(q, m, None), Served) BY <1>1, <1>2 DEF Changes, Served
<1>4. QED BY <1>1, <1>3 DEF PendingServed, q, Changes, Served

\* The slaves of a released lock.
LEMMA SlavesReleasedShape ==
    ASSUME NEW s, Shaped(s), NEW m
    PROVE  Changes(s, SlavesReleased(s, m), {"list", "need", "lock", "mprio"})
<1> DEFINE q == SlavesActivated(s, m)
<1>1. Changes(s, q, {"list", "need", "lock"}) BY SlavesShape
<1> HIDE DEF q
<1>2. Changes(s, [q EXCEPT !.mprio[m] = 0], {"list", "need", "lock", "mprio"})
  BY <1>1 DEF Shaped, Fields, Changes
<1>3. QED BY <1>2 DEF SlavesReleased, q, Changes

Released == Served \cup Inherited \cup {"deep", "owned", "master", "lock"}

\* The release of a lock.
LEMMA ReleaseShape ==
    ASSUME NEW s, Shaped(s), NEW m, NEW outcome
    PROVE  Changes(s, ReleaseMutex(s, m, outcome), Released)
<1> DEFINE q == DisownMutex(s, m)
           r == PendingServed(q, m, outcome)
<1>1. Changes(s, q, Inherited \cup {"deep", "owned", "master"}) BY DisownShape
<1> HIDE DEF q
<1>2. Changes(q, r, Served) BY <1>1, PendingShape DEF Changes
<1> HIDE DEF r
<1>3. Changes(r, SlavesReleased(r, m), {"list", "need", "lock", "mprio"})
  BY <1>2, SlavesReleasedShape DEF Changes
<1>4. ReleaseMutex(s, m, outcome) = SlavesReleased(r, m) BY DEF ReleaseMutex, r, q
<1>5. QED BY <1>1, <1>2, <1>3, <1>4 DEF Changes, Released, Served, Woken, Inherited

-----------------------------------------------------------------------------
(***************************************************************************)
(* The invariant: the shape, and a base priority and a frame of every      *)
(* task.  Defers is the step OnlyCreateDefersSwitch speaks of.             *)
(***************************************************************************)
ShapeInv ==
    /\ Shaped(k)
    /\ k.base = [t \in AllTasks |-> k.base[t]]
    /\ frame = [t \in AllTasks |-> frame[t]]

Defers ==
    ~k.need /\ k'.need /\ frame'[k'.current] = User =>
        \E t \in Tasks : k.base[t] = 0 /\ k'.base[t] # 0

Keeps == ShapeInv' /\ Defers

\* A step that keeps the base priorities and leaves no reschedule to be done.
LEMMA SettledKeeps ==
    ASSUME ShapeInv, NEW F, Changes(k, k', F), "base" \notin F,
           frame' = [t \in AllTasks |-> frame'[t]], k.need \/ ~k'.need
    PROVE  Keeps
BY DEF Keeps, ShapeInv, Changes, Defers, Fields

\* The same when no reschedule is touched.
LEMMA UnrelatedKeeps ==
    ASSUME ShapeInv, NEW F, Changes(k, k', F), "base" \notin F, "need" \notin F,
           frame' = [t \in AllTasks |-> frame'[t]]
    PROVE  Keeps
BY SettledKeeps DEF Changes, Fields

\* A step of which only frame changes.
LEMMA FrameShape ==
    ASSUME ShapeInv, NEW t, NEW f, frame' = [frame EXCEPT ![t] = f]
    PROVE  frame' = [u \in AllTasks |-> frame'[u]]
BY DEF ShapeInv

\* main() starts the tasks.
LEMMA StartTasksKeeps ==
    ASSUME ShapeInv, StartTasks
    PROVE  Keeps
<1>1. Changes(k, k', {"current", "need"}) /\ ~k'.need
  BY ScheduleShape DEF StartTasks, ShapeInv
<1>2. frame' = [t \in AllTasks |-> frame'[t]] BY FrameShape DEF StartTasks
<1>3. QED BY <1>1, <1>2, SettledKeeps

\* What task_create writes of a task t and of its lock f, but for the lists.
Created(s, t, p, f) ==
    [s EXCEPT !.base[t] = p, !.prio[t] = p, !.message[t] = None, !.mprio[f] = 0, !.groups[f] = <<>>]

CreatedFrom(s, r, t, p, f) ==
    /\ Changes(s, r, {"base", "prio", "message", "mprio", "groups"})
    /\ r.base = [s.base EXCEPT ![t] = p] /\ r.prio = [s.prio EXCEPT ![t] = p]
    /\ r.message = [s.message EXCEPT ![t] = None]
    /\ r.mprio = [s.mprio EXCEPT ![f] = 0] /\ r.groups = [s.groups EXCEPT ![f] = <<>>]

LEMMA CreatedIs ==
    ASSUME NEW s, Shaped(s), NEW t, NEW p, NEW f
    PROVE  CreatedFrom(s, Created(s, t, p, f), t, p, f)
<1> DEFINE r == Created(s, t, p, f)
           F == {"base", "prio", "message", "mprio", "groups"}
<1>1. Shaped(r) BY DEF Shaped, Created
<1>2. r.base = [s.base EXCEPT ![t] = p] BY DEF Shaped, Fields, Created
<1>3. r.prio = [s.prio EXCEPT ![t] = p] BY DEF Shaped, Fields, Created
<1>4. r.message = [s.message EXCEPT ![t] = None] BY DEF Shaped, Fields, Created
<1>5. r.mprio = [s.mprio EXCEPT ![f] = 0] BY DEF Shaped, Fields, Created
<1>6. r.groups = [s.groups EXCEPT ![f] = <<>>] BY DEF Shaped, Fields, Created
<1>7. \A x \in Fields \ F : r[x] = s[x] BY DEF Shaped, Created
<1> HIDE DEF r
<1>8. CreatedFrom(s, r, t, p, f)
  BY <1>1, <1>2, <1>3, <1>4, <1>5, <1>6, <1>7 DEF CreatedFrom, Changes
<1>9. QED BY <1>8 DEF r

\* task_create: the only call that returns with a reschedule undone.
LEMMA TaskCreateKeeps ==
    ASSUME ShapeInv, NEW t \in Tasks, TaskCreate(t)
    PROVE  Keeps
<1> DEFINE f == finish[t]
           p == StartPrio[t]
           q == [k EXCEPT !.base[t] = p, !.prio[t] = p, !.message[t] = None,
                          !.mprio[f] = 0, !.groups[f] = <<>>]
<1>1. q = Created(k, t, p, f) BY DEF Created
<1>2. k' = TaskActivate(q, <<t>>) BY DEF TaskCreate
<1> HIDE DEF q, p, f
<1>3. Shaped(k) BY DEF ShapeInv
<1>4. CreatedFrom(k, q, t, p, f) BY <1>1, <1>3, CreatedIs
<1>5. /\ Changes(k, q, {"base", "prio", "message", "mprio", "groups"})
      /\ q.base = [k.base EXCEPT ![t] = p]
  BY <1>4 DEF CreatedFrom
<1>6. Changes(q, k', {"list", "need"}) BY <1>2, <1>5, ActivateShape DEF Changes
<1>7. Shaped(k') /\ k'.base = [k.base EXCEPT ![t] = p]
  BY <1>5, <1>6 DEF Changes, Fields
<1>8. k.base[t] = 0 /\ p # 0 BY KernelParameters DEF TaskCreate, Unused, p
<1>9. t \in AllTasks BY DEF AllTasks
<1>10. ShapeInv' BY <1>7 DEF ShapeInv, TaskCreate
<1>11. k'.base[t] # 0 BY <1>7, <1>8, <1>9 DEF ShapeInv
<1>12. QED BY <1>8, <1>10, <1>11 DEF Keeps, Defers

\* task_yield.
LEMMA TaskYieldKeeps ==
    ASSUME ShapeInv, NEW t \in Tasks, TaskYield(t)
    PROVE  Keeps
<1> DEFINE q == ListAppend(k, Active, t)
<1>1. Changes(k, q, {"list"}) BY AppendShape DEF ShapeInv
<1>2. k' = TaskSchedule(q) BY DEF TaskYield
<1> HIDE DEF q
<1>3. Changes(k, k', {"list", "current", "need"}) /\ ~k'.need
  BY <1>1, <1>2, ScheduleShape DEF Changes
<1>4. QED BY <1>3, SettledKeeps DEF TaskYield, ShapeInv

\* task_set_priority.
LEMMA TaskSetPriorityKeeps ==
    ASSUME ShapeInv, NEW t \in Tasks, NEW d \in Tasks, NEW p \in SetPrios,
           TaskSetPriority(t, d, p)
    PROVE  Keeps
<1> DEFINE q == [k EXCEPT !.base[d] = p]
           r == TaskRecalculatePrio(q, d)
<1>1. Changes(k, q, {"base"}) BY DEF Shaped, Fields, Changes, ShapeInv
<1>2. q.base = [k.base EXCEPT ![d] = p] BY DEF ShapeInv, Shaped, Fields
<1>3. k' = ScheduleIfNeeded(r) BY DEF TaskSetPriority
<1> HIDE DEF q
<1>4. Changes(q, r, Inherited) BY <1>1, TaskRecalculateShape DEF Changes
<1> HIDE DEF r
<1>5. Changes(r, k', {"current", "need"}) /\ ~k'.need
  BY <1>3, <1>4, ScheduleIfNeededShape DEF Changes
<1>6. Shaped(k') /\ k'.base = [k.base EXCEPT ![d] = p]
  BY <1>2, <1>4, <1>5 DEF Changes, Fields, Inherited
<1>7. QED BY <1>5, <1>6 DEF Keeps, Defers, ShapeInv, TaskSetPriority

-----------------------------------------------------------------------------
\* One test of the loop of mutex_lock.
LEMMA LockLoopKeeps ==
    ASSUME ShapeInv, NEW t, NEW m, NEW f, NEW done, NEW F, LockLoop(t, m, f, done),
           Changes(k, done, F), "base" \notin F, "need" \notin F
    PROVE  Keeps
<1>1. CASE k' = BlockOnMutex(k, m)
  BY <1>1, BlockShape, SettledKeeps, FrameShape DEF LockLoop, ShapeInv
<1>2. CASE k' = done
  BY <1>2, UnrelatedKeeps, FrameShape DEF LockLoop
<1>3. QED BY <1>1, <1>2 DEF LockLoop

Locked == {"master", "owned", "prio", "deep"}
AttachedFields == Locked \cup {"irq", "ilock", "fast", "pending"}

\* An interrupt is attached.
LEMMA AttachedShape ==
    ASSUME NEW s, Shaped(s), NEW m, NEW i, NEW f
    PROVE  Changes(s, Attached(s, m, i, f), {"irq", "ilock", "fast", "pending"})
BY DEF Shaped, Fields, Changes, Attached

\* A lock is taken and its interrupt attached.
LEMMA AttachedLockShape ==
    ASSUME NEW s, Shaped(s), NEW m, NEW i, NEW f
    PROVE  Changes(s, Attached(LockMutex(s, m), m, i, f), AttachedFields)
BY LockShape, AttachedShape DEF Changes, AttachedFields, Locked

\* mutex_unlock.
LEMMA UnlockedShape ==
    ASSUME ShapeInv, NEW m, NEW outcome
    PROVE  /\ Changes(k, Unlocked(m, outcome), Released \cup {"current"})
           /\ k.need \/ ~Unlocked(m, outcome).need
<1>1. CASE k.deep[m] > 1
  BY <1>1 DEF Unlocked, Shaped, ShapeInv, Fields, Changes, Released
<1>2. CASE ~(k.deep[m] > 1)
  <2> DEFINE q == ReleaseMutex(k, m, outcome)
  <2>1. Changes(k, q, Released) BY ReleaseShape DEF ShapeInv
  <2> HIDE DEF q
  <2>2. Unlocked(m, outcome) = ScheduleIfNeeded(q) BY <1>2 DEF Unlocked, q
  <2>3. QED
    BY <2>1, <2>2, ScheduleIfNeededShape
    DEF Changes, Released, Served, Woken, Inherited
<1>3. QED BY <1>1, <1>2

\* No part of a release changes a base priority.
LEMMA BaseReleased == "base" \notin Released \cup {"current"}
BY DEF Released, Served, Woken, Inherited

\* mutex_signal, and the interrupt that signals its lock.
LEMMA SignalShape ==
    ASSUME NEW s, Shaped(s), NEW m, NEW msg
    PROVE  /\ Changes(s, ScheduleIfNeeded(MutexActivate(s, m, msg)), Released \cup {"current"})
           /\ ~ScheduleIfNeeded(MutexActivate(s, m, msg)).need
<1> DEFINE q == MutexActivate(s, m, msg)
<1>1. Changes(s, q, Woken) BY MutexActivateShape
<1> HIDE DEF q
<1>2. QED BY <1>1, ScheduleIfNeededShape DEF q, Changes, Released, Served, Woken

\* mutex_wait that suspends the caller.
LEMMA SuspendKeeps ==
    ASSUME ShapeInv, NEW t, NEW m, NEW s, NEW F, Changes(k, s, F), "base" \notin F,
           SuspendOnMutex(t, m, s)
    PROVE  Keeps
<1> DEFINE q == Unmasked(s, m)
           p == [q EXCEPT !.wait[t] = m]
           r == ListAppend(p, Waiters(m), t)
           u == SlavesActivated(DisownMutex(r, m), m)
           v == [u EXCEPT !.mprio[m] = 0]
<1>1. Shaped(q) /\ q.base = s.base BY DEF Unmasked, Shaped, Fields, Changes
<1> HIDE DEF q
<1>2. Shaped(p) /\ p.base = q.base BY <1>1 DEF Shaped, Fields
<1> HIDE DEF p
<1>3. Shaped(r) /\ r.base = q.base BY <1>2, AppendShape DEF Changes, Fields
<1>4. s.base = k.base BY DEF Changes, Fields
<1> HIDE DEF r
<1>5. Shaped(DisownMutex(r, m)) /\ DisownMutex(r, m).base = r.base
  BY <1>3, DisownShape DEF Changes, Fields, Inherited
<1>6. Shaped(u) /\ u.base = r.base BY <1>5, SlavesShape DEF Changes, Fields
<1> HIDE DEF u
<1>7. Shaped(v) /\ v.base = r.base BY <1>6 DEF Shaped, Fields
<1> HIDE DEF v
<1>8. \/ k' = TaskSchedule(r) /\ frame' = frame
      \/ k' = TaskSchedule(v) /\ frame' = [frame EXCEPT ![t] = Waiting(m, k.deep[m])]
  BY DEF SuspendOnMutex, q, p, r, u, v
<1>9. Shaped(k') /\ k'.base = k.base /\ ~k'.need
  BY <1>1, <1>3, <1>4, <1>7, <1>8, ScheduleShape DEF Changes, Fields
<1>10. frame' = [x \in AllTasks |-> frame'[x]] BY <1>8, FrameShape DEF ShapeInv
<1>11. QED BY <1>9, <1>10 DEF Keeps, Defers, ShapeInv

\* mutex_wait.
LEMMA WaitKeeps ==
    ASSUME ShapeInv, NEW t, NEW m, WaitOn(t, m)
    PROVE  Keeps
<1>1. CASE SuspendOnMutex(t, m, k)
  <2>1. Changes(k, k, {}) BY DEF ShapeInv, Changes
  <2>2. QED BY <1>1, <2>1, SuspendKeeps
<1>2. ASSUME NEW outcome, SuspendOnMutex(t, m, HandlerCalled(k, k.irq[m], outcome))
      PROVE  Keeps
  BY <1>2, HandlerShape, SuspendKeeps DEF ShapeInv
<1>3. ASSUME NEW outcome, k' = ScheduleIfNeeded(PendingServed(k, m, outcome)), frame' = frame
      PROVE  Keeps
  <2>1. Changes(k, PendingServed(k, m, outcome), Served) BY PendingShape DEF ShapeInv
  <2>2. Changes(k, k', Served \cup {"current", "need"}) /\ ~k'.need
    BY <1>3, <2>1, ScheduleIfNeededShape DEF Changes
  <2>3. QED BY <1>3, <2>2, SettledKeeps DEF ShapeInv, Served, Woken
<1>4. QED BY <1>1, <1>2, <1>3 DEF WaitOn

-----------------------------------------------------------------------------
\* The calls on mutexes.
LEMMA MutexCallKeeps ==
    ASSUME ShapeInv, NEW t \in Tasks, MutexCall(t)
    PROVE  Keeps
<1>1. PICK m \in Locks :
        \/ MutexLock(t, m) \/ MutexTrylock(t, m) \/ MutexUnlock(t, m) \/ MutexWait(t, m)
        \/ \E msg \in Messages : MutexSignal(t, m, msg)
  BY DEF MutexCall
<1>2. Changes(k, LockMutex(k, m), Locked) BY LockShape DEF ShapeInv, Locked
<1>3. "base" \notin Locked /\ "need" \notin Locked BY DEF Locked
<1>4. CASE MutexLock(t, m) BY <1>2, <1>3, <1>4, LockLoopKeeps DEF MutexLock
<1>5. CASE MutexTrylock(t, m)
  BY <1>2, <1>3, <1>5, UnrelatedKeeps DEF MutexTrylock, ShapeInv
<1>6. CASE MutexUnlock(t, m)
  BY <1>6, UnlockedShape, BaseReleased, SettledKeeps DEF MutexUnlock, ShapeInv
<1>7. CASE MutexWait(t, m) BY <1>7, WaitKeeps DEF MutexWait
<1>8. ASSUME NEW msg \in Messages, MutexSignal(t, m, msg) PROVE Keeps
  <2>1. CASE k' = k BY <1>8, <2>1, UnrelatedKeeps DEF MutexSignal, ShapeInv, Changes
  <2>2. CASE k' = ScheduleIfNeeded(MutexActivate(k, m, msg))
    BY <1>8, <2>2, SignalShape, BaseReleased, SettledKeeps DEF MutexSignal, ShapeInv
  <2>3. QED BY <1>8, <2>1, <2>2 DEF MutexSignal
<1>9. QED BY <1>1, <1>4, <1>5, <1>6, <1>7, <1>8

\* The calls on groups.
LEMMA GroupCallKeeps ==
    ASSUME ShapeInv, NEW g,
           \/ GroupListen(g) \/ GroupUnlisten(g)
           \/ \E t \in Tasks : GroupLoop(t, g)
    PROVE  Keeps
<1>1. CASE GroupListen(g) \/ GroupUnlisten(g)
  <2>1. Changes(k, k', {"groups", "gmessage"})
    BY <1>1 DEF GroupListen, GroupUnlisten, Shaped, ShapeInv, Fields, Changes
  <2>2. QED BY <1>1, <2>1, UnrelatedKeeps DEF GroupListen, GroupUnlisten, ShapeInv
<1>2. ASSUME NEW t \in Tasks, GroupLoop(t, g) PROVE Keeps
  <2>1. frame' = [u \in AllTasks |-> frame'[u]] BY <1>2, FrameShape DEF GroupLoop
  <2>2. CASE k' = [k EXCEPT !.signalled[g] = @ \ {LastSignalled(g)}]
    <3>1. Changes(k, k', {"signalled"}) BY <2>2 DEF Shaped, ShapeInv, Fields, Changes
    <3>2. QED BY <2>1, <3>1, UnrelatedKeeps
  <2>3. CASE k' = TaskSchedule([ListUnlink(k, t) EXCEPT !.waiter[g] = t])
    <3> DEFINE q == ListUnlink(k, t)
               r == [q EXCEPT !.waiter[g] = t]
    <3>1. Changes(k, q, {"list"}) BY UnlinkShape DEF ShapeInv
    <3> HIDE DEF q
    <3>2. Changes(k, r, {"list", "waiter"}) BY <3>1 DEF Shaped, Fields, Changes
    <3>3. k' = TaskSchedule(r) BY <2>3 DEF r, q
    <3> HIDE DEF r
    <3>4. Changes(k, k', {"list", "waiter", "current", "need"}) /\ ~k'.need
      BY <3>2, <3>3, ScheduleShape DEF Changes
    <3>5. QED BY <2>1, <3>4, SettledKeeps
  <2>4. QED BY <1>2, <2>2, <2>3 DEF GroupLoop
<1>3. QED BY <1>1, <1>2

\* A task that begins a deletion with a reschedule due is not in its own code.
LEMMA TaskDeleteKeeps ==
    ASSUME ShapeInv, NEW t \in Tasks, NEW d \in Tasks, NEW msg, TaskDelete(t, d, msg)
    PROVE  Keeps
<1> DEFINE m  == k.lock[d]
           q  == ListUnlink(k, d)
           k1 == [q EXCEPT !.need = @ \/ d = t]
           k2 == IF m # None /\ k1.mprio[m] <= k1.prio[d]
                 THEN MutexRecalculatePrio(k1, m) ELSE k1
           F  == Inherited \cup {"list", "lock", "wait"}
<1>1. k' = [k2 EXCEPT !.lock[d] = None, !.wait[d] = None] BY DEF TaskDelete
<1>2. Changes(k, q, {"list"}) BY UnlinkShape DEF ShapeInv
<1> HIDE DEF q
<1>3. Changes(k, k1, {"list", "need"}) BY <1>2 DEF Shaped, Fields, Changes
<1> HIDE DEF k1
<1>4. Changes(k, k2, Inherited \cup {"list"})
  BY <1>3, MutexRecalculateShape DEF Changes, Inherited
<1> HIDE DEF k2
<1>5. Changes(k, k', F) BY <1>1, <1>4 DEF Shaped, Fields, Changes, Inherited
<1>6. k'.current = t BY <1>5 DEF Changes, Fields, Inherited, TaskDelete, Calls, Running
<1>7. t \in AllTasks BY DEF AllTasks
<1>8. /\ frame' = [u \in AllTasks |-> frame'[u]]
      /\ frame'[t] = Deleting(d, msg)
  BY <1>7 DEF TaskDelete, ShapeInv
<1>9. Deleting(d, msg) # User BY DEF Deleting, User
<1>10. ShapeInv' BY <1>5, <1>8 DEF ShapeInv, Changes, Fields, Inherited
<1>11. QED BY <1>6, <1>8, <1>9, <1>10 DEF Keeps, Defers

\* The end of task_delete.
LEMMA DeleteFinishKeeps ==
    ASSUME ShapeInv, NEW t \in Tasks, DeleteFinish(t)
    PROVE  Keeps
<1> DEFINE d  == frame[t].task
           f  == finish[d]
           k1 == [k EXCEPT !.base[d] = 0]
           q  == MutexActivate(k1, f, frame[t].message)
<1>1. Shaped(k1) /\ k1.base = [k.base EXCEPT ![d] = 0] BY DEF ShapeInv, Shaped, Fields
<1> HIDE DEF k1
<1>2. Changes(k1, q, Woken) BY <1>1, MutexActivateShape
<1> HIDE DEF q
<1>3. k' = ScheduleIfNeeded(k1) \/ k' = ScheduleIfNeeded(q) BY DEF DeleteFinish, k1, q
<1>4. Shaped(k') /\ k'.base = [k.base EXCEPT ![d] = 0] /\ ~k'.need
  BY <1>1, <1>2, <1>3, ScheduleIfNeededShape DEF Changes, Fields, Woken
<1>5. frame' = [u \in AllTasks |-> frame'[u]] BY FrameShape DEF DeleteFinish
<1>6. k'.base = [u \in AllTasks |-> k'.base[u]] BY <1>4 DEF ShapeInv
<1>7. QED BY <1>4, <1>5, <1>6 DEF Keeps, Defers, ShapeInv

\* The resumptions.
LEMMA ResumeKeeps ==
    ASSUME ShapeInv, NEW t \in Tasks, Resume(t)
    PROVE  Keeps
<1>1. CASE ResumeLock(t)
  <2> DEFINE m == frame[t].mutex
  <2>1. Changes(k, LockMutex(k, m), Locked) BY LockShape DEF ShapeInv, Locked
  <2>2. QED BY <1>1, <2>1, LockLoopKeeps DEF ResumeLock, Locked
<1>2. CASE ResumeLockIrq(t)
  <2> DEFINE i == frame[t].irq
             m == IrqMutex[i]
             done == Attached(LockMutex(k, m), m, i, frame[t].fast)
  <2>1. Changes(k, done, AttachedFields) BY AttachedLockShape DEF ShapeInv
  <2>2. LockLoop(t, m, frame[t], done) BY <1>2 DEF ResumeLockIrq
  <2> HIDE DEF done
  <2>3. QED BY <2>1, <2>2, LockLoopKeeps DEF AttachedFields, Locked
<1>3. CASE ResumeWait(t)
  <2> DEFINE m == frame[t].mutex
             q == AcquireMutex(k, m)
             r == [q EXCEPT !.deep[m] = frame[t].deep]
  <2>1. CASE k' = BlockOnMutex(k, m) /\ frame' = frame
    BY <2>1, BlockShape, SettledKeeps DEF ShapeInv
  <2>2. CASE k' = r /\ frame' = [frame EXCEPT ![t] = User]
    <3>1. Changes(k, q, Locked) BY AcquireShape DEF ShapeInv, Changes, Locked
    <3> HIDE DEF q
    <3>2. Changes(k, r, Locked) BY <3>1 DEF Shaped, Fields, Changes, Locked
    <3> HIDE DEF r
    <3>3. QED BY <2>2, <3>2, UnrelatedKeeps, FrameShape DEF Locked
  <2>3. QED BY <1>3, <2>1, <2>2 DEF ResumeWait
<1>4. CASE ResumeGroupWait(t)
  <2>1. PICK g : g = frame[t].group /\ GroupLoop(t, g) BY <1>4 DEF ResumeGroupWait
  <2>2. QED BY <2>1, GroupCallKeeps
<1>5. CASE DeleteUnlock(t)
  <2> DEFINE m == Head(k.owned[frame[t].task])
  <2>1. UNCHANGED frame BY <1>5 DEF DeleteUnlock
  <2>2. PICK outcome \in Outcomes : k' = Unlocked(m, outcome) BY <1>5 DEF DeleteUnlock
  <2> HIDE DEF m
  <2>3. Changes(k, k', Released \cup {"current"}) /\ (k.need \/ ~k'.need)
    BY <2>2, UnlockedShape
  <2>4. frame' = [u \in AllTasks |-> frame'[u]] BY <2>1 DEF ShapeInv
  <2>5. QED BY <2>3, <2>4, BaseReleased, SettledKeeps
<1>6. CASE DeleteFinish(t) BY <1>6, DeleteFinishKeeps
<1>7. QED BY <1>1, <1>2, <1>3, <1>4, <1>5, <1>6 DEF Resume

\* The calls on tasks.
LEMMA TaskCallKeeps ==
    ASSUME ShapeInv, NEW t \in Tasks, TaskCall(t)
    PROVE  Keeps
BY TaskYieldKeeps, TaskSetPriorityKeeps, TaskDeleteKeeps DEF TaskCall

\* The steps of task_wait.
LEMMA JoinCallKeeps ==
    ASSUME ShapeInv, NEW t \in Tasks, JoinCall(t)
    PROVE  Keeps
<1>1. ASSUME NEW d \in Tasks, TaskWait(t, d) PROVE Keeps
  <2> DEFINE f == finish[d]
  <2>1. Changes(k, LockMutex(k, f), Locked) BY LockShape DEF ShapeInv, Locked
  <2>2. QED BY <1>1, <2>1, LockLoopKeeps DEF TaskWait, Locked
<1>2. CASE TaskWaitTest(t)
  <2>1. Changes(k, k', {}) BY <1>2 DEF ShapeInv, Changes, TaskWaitTest
  <2>2. QED BY <1>2, <2>1, UnrelatedKeeps DEF TaskWaitTest, ShapeInv
<1>3. CASE TaskWaitSleep(t) BY <1>3, WaitKeeps DEF TaskWaitSleep
<1>4. CASE TaskWaitReturn(t)
  BY <1>4, UnlockedShape, BaseReleased, SettledKeeps DEF TaskWaitReturn, ShapeInv
<1>5. QED BY <1>1, <1>2, <1>3, <1>4 DEF JoinCall

\* The calls on interrupts.
LEMMA IrqCallKeeps ==
    ASSUME ShapeInv, NEW t \in Tasks, IrqCall(t)
    PROVE  Keeps
<1>1. ASSUME NEW i \in Irqs, NEW f \in BOOLEAN, MutexLockIrq(t, i, f) PROVE Keeps
  <2> DEFINE m == IrqMutex[i]
             done == Attached(LockMutex(k, m), m, i, f)
  <2>1. Changes(k, done, AttachedFields) BY AttachedLockShape DEF ShapeInv
  <2>2. LockLoop(t, m, LockingIrq(i, f), done) BY <1>1 DEF MutexLockIrq
  <2> HIDE DEF done
  <2>3. QED BY <2>1, <2>2, LockLoopKeeps DEF AttachedFields, Locked
<1>2. ASSUME NEW m \in Locks, MutexUnlockIrq(t, m) PROVE Keeps
  <2>1. frame' = frame BY <1>2 DEF MutexUnlockIrq
  <2>2. CASE k' = [k EXCEPT !.deep[m] = @ - 1]
    <3>1. Changes(k, k', {"deep"}) BY <2>2 DEF Shaped, ShapeInv, Fields, Changes
    <3>2. QED BY <2>1, <3>1, UnrelatedKeeps DEF ShapeInv
  <2>3. ASSUME NEW outcome \in Outcomes,
               k' = ScheduleIfNeeded(SlavesReleased(
                        Detached(PendingServed(DisownMutex(k, m), m, outcome), m), m))
        PROVE  Keeps
    <3> DEFINE q == DisownMutex(k, m)
               r == PendingServed(q, m, outcome)
               u == Detached(r, m)
               v == SlavesReleased(u, m)
               F == Released \cup {"ilock", "irq"}
    <3>1. Changes(k, q, Inherited \cup {"deep", "owned", "master"})
      BY DisownShape DEF ShapeInv
    <3> HIDE DEF q
    <3>2. Changes(q, r, Served) BY <3>1, PendingShape DEF Changes
    <3> HIDE DEF r
    <3>3. Changes(r, u, {"ilock", "irq"})
      BY <3>2 DEF Shaped, Fields, Changes, Detached
    <3> HIDE DEF u
    <3>4. Changes(u, v, {"list", "need", "lock", "mprio"})
      BY <3>3, SlavesReleasedShape DEF Changes
    <3>5. k' = ScheduleIfNeeded(v) BY <2>3 DEF q, r, u
    <3> HIDE DEF v
    <3>6. Changes(v, k', {"current", "need"}) /\ ~k'.need
      BY <3>4, <3>5, ScheduleIfNeededShape DEF Changes
    <3>7. Changes(k, k', F \cup {"current"})
      BY <3>1, <3>2, <3>3, <3>4, <3>6 DEF Changes, Released, Served, Woken, Inherited
    <3>8. QED BY <2>1, <3>6, <3>7, BaseReleased, SettledKeeps DEF ShapeInv
  <2>4. QED BY <1>2, <2>2, <2>3 DEF MutexUnlockIrq
<1>3. QED BY <1>1, <1>2 DEF IrqCall

\* mutex_attach_irq.
LEMMA AttachIrqKeeps ==
    ASSUME ShapeInv, NEW i, NEW f, MutexAttachIrq(i, f)
    PROVE  Keeps
<1> DEFINE q == Attached(k, IrqMutex[i], i, f)
<1>1. Changes(k, q, {"irq", "ilock", "fast", "pending"}) BY AttachedShape DEF ShapeInv
<1>2. k' = [q EXCEPT !.allowed[i] = TRUE] /\ frame' = frame BY DEF MutexAttachIrq
<1> HIDE DEF q
<1>3. Changes(k, k', {"irq", "ilock", "fast", "pending", "allowed"})
  BY <1>1, <1>2 DEF Shaped, Fields, Changes
<1>4. QED BY <1>2, <1>3, UnrelatedKeeps DEF ShapeInv

\* The interrupt.
LEMMA InterruptKeeps ==
    ASSUME ShapeInv, NEW i, Interrupt(i)
    PROVE  Keeps
<1> DEFINE m == k.ilock[i]
           masked == [k EXCEPT !.allowed[i] = FALSE]
           handled(outcome) == [masked EXCEPT !.allowed[i] = outcome.allow]
<1>1. Changes(k, masked, {"allowed"}) BY DEF Shaped, ShapeInv, Fields, Changes
<1>2. \A outcome : Changes(k, handled(outcome), {"allowed"})
  BY DEF Shaped, ShapeInv, Fields, Changes
<1>3. frame' = frame BY DEF Interrupt
<1>4. CASE k' = [masked EXCEPT !.pending[i] = TRUE]
  <2>1. Changes(k, k', {"allowed", "pending"}) BY <1>4 DEF Shaped, ShapeInv, Fields, Changes
  <2>2. QED BY <1>3, <2>1, UnrelatedKeeps DEF ShapeInv
<1>5. ASSUME NEW outcome, k' = handled(outcome) PROVE Keeps
  BY <1>2, <1>3, <1>5, UnrelatedKeeps DEF ShapeInv
<1>6. ASSUME NEW s, Changes(k, s, {"allowed"}), k' = ScheduleIfNeeded(MutexActivate(s, m, None))
      PROVE  Keeps
  <2>1. Changes(s, k', Released \cup {"current"}) /\ ~k'.need BY <1>6, SignalShape DEF Changes
  <2>2. Changes(k, k', Released \cup {"current"})
    BY <1>6, <2>1 DEF Changes, Released, Served, Fields
  <2>3. QED BY <1>3, <2>1, <2>2, BaseReleased, SettledKeeps DEF ShapeInv
<1>7. \/ k' = [masked EXCEPT !.pending[i] = TRUE]
      \/ \E outcome \in Outcomes :
            \/ k' = handled(outcome)
            \/ k' = ScheduleIfNeeded(MutexActivate(handled(outcome), m, None))
      \/ k' = ScheduleIfNeeded(MutexActivate(masked, m, None))
  BY DEF Interrupt
<1> HIDE DEF masked, handled
<1>8. QED BY <1>1, <1>2, <1>4, <1>5, <1>6, <1>7

-----------------------------------------------------------------------------
\* Every step keeps the shape, and only task_create defers a switch.
LEMMA NextKeeps ==
    ASSUME ShapeInv, [Next]_vars
    PROVE  Keeps
<1>1. CASE UNCHANGED vars
  BY <1>1 DEF vars, Keeps, Defers, ShapeInv, Shaped
<1>2. CASE Next
  <2>1. CASE StartTasks BY <2>1, StartTasksKeeps
  <2>2. ASSUME NEW t \in Tasks, TaskCreate(t) PROVE Keeps BY <2>2, TaskCreateKeeps
  <2>3. ASSUME NEW t \in Tasks,
               \/ Resume(t) \/ TaskCall(t) \/ MutexCall(t) \/ JoinCall(t) \/ IrqCall(t)
        PROVE  Keeps
    BY <2>3, ResumeKeeps, TaskCallKeeps, MutexCallKeeps, JoinCallKeeps, IrqCallKeeps
  <2>4. ASSUME NEW t \in Tasks, NEW g \in Groups, GroupWait(t, g) PROVE Keeps
    BY <2>4, GroupCallKeeps DEF GroupWait
  <2>5. ASSUME NEW g \in Groups, GroupListen(g) \/ GroupUnlisten(g) PROVE Keeps
    BY <2>5, GroupCallKeeps
  <2>6. ASSUME NEW i \in Irqs,
               Interrupt(i) \/ \E f \in BOOLEAN : MutexAttachIrq(i, f)
        PROVE  Keeps
    BY <2>6, InterruptKeeps, AttachIrqKeeps
  <2>7. QED BY <1>2, <2>1, <2>2, <2>3, <2>4, <2>5, <2>6 DEF Next
<1>3. QED BY <1>1, <1>2

\* The state that main() builds.
LEMMA InitShape == Init => ShapeInv
<1> SUFFICES ASSUME Init PROVE ShapeInv OBVIOUS
<1>1. Shaped(KernelInit) BY DEF KernelInit, Shaped, Fields
<1>2. KernelInit.base = [t \in AllTasks |-> 0] BY DEF KernelInit
<1>3. k = KernelInit /\ frame = [t \in AllTasks |-> IF t = Idle THEN Boot ELSE User]
  BY DEF Init
<1> HIDE DEF KernelInit
<1>4. QED BY <1>1, <1>2, <1>3 DEF ShapeInv

\* The kernel's data keeps its shape: no call loses a field, no task its base
\* priority or its frame.
THEOREM Shape == Spec => []ShapeInv
<1>1. ShapeInv /\ [Next]_vars => ShapeInv' BY NextKeeps DEF Keeps
<1>2. QED BY InitShape, <1>1, PTL DEF Spec

\* Whatever the tasks, locks, groups and interrupts, a call or interrupt that
\* makes a reschedule due performs it before it returns; only task_create
\* leaves it to the next call (tcreate.c:46-48).
THEOREM SwitchesAreNotDeferred == Spec => OnlyCreateDefersSwitch
<1>1. ShapeInv /\ [Next]_vars =>
        [~k.need /\ k'.need /\ frame'[k'.current] = User =>
           \E t \in Tasks : k.base[t] = 0 /\ k'.base[t] # 0]_vars
  BY NextKeeps DEF Keeps, Defers
<1>2. QED BY <1>1, Shape, PTL DEF Spec, OnlyCreateDefersSwitch

-----------------------------------------------------------------------------
(***************************************************************************)
(* Sequences without repetition.                                           *)
(***************************************************************************)
Line(s, S) == s \in Seq(S) /\ IsInjective(s)

\* Names for two operators, so that a proof need not look into them.
Joined(s, w) == s \o w
Appended(s, x) == Append(s, x)

\* The elements of a sequence, by their places.
LEMMA RangeOfLine ==
    ASSUME NEW S, NEW s \in Seq(S)
    PROVE  Range(s) = {s[i] : i \in 1 .. Len(s)} /\ Range(s) \subseteq S
BY RangeEquality, RangeOfSeq

\* An element is in the range.
LEMMA LineElement ==
    ASSUME NEW S, NEW s \in Seq(S), NEW i \in 1 .. Len(s)
    PROVE  s[i] \in Range(s) /\ s[i] \in S
BY RangeOfLine

\* The empty list.
LEMMA EmptyLine ==
    ASSUME NEW S
    PROVE  Line(<<>>, S) /\ Range(<<>>) = {}
BY DEF Line, IsInjective, Range

\* A list without elements is empty.
LEMMA NoElement ==
    ASSUME NEW S, NEW s \in Seq(S), Range(s) = {}
    PROVE  s = <<>>
<1>1. s # <<>> => 1 \in 1 .. Len(s) BY EmptySeq
<1>2. QED BY <1>1, LineElement

\* list_append of a task that is not on the list (list.h:52-61).
LEMMA AppendLine ==
    ASSUME NEW S, NEW s, Line(s, S), NEW x \in S, x \notin Range(s)
    PROVE  Line(Appended(s, x), S) /\ Range(Appended(s, x)) = Range(s) \cup {x}
<1>1. s \in Seq(S) BY DEF Line
<1> DEFINE r == Appended(s, x)
<1>2. /\ r \in Seq(S) /\ Len(r) = Len(s) + 1
      /\ \A i \in 1 .. Len(s) : r[i] = s[i]
      /\ r[Len(s) + 1] = x
  BY <1>1, AppendProperties DEF Appended
<1>3. Range(r) = {r[i] : i \in 1 .. Len(r)} /\ Range(s) = {s[i] : i \in 1 .. Len(s)}
  BY <1>1, <1>2, RangeOfLine
<1>4. Len(s) \in Nat /\ DOMAIN s = 1 .. Len(s) /\ DOMAIN r = 1 .. Len(r)
  BY <1>1, <1>2, LenProperties
<1> HIDE DEF r
<1>5. \A i, j \in 1 .. Len(s) : s[i] = s[j] => i = j BY <1>4 DEF Line, IsInjective
<1>6. \A i, j \in 1 .. Len(r) : r[i] = r[j] => i = j
  <2> SUFFICES ASSUME NEW i \in 1 .. Len(r), NEW j \in 1 .. Len(r), r[i] = r[j]
               PROVE  i = j
    OBVIOUS
  <2>1. CASE i \in 1 .. Len(s) /\ j \in 1 .. Len(s) BY <2>1, <1>2, <1>5
  <2>2. CASE i = Len(s) + 1 /\ j \in 1 .. Len(s) BY <2>2, <1>2, <1>3
  <2>3. CASE j = Len(s) + 1 /\ i \in 1 .. Len(s) BY <2>3, <1>2, <1>3
  <2>4. QED BY <2>1, <2>2, <2>3, <1>2, <1>4
<1>7. Range(r) = Range(s) \cup {x}
  <2>1. \A i \in 1 .. Len(r) : r[i] \in Range(s) \cup {x} BY <1>2, <1>3, <1>4
  <2>2. \A i \in 1 .. Len(s) : s[i] \in Range(r) BY <1>2, <1>3, <1>4
  <2>3. x \in Range(r) BY <1>2, <1>3, <1>4
  <2>4. QED BY <2>1, <2>2, <2>3, <1>3
<1>8. QED BY <1>2, <1>4, <1>6, <1>7 DEF Line, IsInjective, r

\* Tasks that are activated one after the other (internal.h:117-126).
LEMMA ConcatLine ==
    ASSUME NEW S, NEW s, NEW w, Line(s, S), Line(w, S), Range(s) \cap Range(w) = {}
    PROVE  Line(Joined(s, w), S) /\ Range(Joined(s, w)) = Range(s) \cup Range(w)
<1>1. s \in Seq(S) /\ w \in Seq(S) BY DEF Line
<1> DEFINE r == Joined(s, w)
<1>2. /\ r \in Seq(S) /\ Len(r) = Len(s) + Len(w)
      /\ \A i \in 1 .. Len(s) + Len(w) : r[i] = IF i <= Len(s) THEN s[i] ELSE w[i - Len(s)]
  BY <1>1, ConcatProperties DEF Joined
<1>3. Range(r) = Range(s) \cup Range(w) BY <1>1, RangeConcatenation DEF Joined
<1>4. /\ Len(s) \in Nat /\ DOMAIN s = 1 .. Len(s)
      /\ Len(w) \in Nat /\ DOMAIN w = 1 .. Len(w) /\ DOMAIN r = 1 .. Len(r)
  BY <1>1, <1>2, LenProperties
<1> HIDE DEF r
<1>5. /\ \A i, j \in 1 .. Len(s) : s[i] = s[j] => i = j
      /\ \A i, j \in 1 .. Len(w) : w[i] = w[j] => i = j
  BY <1>4 DEF Line, IsInjective
<1>6. \A i \in 1 .. Len(s), j \in 1 .. Len(w) : s[i] # w[j]
  BY <1>1, LineElement
<1>7. \A i, j \in 1 .. Len(r) : r[i] = r[j] => i = j
  <2> SUFFICES ASSUME NEW i \in 1 .. Len(r), NEW j \in 1 .. Len(r), r[i] = r[j]
               PROVE  i = j
    OBVIOUS
  <2>1. CASE i <= Len(s) /\ j <= Len(s) BY <2>1, <1>2, <1>4, <1>5
  <2>2. CASE i <= Len(s) /\ j > Len(s)
    <3>1. i \in 1 .. Len(s) /\ j - Len(s) \in 1 .. Len(w) BY <2>2, <1>2, <1>4
    <3>2. s[i] = w[j - Len(s)] BY <2>2, <1>2, <1>4
    <3>3. QED BY <3>1, <3>2, <1>6
  <2>3. CASE i > Len(s) /\ j <= Len(s)
    <3>1. j \in 1 .. Len(s) /\ i - Len(s) \in 1 .. Len(w) BY <2>3, <1>2, <1>4
    <3>2. s[j] = w[i - Len(s)] BY <2>3, <1>2, <1>4
    <3>3. QED BY <3>1, <3>2, <1>6
  <2>4. CASE i > Len(s) /\ j > Len(s)
    <3>1. i - Len(s) \in 1 .. Len(w) /\ j - Len(s) \in 1 .. Len(w) BY <2>4, <1>2, <1>4
    <3>2. w[i - Len(s)] = w[j - Len(s)] BY <2>4, <1>2, <1>4
    <3>3. QED BY <3>1, <3>2, <1>2, <1>4, <1>5
  <2>5. QED BY <2>1, <2>2, <2>3, <2>4, <1>2, <1>4
<1>8. QED BY <1>2, <1>3, <1>4, <1>7 DEF Line, IsInjective, r

\* Whatever is unlinked, what remains has no repetition and lost x alone.
LEMMA UnlinkedLine ==
    ASSUME NEW S, NEW s, Line(s, S), NEW x
    PROVE  Line(Unlinked(s, x), S) /\ Range(Unlinked(s, x)) = Range(s) \ {x}
<1>1. s \in Seq(S) BY DEF Line
<1>2. CASE x \notin Range(s) BY <1>2 DEF Unlinked
<1>3. CASE x \in Range(s)
  <2> DEFINE n == CHOOSE i \in DOMAIN s : s[i] = x
             a == SubSeq(s, 1, n - 1)
             b == SubSeq(s, n + 1, Len(s))
  <2>1. Len(s) \in Nat /\ DOMAIN s = 1 .. Len(s) BY <1>1, LenProperties
  <2>2. Range(s) = {s[i] : i \in 1 .. Len(s)} BY <1>1, RangeOfLine
  <2>3. n \in 1 .. Len(s) /\ s[n] = x BY <1>3, <2>1, <2>2
  <2>4. Unlinked(s, x) = Joined(a, b) BY <1>3 DEF Unlinked, RemoveAt, Joined
  <2> HIDE DEF n
  <2>5. \A i \in 1 .. Len(s) : s[i] \in S BY <1>1, LineElement
  <2>6. /\ a \in Seq(S) /\ Len(a) = n - 1 /\ \A i \in 1 .. n - 1 : a[i] = s[i]
    <3>1. \A i \in 1 .. n - 1 : s[i] \in S BY <2>1, <2>3, <2>5
    <3>2. a \in Seq(S) /\ Len(a) = IF 1 <= n - 1 THEN (n - 1) - 1 + 1 ELSE 0
      BY <3>1, <2>1, <2>3, SubSeqProperties
    <3>3. \A i \in 1 .. (n - 1) - 1 + 1 : a[i] = s[1 + i - 1]
      BY <3>1, <2>1, <2>3, SubSeqProperties
    <3> HIDE DEF a
    <3>4. QED BY <3>2, <3>3, <2>1, <2>3
  <2>7. /\ b \in Seq(S) /\ Len(b) = Len(s) - n
        /\ \A i \in 1 .. Len(s) - n : b[i] = s[n + i]
    <3>1. \A i \in n + 1 .. Len(s) : s[i] \in S BY <2>1, <2>3, <2>5
    <3>2. b \in Seq(S) /\ Len(b) = IF n + 1 <= Len(s) THEN Len(s) - (n + 1) + 1 ELSE 0
      BY <3>1, <2>1, <2>3, SubSeqProperties
    <3>3. \A i \in 1 .. Len(s) - (n + 1) + 1 : b[i] = s[(n + 1) + i - 1]
      BY <3>1, <2>1, <2>3, SubSeqProperties
    <3> HIDE DEF b
    <3>4. ASSUME NEW i \in 1 .. Len(s) - n PROVE b[i] = s[n + i]
      <4>1. i \in 1 .. Len(s) - (n + 1) + 1 /\ (n + 1) + i - 1 = n + i BY <2>1, <2>3
      <4>2. QED BY <4>1, <3>3
    <3>5. Len(s) \in Nat BY <2>1
    <3>6. Len(b) = Len(s) - n BY <3>2, <3>5, <2>3
    <3>7. QED BY <3>2, <3>4, <3>6
  <2>8. DOMAIN a = 1 .. n - 1 /\ DOMAIN b = 1 .. Len(s) - n
    <3>1. DOMAIN a = 1 .. Len(a) /\ DOMAIN b = 1 .. Len(b) BY <2>6, <2>7, LenProperties
    <3> HIDE DEF a, b
    <3>2. QED BY <3>1, <2>6, <2>7
  <2> HIDE DEF a, b
  <2>9. \A i, j \in 1 .. Len(s) : s[i] = s[j] => i = j BY <2>1 DEF Line, IsInjective
  <2>10. Line(a, S)
    <3>1. \A i \in 1 .. n - 1 : i \in 1 .. Len(s) BY <2>1, <2>3
    <3>2. QED BY <3>1, <2>6, <2>8, <2>9 DEF Line, IsInjective
  <2>11. Line(b, S)
    <3>1. \A i \in 1 .. Len(s) - n : n + i \in 1 .. Len(s) BY <2>1, <2>3
    <3>2. ASSUME NEW i \in 1 .. Len(s) - n, NEW j \in 1 .. Len(s) - n, b[i] = b[j]
          PROVE  i = j
      <4>1. s[n + i] = s[n + j] BY <3>2, <2>7
      <4>2. n + i = n + j BY <4>1, <3>1, <2>9
      <4>3. QED BY <4>2, <2>1, <2>3
    <3>3. QED BY <3>2, <2>7, <2>8 DEF Line, IsInjective
  <2>12. /\ Range(a) = {s[i] : i \in 1 .. n - 1}
         /\ Range(b) = {s[i] : i \in n + 1 .. Len(s)}
    <3>1. Range(a) = {a[i] : i \in 1 .. n - 1} /\ Range(b) = {b[i] : i \in 1 .. Len(s) - n}
      BY <2>6, <2>7, RangeOfLine
    <3>2. Range(a) = {s[i] : i \in 1 .. n - 1} BY <3>1, <2>6
    <3>3. ASSUME NEW i \in n + 1 .. Len(s)
          PROVE  i - n \in 1 .. Len(s) - n /\ s[i] = b[i - n]
      <4>1. i - n \in 1 .. Len(s) - n /\ n + (i - n) = i BY <2>1, <2>3
      <4>2. QED BY <4>1, <2>7
    <3>4. \A i \in 1 .. Len(s) - n : n + i \in n + 1 .. Len(s) BY <2>1, <2>3
    <3>5. \A i \in 1 .. Len(s) - n : b[i] \in {s[j] : j \in n + 1 .. Len(s)}
      BY <3>4, <2>7
    <3>6. \A i \in n + 1 .. Len(s) : s[i] \in {b[j] : j \in 1 .. Len(s) - n}
      BY <3>3
    <3>7. Range(b) = {s[i] : i \in n + 1 .. Len(s)} BY <3>1, <3>5, <3>6
    <3>8. QED BY <3>2, <3>7
  <2>13. Range(a) \cap Range(b) = {}
    <3>1. \A i \in 1 .. n - 1, j \in n + 1 .. Len(s) : s[i] # s[j]
      BY <2>1, <2>3, <2>9
    <3>2. QED BY <3>1, <2>12
  <2>14. Range(a) \cup Range(b) = Range(s) \ {x}
    <3>1. \A i \in 1 .. Len(s) : s[i] # x <=> i \in 1 .. n - 1 \/ i \in n + 1 .. Len(s)
      BY <2>1, <2>3, <2>9
    <3>2. \A i \in 1 .. n - 1 : i \in 1 .. Len(s) BY <2>1, <2>3
    <3>3. \A i \in n + 1 .. Len(s) : i \in 1 .. Len(s) BY <2>1, <2>3
    <3>4. QED BY <3>1, <3>2, <3>3, <2>2, <2>12
  <2>15. QED BY <2>4, <2>10, <2>11, <2>13, <2>14, ConcatLine
<1>4. QED BY <1>2, <1>3

-----------------------------------------------------------------------------
(***************************************************************************)
(* The lists of the kernel: s.list[h] for each head h.                     *)
(***************************************************************************)
LEMMA HeadsDiffer ==
    /\ Active \in Heads
    /\ \A m \in Mutexes : /\ Waiters(m) \in Heads /\ Slaves(m) \in Heads
                          /\ Waiters(m) # Active /\ Slaves(m) # Active
    /\ \A m, n \in Mutexes : /\ Waiters(m) # Slaves(n)
                             /\ Waiters(m) = Waiters(n) => m = n
                             /\ Slaves(m) = Slaves(n) => m = n
BY DEF Heads, Active, Waiters, Slaves

\* Separate lists, list by list.
LEMMA SeparateParts ==
    ASSUME NEW l
    PROVE  Separate(l) <=>
             /\ l = [h \in Heads |-> l[h]]
             /\ \A h \in Heads : Line(l[h], AllTasks)
             /\ \A h1, h2 \in Heads : h1 # h2 => Range(l[h1]) \cap Range(l[h2]) = {}
BY DEF Separate, Line

\* list_unlink keeps the lists separate (list.h:63-70).
LEMMA UnlinkSeparate ==
    ASSUME NEW l, Separate(l), NEW t
    PROVE  LET r == [h \in Heads |-> Unlinked(l[h], t)]
           IN  Separate(r) /\ \A h \in Heads : Range(r[h]) = Range(l[h]) \ {t}
<1> DEFINE r == [h \in Heads |-> Unlinked(l[h], t)]
<1>1. \A h \in Heads : Line(r[h], AllTasks) /\ Range(r[h]) = Range(l[h]) \ {t}
  BY SeparateParts, UnlinkedLine
<1>2. r = [h \in Heads |-> r[h]] OBVIOUS
<1> HIDE DEF r
<1>3. Separate(r) BY <1>1, <1>2, SeparateParts
<1>4. QED BY <1>1, <1>3 DEF r

MovedTo(l, hd, t) ==
    [h \in Heads |-> IF h = hd THEN Append(Unlinked(l[h], t), t) ELSE Unlinked(l[h], t)]

\* The lists l2 are the lists l1, but for t that went to the list of hd.
AppendedTo(l1, l2, hd, t) ==
    /\ Separate(l2)
    /\ \A h \in Heads : Range(l2[h]) = IF h = hd THEN Range(l1[h]) \cup {t}
                                       ELSE Range(l1[h]) \ {t}

\* list_append takes the task off its list, and keeps them separate.
LEMMA AppendSeparate ==
    ASSUME NEW l, Separate(l), NEW t \in AllTasks, NEW hd \in Heads
    PROVE  AppendedTo(l, MovedTo(l, hd, t), hd, t)
<1> DEFINE u == [h \in Heads |-> Unlinked(l[h], t)]
           r == MovedTo(l, hd, t)
<1>1. Separate(u) /\ \A h \in Heads : Range(u[h]) = Range(l[h]) \ {t} BY UnlinkSeparate
<1>2. /\ r = [h \in Heads |-> r[h]]
      /\ r[hd] = Appended(u[hd], t)
      /\ \A h \in Heads : h # hd => r[h] = u[h]
  BY DEF MovedTo, Appended
<1> HIDE DEF u, r
<1>3. Line(r[hd], AllTasks) /\ Range(r[hd]) = Range(u[hd]) \cup {t}
  BY <1>1, <1>2, SeparateParts, AppendLine
<1>4. \A h \in Heads : Line(r[h], AllTasks) /\ (h # hd => Range(r[h]) = Range(u[h]))
  BY <1>1, <1>2, <1>3, SeparateParts
<1>5. \A h1, h2 \in Heads : h1 # h2 => Range(r[h1]) \cap Range(r[h2]) = {}
  <2>1. \A h1, h2 \in Heads : h1 # h2 => Range(u[h1]) \cap Range(u[h2]) = {}
    BY <1>1, SeparateParts
  <2>2. QED BY <2>1, <1>1, <1>3, <1>4
<1>6. Separate(r) BY <1>2, <1>4, <1>5, SeparateParts
<1>7. AppendedTo(l, r, hd, t) BY <1>1, <1>3, <1>4, <1>6 DEF AppendedTo
<1>8. QED BY <1>7 DEF r

\* The tasks of w, on no list, go to the end of the list of hd.
LEMMA ConcatSeparate ==
    ASSUME NEW l, Separate(l), NEW hd \in Heads, NEW w, Line(w, AllTasks),
           \A h \in Heads : Range(l[h]) \cap Range(w) = {}
    PROVE  LET r == [l EXCEPT ![hd] = Joined(@, w)]
           IN  /\ Separate(r)
               /\ \A h \in Heads : Range(r[h]) = IF h = hd THEN Range(l[h]) \cup Range(w)
                                                 ELSE Range(l[h])
<1> DEFINE r == [l EXCEPT ![hd] = Joined(@, w)]
<1>1. l = [h \in Heads |-> l[h]] /\ \A h \in Heads : Line(l[h], AllTasks) BY SeparateParts
<1>2. /\ r = [h \in Heads |-> r[h]]
      /\ r[hd] = Joined(l[hd], w)
      /\ \A h \in Heads : h # hd => r[h] = l[h]
  BY <1>1
<1> HIDE DEF r
<1>3. Line(r[hd], AllTasks) /\ Range(r[hd]) = Range(l[hd]) \cup Range(w)
  BY <1>1, <1>2, ConcatLine
<1>4. \A h \in Heads : Line(r[h], AllTasks) BY <1>1, <1>2, <1>3
<1>5. \A h1, h2 \in Heads : h1 # h2 => Range(r[h1]) \cap Range(r[h2]) = {}
  <2>1. \A h1, h2 \in Heads : h1 # h2 => Range(l[h1]) \cap Range(l[h2]) = {}
    BY SeparateParts
  <2>2. QED BY <2>1, <1>2, <1>3
<1>6. Separate(r) BY <1>2, <1>4, <1>5, SeparateParts
<1>7. QED BY <1>2, <1>3, <1>6 DEF r

\* A list whose tasks are about to be moved.
LEMMA EmptiedSeparate ==
    ASSUME NEW l, Separate(l), NEW hd \in Heads
    PROVE  LET r == [l EXCEPT ![hd] = <<>>]
           IN  /\ Separate(r)
               /\ \A h \in Heads : Range(r[h]) = IF h = hd THEN {} ELSE Range(l[h])
               /\ r[hd] = <<>>
<1> DEFINE r == [l EXCEPT ![hd] = <<>>]
<1>1. l = [h \in Heads |-> l[h]] /\ \A h \in Heads : Line(l[h], AllTasks) BY SeparateParts
<1>2. /\ r = [h \in Heads |-> r[h]]
      /\ r[hd] = <<>>
      /\ \A h \in Heads : h # hd => r[h] = l[h]
  BY <1>1
<1> HIDE DEF r
<1>3. Line(r[hd], AllTasks) /\ Range(r[hd]) = {} BY <1>2, EmptyLine
<1>4. \A h \in Heads : Line(r[h], AllTasks) BY <1>1, <1>2, <1>3
<1>5. \A h1, h2 \in Heads : h1 # h2 => Range(r[h1]) \cap Range(r[h2]) = {}
  <2>1. \A h1, h2 \in Heads : h1 # h2 => Range(l[h1]) \cap Range(l[h2]) = {}
    BY SeparateParts
  <2>2. QED BY <2>1, <1>2, <1>3
<1>6. Separate(r) BY <1>2, <1>4, <1>5, SeparateParts
<1>7. QED BY <1>2, <1>3, <1>6 DEF r

-----------------------------------------------------------------------------
(***************************************************************************)
(* The kernel's functions on lists, without the fields lock and wait.      *)
(***************************************************************************)
LEMMA UnlinkLists ==
    ASSUME NEW s, Shaped(s), Separate(s.list), NEW t
    PROVE  LET r == ListUnlink(s, t)
           IN  /\ Separate(r.list)
               /\ \A h \in Heads : Range(r.list[h]) = Range(s.list[h]) \ {t}
<1>1. ListUnlink(s, t).list = [h \in Heads |-> Unlinked(s.list[h], t)]
  BY DEF ListUnlink, Shaped, Fields
<1>2. QED BY <1>1, UnlinkSeparate

\* ListAppend of a kernel state.
LEMMA AppendLists ==
    ASSUME NEW s, Shaped(s), Separate(s.list), NEW t \in AllTasks, NEW hd \in Heads
    PROVE  AppendedTo(s.list, ListAppend(s, hd, t).list, hd, t)
<1>1. ListAppend(s, hd, t).list = MovedTo(s.list, hd, t)
  BY DEF ListAppend, Shaped, Fields, MovedTo
<1>2. QED BY <1>1, AppendSeparate

\* task_activate of tasks that are on no list (the assert of internal.h:122).
LEMMA ActivateLists ==
    ASSUME NEW s, Shaped(s), Separate(s.list), NEW w, Line(w, AllTasks),
           \A h \in Heads : Range(s.list[h]) \cap Range(w) = {}
    PROVE  LET r == TaskActivate(s, w)
           IN  /\ Separate(r.list)
               /\ \A h \in Heads : Range(r.list[h]) = IF h = Active
                                                      THEN Range(s.list[h]) \cup Range(w)
                                                      ELSE Range(s.list[h])
               /\ s.need => r.need
<1>1. TaskActivate(s, w).list = [s.list EXCEPT ![Active] = Joined(@, w)]
  BY DEF TaskActivate, Shaped, Fields, Joined
<1>2. s.need => TaskActivate(s, w).need BY DEF TaskActivate, Shaped, Fields
<1>3. QED BY <1>1, <1>2, ConcatSeparate, HeadsDiffer

\* All tasks of the list of hd move to the end of the active list.
Emptied(s, hd) == [s EXCEPT !.list[hd] = <<>>]
Moved(s, hd)   == TaskActivate(Emptied(s, hd), s.list[hd])

\* task_activate of every task of a list (main.c:61-69, mutex.c:215-219).
LEMMA MovedLists ==
    ASSUME NEW s, Shaped(s), Separate(s.list), NEW hd \in Heads, hd # Active
    PROVE  LET r == Moved(s, hd)
           IN  /\ Changes(s, r, {"list", "need"})
               /\ Separate(r.list)
               /\ Range(r.list[Active]) = Range(s.list[Active]) \cup Range(s.list[hd])
               /\ Range(r.list[hd]) = {}
               /\ \A h \in Heads \ {hd, Active} : Range(r.list[h]) = Range(s.list[h])
               /\ s.need => r.need
<1> DEFINE w == s.list[hd]
           q == Emptied(s, hd)
           r == TaskActivate(q, w)
<1>1. Changes(s, q, {"list"}) /\ q.list = [s.list EXCEPT ![hd] = <<>>] /\ q.need = s.need
  BY DEF Shaped, Fields, Changes, Emptied
<1> HIDE DEF q
<1>2. /\ Separate(q.list)
      /\ \A h \in Heads : Range(q.list[h]) = IF h = hd THEN {} ELSE Range(s.list[h])
  BY <1>1, EmptiedSeparate
<1>3. /\ Line(w, AllTasks)
      /\ \A h \in Heads : h # hd => Range(s.list[h]) \cap Range(w) = {}
  BY SeparateParts
<1>4. \A h \in Heads : Range(q.list[h]) \cap Range(w) = {} BY <1>2, <1>3
<1> HIDE DEF w
<1>5. /\ Separate(r.list)
      /\ \A h \in Heads : Range(r.list[h]) = IF h = Active THEN Range(q.list[h]) \cup Range(w)
                                             ELSE Range(q.list[h])
      /\ q.need => r.need
  BY <1>1, <1>2, <1>3, <1>4, ActivateLists DEF Changes
<1>6. Changes(s, r, {"list", "need"}) BY <1>1, ActivateShape DEF Changes
<1> HIDE DEF r
<1>7. r = Moved(s, hd) BY DEF Moved, r, q, w
<1>8. QED BY <1>1, <1>2, <1>5, <1>6, <1>7, HeadsDiffer DEF w

-----------------------------------------------------------------------------
(***************************************************************************)
(* The functions of the kernel.                                            *)
(***************************************************************************)
KInv(s) == Shaped(s) /\ DataInv(s) /\ ListInv(s) /\ WaiterInv(s) /\ OwnerInv(s)

\* The lists are separate, but may not agree with what blocks a task.
ListType(s) ==
    /\ Separate(s.list)
    /\ s.lock \in [AllTasks -> OrNone(Mutexes)]
    /\ s.wait \in [AllTasks -> OrNone(Mutexes)]

\* What holds also while a lock changes hands, or a task leaves its list.
KData(s) == Shaped(s) /\ DataInv(s) /\ ListType(s) /\ WaiterInv(s) /\ OwnerType(s)

\* The kernel's data, field by field, has its type.
LEMMA KInvType ==
    ASSUME NEW s, KInv(s)
    PROVE  s \in KernelType
<1> DEFINE C == s.current \in AllTasks /\ s.list \in [Heads -> Seq(AllTasks)]
<1>1. Shaped(s) /\ DataInv(s) BY DEF KInv
<1>2. /\ s.list \in [Heads -> Seq(AllTasks)]
      /\ s.lock \in [AllTasks -> OrNone(Mutexes)]
      /\ s.wait \in [AllTasks -> OrNone(Mutexes)]
  BY DEF KInv, ListInv, Separate
<1>3. /\ s.waiter \in [Groups -> OrNone(Tasks)]
      /\ s.groups \in [Mutexes -> Seq(Groups)]
  BY DEF KInv, WaiterInv
<1>4. /\ s.master \in [Mutexes -> OrNone(Tasks)]
      /\ s.owned \in [AllTasks -> Seq(Mutexes)]
      /\ s.deep \in [Mutexes -> 0 .. MaxDeep]
  BY DEF KInv, OwnerInv, OwnerType
<1>5. QED BY <1>1, <1>2, <1>3, <1>4 DEF KernelType, Shaped, Fields, DataInv

-----------------------------------------------------------------------------
(***************************************************************************)
(* Induction over the naturals, for sets, and what it gives: functions     *)
(* defined by recursion exist, and a set of priorities has a maximum.      *)
(***************************************************************************)
LEMMA NatSetInduction ==
    ASSUME NEW S, 0 \in S, \A n \in Nat : n \in S => n + 1 \in S
    PROVE  Nat \subseteq S
<1> DEFINE T == Nat \ S
           R == OpToRel(<, Nat)
<1>1. SUFFICES ASSUME T # {} PROVE FALSE OBVIOUS
<1>2. IsWellFoundedOn(R, Nat) BY NatLessThanWellFounded
<1>3. PICK x \in T : \A y \in T : ~(<<y, x>> \in R) BY <1>1, <1>2, WFMin
<1>4. x \in Nat /\ x # 0 OBVIOUS
<1>5. x - 1 \in Nat /\ x - 1 < x BY <1>4
<1>6. <<x - 1, x>> \in R BY <1>4, <1>5 DEF OpToRel
<1>7. x - 1 \in S BY <1>3, <1>5, <1>6
<1>8. (x - 1) + 1 \in S BY <1>5, <1>7
<1>9. QED BY <1>4, <1>8

\* The same up to a bound.
LEMMA UpToInduction ==
    ASSUME NEW N \in Nat, NEW S, 0 \in S, \A n \in 0 .. N - 1 : n \in S => n + 1 \in S
    PROVE  0 .. N \subseteq S
<1> DEFINE T == {n \in Nat : n <= N => n \in S}
<1>1. 0 \in T OBVIOUS
<1>2. \A n \in Nat : n \in T => n + 1 \in T OBVIOUS
<1> HIDE DEF T
<1>3. Nat \subseteq T BY <1>1, <1>2, NatSetInduction
<1>4. QED BY <1>3 DEF T

\* The function f of 0 .. N with f[0] = c and f[i] = F[i][f[i - 1]].
Steps(F, N, V) == F \in [1 .. N -> [V -> V]]

Run(f, N, V, c, F) ==
    f \in [0 .. N -> V] /\ f[0] = c /\ \A i \in 1 .. N : f[i] = F[i][f[i - 1]]

\* A function defined step by step from a first value exists.
LEMMA RecursionExists ==
    ASSUME NEW N \in Nat, NEW V, NEW c \in V, NEW F, Steps(F, N, V)
    PROVE  \E f : Run(f, N, V, c, F)
<1> USE DEF Steps
<1> DEFINE Good(n, f) == f[0] = c /\ \A i \in 1 .. n : f[i] = F[i][f[i - 1]]
           S == {n \in Nat : \E f \in [0 .. n -> V] : Good(n, f)}
<1>1. 0 \in S
  <2> DEFINE g == [i \in 0 .. 0 |-> c]
  <2>1. g \in [0 .. 0 -> V] /\ g[0] = c OBVIOUS
  <2>2. Good(0, g) BY <2>1
  <2>3. QED BY <2>1, <2>2
<1>2. ASSUME NEW n \in 0 .. N - 1, n \in S PROVE n + 1 \in S
  <2>1. PICK f \in [0 .. n -> V] : Good(n, f) BY <1>2
  <2> DEFINE e == F[n + 1][f[n]]
             g == [i \in 0 .. n + 1 |-> IF i = n + 1 THEN e ELSE f[i]]
  <2>2. f[n] \in V /\ n + 1 \in 1 .. N BY <2>1
  <2>3. e \in V BY <2>2
  <2>4. g \in [0 .. n + 1 -> V] BY <2>1, <2>3
  <2>5. g[n + 1] = e /\ \A i \in 0 .. n : g[i] = f[i] OBVIOUS
  <2> HIDE DEF g
  <2>6. \A i \in 1 .. n + 1 : g[i] = F[i][g[i - 1]]
    <3> SUFFICES ASSUME NEW i \in 1 .. n + 1 PROVE g[i] = F[i][g[i - 1]] OBVIOUS
    <3>1. CASE i = n + 1
      <4>1. i - 1 = n /\ n \in 0 .. n BY <3>1
      <4>2. QED BY <4>1, <3>1, <2>5
    <3>2. CASE i # n + 1
      <4>1. i \in 1 .. n /\ i \in 0 .. n /\ i - 1 \in 0 .. n BY <3>2
      <4>2. QED BY <4>1, <2>1, <2>5
    <3>3. QED BY <3>1, <3>2
  <2>7. g[0] = c BY <2>1, <2>5
  <2>8. QED BY <2>4, <2>6, <2>7
<1> HIDE DEF S
<1>3. 0 .. N \subseteq S BY <1>1, <1>2, UpToInduction
<1>4. N \in S BY <1>3
<1>5. QED BY <1>4 DEF S, Run

\* A set of numbers up to a bound that is not empty has its maximum.
LEMMA MaxOfPrios ==
    ASSUME NEW N \in Nat, NEW S \in SUBSET (0 .. N), S # {}
    PROVE  Max(S) \in S /\ \A y \in S : Max(S) >= y
<1> DEFINE HasMax(U) == \E x \in U : \A y \in U : x >= y
           T == {n \in Nat : \A U \in SUBSET (0 .. n) : U # {} => HasMax(U)}
<1>1. 0 \in T
  <2>1. ASSUME NEW U \in SUBSET (0 .. 0), U # {} PROVE HasMax(U)
    <3>1. PICK x \in U : TRUE BY <2>1
    <3>2. x = 0 /\ \A y \in U : y = 0 OBVIOUS
    <3>3. QED BY <3>2
  <2>2. QED BY <2>1
<1>2. ASSUME NEW n \in Nat, n \in T PROVE n + 1 \in T
  <2> SUFFICES ASSUME NEW U \in SUBSET (0 .. n + 1), U # {} PROVE HasMax(U)
    OBVIOUS
  <2>1. CASE n + 1 \in U
    <3>1. \A y \in U : n + 1 >= y OBVIOUS
    <3>2. QED BY <2>1, <3>1
  <2>2. CASE n + 1 \notin U
    <3>1. U \in SUBSET (0 .. n) BY <2>2
    <3>2. QED BY <3>1, <1>2
  <2>3. QED BY <2>1, <2>2
<1> HIDE DEF T
<1>3. Nat \subseteq T BY <1>1, <1>2, NatSetInduction
<1>4. HasMax(S) BY <1>3 DEF T
<1>5. QED BY <1>4 DEF Max

-----------------------------------------------------------------------------
(***************************************************************************)
(* What does not change the fields of a part of KInv keeps it.             *)
(***************************************************************************)
LEMMA ListFrame ==
    ASSUME NEW s, NEW r, ListInv(s), r.list = s.list, r.lock = s.lock, r.wait = s.wait
    PROVE  ListInv(r)
BY DEF ListInv, LinkedWhereBlocked

\* The waiters of the groups: no task may appear on a list.
LEMMA WaiterFrame ==
    ASSUME NEW s, NEW r, WaiterInv(s), r.waiter = s.waiter, r.groups = s.groups,
           \A t \in AllTasks : Linked(r, t) => Linked(s, t)
    PROVE  WaiterInv(r)
BY DEF WaiterInv, OrNone, AllTasks

\* The owners of the locks.
LEMMA OwnerFrame ==
    ASSUME NEW s, NEW r, OwnerInv(s), r.master = s.master, r.owned = s.owned, r.deep = s.deep
    PROVE  OwnerInv(r)
BY DEF OwnerInv, OwnerType, OwnedByMaster

\* No ready task is dropped, no reschedule that is due, and no task appears.
Grows(s, r) ==
    /\ Range(s.list[Active]) \subseteq Range(r.list[Active])
    /\ s.need => r.need
    /\ \A t \in AllTasks : Present(r, t) => Present(s, t)

\* Calls one after the other.
LEMMA GrowsTrans ==
    ASSUME NEW s, NEW q, NEW r, Grows(s, q), Grows(q, r)
    PROVE  Grows(s, r)
BY DEF Grows

-----------------------------------------------------------------------------
(***************************************************************************)
(* task_activate and mutex_activate.                                       *)
(***************************************************************************)
LEMMA WaitersActivatedKeeps ==
    ASSUME NEW s, KInv(s), NEW m \in Mutexes, NEW msg \in OrNone(Messages)
    PROVE  KInv(WaitersActivated(s, m, msg)) /\ Grows(s, WaitersActivated(s, m, msg))
<1> DEFINE w == s.list[Waiters(m)]
           q == Moved(s, Waiters(m))
           r == WaitersActivated(s, m, msg)
<1>1. Shaped(s) /\ DataInv(s) /\ ListInv(s) /\ WaiterInv(s) /\ OwnerInv(s) BY DEF KInv
<1>2. /\ Changes(s, q, {"list", "need"})
      /\ Separate(q.list)
      /\ Range(q.list[Active]) = Range(s.list[Active]) \cup Range(w)
      /\ Range(q.list[Waiters(m)]) = {}
      /\ \A h \in Heads \ {Waiters(m), Active} : Range(q.list[h]) = Range(s.list[h])
      /\ s.need => q.need
  BY <1>1, MovedLists, HeadsDiffer DEF ListInv
<1>3. r = [q EXCEPT
            !.wait    = [t \in AllTasks |-> IF t \in Range(w) THEN None ELSE @[t]],
            !.message = [t \in AllTasks |-> IF t \in Range(w) THEN msg ELSE @[t]]]
  BY DEF WaitersActivated, Moved, Emptied
<1>4. q.need \in BOOLEAN
  BY <1>1 DEF DataInv, Moved, TaskActivate, Emptied, Shaped, Fields
<1> HIDE DEF q, w
<1>5. /\ Changes(q, r, {"wait", "message"})
      /\ r.wait = [t \in AllTasks |-> IF t \in Range(w) THEN None ELSE s.wait[t]]
      /\ r.message = [t \in AllTasks |-> IF t \in Range(w) THEN msg ELSE s.message[t]]
  <2>1. Shaped(q) /\ q.wait = s.wait /\ q.message = s.message BY <1>2 DEF Changes, Fields
  <2>2. Changes(q, r, {"wait", "message"}) BY <2>1, <1>3 DEF Shaped, Fields, Changes
  <2>3. /\ r.wait = [t \in AllTasks |-> IF t \in Range(w) THEN None ELSE q.wait[t]]
        /\ r.message = [t \in AllTasks |-> IF t \in Range(w) THEN msg ELSE q.message[t]]
    BY <2>1, <1>3 DEF Shaped, Fields
  <2>4. QED BY <2>1, <2>2, <2>3
<1> HIDE DEF r
<1>6. /\ Shaped(r) /\ r.list = q.list /\ r.need = q.need
      /\ \A f \in Fields \ {"list", "need", "wait", "message"} : r[f] = s[f]
  BY <1>2, <1>5 DEF Changes, Fields
<1>7. ListInv(r)
  <2>1. \A n \in Mutexes :
          /\ Range(r.list[Slaves(n)]) = Range(s.list[Slaves(n)])
          /\ n # m => Range(r.list[Waiters(n)]) = Range(s.list[Waiters(n)])
    BY <1>2, <1>6, HeadsDiffer
  <2>2. \A t \in AllTasks, n \in Mutexes : s.wait[t] = n <=> t \in Range(s.list[Waiters(n)])
    BY <1>1 DEF ListInv, LinkedWhereBlocked
  <2>3. r.lock = s.lock BY <1>6 DEF Fields
  <2>4. r.wait \in [AllTasks -> OrNone(Mutexes)] BY <1>1, <1>5 DEF ListInv, OrNone
  <2>5. \A t \in AllTasks, n \in Mutexes : r.wait[t] = n <=> t \in Range(r.list[Waiters(n)])
    <3> SUFFICES ASSUME NEW t \in AllTasks, NEW n \in Mutexes
                 PROVE  r.wait[t] = n <=> t \in Range(r.list[Waiters(n)])
      OBVIOUS
    <3>1. n # None BY KernelConstants
    <3>2. CASE n = m BY <3>1, <3>2, <2>2, <1>2, <1>5, <1>6 DEF w
    <3>3. CASE n # m
      <4>1. s.wait[t] = n => t \notin Range(w) BY <2>2, <3>3 DEF w
      <4>2. QED BY <3>1, <3>3, <4>1, <2>1, <2>2, <1>5
    <3>4. QED BY <3>2, <3>3
  <2>6. QED BY <2>1, <2>3, <2>4, <2>5, <1>1, <1>2, <1>6 DEF ListInv, LinkedWhereBlocked
<1>8. \A t \in AllTasks : Linked(r, t) => Linked(s, t)
  <2> SUFFICES ASSUME NEW t \in AllTasks, NEW h \in Heads, t \in Range(r.list[h])
               PROVE  \E h2 \in Heads : t \in Range(s.list[h2])
    BY DEF Linked
  <2>1. CASE h = Active BY <2>1, <1>2, <1>6, HeadsDiffer DEF w
  <2>2. CASE h # Active BY <2>2, <1>2, <1>6
  <2>3. QED BY <2>1, <2>2
<1>9. WaiterInv(r) BY <1>1, <1>6, <1>8, WaiterFrame DEF Fields
<1>10. OwnerInv(r) BY <1>1, <1>6, OwnerFrame DEF Fields
<1>11. DataInv(r)
  <2>1. r.message \in [AllTasks -> OrNone(Messages)] BY <1>1, <1>5 DEF DataInv
  <2>2. r.need \in BOOLEAN BY <1>4, <1>6
  <2>3. QED BY <2>1, <2>2, <1>1, <1>6 DEF DataInv, Fields
<1>12. Grows(s, r)
  <2>1. r.waiter = s.waiter BY <1>6 DEF Fields
  <2>2. QED BY <2>1, <1>2, <1>6, <1>8 DEF Grows, Present
<1>13. QED BY <1>6, <1>7, <1>9, <1>10, <1>11, <1>12 DEF KInv, r

\* The groups that listen on m wake each task that waits for one of them, once.
LEMMA GroupsWokenLine ==
    ASSUME NEW s, WaiterInv(s), NEW m \in Mutexes
    PROVE  /\ Line(GroupsWoken(s, m), AllTasks)
           /\ Range(GroupsWoken(s, m)) = {s.waiter[g] : g \in Range(s.groups[m])} \ {None}
<1> DEFINE gs == s.groups[m]
           N  == Len(gs)
           V  == Seq(AllTasks)
           w(i) == s.waiter[gs[i]]
           F  == [i \in 1 .. N |-> [v \in V |-> IF w(i) = None THEN v ELSE Append(v, w(i))]]
           IsWoken(f) == f = [i \in 0 .. N |->
                                IF i = 0 THEN <<>>
                                ELSE IF s.waiter[gs[i]] = None THEN f[i - 1]
                                ELSE Append(f[i - 1], s.waiter[gs[i]])]
           woken == CHOOSE f : IsWoken(f)
<1>1. gs \in Seq(Groups) /\ IsInjective(gs) /\ s.waiter \in [Groups -> OrNone(Tasks)]
  BY DEF WaiterInv
<1>2. N \in Nat /\ \A i \in 1 .. N : gs[i] \in Groups /\ gs[i] \in Range(gs)
  BY <1>1, LineElement
<1>3. \A i \in 1 .. N : w(i) # None => w(i) \in AllTasks
  BY <1>1, <1>2 DEF OrNone, AllTasks
<1>4. Steps(F, N, V)
  <2>1. ASSUME NEW i \in 1 .. N, NEW v \in V, w(i) # None PROVE Append(v, w(i)) \in V
    BY <2>1, <1>3, AppendProperties
  <2>2. QED BY <2>1 DEF Steps
<1>5. \E f : IsWoken(f)
  <2>1. PICK f : Run(f, N, V, <<>>, F)
    <3>1. <<>> \in V BY EmptySeq
    <3> HIDE DEF F, V, N
    <3>2. QED BY <3>1, <1>2, <1>4, RecursionExists
  <2> USE DEF Run
  <2>2. ASSUME NEW i \in 1 .. N
        PROVE  f[i] = IF w(i) = None THEN f[i - 1] ELSE Append(f[i - 1], w(i))
    <3>1. i - 1 \in 0 .. N BY <1>2
    <3>2. f[i - 1] \in V BY <2>1, <3>1
    <3> HIDE DEF V, w
    <3>3. QED BY <2>1, <3>2
  <2>3. \A i \in 0 .. N : i # 0 => i \in 1 .. N BY <1>2
  <2>4. [i \in 0 .. N |-> f[i]] = [i \in 0 .. N |->
                                     IF i = 0 THEN <<>>
                                     ELSE IF s.waiter[gs[i]] = None THEN f[i - 1]
                                     ELSE Append(f[i - 1], s.waiter[gs[i]])]
    <3>1. ASSUME NEW i \in 0 .. N
          PROVE  f[i] = IF i = 0 THEN <<>>
                        ELSE IF w(i) = None THEN f[i - 1]
                        ELSE Append(f[i - 1], w(i))
      BY <2>1, <2>2, <2>3
    <3>2. QED BY <3>1
  <2>5. QED BY <2>1, <2>4
<1>6. IsWoken(woken) BY <1>5
<1>7. GroupsWoken(s, m) = woken[N] BY DEF GroupsWoken
<1> HIDE DEF woken
<1>8. /\ woken[0] = <<>>
      /\ \A i \in 0 .. N - 1 : woken[i + 1] = IF w(i + 1) = None THEN woken[i]
                                              ELSE Appended(woken[i], w(i + 1))
  <2>1. woken = [i \in 0 .. N |-> IF i = 0 THEN <<>>
                                  ELSE IF w(i) = None THEN woken[i - 1]
                                  ELSE Appended(woken[i - 1], w(i))]
    BY <1>6 DEF Appended
  <2>2. 0 \in 0 .. N BY <1>2
  <2>3. \A i \in 0 .. N - 1 : i + 1 \in 0 .. N /\ i + 1 # 0 /\ (i + 1) - 1 = i BY <1>2
  <2> HIDE DEF w, gs, N
  <2>4. woken[0] = <<>> BY <2>1, <2>2
  <2>5. ASSUME NEW i \in 0 .. N - 1
        PROVE  woken[i + 1] = IF w(i + 1) = None THEN woken[i] ELSE Appended(woken[i], w(i + 1))
    <3> DEFINE j == i + 1
    <3>1. j \in 0 .. N /\ j # 0 /\ j - 1 = i BY <2>3
    <3> HIDE DEF j
    <3>2. woken[j] = IF w(j) = None THEN woken[i] ELSE Appended(woken[i], w(j))
      BY <2>1, <3>1
    <3>3. QED BY <3>2 DEF j
  <2>6. QED BY <2>4, <2>5
<1> DEFINE S == {i \in 0 .. N : /\ Line(woken[i], AllTasks)
                                /\ Range(woken[i]) = {w(j) : j \in 1 .. i} \ {None}}
<1>9. 0 \in S BY <1>2, <1>8, EmptyLine
<1>10. ASSUME NEW i \in 0 .. N - 1, i \in S PROVE i + 1 \in S
  <2>1. i + 1 \in 1 .. N /\ i + 1 \in 0 .. N BY <1>2
  <2>2. \A j \in 1 .. i + 1 : j \in 1 .. i \/ j = i + 1 BY <1>2
  <2>3. CASE w(i + 1) = None
    <3>1. {w(j) : j \in 1 .. i} \ {None} = {w(j) : j \in 1 .. i + 1} \ {None}
      BY <2>1, <2>2, <2>3
    <3>2. QED BY <3>1, <2>1, <2>3, <1>8, <1>10
  <2>4. CASE w(i + 1) # None
    <3>1. \A j \in 1 .. i : w(j) # w(i + 1)
      <4> SUFFICES ASSUME NEW j \in 1 .. i, w(j) = w(i + 1) PROVE FALSE OBVIOUS
      <4>1. j \in 1 .. N /\ j # i + 1 BY <1>2
      <4>2. gs[j] = gs[i + 1] BY <4>1, <2>1, <2>4, <1>2 DEF WaiterInv
      <4>3. DOMAIN gs = 1 .. N BY <1>1, LenProperties
      <4>4. QED BY <4>1, <4>2, <4>3, <2>1, <1>1 DEF IsInjective
    <3>2. w(i + 1) \in AllTasks /\ w(i + 1) \notin Range(woken[i])
      BY <3>1, <2>1, <2>4, <1>3, <1>10
    <3>3. /\ Line(woken[i + 1], AllTasks)
          /\ Range(woken[i + 1]) = Range(woken[i]) \cup {w(i + 1)}
      BY <3>2, <2>4, <1>8, <1>10, AppendLine
    <3>4. {w(j) : j \in 1 .. i + 1} \ {None} = ({w(j) : j \in 1 .. i} \ {None}) \cup {w(i + 1)}
      BY <2>1, <2>2, <2>4
    <3>5. QED BY <3>3, <3>4, <2>1, <1>10
  <2>5. QED BY <2>3, <2>4
<1> HIDE DEF S
<1>11. N \in S
  <2>1. 0 .. N \subseteq S BY <1>2, <1>9, <1>10, UpToInduction
  <2>2. QED BY <2>1, <1>2
<1>12. Range(gs) = {gs[i] : i \in 1 .. N} BY <1>1, RangeOfLine
<1>13. {w(j) : j \in 1 .. N} = {s.waiter[g] : g \in Range(gs)} BY <1>12
<1>14. QED BY <1>7, <1>11, <1>13 DEF S

\* The loop over m->groups of mutex_activate (main.c:71-82).
LEMMA GroupsActivatedKeeps ==
    ASSUME NEW s, KInv(s), NEW m \in Mutexes, NEW msg \in OrNone(Messages)
    PROVE  KInv(GroupsActivated(s, m, msg)) /\ Grows(s, GroupsActivated(s, m, msg))
<1> DEFINE w  == GroupsWoken(s, m)
           gs == Range(s.groups[m])
           q  == TaskActivate(s, w)
           r  == GroupsActivated(s, m, msg)
<1>1. Shaped(s) /\ DataInv(s) /\ ListInv(s) /\ WaiterInv(s) /\ OwnerInv(s) BY DEF KInv
<1>2. /\ Line(w, AllTasks)
      /\ Range(w) = {s.waiter[g] : g \in gs} \ {None}
      /\ gs \subseteq Groups
  <2>1. s.groups[m] \in Seq(Groups) BY <1>1 DEF WaiterInv
  <2>2. QED BY <1>1, <2>1, GroupsWokenLine, RangeOfLine
<1>3. \A h \in Heads : Range(s.list[h]) \cap Range(w) = {}
  <2>1. \A g \in Groups, h \in Heads : s.waiter[g] # None => s.waiter[g] \notin Range(s.list[h])
    BY <1>1 DEF WaiterInv, Linked
  <2>2. QED BY <2>1, <1>2
<1>4. r = [q EXCEPT
            !.signalled = [g \in Groups |-> IF g \in gs THEN @[g] \cup {m} ELSE @[g]],
            !.gmessage  = [g \in Groups |-> IF g \in gs THEN [@[g] EXCEPT ![m] = msg]
                                            ELSE @[g]],
            !.waiter    = [g \in Groups |-> IF g \in gs THEN None ELSE @[g]]]
  BY DEF GroupsActivated
<1> HIDE DEF w, gs
<1>5. /\ Changes(s, q, {"list", "need"})
      /\ Separate(q.list)
      /\ \A h \in Heads : Range(q.list[h]) = IF h = Active THEN Range(s.list[h]) \cup Range(w)
                                             ELSE Range(s.list[h])
      /\ s.need => q.need
  BY <1>1, <1>2, <1>3, ActivateShape, ActivateLists DEF ListInv
<1>6. q.need \in BOOLEAN BY <1>1 DEF TaskActivate, Shaped, Fields
<1> HIDE DEF q, r
<1>7. /\ Changes(q, r, {"signalled", "gmessage", "waiter"})
      /\ r.signalled = [g \in Groups |-> IF g \in gs THEN s.signalled[g] \cup {m}
                                         ELSE s.signalled[g]]
      /\ r.gmessage = [g \in Groups |-> IF g \in gs THEN [s.gmessage[g] EXCEPT ![m] = msg]
                                        ELSE s.gmessage[g]]
      /\ r.waiter = [g \in Groups |-> IF g \in gs THEN None ELSE s.waiter[g]]
  <2>1. /\ Shaped(q) /\ q.signalled = s.signalled /\ q.gmessage = s.gmessage
        /\ q.waiter = s.waiter
    BY <1>5 DEF Changes, Fields
  <2>2. Changes(q, r, {"signalled", "gmessage", "waiter"})
    BY <2>1, <1>4 DEF Shaped, Fields, Changes
  <2>3. /\ r.signalled = [g \in Groups |-> IF g \in gs THEN q.signalled[g] \cup {m}
                                           ELSE q.signalled[g]]
        /\ r.gmessage = [g \in Groups |-> IF g \in gs THEN [q.gmessage[g] EXCEPT ![m] = msg]
                                          ELSE q.gmessage[g]]
        /\ r.waiter = [g \in Groups |-> IF g \in gs THEN None ELSE q.waiter[g]]
    BY <2>1, <1>4 DEF Shaped, Fields
  <2>4. QED BY <2>1, <2>2, <2>3
<1>8. /\ Shaped(r) /\ r.list = q.list /\ r.need = q.need
      /\ \A f \in Fields \ {"list", "need", "signalled", "gmessage", "waiter"} : r[f] = s[f]
  BY <1>5, <1>7 DEF Changes, Fields
<1>9. ListInv(r)
  <2>1. \A n \in Mutexes :
          /\ Range(r.list[Slaves(n)]) = Range(s.list[Slaves(n)])
          /\ Range(r.list[Waiters(n)]) = Range(s.list[Waiters(n)])
    BY <1>5, <1>8, HeadsDiffer
  <2>2. r.lock = s.lock /\ r.wait = s.wait BY <1>8 DEF Fields
  <2>3. QED BY <2>1, <2>2, <1>1, <1>5, <1>8 DEF ListInv, LinkedWhereBlocked
<1>10. \A t \in AllTasks : Linked(r, t) => Linked(s, t) \/ t \in Range(w)
  BY <1>5, <1>8 DEF Linked
<1>11. WaiterInv(r)
  <2>1. r.waiter \in [Groups -> OrNone(Tasks)] BY <1>1, <1>7 DEF WaiterInv, OrNone
  <2>2. r.groups = s.groups BY <1>8 DEF Fields
  <2>3. ASSUME NEW g \in Groups, r.waiter[g] # None PROVE ~Linked(r, r.waiter[g])
    <3>1. g \notin gs /\ r.waiter[g] = s.waiter[g] /\ s.waiter[g] \in AllTasks
      BY <2>3, <1>1, <1>7 DEF WaiterInv, OrNone, AllTasks
    <3>2. \A g2 \in gs : s.waiter[g2] = s.waiter[g] => g2 = g
      BY <3>1, <2>3, <1>1, <1>2 DEF WaiterInv
    <3>3. s.waiter[g] \notin Range(w) BY <3>1, <3>2, <1>2
    <3>4. QED BY <3>1, <3>3, <2>3, <1>1, <1>10 DEF WaiterInv
  <2>4. \A g1, g2 \in Groups :
          r.waiter[g1] = r.waiter[g2] /\ r.waiter[g1] # None => g1 = g2
    BY <1>1, <1>7 DEF WaiterInv
  <2>5. QED BY <2>1, <2>2, <2>3, <2>4, <1>1 DEF WaiterInv
<1>12. OwnerInv(r) BY <1>1, <1>8, OwnerFrame DEF Fields
<1>13. DataInv(r)
  <2>1. r.signalled \in [Groups -> SUBSET Mutexes]
    BY <1>1, <1>7 DEF DataInv
  <2>2. r.gmessage \in [Groups -> [Mutexes -> OrNone(Messages)]]
    BY <1>1, <1>7 DEF DataInv
  <2>3. r.need \in BOOLEAN BY <1>6, <1>8
  <2>4. QED BY <2>1, <2>2, <2>3, <1>1, <1>8 DEF DataInv, Fields
<1>14. Grows(s, r)
  <2>1. \A t \in AllTasks : Present(r, t) => Present(s, t)
    <3> SUFFICES ASSUME NEW t \in AllTasks, Present(r, t) PROVE Present(s, t) OBVIOUS
    <3>1. t # None BY KernelConstants
    <3>2. CASE Linked(r, t) BY <3>2, <1>2, <1>10 DEF Present
    <3>3. ASSUME NEW g \in Groups, r.waiter[g] = t PROVE Present(s, t)
      BY <3>1, <3>3, <1>7 DEF Present
    <3>4. QED BY <3>2, <3>3 DEF Present
  <2>2. QED BY <2>1, <1>5, <1>8, HeadsDiffer DEF Grows
<1>15. QED BY <1>8, <1>9, <1>11, <1>12, <1>13, <1>14 DEF KInv, r

\* mutex_activate (main.c:50-83): the waiters, then the groups.
LEMMA MutexActivateKeeps ==
    ASSUME NEW s, KInv(s), NEW m \in Mutexes, NEW msg \in OrNone(Messages)
    PROVE  KInv(MutexActivate(s, m, msg)) /\ Grows(s, MutexActivate(s, m, msg))
<1> DEFINE q == WaitersActivated(s, m, msg)
<1>1. KInv(q) /\ Grows(s, q) BY WaitersActivatedKeeps
<1> HIDE DEF q
<1>2. KInv(GroupsActivated(q, m, msg)) /\ Grows(q, GroupsActivated(q, m, msg))
  BY <1>1, GroupsActivatedKeeps
<1>3. MutexActivate(s, m, msg) = GroupsActivated(q, m, msg) BY DEF MutexActivate, q
<1>4. QED BY <1>1, <1>2, <1>3, GrowsTrans

-----------------------------------------------------------------------------
(***************************************************************************)
(* Priority inheritance: every level of the chain has its type.            *)
(***************************************************************************)
Levels(s) ==
    [prio  : [AllTasks -> Prios],
     mprio : [Mutexes -> Prios],
     need  : {b \in BOOLEAN : s.need => b},
     next  : OrNone(AllTasks)]

\* A recalculated priority is a priority.
LEMMA PriosMax ==
    ASSUME NEW S, S \subseteq Prios, S # {}
    PROVE  Max(S) \in Prios
BY MaxOfPrios, KernelParameters DEF Prios

\* One call of mutex_recalculate_prio (mutex.c:142-170).
LEMMA MutexLevelType ==
    ASSUME NEW s, KData(s), NEW c \in Levels(s), NEW m \in Mutexes
    PROVE  MutexLevel(s, c, m) \in Levels(s)
<1> DEFINE new == Max({0} \cup {c.prio[t] : t \in Range(s.list[Slaves(m)])})
<1>1. new \in Prios
  <2>1. s.list[Slaves(m)] \in Seq(AllTasks)
    BY HeadsDiffer DEF KData, ListType, Separate
  <2>2. Range(s.list[Slaves(m)]) \subseteq AllTasks BY <2>1, RangeOfLine
  <2>3. {0} \cup {c.prio[t] : t \in Range(s.list[Slaves(m)])} \subseteq Prios
    BY <2>2, KernelParameters DEF Levels, Prios
  <2> HIDE DEF Prios
  <2>4. QED BY <2>3, PriosMax
<1>2. s.master[m] \in OrNone(AllTasks)
  BY DEF KData, OwnerType, OrNone, AllTasks
<1> HIDE DEF new
<1>3. \E x \in OrNone(AllTasks) : MutexLevel(s, c, m) = [c EXCEPT !.mprio[m] = new, !.next = x]
  BY <1>2 DEF MutexLevel, new, OrNone
<1>4. \A x \in OrNone(AllTasks) : [c EXCEPT !.mprio[m] = new, !.next = x] \in Levels(s)
  BY <1>1 DEF Levels
<1>5. QED BY <1>3, <1>4

\* One call of task_recalculate_prio (mutex.c:100-140).
LEMMA TaskLevelType ==
    ASSUME NEW s, KData(s), NEW c \in Levels(s), c.next # None
    PROVE  TaskLevel(s, c) \in Levels(s)
<1> DEFINE t   == c.next
           m   == s.lock[t]
           old == c.prio[t]
           new == Max({s.base[t]} \cup {c.mprio[n] : n \in Range(s.owned[t])})
           c1  == [c EXCEPT !.prio[t] = new, !.next = None]
           up  == new > old
           resched == IF up THEN c1.prio[s.current] < new /\ s.wait[t] = None
                            ELSE t = s.current
           c2  == [c1 EXCEPT !.need = @ \/ resched]
           c3  == MutexLevel(s, c1, m)
<1>1. t \in AllTasks BY DEF Levels, OrNone
<1>2. new \in Prios
  <2>1. s.owned[t] \in Seq(Mutexes) BY <1>1 DEF KData, OwnerType
  <2>2. Range(s.owned[t]) \subseteq Mutexes BY <2>1, RangeOfLine
  <2>3. {s.base[t]} \cup {c.mprio[n] : n \in Range(s.owned[t])} \subseteq Prios
    BY <2>2, <1>1 DEF KData, DataInv, Levels
  <2>4. QED BY <2>3, PriosMax
<1>3. m \in OrNone(Mutexes) BY <1>1 DEF KData, ListType
<1> HIDE DEF new
<1>4. c1 \in Levels(s) BY <1>1, <1>2 DEF Levels, OrNone
<1>5. resched \in BOOLEAN OBVIOUS
<1>6. TaskLevel(s, c) \in {c1, c2} \cup {x \in {c3} : m # None}
  BY DEF TaskLevel, new
<1> HIDE DEF c1, resched, m
<1>7. c2 \in Levels(s) BY <1>4, <1>5 DEF Levels
<1>8. m # None => c3 \in Levels(s) BY <1>3, <1>4, MutexLevelType DEF OrNone
<1>9. QED BY <1>4, <1>6, <1>7, <1>8

\* What a chain that ends in the level end leaves.
Ended(s, end) == [s EXCEPT !.prio = end.prio, !.mprio = end.mprio, !.need = end.need]

\* A product of three finite sets is finite.
LEMMA ProductIsFinite ==
    ASSUME NEW A, NEW B, NEW C, IsFiniteSet(A), IsFiniteSet(B), IsFiniteSet(C)
    PROVE  IsFiniteSet(A \X B \X C)
<1> DEFINE T == (A \X B) \X C
           f == [x \in T |-> <<x[1][1], x[1][2], x[2]>>]
<1>1. IsFiniteSet(T) BY FS_Product
<1>2. f \in Surjection(T, A \X B \X C)
  <2>1. f \in [T -> A \X B \X C] OBVIOUS
  <2>2. ASSUME NEW y \in A \X B \X C PROVE \E x \in T : f[x] = y
    <3>1. <<<<y[1], y[2]>>, y[3]>> \in T OBVIOUS
    <3>2. f[<<<<y[1], y[2]>>, y[3]>>] = y BY <3>1
    <3>3. QED BY <3>1, <3>2
  <2>3. QED BY <2>1, <2>2 DEF Surjection
<1>3. QED BY <1>1, <1>2, FS_Surjection

\* There are finitely many ways for the priority of a task to change.
LEMMA ChangesAreFinite == IsFiniteSet(Changing) /\ MaxLevels = Cardinality(Changing) + 1
<1>1. IsFiniteSet(AllTasks) BY KernelConstants, FS_AddElement DEF AllTasks
<1>2. IsFiniteSet(0 .. MaxPrio) BY KernelParameters, FS_Interval
<1>3. IsFiniteSet({"down", "up"})
  <2>1. IsFiniteSet({}) BY FS_EmptySet
  <2>2. IsFiniteSet({} \cup {"down"}) BY <2>1, FS_AddElement
  <2>3. IsFiniteSet(({} \cup {"down"}) \cup {"up"}) BY <2>2, FS_AddElement
  <2>4. ({} \cup {"down"}) \cup {"up"} = {"down", "up"} OBVIOUS
  <2>5. QED BY <2>3, <2>4
<1> DEFINE A == AllTasks
           P == 0 .. MaxPrio
           D == {"down", "up"}
<1>4. IsFiniteSet(Changing)
  <2> HIDE DEF A, P, D
  <2>1. IsFiniteSet(A) /\ IsFiniteSet(P) /\ IsFiniteSet(D) BY <1>1, <1>2, <1>3 DEF A, P, D
  <2>2. QED BY <2>1, ProductIsFinite DEF Changing, A, P, D
<1>5. QED BY <1>4 DEF MaxLevels

\* f holds the levels of the chain from c, all in V.
Chain(s, V, c, f) ==
    /\ f \in [0 .. MaxLevels -> V]
    /\ f[0] = c
    /\ \A n \in 1 .. MaxLevels :
         f[n] = IF f[n - 1].next = None THEN f[n - 1] ELSE TaskLevel(s, f[n - 1])
    /\ RecalculateFrom(s, c) = Ended(s, f[MaxLevels])

\* The levels exist, and stay in a set V that every step keeps.
LEMMA ChainRuns ==
    ASSUME NEW s, NEW V, NEW c \in V, \A v \in V : v.next # None => TaskLevel(s, v) \in V
    PROVE  \E f : Chain(s, V, c, f)
<1> DEFINE N == MaxLevels
           F == [n \in 1 .. N |-> [v \in V |-> IF v.next = None THEN v ELSE TaskLevel(s, v)]]
           IsChain(f) == f = [n \in 0 .. N |->
                                IF n = 0 THEN c
                                ELSE IF f[n - 1].next = None THEN f[n - 1]
                                ELSE TaskLevel(s, f[n - 1])]
           chain == CHOOSE f : IsChain(f)
<1>1. N \in Nat BY FS_CardinalityType, ChangesAreFinite
<1>2. \A v \in V : v.next # None => TaskLevel(s, v) \in V OBVIOUS
<1>3. Steps(F, N, V) BY <1>2 DEF Steps
<1> HIDE DEF N
<1>4. \E f : IsChain(f)
  <2>1. PICK f : Run(f, N, V, c, F)
    <3> HIDE DEF F
    <3>1. QED BY <1>1, <1>3, RecursionExists
  <2> USE DEF Run
  <2>2. ASSUME NEW n \in 1 .. N
        PROVE  f[n] = IF f[n - 1].next = None THEN f[n - 1] ELSE TaskLevel(s, f[n - 1])
    <3>1. n - 1 \in 0 .. N BY <1>1
    <3>2. f[n - 1] \in V BY <2>1, <3>1
    <3>3. QED BY <2>1, <3>2
  <2>3. \A n \in 0 .. N : n # 0 => n \in 1 .. N BY <1>1
  <2>4. [n \in 0 .. N |-> f[n]] = [n \in 0 .. N |->
                                     IF n = 0 THEN c
                                     ELSE IF f[n - 1].next = None THEN f[n - 1]
                                     ELSE TaskLevel(s, f[n - 1])]
    <3>1. ASSUME NEW n \in 0 .. N
          PROVE  f[n] = IF n = 0 THEN c
                        ELSE IF f[n - 1].next = None THEN f[n - 1]
                        ELSE TaskLevel(s, f[n - 1])
      BY <2>1, <2>2, <2>3
    <3>2. QED BY <3>1
  <2>5. QED BY <2>1, <2>4
<1>5. IsChain(chain) BY <1>4
<1>6. RecalculateFrom(s, c) = Ended(s, chain[N]) BY DEF RecalculateFrom, N, Ended
<1> HIDE DEF chain
<1>7. chain[0] = c
  <2>1. 0 \in 0 .. N BY <1>1
  <2>2. QED BY <1>5, <2>1
<1>8. ASSUME NEW n \in 1 .. N
      PROVE  chain[n] = IF chain[n - 1].next = None THEN chain[n - 1]
                        ELSE TaskLevel(s, chain[n - 1])
  <2>1. n \in 0 .. N /\ n # 0 BY <1>1
  <2>2. QED BY <1>5, <2>1
<1> DEFINE S == {n \in 0 .. N : chain[n] \in V}
<1>9. 0 \in S BY <1>1, <1>7
<1>10. ASSUME NEW n \in 0 .. N - 1, n \in S PROVE n + 1 \in S
  <2> DEFINE j == n + 1
  <2>1. j \in 0 .. N /\ j \in 1 .. N /\ j - 1 = n BY <1>1
  <2> HIDE DEF j
  <2>2. chain[j] = IF chain[n].next = None THEN chain[n] ELSE TaskLevel(s, chain[n])
    BY <1>8, <2>1
  <2>3. chain[j] \in V BY <2>2, <1>2, <1>10
  <2>4. QED BY <2>1, <2>3 DEF j
<1> HIDE DEF S
<1>11. 0 .. N \subseteq S BY <1>1, <1>9, <1>10, UpToInduction
<1>12. chain \in [0 .. N -> V] BY <1>5, <1>11 DEF S
<1>13. Chain(s, V, c, chain) BY <1>6, <1>7, <1>8, <1>12 DEF N, Chain
<1>14. QED BY <1>13

\* The chain ends in V, whatever its length.
LEMMA ChainWithin ==
    ASSUME NEW s, NEW V, NEW c \in V, \A v \in V : v.next # None => TaskLevel(s, v) \in V
    PROVE  \E end \in V : RecalculateFrom(s, c) = Ended(s, end)
<1>1. MaxLevels \in Nat BY FS_CardinalityType, ChangesAreFinite
<1>2. MaxLevels \in 0 .. MaxLevels BY <1>1
<1>3. PICK f : Chain(s, V, c, f) BY ChainRuns
<1>4. QED BY <1>2, <1>3 DEF Chain

\* W[v] is what may still change after the level v: every step that does not
\* end the chain takes something from it.
Lessens(s, V, W) ==
    \A v \in V : v.next # None =>
        LET w == TaskLevel(s, v)
        IN  w.next # None => W[w] \subseteq W[v] /\ W[w] # W[v]

\* A chain that uses its changes up ends before MaxLevels.
LEMMA ChainEnds ==
    ASSUME NEW s, NEW V, NEW c \in V, \A v \in V : v.next # None => TaskLevel(s, v) \in V,
           NEW W \in [V -> SUBSET Changing], Lessens(s, V, W)
    PROVE  \E end \in V : end.next = None /\ RecalculateFrom(s, c) = Ended(s, end)
<1> DEFINE N == MaxLevels
           C == Cardinality(Changing)
<1>1. C \in Nat /\ N = C + 1 BY FS_CardinalityType, ChangesAreFinite
<1>2. PICK f : Chain(s, V, c, f) BY ChainRuns
<1> HIDE DEF N, C
<1>3. \A v \in V : IsFiniteSet(W[v]) /\ Cardinality(W[v]) \in Nat /\ Cardinality(W[v]) <= C
  BY FS_Subset, FS_CardinalityType, ChangesAreFinite DEF C
<1>4. ASSUME NEW v \in V, NEW w \in V, W[w] \subseteq W[v], W[w] # W[v]
      PROVE  Cardinality(W[w]) < Cardinality(W[v])
  <2>1. /\ Cardinality(W[w]) <= Cardinality(W[v])
        /\ Cardinality(W[w]) # Cardinality(W[v])
    BY <1>3, <1>4, FS_Subset
  <2>2. QED BY <2>1, <1>3
<1> DEFINE S == {n \in 0 .. N : f[n].next = None \/ Cardinality(W[f[n]]) + n <= C}
<1>5. 0 \in S
  <2>1. f[0] \in V BY <1>2 DEF Chain
  <2>2. QED BY <2>1, <1>1, <1>3
<1>6. ASSUME NEW n \in 0 .. N - 1, n \in S PROVE n + 1 \in S
  <2> DEFINE j == n + 1
  <2>1. j \in 0 .. N /\ j \in 1 .. N /\ j - 1 = n /\ n \in 0 .. N /\ n \in Nat BY <1>1
  <2>2. f[j] = IF f[n].next = None THEN f[n] ELSE TaskLevel(s, f[n])
    <3> HIDE DEF j
    <3>1. QED BY <1>2, <2>1 DEF Chain, N
  <2>3. CASE f[n].next = None
    <3> HIDE DEF j
    <3>1. QED BY <2>1, <2>2, <2>3 DEF j
  <2>4. CASE f[n].next # None
    <3>1. f[n] \in V /\ f[j] \in V
      <4> HIDE DEF j
      <4>1. QED BY <1>2, <2>1 DEF Chain, N
    <3>2. Cardinality(W[f[n]]) + n <= C BY <1>6, <2>4
    <3>3. CASE f[j].next = None BY <2>1, <3>3
    <3>4. CASE f[j].next # None
      <4>1. f[j] = TaskLevel(s, f[n]) BY <2>2, <2>4
      <4>2. W[f[j]] \subseteq W[f[n]] /\ W[f[j]] # W[f[n]]
        <5> HIDE DEF j
        <5>1. QED BY <2>4, <3>1, <3>4, <4>1 DEF Lessens
      <4>3. Cardinality(W[f[j]]) < Cardinality(W[f[n]]) BY <1>4, <3>1, <4>2
      <4>4. Cardinality(W[f[j]]) + j <= C BY <1>1, <1>3, <2>1, <3>1, <3>2, <4>3
      <4>5. QED BY <2>1, <4>4
    <3>5. QED BY <3>3, <3>4
  <2>5. QED BY <2>3, <2>4
<1>7. N \in 0 .. N /\ N \in Nat BY <1>1
<1>8. N \in S
  <2> HIDE DEF S
  <2>1. 0 .. N \subseteq S BY <1>5, <1>6, <1>7, UpToInduction
  <2>2. QED BY <1>7, <2>1
<1>9. f[N] \in V BY <1>2, <1>7 DEF Chain, N
<1>10. f[N].next = None BY <1>1, <1>3, <1>7, <1>8, <1>9
<1>11. QED BY <1>2, <1>9, <1>10 DEF Chain, N

\* Every level of a chain has its type.
LEMMA ChainType ==
    ASSUME NEW s, KData(s), NEW c \in Levels(s)
    PROVE  \E end \in Levels(s) :
             RecalculateFrom(s, c) =
               [s EXCEPT !.prio = end.prio, !.mprio = end.mprio, !.need = end.need]
<1>1. \A v \in Levels(s) : v.next # None => TaskLevel(s, v) \in Levels(s) BY TaskLevelType
<1>2. \E end \in Levels(s) : RecalculateFrom(s, c) = Ended(s, end) BY <1>1, ChainWithin
<1>3. QED BY <1>2 DEF Ended

\* The chain changes priorities and asks for a reschedule, no more.
LEMMA RecalculateKeeps ==
    ASSUME NEW s, KData(s), NEW c \in Levels(s)
    PROVE  KData(RecalculateFrom(s, c)) /\ Grows(s, RecalculateFrom(s, c))
<1> DEFINE r == RecalculateFrom(s, c)
<1>1. PICK end \in Levels(s) :
        r = [s EXCEPT !.prio = end.prio, !.mprio = end.mprio, !.need = end.need]
  BY ChainType
<1>2. Shaped(s) /\ DataInv(s) /\ ListType(s) /\ WaiterInv(s) /\ OwnerType(s) BY DEF KData
<1>3. /\ Changes(s, r, Inherited)
      /\ r.prio = end.prio /\ r.mprio = end.mprio /\ r.need = end.need
  BY <1>1, <1>2 DEF Shaped, Fields, Changes, Inherited
<1> HIDE DEF r
<1>4. /\ Shaped(r)
      /\ \A f \in Fields \ {"prio", "mprio", "need"} : r[f] = s[f]
  BY <1>3 DEF Changes, Inherited
<1>5. ListType(r) /\ OwnerType(r) BY <1>2, <1>4 DEF Fields, ListType, OwnerType
<1>6. r.list = s.list /\ r.waiter = s.waiter /\ r.groups = s.groups BY <1>4 DEF Fields
<1>7. WaiterInv(r) BY <1>2, <1>6, WaiterFrame DEF Linked
<1>8. DataInv(r) BY <1>2, <1>3, <1>4 DEF DataInv, Levels, Fields
<1>9. Grows(s, r) BY <1>3, <1>6 DEF Grows, Present, Linked, Levels
<1>10. QED BY <1>4, <1>5, <1>7, <1>8, <1>9 DEF KData, r

\* The chain that begins at a task.
LEMMA TaskRecalculateKeeps ==
    ASSUME NEW s, KData(s), NEW t \in AllTasks
    PROVE  KData(TaskRecalculatePrio(s, t)) /\ Grows(s, TaskRecalculatePrio(s, t))
<1>1. Level(s, t) \in Levels(s) BY DEF KData, DataInv, Level, Levels, OrNone
<1>2. QED BY <1>1, RecalculateKeeps DEF TaskRecalculatePrio

\* The chain that begins at a lock.
LEMMA MutexRecalculateKeeps ==
    ASSUME NEW s, KData(s), NEW m \in Mutexes
    PROVE  KData(MutexRecalculatePrio(s, m)) /\ Grows(s, MutexRecalculatePrio(s, m))
<1>1. Level(s, None) \in Levels(s) BY DEF KData, DataInv, Level, Levels, OrNone
<1>2. QED BY <1>1, MutexLevelType, RecalculateKeeps DEF MutexRecalculatePrio

\* An operation that changes other fields only.
LEMMA KInvFrame ==
    ASSUME NEW s, NEW r, NEW F, KInv(s), Changes(s, r, F), DataInv(r),
           F \subseteq Fields \ {"list", "lock", "wait", "waiter", "groups",
                                 "master", "owned", "deep"}
    PROVE  KInv(r)
<1>1. /\ r.list = s.list /\ r.lock = s.lock /\ r.wait = s.wait
      /\ r.waiter = s.waiter /\ r.groups = s.groups
      /\ r.master = s.master /\ r.owned = s.owned /\ r.deep = s.deep
  BY DEF Changes, Fields
<1>2. ListInv(r) /\ WaiterInv(r) /\ OwnerInv(r)
  BY <1>1, ListFrame, WaiterFrame, OwnerFrame DEF KInv, Linked
<1>3. QED BY <1>2 DEF KInv, Changes

-----------------------------------------------------------------------------
(***************************************************************************)
(* The scheduler: the task that runs is ready, or the idle task.           *)
(***************************************************************************)
LEMMA PolicyChoice ==
    ASSUME NEW s, Separate(s.list)
    PROVE  TaskPolicy(s) \in Range(s.list[Active]) \cup {Idle} /\ TaskPolicy(s) \in AllTasks
<1> DEFINE l == s.list[Active]
           Best(i) == /\ s.prio[l[i]] > s.prio[Idle]
                      /\ \A j \in DOMAIN l : /\ s.prio[l[j]] <= s.prio[l[i]]
                                             /\ j < i => s.prio[l[j]] < s.prio[l[i]]
           best == CHOOSE i \in DOMAIN l : Best(i)
<1>1. l \in Seq(AllTasks) BY HeadsDiffer DEF Separate
<1>2. DOMAIN l = 1 .. Len(l) BY <1>1, LenProperties
<1>3. TaskPolicy(s) = IF \E i \in DOMAIN l : Best(i) THEN l[best] ELSE Idle
  BY DEF TaskPolicy
<1> HIDE DEF Best
<1>4. (\E i \in DOMAIN l : Best(i)) => best \in DOMAIN l OBVIOUS
<1> HIDE DEF best
<1>5. (\E i \in DOMAIN l : Best(i)) => l[best] \in Range(l) /\ l[best] \in AllTasks
  BY <1>1, <1>2, <1>4, LineElement
<1>6. QED BY <1>3, <1>5 DEF AllTasks

\* task_schedule (main.c:35-48) picks a ready task.
LEMMA ScheduleKeeps ==
    ASSUME NEW s, KInv(s)
    PROVE  LET r == TaskSchedule(s)
           IN  /\ KInv(r) /\ r.list = s.list
               /\ Idle \in Range(s.list[Active]) => r.current \in Range(r.list[Active])
<1> DEFINE r == TaskSchedule(s)
<1>1. Shaped(s) /\ DataInv(s) /\ Separate(s.list) BY DEF KInv, ListInv
<1>2. r.current = TaskPolicy(s) /\ r.need = FALSE
  BY <1>1 DEF TaskSchedule, Shaped, Fields
<1>3. Changes(s, r, {"current", "need"}) BY <1>1, ScheduleShape
<1> HIDE DEF r
<1>4. r.list = s.list BY <1>3 DEF Changes, Fields
<1>5. DataInv(r)
  <2>1. r.current \in AllTasks /\ r.need \in BOOLEAN BY <1>1, <1>2, PolicyChoice
  <2>2. \A f \in Fields \ {"current", "need"} : r[f] = s[f] BY <1>3 DEF Changes
  <2>3. QED BY <2>1, <2>2, <1>1 DEF DataInv, Fields
<1>6. KInv(r) BY <1>3, <1>5, KInvFrame DEF Fields
<1>7. QED BY <1>1, <1>2, <1>4, <1>6, PolicyChoice DEF r

\* The test of task_need_schedule at the end of a call (mutex.c:223-224).
LEMMA ScheduleIfNeededKeeps ==
    ASSUME NEW s, KInv(s)
    PROVE  LET r == ScheduleIfNeeded(s)
           IN  /\ KInv(r) /\ r.list = s.list
               /\ /\ Idle \in Range(s.list[Active])
                  /\ s.current \in Range(s.list[Active]) \/ s.need
                  => r.current \in Range(r.list[Active])
BY ScheduleKeeps DEF ScheduleIfNeeded

-----------------------------------------------------------------------------
(***************************************************************************)
(* Locks change hands.                                                     *)
(***************************************************************************)
\* The current task has m, as deep as n, and no other task got a lock.
Taken(s, r, m, n) ==
    /\ r.master = [s.master EXCEPT ![m] = s.current]
    /\ r.deep = [s.deep EXCEPT ![m] = n]
    /\ \A u \in AllTasks : u # s.current => r.owned[u] = s.owned[u]

\* mutex_lock of a free lock (mutex.c:78-93), n deep.
LEMMA AcquireKeeps ==
    ASSUME NEW s, KInv(s), NEW m \in Mutexes, s.master[m] = None, s.current \in Tasks,
           NEW n \in 1 .. MaxDeep
    PROVE  LET r == [AcquireMutex(s, m) EXCEPT !.deep[m] = n]
           IN  /\ KInv(r)
               /\ Changes(s, r, {"master", "owned", "prio", "deep"})
               /\ Taken(s, r, m, n)
<1> DEFINE t == s.current
           q == AcquireMutex(s, m)
           r == [q EXCEPT !.deep[m] = n]
<1>1. /\ Shaped(s) /\ DataInv(s) /\ ListInv(s) /\ WaiterInv(s) /\ OwnerInv(s) /\ OwnerType(s)
      /\ OwnedByMaster(s)
  BY DEF KInv, OwnerInv
<1>2. t \in AllTasks BY DEF AllTasks
<1>3. /\ Changes(s, q, {"master", "owned", "prio"})
      /\ q.master = [s.master EXCEPT ![m] = t]
      /\ q.owned = [s.owned EXCEPT ![t] = Appended(@, m)]
      /\ q.prio = [s.prio EXCEPT ![t] = IF @ < s.mprio[m] THEN s.mprio[m] ELSE @]
  BY <1>1, AcquireShape DEF AcquireMutex, Shaped, Fields, Appended
<1> HIDE DEF q
<1>4. /\ Changes(q, r, {"deep"}) /\ r.deep = [s.deep EXCEPT ![m] = n]
      /\ r.master = q.master /\ r.owned = q.owned /\ r.prio = q.prio
  BY <1>3 DEF Shaped, Fields, Changes
<1>5. Changes(s, r, {"master", "owned", "prio", "deep"}) BY <1>3, <1>4 DEF Changes
<1> HIDE DEF r
<1>6. m \notin Range(s.owned[t])
  <2>1. t # None BY <1>2, KernelConstants
  <2>2. QED BY <2>1, <1>1, <1>2 DEF OwnedByMaster
<1>7. Line(Appended(s.owned[t], m), Mutexes)
      /\ Range(Appended(s.owned[t], m)) = Range(s.owned[t]) \cup {m}
  <2>1. Line(s.owned[t], Mutexes) BY <1>1, <1>2 DEF Line, OwnedByMaster, OwnerType
  <2>2. QED BY <2>1, <1>6, AppendLine
<1>8. \A u \in AllTasks : r.owned[u] = IF u = t THEN Appended(s.owned[t], m) ELSE s.owned[u]
  BY <1>1, <1>2, <1>3, <1>4 DEF OwnerType
<1>9. OwnerInv(r)
  <2>1. r.master \in [Mutexes -> OrNone(Tasks)] /\ r.deep \in [Mutexes -> 0 .. MaxDeep]
    BY <1>1, <1>3, <1>4, KernelParameters DEF OwnerType, OrNone
  <2>2. r.owned \in [AllTasks -> Seq(Mutexes)]
    <3>1. Appended(s.owned[t], m) \in Seq(Mutexes) BY <1>7 DEF Line
    <3>2. r.owned = [u \in AllTasks |-> r.owned[u]] BY <1>1, <1>3, <1>4 DEF OwnerType
    <3>3. \A u \in AllTasks : r.owned[u] \in Seq(Mutexes) BY <3>1, <1>1, <1>8 DEF OwnerType
    <3>4. QED BY <3>2, <3>3
  <2>3. OwnedByMaster(r)
    <3> SUFFICES ASSUME NEW u \in AllTasks
                 PROVE  /\ \A x \in Mutexes : r.master[x] = u <=> x \in Range(r.owned[u])
                        /\ IsInjective(r.owned[u])
      BY DEF OwnedByMaster
    <3>1. u # None BY KernelConstants
    <3>2. \A x \in Mutexes : r.master[x] = IF x = m THEN t ELSE s.master[x]
      BY <1>1, <1>3, <1>4 DEF OwnerType
    <3>3. /\ \A x \in Mutexes : s.master[x] = u <=> x \in Range(s.owned[u])
          /\ IsInjective(s.owned[u])
      BY <1>1 DEF OwnedByMaster
    <3>4. CASE u = t BY <3>2, <3>3, <3>4, <1>7, <1>8 DEF Line
    <3>5. CASE u # t BY <3>1, <3>2, <3>3, <3>5, <1>8
    <3>6. QED BY <3>4, <3>5
  <2>4. \A x \in Mutexes : r.master[x] = None <=> r.deep[x] = 0
    <3>1. t # None /\ n # 0 BY <1>2, KernelConstants, KernelParameters
    <3>2. QED BY <3>1, <1>1, <1>3, <1>4 DEF OwnerInv, OwnerType
  <2>5. QED BY <2>1, <2>2, <2>3, <2>4 DEF OwnerInv, OwnerType
<1>10. /\ r.list = s.list /\ r.lock = s.lock /\ r.wait = s.wait
       /\ r.waiter = s.waiter /\ r.groups = s.groups
  BY <1>5 DEF Changes, Fields
<1>11. ListInv(r) /\ WaiterInv(r)
  BY <1>1, <1>10, ListFrame, WaiterFrame DEF Linked
<1>12. DataInv(r)
  <2>1. r.prio \in [AllTasks -> Prios] BY <1>1, <1>3, <1>4 DEF DataInv
  <2>2. QED BY <2>1, <1>1, <1>5 DEF DataInv, Changes, Fields
<1>13. KInv(r) BY <1>5, <1>9, <1>11, <1>12 DEF KInv, Changes
<1>14. \A u \in AllTasks : u # t => r.owned[u] = s.owned[u] BY <1>8
<1>15. QED BY <1>3, <1>4, <1>5, <1>13, <1>14 DEF r, q, Taken

\* The depth of a lock that has a master changes.
LEMMA DeepKeeps ==
    ASSUME NEW s, KInv(s), NEW m \in Mutexes, s.master[m] # None, NEW n \in 1 .. MaxDeep
    PROVE  LET r == [s EXCEPT !.deep[m] = n]
           IN  KInv(r) /\ Changes(s, r, {"deep"}) /\ r.deep = [s.deep EXCEPT ![m] = n]
<1> DEFINE r == [s EXCEPT !.deep[m] = n]
<1>1. Shaped(s) /\ DataInv(s) /\ ListInv(s) /\ WaiterInv(s) /\ OwnerInv(s) /\ OwnerType(s)
  BY DEF KInv, OwnerInv
<1>2. Changes(s, r, {"deep"}) /\ r.deep = [s.deep EXCEPT ![m] = n]
  BY <1>1 DEF Shaped, Fields, Changes
<1> HIDE DEF r
<1>3. /\ r.list = s.list /\ r.lock = s.lock /\ r.wait = s.wait
      /\ r.waiter = s.waiter /\ r.groups = s.groups
      /\ r.master = s.master /\ r.owned = s.owned
  BY <1>2 DEF Changes, Fields
<1>4. ListInv(r) /\ WaiterInv(r) BY <1>1, <1>3, ListFrame, WaiterFrame DEF Linked
<1>5. DataInv(r) BY <1>1, <1>2 DEF DataInv, Changes, Fields
<1>6. OwnerInv(r)
  <2>1. r.deep \in [Mutexes -> 0 .. MaxDeep] BY <1>1, <1>2, KernelParameters DEF OwnerType
  <2>2. n # 0 BY KernelParameters
  <2>3. \A x \in Mutexes : r.master[x] = None <=> r.deep[x] = 0
    BY <2>2, <1>1, <1>2, <1>3 DEF OwnerInv, OwnerType
  <2>4. OwnedByMaster(r) BY <1>1, <1>3 DEF OwnedByMaster, OwnerInv
  <2>5. QED BY <2>1, <2>3, <2>4, <1>1, <1>3 DEF OwnerInv, OwnerType
<1>7. QED BY <1>2, <1>4, <1>5, <1>6 DEF KInv, Changes, r

\* mutex_lock of a free lock or of one the caller has (mutex.c:78-96).
LEMMA LockKeeps ==
    ASSUME NEW s, KInv(s), NEW m \in Mutexes, s.current \in Tasks,
           s.master[m] \in {None, s.current}, s.master[m] = None \/ s.deep[m] < MaxDeep
    PROVE  LET r == LockMutex(s, m)
           IN  /\ KInv(r)
               /\ Changes(s, r, {"master", "owned", "prio", "deep"})
               /\ Taken(s, r, m, s.deep[m] + 1)
<1>1. Shaped(s) /\ OwnerInv(s) /\ OwnerType(s) /\ s.deep[m] \in 0 .. MaxDeep
  BY DEF KInv, OwnerInv, OwnerType
<1>2. CASE s.master[m] = None
  <2> DEFINE q == AcquireMutex(s, m)
  <2>1. s.deep[m] = 0 BY <1>1, <1>2 DEF OwnerInv
  <2>2. q.deep = s.deep BY <1>1, AcquireShape DEF Changes, Fields
  <2>3. LockMutex(s, m) = [q EXCEPT !.deep[m] = @ + 1] BY <1>2 DEF LockMutex
  <2> HIDE DEF q
  <2>4. LockMutex(s, m) = [q EXCEPT !.deep[m] = 1] BY <2>1, <2>2, <2>3
  <2>5. 1 \in 1 .. MaxDeep /\ s.deep[m] + 1 = 1 BY <2>1, KernelParameters
  <2>6. QED BY <2>4, <2>5, <1>2, AcquireKeeps DEF q
<1>3. CASE s.master[m] # None
  <2>1. LockMutex(s, m) = [s EXCEPT !.deep[m] = s.deep[m] + 1] BY <1>3 DEF LockMutex
  <2>2. s.deep[m] + 1 \in 1 .. MaxDeep BY <1>1, <1>3, KernelParameters
  <2> DEFINE r == LockMutex(s, m)
  <2>3. /\ KInv(r) /\ Changes(s, r, {"deep"})
        /\ r.deep = [s.deep EXCEPT ![m] = s.deep[m] + 1]
    BY <2>1, <2>2, <1>3, DeepKeeps
  <2> HIDE DEF r
  <2>4. r.master = s.master /\ r.owned = s.owned BY <2>3 DEF Changes, Fields
  <2>5. s.master = [s.master EXCEPT ![m] = s.current] BY <1>1, <1>3 DEF OwnerType
  <2>6. Changes(s, r, {"master", "owned", "prio", "deep"}) BY <2>3 DEF Changes
  <2>7. QED BY <2>3, <2>4, <2>5, <2>6 DEF r, Taken
<1>4. QED BY <1>2, <1>3

\* Nobody has m, and no task that had no lock has one now.
Disowned(s, r, m) ==
    /\ r.master = [s.master EXCEPT ![m] = None]
    /\ r.deep = [s.deep EXCEPT ![m] = 0]
    /\ \A u \in AllTasks : s.owned[u] = <<>> => r.owned[u] = <<>>

\* mutex_unlock, up to the loss of the lock (mutex.c:187-202).
LEMMA DisownKeeps ==
    ASSUME NEW s, KInv(s), NEW m \in Mutexes, s.master[m] # None
    PROVE  LET r == DisownMutex(s, m)
           IN  /\ KInv(r) /\ Grows(s, r)
               /\ Changes(s, r, Inherited \cup {"deep", "owned", "master"})
               /\ Disowned(s, r, m)
<1> DEFINE t == s.master[m]
           q == Unowned(s, t, m)
           p == IF s.prio[t] <= s.mprio[m] /\ s.base[t] < s.mprio[m]
                THEN TaskRecalculatePrio(q, t) ELSE q
           r == DisownMutex(s, m)
<1>1. /\ Shaped(s) /\ DataInv(s) /\ ListInv(s) /\ WaiterInv(s) /\ OwnerInv(s) /\ OwnerType(s)
      /\ OwnedByMaster(s)
  BY DEF KInv, OwnerInv
<1>2. t \in Tasks /\ t \in AllTasks BY <1>1 DEF OwnerType, OrNone, AllTasks
<1>3. /\ Changes(s, q, {"deep", "owned"})
      /\ q.deep = [s.deep EXCEPT ![m] = 0]
      /\ q.owned = [s.owned EXCEPT ![t] = Unlinked(@, m)]
  BY <1>1 DEF Unowned, Shaped, Fields, Changes
<1>4. r = [p EXCEPT !.master[m] = None] BY DEF DisownMutex
<1> HIDE DEF q
<1>5. /\ Line(Unlinked(s.owned[t], m), Mutexes)
      /\ Range(Unlinked(s.owned[t], m)) = Range(s.owned[t]) \ {m}
  <2>1. Line(s.owned[t], Mutexes) BY <1>1, <1>2 DEF Line, OwnedByMaster, OwnerType
  <2>2. QED BY <2>1, UnlinkedLine
<1>6. \A u \in AllTasks : q.owned[u] = IF u = t THEN Unlinked(s.owned[t], m) ELSE s.owned[u]
  BY <1>1, <1>2, <1>3 DEF OwnerType
<1>7. KData(q)
  <2>1. /\ q.list = s.list /\ q.lock = s.lock /\ q.wait = s.wait
        /\ q.waiter = s.waiter /\ q.groups = s.groups /\ q.master = s.master
    BY <1>3 DEF Changes, Fields
  <2>2. ListType(q) /\ WaiterInv(q)
    BY <1>1, <2>1, WaiterFrame DEF Linked, ListInv, ListType
  <2>3. DataInv(q) BY <1>1, <1>3 DEF DataInv, Changes, Fields
  <2>4. q.deep \in [Mutexes -> 0 .. MaxDeep] BY <1>1, <1>3, KernelParameters DEF OwnerType
  <2>5. q.owned \in [AllTasks -> Seq(Mutexes)]
    <3>1. q.owned = [u \in AllTasks |-> q.owned[u]] BY <1>1, <1>3 DEF OwnerType
    <3>2. Unlinked(s.owned[t], m) \in Seq(Mutexes) BY <1>5 DEF Line
    <3>3. \A u \in AllTasks : q.owned[u] \in Seq(Mutexes) BY <3>2, <1>1, <1>6 DEF OwnerType
    <3>4. QED BY <3>1, <3>3
  <2>6. QED BY <2>1, <2>2, <2>3, <2>4, <2>5, <1>1, <1>3 DEF KData, OwnerType, Changes
<1>8. Grows(s, q) BY <1>3 DEF Grows, Present, Linked, Changes, Fields
<1>9. KData(p) /\ Grows(q, p) /\ Changes(q, p, Inherited)
  <2> DEFINE e == TaskRecalculatePrio(q, t)
  <2>1. KData(e) /\ Grows(q, e) BY <1>2, <1>7, TaskRecalculateKeeps
  <2>2. Changes(q, e, Inherited) BY <1>3, TaskRecalculateShape DEF Changes
  <2>3. Grows(q, q) /\ Changes(q, q, Inherited) BY <1>3 DEF Grows, Changes
  <2> HIDE DEF e
  <2>4. p = e \/ p = q BY DEF e
  <2>5. QED BY <2>1, <2>2, <2>3, <2>4, <1>7
<1> HIDE DEF p
<1>10. Changes(p, r, {"master"}) /\ r.master = [p.master EXCEPT ![m] = None]
  BY <1>4, <1>9 DEF Shaped, Fields, Changes
<1> HIDE DEF r
<1>11. /\ Changes(s, r, Inherited \cup {"deep", "owned", "master"})
       /\ r.master = [s.master EXCEPT ![m] = None]
       /\ r.deep = [s.deep EXCEPT ![m] = 0]
       /\ r.owned = q.owned
  BY <1>3, <1>9, <1>10 DEF Changes, Fields, Inherited
<1>12. /\ r.list = p.list /\ r.lock = p.lock /\ r.wait = p.wait /\ r.need = p.need
       /\ r.waiter = p.waiter /\ r.groups = p.groups
  BY <1>10 DEF Changes, Fields
<1>13. Grows(s, r)
  <2>1. Grows(p, r) BY <1>12 DEF Grows, Present, Linked
  <2>2. QED BY <2>1, <1>8, <1>9, GrowsTrans
<1>14. ListInv(r) /\ WaiterInv(r)
  <2>1. r.list = s.list /\ r.lock = s.lock /\ r.wait = s.wait
    BY <1>3, <1>9, <1>12 DEF Changes, Fields, Inherited
  <2>2. QED BY <1>1, <1>9, <1>12, <2>1, ListFrame, WaiterFrame DEF KData, Linked
<1>15. DataInv(r) BY <1>9, <1>10 DEF KData, DataInv, Changes, Fields
<1>16. OwnerInv(r)
  <2>1. OwnerType(r) BY <1>1, <1>7, <1>11, KernelParameters DEF KData, OwnerType, OrNone
  <2>2. OwnedByMaster(r)
    <3> SUFFICES ASSUME NEW u \in AllTasks
                 PROVE  /\ \A x \in Mutexes : r.master[x] = u <=> x \in Range(r.owned[u])
                        /\ IsInjective(r.owned[u])
      BY DEF OwnedByMaster
    <3>1. u # None BY KernelConstants
    <3>2. \A x \in Mutexes : r.master[x] = IF x = m THEN None ELSE s.master[x]
      BY <1>1, <1>11 DEF OwnerType
    <3>3. /\ \A x \in Mutexes : s.master[x] = u <=> x \in Range(s.owned[u])
          /\ IsInjective(s.owned[u])
      BY <1>1 DEF OwnedByMaster
    <3>4. CASE u = t BY <3>1, <3>2, <3>3, <3>4, <1>5, <1>6, <1>11 DEF Line
    <3>5. CASE u # t BY <3>1, <3>2, <3>3, <3>5, <1>6, <1>11
    <3>6. QED BY <3>4, <3>5
  <2>3. \A x \in Mutexes : r.master[x] = None <=> r.deep[x] = 0
    BY <1>1, <1>11 DEF OwnerInv, OwnerType
  <2>4. QED BY <2>1, <2>2, <2>3 DEF OwnerInv
<1>17. KInv(r) BY <1>11, <1>14, <1>15, <1>16 DEF KInv, Changes
<1>18. \A u \in AllTasks : s.owned[u] = <<>> => r.owned[u] = <<>>
  <2>1. m \in Range(s.owned[t]) BY <1>1, <1>2 DEF OwnedByMaster
  <2>2. s.owned[t] # <<>> BY <2>1, EmptyLine
  <2>3. QED BY <2>2, <1>6, <1>11
<1>19. QED BY <1>11, <1>13, <1>17, <1>18 DEF r, Disowned

\* Every task that was blocked on m is ready, and blocked no more.
LEMMA SlavesActivatedKeeps ==
    ASSUME NEW s, KInv(s), NEW m \in Mutexes
    PROVE  LET r == SlavesActivated(s, m)
           IN  /\ KInv(r) /\ Grows(s, r)
               /\ \A t \in AllTasks : r.lock[t] = IF s.lock[t] = m THEN None ELSE s.lock[t]
<1> DEFINE w == s.list[Slaves(m)]
           q == Moved(s, Slaves(m))
           r == SlavesActivated(s, m)
<1>1. Shaped(s) /\ DataInv(s) /\ ListInv(s) /\ WaiterInv(s) /\ OwnerInv(s) BY DEF KInv
<1>2. /\ Changes(s, q, {"list", "need"})
      /\ Separate(q.list)
      /\ Range(q.list[Active]) = Range(s.list[Active]) \cup Range(w)
      /\ Range(q.list[Slaves(m)]) = {}
      /\ \A h \in Heads \ {Slaves(m), Active} : Range(q.list[h]) = Range(s.list[h])
      /\ s.need => q.need
  BY <1>1, MovedLists, HeadsDiffer DEF ListInv
<1>3. r = [q EXCEPT !.lock = [t \in AllTasks |-> IF t \in Range(w) THEN None ELSE @[t]]]
  BY DEF SlavesActivated, Moved, Emptied
<1>4. q.need \in BOOLEAN
  BY <1>1 DEF DataInv, Moved, TaskActivate, Emptied, Shaped, Fields
<1> HIDE DEF q, w
<1>5. /\ Changes(q, r, {"lock"})
      /\ r.lock = [t \in AllTasks |-> IF t \in Range(w) THEN None ELSE s.lock[t]]
  <2>1. Shaped(q) /\ q.lock = s.lock BY <1>2 DEF Changes, Fields
  <2>2. Changes(q, r, {"lock"}) BY <2>1, <1>3 DEF Shaped, Fields, Changes
  <2>3. r.lock = [t \in AllTasks |-> IF t \in Range(w) THEN None ELSE q.lock[t]]
    BY <2>1, <1>3 DEF Shaped, Fields
  <2>4. QED BY <2>1, <2>2, <2>3
<1> HIDE DEF r
<1>6. /\ Shaped(r) /\ r.list = q.list /\ r.need = q.need
      /\ \A f \in Fields \ {"list", "need", "lock"} : r[f] = s[f]
  BY <1>2, <1>5 DEF Changes, Fields
<1>7. \A t \in AllTasks, n \in Mutexes : s.lock[t] = n <=> t \in Range(s.list[Slaves(n)])
  BY <1>1 DEF ListInv, LinkedWhereBlocked
<1>8. \A t \in AllTasks : r.lock[t] = IF s.lock[t] = m THEN None ELSE s.lock[t]
  BY <1>5, <1>7 DEF w
<1>9. ListInv(r)
  <2>1. \A n \in Mutexes :
          /\ Range(r.list[Waiters(n)]) = Range(s.list[Waiters(n)])
          /\ n # m => Range(r.list[Slaves(n)]) = Range(s.list[Slaves(n)])
    BY <1>2, <1>6, HeadsDiffer
  <2>2. r.wait = s.wait BY <1>6 DEF Fields
  <2>3. r.lock \in [AllTasks -> OrNone(Mutexes)] BY <1>1, <1>5 DEF ListInv, OrNone
  <2>4. \A t \in AllTasks, n \in Mutexes : r.lock[t] = n <=> t \in Range(r.list[Slaves(n)])
    <3> SUFFICES ASSUME NEW t \in AllTasks, NEW n \in Mutexes
                 PROVE  r.lock[t] = n <=> t \in Range(r.list[Slaves(n)])
      OBVIOUS
    <3>1. n # None BY KernelConstants
    <3>2. CASE n = m BY <3>1, <3>2, <1>2, <1>6, <1>8
    <3>3. CASE n # m BY <3>1, <3>3, <2>1, <1>7, <1>8
    <3>4. QED BY <3>2, <3>3
  <2>5. QED BY <2>1, <2>2, <2>3, <2>4, <1>1, <1>2, <1>6 DEF ListInv, LinkedWhereBlocked
<1>10. \A t \in AllTasks : Linked(r, t) => Linked(s, t)
  <2> SUFFICES ASSUME NEW t \in AllTasks, NEW h \in Heads, t \in Range(r.list[h])
               PROVE  \E h2 \in Heads : t \in Range(s.list[h2])
    BY DEF Linked
  <2>1. CASE h = Active BY <2>1, <1>2, <1>6, HeadsDiffer DEF w
  <2>2. CASE h # Active BY <2>2, <1>2, <1>6
  <2>3. QED BY <2>1, <2>2
<1>11. WaiterInv(r) BY <1>1, <1>6, <1>10, WaiterFrame DEF Fields
<1>12. OwnerInv(r) BY <1>1, <1>6, OwnerFrame DEF Fields
<1>13. DataInv(r)
  <2>1. r.need \in BOOLEAN BY <1>4, <1>6
  <2>2. QED BY <2>1, <1>1, <1>6 DEF DataInv, Fields
<1>14. Grows(s, r)
  <2>1. r.waiter = s.waiter BY <1>6 DEF Fields
  <2>2. QED BY <2>1, <1>2, <1>6, <1>10 DEF Grows, Present
<1>15. QED BY <1>6, <1>8, <1>9, <1>11, <1>12, <1>13, <1>14 DEF KInv, r

\* The fast handler clears the pending flag and may unmask (mutex.c:205-209).
LEMMA HandlerKeeps ==
    ASSUME NEW s, KInv(s), NEW i \in Irqs, NEW outcome \in Outcomes
    PROVE  KInv(HandlerCalled(s, i, outcome)) /\ Grows(s, HandlerCalled(s, i, outcome))
<1> DEFINE r == HandlerCalled(s, i, outcome)
<1>1. Shaped(s) /\ DataInv(s) BY DEF KInv
<1>2. /\ r.pending = [s.pending EXCEPT ![i] = FALSE]
      /\ r.allowed = [s.allowed EXCEPT ![i] = @ \/ outcome.allow]
  BY <1>1 DEF HandlerCalled, Shaped, Fields
<1>3. Changes(s, r, {"pending", "allowed"}) BY <1>1, HandlerShape
<1> HIDE DEF r
<1>4. outcome.allow \in BOOLEAN BY DEF Outcomes
<1>5. r.pending \in [Irqs -> BOOLEAN] /\ r.allowed \in [Irqs -> BOOLEAN]
  BY <1>1, <1>2, <1>4 DEF DataInv
<1>6. DataInv(r) BY <1>1, <1>3, <1>5 DEF DataInv, Changes, Fields
<1>7. KInv(r) BY <1>3, <1>6, KInvFrame DEF Fields
<1>8. Grows(s, r) BY <1>3 DEF Grows, Present, Linked, Changes, Fields
<1>9. QED BY <1>7, <1>8 DEF r

\* The pending interrupt of a lock that is released (mutex.c:204-211).
LEMMA PendingKeeps ==
    ASSUME NEW s, KInv(s), NEW m \in Mutexes, NEW outcome \in Outcomes
    PROVE  KInv(PendingServed(s, m, outcome)) /\ Grows(s, PendingServed(s, m, outcome))
<1> DEFINE q == HandlerCalled(s, s.irq[m], outcome)
<1>1. CASE s.irq[m] = None \/ ~s.pending[s.irq[m]] BY <1>1 DEF PendingServed, Grows
<1>2. CASE s.irq[m] # None /\ s.pending[s.irq[m]]
  <2>1. s.irq[m] \in Irqs BY <1>2 DEF KInv, DataInv, OrNone
  <2>2. KInv(q) /\ Grows(s, q) BY <2>1, HandlerKeeps
  <2>3. PendingServed(s, m, outcome) \in {q, MutexActivate(q, m, None)}
    BY <1>2 DEF PendingServed
  <2> HIDE DEF q
  <2>4. None \in OrNone(Messages) BY DEF OrNone
  <2> DEFINE a == MutexActivate(q, m, None)
  <2>5. KInv(a) /\ Grows(q, a) BY <2>2, <2>4, MutexActivateKeeps
  <2> HIDE DEF a
  <2>6. QED BY <2>2, <2>3, <2>5, GrowsTrans DEF a
<1>3. QED BY <1>1, <1>2

\* The tasks blocked on a lock that is released (mutex.c:213-221).
LEMMA SlavesReleasedKeeps ==
    ASSUME NEW s, KInv(s), NEW m \in Mutexes
    PROVE  LET r == SlavesReleased(s, m)
           IN  /\ KInv(r) /\ Grows(s, r)
               /\ \A t \in AllTasks : r.lock[t] = IF s.lock[t] = m THEN None ELSE s.lock[t]
<1> DEFINE q == SlavesActivated(s, m)
           p == [q EXCEPT !.mprio[m] = 0]
<1>1. CASE s.list[Slaves(m)] = <<>>
  <2>1. Range(s.list[Slaves(m)]) = {} BY <1>1, EmptyLine
  <2>2. \A t \in AllTasks : s.lock[t] # m
    BY <2>1 DEF KInv, ListInv, LinkedWhereBlocked
  <2>3. SlavesReleased(s, m) = s BY <1>1 DEF SlavesReleased
  <2>4. Grows(s, s) BY DEF Grows
  <2>5. QED BY <2>2, <2>3, <2>4
<1>2. CASE s.list[Slaves(m)] # <<>>
  <2>1. /\ KInv(q) /\ Grows(s, q)
        /\ \A t \in AllTasks : q.lock[t] = IF s.lock[t] = m THEN None ELSE s.lock[t]
    BY SlavesActivatedKeeps
  <2>2. SlavesReleased(s, m) = p BY <1>2 DEF SlavesReleased
  <2> HIDE DEF q
  <2>3. Changes(q, p, {"mprio"}) /\ p.mprio = [q.mprio EXCEPT ![m] = 0]
    BY <2>1 DEF KInv, Shaped, Fields, Changes
  <2> HIDE DEF p
  <2>4. p.mprio \in [Mutexes -> Prios]
    <3>1. 0 \in Prios BY KernelParameters DEF Prios
    <3>2. QED BY <3>1, <2>1, <2>3 DEF KInv, DataInv
  <2>5. DataInv(p) BY <2>1, <2>3, <2>4 DEF KInv, DataInv, Changes, Fields
  <2>6. KInv(p) BY <2>1, <2>3, <2>5, KInvFrame DEF Fields
  <2>7. Grows(q, p) /\ p.lock = q.lock BY <2>3 DEF Grows, Present, Linked, Changes, Fields
  <2>8. QED BY <2>1, <2>2, <2>6, <2>7, GrowsTrans
<1>3. QED BY <1>1, <1>2

\* Nobody has m, and nobody is blocked on it any more.
Freed(s, r, m) ==
    /\ Disowned(s, r, m)
    /\ \A t \in AllTasks : r.lock[t] = IF s.lock[t] = m THEN None ELSE s.lock[t]

\* The release of a lock, from its loss to the waking of its slaves (mutex.c:194-221).
LEMMA ReleaseKeeps ==
    ASSUME NEW s, KInv(s), NEW m \in Mutexes, s.master[m] # None, NEW outcome \in Outcomes
    PROVE  LET r == ReleaseMutex(s, m, outcome)
           IN  KInv(r) /\ Grows(s, r) /\ Freed(s, r, m)
<1> DEFINE q == DisownMutex(s, m)
           p == PendingServed(q, m, outcome)
           r == SlavesReleased(p, m)
<1>1. /\ KInv(q) /\ Grows(s, q)
      /\ Changes(s, q, Inherited \cup {"deep", "owned", "master"})
      /\ Disowned(s, q, m)
  BY DisownKeeps
<1>2. ReleaseMutex(s, m, outcome) = r BY DEF ReleaseMutex
<1> HIDE DEF q
<1>3. KInv(p) /\ Grows(q, p) /\ Changes(q, p, Served)
  BY <1>1, PendingKeeps, PendingShape DEF KInv
<1> HIDE DEF p
<1>4. /\ KInv(r) /\ Grows(p, r)
      /\ \A t \in AllTasks : r.lock[t] = IF p.lock[t] = m THEN None ELSE p.lock[t]
      /\ Changes(p, r, {"list", "need", "lock", "mprio"})
  BY <1>3, SlavesReleasedKeeps, SlavesReleasedShape DEF KInv
<1> HIDE DEF r
<1>5. Grows(s, r) BY <1>1, <1>3, <1>4, GrowsTrans
<1>6. /\ p.lock = s.lock
      /\ r.master = q.master /\ r.deep = q.deep /\ r.owned = q.owned
  BY <1>1, <1>3, <1>4 DEF Changes, Fields, Served, Woken, Inherited
<1>7. Freed(s, r, m) BY <1>1, <1>4, <1>6 DEF Freed, Disowned
<1>8. QED BY <1>2, <1>4, <1>5, <1>7

\* A released lock blocks nobody: its slaves have been activated.
LEMMA FreedIsFree ==
    ASSUME NEW s, NEW r, NEW m \in Mutexes, KInv(s), FreeInv(s), Freed(s, r, m)
    PROVE  FreeInv(r)
<1>1. m # None /\ \A n \in Mutexes : n # None BY KernelConstants
<1>2. \A n \in Mutexes : r.master[n] = IF n = m THEN None ELSE s.master[n]
  BY DEF Freed, Disowned, KInv, OwnerInv, OwnerType
<1>3. QED BY <1>1, <1>2 DEF FreeInv, Freed

-----------------------------------------------------------------------------
(***************************************************************************)
(* A ready task blocks on a lock, waits on a lock, or leaves the lists.    *)
(***************************************************************************)

\* A ready task is blocked on no lock and waits on none.
LEMMA ReadyIsFree ==
    ASSUME NEW s, ListInv(s), NEW t \in AllTasks, t \in Range(s.list[Active])
    PROVE  \A n \in Mutexes : /\ s.lock[t] # n /\ t \notin Range(s.list[Slaves(n)])
                              /\ s.wait[t] # n /\ t \notin Range(s.list[Waiters(n)])
BY HeadsDiffer DEF ListInv, LinkedWhereBlocked, Separate

\* t leaves the active list for another one, or for none.
Left(s, r, t) ==
    /\ Range(r.list[Active]) = Range(s.list[Active]) \ {t}
    /\ \A u \in AllTasks : Present(r, u) => Present(s, u)

\* A ready task goes on the slaves of m, with m in t->lock (mutex.c:58-61).
LEMMA BlockedKeeps ==
    ASSUME NEW s, KInv(s), NEW m \in Mutexes, NEW t \in AllTasks, t \in Range(s.list[Active]),
           NEW q, Changes(s, q, {"lock", "mprio", "prio"}), DataInv(q),
           q.lock = [s.lock EXCEPT ![t] = m]
    PROVE  LET r == ListAppend(q, Slaves(m), t)
           IN  KInv(r) /\ Left(s, r, t)
<1> DEFINE r == ListAppend(q, Slaves(m), t)
<1>1. Shaped(s) /\ DataInv(s) /\ ListInv(s) /\ WaiterInv(s) /\ OwnerInv(s) BY DEF KInv
<1>2. q.list = s.list /\ Shaped(q) BY DEF Changes, Fields
<1>3. /\ Separate(r.list)
      /\ \A h \in Heads : Range(r.list[h]) = IF h = Slaves(m) THEN Range(s.list[h]) \cup {t}
                                             ELSE Range(s.list[h]) \ {t}
  <2>1. AppendedTo(q.list, r.list, Slaves(m), t)
    BY <1>1, <1>2, AppendLists, HeadsDiffer DEF ListInv
  <2>2. QED BY <2>1, <1>2 DEF AppendedTo
<1>4. Changes(q, r, {"list"}) BY <1>2, AppendShape
<1> HIDE DEF r
<1>5. /\ r.lock = [s.lock EXCEPT ![t] = m] /\ r.wait = s.wait
      /\ r.waiter = s.waiter /\ r.groups = s.groups
      /\ r.master = s.master /\ r.owned = s.owned /\ r.deep = s.deep
  BY <1>4 DEF Changes, Fields
<1>6. ListInv(r)
  <2>1. \A n \in Mutexes : /\ s.lock[t] # n /\ t \notin Range(s.list[Slaves(n)])
                           /\ s.wait[t] # n /\ t \notin Range(s.list[Waiters(n)])
    BY <1>1, ReadyIsFree
  <2>2. r.lock \in [AllTasks -> OrNone(Mutexes)] BY <1>1, <1>5 DEF ListInv, OrNone
  <2>3. \A u \in AllTasks, n \in Mutexes :
          /\ s.lock[u] = n <=> u \in Range(s.list[Slaves(n)])
          /\ s.wait[u] = n <=> u \in Range(s.list[Waiters(n)])
    BY <1>1 DEF ListInv, LinkedWhereBlocked
  <2>4. ASSUME NEW u \in AllTasks, NEW n \in Mutexes
        PROVE  /\ r.lock[u] = n <=> u \in Range(r.list[Slaves(n)])
               /\ r.wait[u] = n <=> u \in Range(r.list[Waiters(n)])
    <3>1. /\ Range(r.list[Waiters(n)]) = Range(s.list[Waiters(n)]) \ {t}
          /\ Range(r.list[Slaves(n)]) = IF n = m THEN Range(s.list[Slaves(n)]) \cup {t}
                                        ELSE Range(s.list[Slaves(n)]) \ {t}
      BY <1>3, HeadsDiffer
    <3>2. r.lock[u] = IF u = t THEN m ELSE s.lock[u] BY <1>1, <1>5 DEF ListInv
    <3>3. CASE u = t BY <3>1, <3>2, <3>3, <2>1, <1>5
    <3>4. CASE u # t BY <3>1, <3>2, <3>4, <2>3, <1>5
    <3>5. QED BY <3>3, <3>4
  <2>5. QED BY <2>2, <2>4, <1>1, <1>3, <1>5 DEF ListInv, LinkedWhereBlocked
<1>7. \A u \in AllTasks : Linked(r, u) => Linked(s, u)
  <2> SUFFICES ASSUME NEW u \in AllTasks, NEW h \in Heads, u \in Range(r.list[h])
               PROVE  \E h2 \in Heads : u \in Range(s.list[h2])
    BY DEF Linked
  <2>1. CASE u = t BY <2>1, HeadsDiffer
  <2>2. CASE u # t BY <2>2, <1>3
  <2>3. QED BY <2>1, <2>2
<1>8. WaiterInv(r) /\ OwnerInv(r) BY <1>1, <1>5, <1>7, WaiterFrame, OwnerFrame
<1>9. DataInv(r) BY <1>4 DEF DataInv, Changes, Fields
<1>10. KInv(r) BY <1>4, <1>6, <1>8, <1>9 DEF KInv, Changes
<1>11. Left(s, r, t) BY <1>3, <1>5, <1>7, HeadsDiffer DEF Left, Present
<1>12. QED BY <1>10, <1>11 DEF r

\* A ready task goes on the waiters of m, with m in t->wait (msignal.c:78-79).
LEMMA WaitingKeeps ==
    ASSUME NEW s, KInv(s), NEW m \in Mutexes, NEW t \in AllTasks, t \in Range(s.list[Active]),
           NEW q, Changes(s, q, {"wait", "allowed"}), DataInv(q),
           q.wait = [s.wait EXCEPT ![t] = m]
    PROVE  LET r == ListAppend(q, Waiters(m), t)
           IN  KInv(r) /\ Left(s, r, t)
<1> DEFINE r == ListAppend(q, Waiters(m), t)
<1>1. Shaped(s) /\ DataInv(s) /\ ListInv(s) /\ WaiterInv(s) /\ OwnerInv(s) BY DEF KInv
<1>2. q.list = s.list /\ Shaped(q) BY DEF Changes, Fields
<1>3. /\ Separate(r.list)
      /\ \A h \in Heads : Range(r.list[h]) = IF h = Waiters(m) THEN Range(s.list[h]) \cup {t}
                                             ELSE Range(s.list[h]) \ {t}
  <2>1. AppendedTo(q.list, r.list, Waiters(m), t)
    BY <1>1, <1>2, AppendLists, HeadsDiffer DEF ListInv
  <2>2. QED BY <2>1, <1>2 DEF AppendedTo
<1>4. Changes(q, r, {"list"}) BY <1>2, AppendShape
<1> HIDE DEF r
<1>5. /\ r.wait = [s.wait EXCEPT ![t] = m] /\ r.lock = s.lock
      /\ r.waiter = s.waiter /\ r.groups = s.groups
      /\ r.master = s.master /\ r.owned = s.owned /\ r.deep = s.deep
  BY <1>4 DEF Changes, Fields
<1>6. ListInv(r)
  <2>1. \A n \in Mutexes : /\ s.lock[t] # n /\ t \notin Range(s.list[Slaves(n)])
                           /\ s.wait[t] # n /\ t \notin Range(s.list[Waiters(n)])
    BY <1>1, ReadyIsFree
  <2>2. r.wait \in [AllTasks -> OrNone(Mutexes)] BY <1>1, <1>5 DEF ListInv, OrNone
  <2>3. \A u \in AllTasks, n \in Mutexes :
          /\ s.lock[u] = n <=> u \in Range(s.list[Slaves(n)])
          /\ s.wait[u] = n <=> u \in Range(s.list[Waiters(n)])
    BY <1>1 DEF ListInv, LinkedWhereBlocked
  <2>4. ASSUME NEW u \in AllTasks, NEW n \in Mutexes
        PROVE  /\ r.lock[u] = n <=> u \in Range(r.list[Slaves(n)])
               /\ r.wait[u] = n <=> u \in Range(r.list[Waiters(n)])
    <3>1. /\ Range(r.list[Slaves(n)]) = Range(s.list[Slaves(n)]) \ {t}
          /\ Range(r.list[Waiters(n)]) = IF n = m THEN Range(s.list[Waiters(n)]) \cup {t}
                                         ELSE Range(s.list[Waiters(n)]) \ {t}
      BY <1>3, HeadsDiffer
    <3>2. r.wait[u] = IF u = t THEN m ELSE s.wait[u] BY <1>1, <1>5 DEF ListInv
    <3>3. CASE u = t BY <3>1, <3>2, <3>3, <2>1, <1>5
    <3>4. CASE u # t BY <3>1, <3>2, <3>4, <2>3, <1>5
    <3>5. QED BY <3>3, <3>4
  <2>5. QED BY <2>2, <2>4, <1>1, <1>3, <1>5 DEF ListInv, LinkedWhereBlocked
<1>7. \A u \in AllTasks : Linked(r, u) => Linked(s, u)
  <2> SUFFICES ASSUME NEW u \in AllTasks, NEW h \in Heads, u \in Range(r.list[h])
               PROVE  \E h2 \in Heads : u \in Range(s.list[h2])
    BY DEF Linked
  <2>1. CASE u = t BY <2>1, HeadsDiffer
  <2>2. CASE u # t BY <2>2, <1>3
  <2>3. QED BY <2>1, <2>2
<1>8. WaiterInv(r) /\ OwnerInv(r) BY <1>1, <1>5, <1>7, WaiterFrame, OwnerFrame
<1>9. DataInv(r) BY <1>4 DEF DataInv, Changes, Fields
<1>10. KInv(r) BY <1>4, <1>6, <1>8, <1>9 DEF KInv, Changes
<1>11. Left(s, r, t) BY <1>3, <1>5, <1>7, HeadsDiffer DEF Left, Present
<1>12. QED BY <1>10, <1>11 DEF r

\* The body of the loop of mutex_lock (mutex.c:52-76), up to the next task.
LEMMA BlockOnKeeps ==
    ASSUME NEW s, KInv(s), FreeInv(s), NEW m \in Mutexes, s.master[m] # None,
           s.current \in Tasks, s.current \in Range(s.list[Active]), Idle \in Range(s.list[Active])
    PROVE  LET r == BlockOnMutex(s, m)
           IN  /\ KInv(r) /\ FreeInv(r)
               /\ Idle \in Range(r.list[Active]) /\ r.current \in Range(r.list[Active])
               /\ \A u \in AllTasks : Present(r, u) => Present(s, u)
               /\ r.master = s.master /\ r.owned = s.owned /\ r.deep = s.deep
<1> DEFINE t == s.current
           master == s.master[m]
           p == s.prio[t]
           raise == s.mprio[m] < p
           q == [s EXCEPT !.lock[t] = m,
                          !.mprio[m] = IF raise THEN p ELSE @,
                          !.prio[master] = IF raise /\ @ < p THEN p ELSE @]
           a == ListAppend(q, Slaves(m), t)
           r == TaskSchedule(a)
<1>1. Shaped(s) /\ DataInv(s) /\ ListInv(s) BY DEF KInv
<1>2. t \in AllTasks /\ t # Idle BY KernelConstants DEF AllTasks
<1>3. /\ Changes(s, q, {"lock", "mprio", "prio"})
      /\ q.lock = [s.lock EXCEPT ![t] = m]
      /\ q.mprio = [s.mprio EXCEPT ![m] = IF raise THEN p ELSE @]
      /\ q.prio = [s.prio EXCEPT ![master] = IF raise /\ @ < p THEN p ELSE @]
  BY <1>1 DEF Shaped, Fields, Changes
<1>4. BlockOnMutex(s, m) = r BY DEF BlockOnMutex
<1> HIDE DEF q
<1>5. DataInv(q)
  <2>1. p \in Prios BY <1>1, <1>2 DEF DataInv
  <2>2. q.mprio \in [Mutexes -> Prios] /\ q.prio \in [AllTasks -> Prios]
    <3> HIDE DEF p, raise, master
    <3>1. q.mprio \in [Mutexes -> Prios] BY <2>1, <1>1, <1>3 DEF DataInv
    <3>2. q.prio \in [AllTasks -> Prios]
      <4>1. q.prio \in {s.prio, [s.prio EXCEPT ![master] = p]} BY <1>1, <1>3 DEF DataInv
      <4>2. QED BY <4>1, <2>1, <1>1 DEF DataInv
    <3>3. QED BY <3>1, <3>2
  <2>3. QED BY <2>2, <1>1, <1>3 DEF DataInv, Changes, Fields
<1>6. KInv(a) /\ Left(s, a, t) BY <1>2, <1>3, <1>5, BlockedKeeps
<1>7. Changes(q, a, {"list"}) BY <1>3, AppendShape DEF Changes
<1> HIDE DEF a
<1>8. Idle \in Range(a.list[Active]) BY <1>2, <1>6 DEF Left
<1>9. /\ KInv(r) /\ r.list = a.list /\ r.current \in Range(r.list[Active])
      /\ Changes(a, r, {"current", "need"})
  BY <1>6, <1>8, ScheduleKeeps, ScheduleShape DEF KInv
<1> HIDE DEF r
<1>10. /\ r.lock = [s.lock EXCEPT ![t] = m] /\ r.waiter = a.waiter
       /\ r.master = s.master /\ r.owned = s.owned /\ r.deep = s.deep
  BY <1>3, <1>7, <1>9 DEF Changes, Fields
<1>11. FreeInv(r) BY <1>1, <1>10 DEF FreeInv, ListInv
<1>12. \A u \in AllTasks : Present(r, u) => Present(s, u)
  BY <1>6, <1>9, <1>10 DEF Left, Present, Linked
<1>13. QED BY <1>4, <1>8, <1>9, <1>10, <1>11, <1>12

-----------------------------------------------------------------------------
(***************************************************************************)
(* The actions: IInv task by task.                                         *)
(***************************************************************************)
Absent(t) == k.base[t] = 0 \/ BeingDeleted(t)

VarTypes ==
    /\ frame \in [AllTasks -> Frames]
    /\ held \in [Tasks -> [Mutexes -> 0 .. MaxDeep]]
    /\ joining \in [Tasks -> OrNone([task : Tasks, seen : BOOLEAN])]

FinishDeep == \A f \in Range(finish) : k.deep[f] <= 1

\* What BlockedInv, FinishInv and HeldIsOwned say of t.
Blocked(t) ==
    /\ \A m \in Mutexes : frame[t] = Locking(m) => k.master[m] # t
    /\ \A i \in Irqs, f \in BOOLEAN : frame[t] = LockingIrq(i, f) => k.master[IrqMutex[i]] # t
    /\ \A m \in Mutexes : WaitsOn(t, m) => k.master[m] # t

Joined1(t) ==
    /\ \A f \in Range(finish) :
        /\ WaitsOn(t, f) => frame[t].deep = 1
        /\ Uses(t, f) => joining[t] # None /\ finish[joining[t].task] = f
    /\ joining[t] # None =>
        LET f == finish[joining[t].task]
        IN  \/ frame[t] = Locking(f)
            \/ WaitsOn(t, f)
            \/ frame[t] = User /\ k.master[f] = t

Holds(t) ==
    \A m \in Mutexes : ~BeingDeleted(t) =>
        held[t][m] = IF WaitsOn(t, m) THEN frame[t].deep
                     ELSE IF k.master[m] = t THEN k.deep[m]
                     ELSE 0

TaskInv(t) == Blocked(t) /\ Joined1(t) /\ Holds(t)

Inv ==
    /\ KInv(k) /\ FreeInv(k) /\ VarTypes
    /\ CurrentInv /\ AbsentInv /\ FinishDeep
    /\ \A t \in Tasks : TaskInv(t)

\* The types and the parts of IInv give the invariant of the data.
LEMMA TypeKInv ==
    ASSUME NEW s, s \in KernelType, ListInv(s), WaiterInv(s), OwnerInv(s)
    PROVE  KInv(s)
<1>1. Shaped(s) BY DEF KernelType, Shaped, Fields
<1>2. DataInv(s) BY DEF KernelType, DataInv
<1>3. QED BY <1>1, <1>2 DEF KInv

\* The two forms of the invariant are the same.
LEMMA InvIsIInv == Inv <=> IInv
<1>1. KInv(k) <=> k \in KernelType /\ ListInv(k) /\ WaiterInv(k) /\ OwnerInv(k)
  BY KInvType, TypeKInv DEF KInv
<1>2. FinishInv <=> FinishDeep /\ \A t \in Tasks : Joined1(t)
  BY DEF FinishInv, FinishDeep, Joined1
<1>3. BlockedInv <=> \A t \in Tasks : Blocked(t) BY DEF BlockedInv, Blocked
<1>4. HeldIsOwned <=> \A t \in Tasks : Holds(t) BY DEF HeldIsOwned, Holds
<1>5. TypeOK <=> k \in KernelType /\ VarTypes BY DEF TypeOK, VarTypes
<1>6. QED BY <1>1, <1>2, <1>3, <1>4, <1>5 DEF Inv, IInv, TaskInv

-----------------------------------------------------------------------------
(***************************************************************************)
(* The frames, told apart by the function they are in.                     *)
(***************************************************************************)
LEMMA FrameFields ==
    /\ User.at = "user" /\ Boot.at = "boot"
    /\ \A m : Locking(m).at = "mutex_lock" /\ Locking(m).mutex = m
    /\ \A i, f : /\ LockingIrq(i, f).at = "mutex_lock_irq"
                 /\ LockingIrq(i, f).irq = i /\ LockingIrq(i, f).fast = f
    /\ \A m, n : /\ Waiting(m, n).at = "mutex_wait"
                 /\ Waiting(m, n).mutex = m /\ Waiting(m, n).deep = n
    /\ \A g : WaitingGroup(g).at = "mutex_group_wait" /\ WaitingGroup(g).group = g
    /\ \A d, msg : /\ Deleting(d, msg).at = "task_delete"
                   /\ Deleting(d, msg).task = d /\ Deleting(d, msg).message = msg
BY DEF User, Boot, Locking, LockingIrq, Waiting, WaitingGroup, Deleting

\* Every frame a call builds is a frame.
LEMMA FrameTypes ==
    /\ User \in Frames /\ Boot \in Frames
    /\ \A m \in Mutexes : Locking(m) \in Frames
    /\ \A i \in Irqs, f \in BOOLEAN : LockingIrq(i, f) \in Frames
    /\ \A m \in Mutexes, n \in 1 .. MaxDeep : Waiting(m, n) \in Frames
    /\ \A g \in Groups : WaitingGroup(g) \in Frames
    /\ \A d \in Tasks, msg \in Messages : Deleting(d, msg) \in Frames
BY DEF Frames

\* A frame is one of these.
LEMMA FrameCases ==
    ASSUME NEW f \in Frames
    PROVE  \/ f = User \/ f = Boot
           \/ \E m \in Mutexes : f = Locking(m)
           \/ \E i \in Irqs, b \in BOOLEAN : f = LockingIrq(i, b)
           \/ \E m \in Mutexes, n \in 1 .. MaxDeep : f = Waiting(m, n)
           \/ \E g \in Groups : f = WaitingGroup(g)
           \/ \E d \in Tasks, msg \in Messages : f = Deleting(d, msg)
BY DEF Frames

\* A frame is known by the function it is in.
LEMMA FrameAt ==
    ASSUME NEW f \in Frames
    PROVE  /\ f.at = "mutex_lock" => \E m \in Mutexes : f = Locking(m)
           /\ f.at = "mutex_lock_irq" => \E i \in Irqs, b \in BOOLEAN : f = LockingIrq(i, b)
           /\ f.at = "mutex_wait" => \E m \in Mutexes, n \in 1 .. MaxDeep : f = Waiting(m, n)
           /\ f.at = "mutex_group_wait" => \E g \in Groups : f = WaitingGroup(g)
           /\ f.at = "task_delete" => \E d \in Tasks, msg \in Messages : f = Deleting(d, msg)
BY FrameCases, FrameFields

\* The frame of a task that goes on in a function.
LEMMA ResumedAt ==
    ASSUME Inv, NEW t \in Tasks
    PROVE  /\ Resumes(t, "mutex_lock") => \E m \in Mutexes : frame[t] = Locking(m)
           /\ Resumes(t, "mutex_lock_irq") =>
                  \E i \in Irqs, b \in BOOLEAN : frame[t] = LockingIrq(i, b)
           /\ Resumes(t, "mutex_wait") =>
                  \E m \in Mutexes, n \in 1 .. MaxDeep : frame[t] = Waiting(m, n)
           /\ Resumes(t, "mutex_group_wait") => \E g \in Groups : frame[t] = WaitingGroup(g)
<1>1. frame[t] \in Frames BY DEF Inv, VarTypes, AllTasks
<1>2. \A at : Resumes(t, at) => frame[t].at = at BY DEF Resumes
<1>3. QED BY <1>1, <1>2, FrameAt

-----------------------------------------------------------------------------
(***************************************************************************)
(* The task that runs is ready, and so neither dead nor being deleted.     *)
(***************************************************************************)
LEMMA RunnerIsReady ==
    ASSUME Inv, NEW t \in Tasks, t = k.current,
           frame[t].at # "task_delete" \/ frame[t].task # t
    PROVE  t \in Range(k.list[Active]) /\ ~Absent(t)
<1>1. t \in Range(k.list[Active]) BY DEF Inv, CurrentInv
<1>2. Present(k, t) BY <1>1, HeadsDiffer DEF Present, Linked
<1>3. QED BY <1>1, <1>2 DEF Inv, AbsentInv, Absent

\* Who deletes is what BeingDeleted looks at.
LEMMA SameDeletions ==
    ASSUME \A u \in Tasks : \/ frame'[u] = frame[u]
                            \/ frame[u].at # "task_delete" /\ frame'[u].at # "task_delete"
    PROVE  \A u \in Tasks : BeingDeleted(u)' <=> BeingDeleted(u)
BY DEF BeingDeleted

\* t stays in the task_wait it is in.
SameJoin(t) ==
    /\ joining'[t] = None <=> joining[t] = None
    /\ joining[t] # None => joining'[t].task = joining[t].task

\* Only t acts: nothing changes that the invariant of another task looks at.
Acts(t) ==
    /\ \A u \in Tasks \ {t} :
        /\ frame'[u] = frame[u] /\ held'[u] = held[u] /\ joining'[u] = joining[u]
        /\ \A m \in Mutexes : /\ k'.master[m] = u <=> k.master[m] = u
                              /\ k.master[m] = u => k'.deep[m] = k.deep[m]
        /\ k.owned[u] = <<>> => k'.owned[u] = <<>>
    /\ \A u \in Tasks : /\ BeingDeleted(u)' <=> BeingDeleted(u)
                        /\ k'.base[u] = 0 => k.base[u] = 0
                        /\ Present(k', u) => Present(k, u)

\* What is said of a task stays true, if the step leaves it alone.
LEMMA OtherTask ==
    ASSUME NEW u \in Tasks, TaskInv(u), VarTypes,
           frame'[u] = frame[u], held'[u] = held[u], SameJoin(u),
           BeingDeleted(u)' <=> BeingDeleted(u),
           \A m \in Mutexes : /\ k'.master[m] = u <=> k.master[m] = u
                              /\ k.master[m] = u => k'.deep[m] = k.deep[m]
    PROVE  TaskInv(u)'
<1>0. \A f \in Range(finish) : f \in Mutexes BY KernelParameters DEF Range
<1>1. Blocked(u)' BY KernelParameters DEF TaskInv, Blocked, WaitsOn, Range
<1>2. Joined1(u)'
  <2>1. \A m \in Mutexes : WaitsOn(u, m)' <=> WaitsOn(u, m) BY DEF WaitsOn
  <2>2. \A m \in Mutexes : Uses(u, m)' <=> Uses(u, m) BY <2>1 DEF Uses
  <2>0. SameJoin(u) OBVIOUS
  <2>3. ASSUME NEW f \in Range(finish)
        PROVE  /\ WaitsOn(u, f)' => frame'[u].deep = 1
               /\ Uses(u, f)' => joining'[u] # None /\ finish[joining'[u].task] = f
    <3>1. f \in Mutexes BY <1>0
    <3>2. QED BY <3>1, <2>0, <2>1, <2>2 DEF TaskInv, Joined1, SameJoin
  <2>4. ASSUME joining'[u] # None
        PROVE  (LET f == finish[joining[u].task]
                IN  \/ frame[u] = Locking(f)
                    \/ WaitsOn(u, f)
                    \/ frame[u] = User /\ k.master[f] = u)'
    <3> DEFINE f == finish[joining[u].task]
    <3>0. joining[u] # None /\ joining'[u].task = joining[u].task BY <2>0, <2>4 DEF SameJoin
    <3>1. f \in Mutexes BY <3>0, KernelParameters DEF VarTypes, OrNone
    <3>2. \/ frame[u] = Locking(f)
          \/ WaitsOn(u, f)
          \/ frame[u] = User /\ k.master[f] = u
      BY <3>0 DEF TaskInv, Joined1
    <3>3. \/ frame'[u] = Locking(f)
          \/ frame'[u].at = "mutex_wait" /\ frame'[u].mutex = f
          \/ frame'[u] = User /\ k'.master[f] = u
      BY <3>1, <3>2 DEF WaitsOn
    <3>4. QED BY <3>0, <3>3 DEF WaitsOn
  <2>5. QED BY <2>3, <2>4 DEF Joined1
<1>3. Holds(u)' BY DEF TaskInv, Holds, WaitsOn
<1>4. QED BY <1>1, <1>2, <1>3 DEF TaskInv

\* A step of t: it remains to show what is said of the data and of t.
LEMMA ActsKeeps ==
    ASSUME Inv, NEW t \in Tasks, ~Absent(t), Acts(t),
           KInv(k'), FreeInv(k'), VarTypes', CurrentInv', FinishDeep', TaskInv(t)'
    PROVE  Inv'
<1>1. AbsentInv'
  <2> SUFFICES ASSUME NEW u \in Tasks, k'.base[u] = 0 \/ BeingDeleted(u)'
               PROVE  /\ ~Present(k', u)
                      /\ frame'[u].at \in {"user", "task_delete"}
                      /\ joining'[u] = None
                      /\ k'.base[u] = 0 => k'.owned[u] = <<>>
    BY DEF AbsentInv
  <2>1. Absent(u) BY DEF Acts, Absent
  <2>2. u # t BY <2>1
  <2>3. QED BY <2>1, <2>2 DEF Acts, Inv, AbsentInv, Absent
<1>2. \A u \in Tasks : TaskInv(u)'
  <2>1. ASSUME NEW u \in Tasks, u # t PROVE TaskInv(u)' 
    BY <2>1, OtherTask DEF Inv, Acts, SameJoin
  <2>2. QED BY <2>1
<1>3. QED BY <1>1, <1>2 DEF Inv

\* No lock changes hands, and nobody appears.
Quiet(r) ==
    /\ r.master = k.master /\ r.owned = k.owned /\ r.deep = k.deep
    /\ \A u \in Tasks : /\ r.base[u] = 0 => k.base[u] = 0
                        /\ Present(r, u) => Present(k, u)

\* A step in which no lock changes hands and no task its frame.
LEMMA QuietKeeps ==
    ASSUME Inv, Quiet(k'), KInv(k'), k'.lock = k.lock \/ FreeInv(k'), CurrentInv',
           held' = held, VarTypes', \A u \in Tasks : SameJoin(u) /\ frame'[u] = frame[u]
    PROVE  Inv'
<1>1. FreeInv(k') BY DEF Inv, FreeInv, Quiet
<1>2. FinishDeep' BY DEF Inv, FinishDeep, Quiet
<1>3. \A u \in Tasks : BeingDeleted(u)' <=> BeingDeleted(u) BY DEF BeingDeleted
<1>4. AbsentInv' BY <1>3 DEF Inv, AbsentInv, Quiet, SameJoin
<1>5. ASSUME NEW u \in Tasks PROVE TaskInv(u)'
  BY <1>3, OtherTask DEF Inv, Quiet
<1>6. QED BY <1>1, <1>2, <1>4, <1>5 DEF Inv

\* The current task goes on, or a reschedule was due.
LEMMA SettledCurrent ==
    ASSUME Inv, NEW r, KInv(r), Grows(k, r), r.current = k.current,
           k' = ScheduleIfNeeded(r), frame'[Idle] \in {User, Boot}
    PROVE  /\ KInv(k') /\ CurrentInv'
           /\ Changes(r, k', {"current", "need"})
           /\ \A u \in AllTasks : Present(k', u) => Present(k, u)
<1>1. /\ Idle \in Range(r.list[Active])
      /\ r.current \in Range(r.list[Active]) \/ r.need
  BY DEF Inv, CurrentInv, Grows
<1>2. /\ KInv(k') /\ k'.list = r.list /\ k'.current \in Range(k'.list[Active])
      /\ Changes(r, k', {"current", "need"})
  BY <1>1, ScheduleIfNeededKeeps, ScheduleIfNeededShape DEF KInv
<1>3. CurrentInv' BY <1>1, <1>2 DEF CurrentInv
<1>4. \A u \in AllTasks : Present(k', u) => Present(r, u)
  BY <1>2 DEF Present, Linked, Changes, Fields
<1>5. QED BY <1>2, <1>3, <1>4 DEF Grows

\* A step that does not reschedule.
LEMMA UnscheduledCurrent ==
    ASSUME Inv, Grows(k, k'), k'.current = k.current, frame' = frame
    PROVE  CurrentInv'
BY DEF Inv, CurrentInv, Grows

\* A step of the kernel's data alone.
LEMMA SameVarTypes ==
    ASSUME VarTypes, UNCHANGED <<frame, held, joining>>
    PROVE  VarTypes' /\ \A u \in Tasks : SameJoin(u)
BY DEF VarTypes, SameJoin

\* A step that signals, or asks for a reschedule, and does no more.
LEMMA SettledStep ==
    ASSUME Inv, NEW r, KInv(r), Grows(k, r), NEW F, Changes(k, r, F),
           F \cap {"current", "lock", "master", "owned", "deep"} = {},
           \A u \in Tasks : r.base[u] = 0 => k.base[u] = 0,
           k' = ScheduleIfNeeded(r) \/ k' = r,
           UNCHANGED <<frame, held>>, VarTypes', \A u \in Tasks : SameJoin(u)
    PROVE  Inv'
<1>1. /\ r.current = k.current /\ r.lock = k.lock
      /\ r.master = k.master /\ r.owned = k.owned /\ r.deep = k.deep
  BY DEF Changes, Fields
<1>2. frame'[Idle] \in {User, Boot} BY DEF Inv, CurrentInv
<1>3. CASE k' = r
  <2>1. CurrentInv' BY <1>1, <1>3, UnscheduledCurrent
  <2>2. Quiet(k') BY <1>1, <1>3 DEF Quiet, Grows, AllTasks
  <2>3. QED BY <1>1, <1>3, <2>1, <2>2, QuietKeeps
<1>4. CASE k' = ScheduleIfNeeded(r)
  <2>1. /\ KInv(k') /\ CurrentInv'
        /\ Changes(r, k', {"current", "need"})
        /\ \A u \in AllTasks : Present(k', u) => Present(k, u)
    BY <1>1, <1>2, <1>4, SettledCurrent
  <2>2. /\ k'.master = r.master /\ k'.owned = r.owned /\ k'.deep = r.deep
        /\ k'.lock = r.lock /\ k'.base = r.base
    BY <2>1 DEF Changes, Fields
  <2>3. Quiet(k') BY <1>1, <2>1, <2>2 DEF Quiet, AllTasks
  <2>4. QED BY <1>1, <2>1, <2>2, <2>3, QuietKeeps
<1>5. QED BY <1>3, <1>4

-----------------------------------------------------------------------------
(***************************************************************************)
(* The steps in which no lock changes hands.                               *)
(***************************************************************************)
LEMMA MutexSignalInv ==
    ASSUME Inv, NEW t \in Tasks, NEW m \in Mutexes, NEW msg \in Messages, MutexSignal(t, m, msg)
    PROVE  Inv'
<1> DEFINE r == MutexActivate(k, m, msg)
<1>1. KInv(k) BY DEF Inv
<1>2. KInv(r) /\ Grows(k, r) /\ Changes(k, r, Woken)
  BY <1>1, MutexActivateKeeps, MutexActivateShape DEF KInv, OrNone
<1>3. KInv(k) /\ Grows(k, k) /\ Changes(k, k, Woken) BY <1>1 DEF Grows, Changes, KInv
<1>4. UNCHANGED <<frame, held, joining>> /\ (k' = ScheduleIfNeeded(r) \/ k' = k)
  BY DEF MutexSignal
<1> HIDE DEF r
<1>5. VarTypes' /\ \A u \in Tasks : SameJoin(u) BY <1>4, SameVarTypes DEF Inv
<1>6. r.base = k.base BY <1>2 DEF Changes, Fields, Woken
<1>7. Woken \cap {"current", "lock", "master", "owned", "deep"} = {} BY DEF Woken
<1>8. CASE k' = k BY <1>3, <1>4, <1>5, <1>7, <1>8, SettledStep
<1>9. CASE k' = ScheduleIfNeeded(r) BY <1>2, <1>4, <1>5, <1>6, <1>7, <1>9, SettledStep
<1>10. QED BY <1>4, <1>8, <1>9

\* main() switches to the first task (main.c:120-137).
LEMMA StartTasksInv ==
    ASSUME Inv, StartTasks
    PROVE  Inv'
<1>1. KInv(k) BY DEF Inv
<1>2. k' = TaskSchedule(k) /\ held' = held /\ joining' = joining BY DEF StartTasks
<1>3. /\ KInv(k') /\ k'.list = k.list
      /\ Idle \in Range(k.list[Active]) => k'.current \in Range(k'.list[Active])
  BY <1>1, <1>2, ScheduleKeeps
<1>4. Changes(k, k', {"current", "need"}) BY <1>1, <1>2, ScheduleShape DEF KInv
<1>5. frame' \in [AllTasks -> Frames] /\ frame'[Idle] = User
  BY FrameTypes DEF StartTasks, Inv, VarTypes, AllTasks
<1>6. VarTypes' BY <1>2, <1>5 DEF Inv, VarTypes
<1>7. \A u \in Tasks : SameJoin(u) /\ frame'[u] = frame[u]
  BY <1>2, KernelConstants DEF StartTasks, Inv, VarTypes, SameJoin, AllTasks
<1>8. CurrentInv' BY <1>3, <1>5 DEF Inv, CurrentInv
<1>9. Quiet(k') /\ k'.lock = k.lock BY <1>4 DEF Quiet, Changes, Fields, Present, Linked
<1>10. QED BY <1>2, <1>3, <1>6, <1>7, <1>8, <1>9, QuietKeeps

\* task_yield (tyield.c:24-40): a ready task goes to the end of its list.
LEMMA TaskYieldInv ==
    ASSUME Inv, NEW t \in Tasks, TaskYield(t)
    PROVE  Inv'
<1> DEFINE r == ListAppend(k, Active, t)
<1>1. KInv(k) /\ ListInv(k) /\ Shaped(k) /\ t \in AllTasks BY DEF Inv, KInv, AllTasks
<1>2. t \in Range(k.list[Active]) BY FrameFields, RunnerIsReady DEF TaskYield, Calls, Running
<1>3. AppendedTo(k.list, r.list, Active, t) /\ Changes(k, r, {"list"})
  BY <1>1, HeadsDiffer, AppendLists, AppendShape DEF ListInv
<1>4. UNCHANGED <<frame, held, joining>> /\ k' = TaskSchedule(r) BY DEF TaskYield
<1> HIDE DEF r
<1>5. \A h \in Heads : Range(r.list[h]) = Range(k.list[h])
  <2>1. \A h \in Heads : h # Active => t \notin Range(k.list[h])
    BY <1>1, <1>2, HeadsDiffer DEF ListInv, Separate
  <2>2. QED BY <1>2, <1>3, <2>1 DEF AppendedTo
<1>6. \A f \in Fields \ {"list"} : r[f] = k[f] BY <1>3 DEF Changes
<1>7. ListInv(r)
  BY <1>1, <1>3, <1>5, <1>6, HeadsDiffer DEF ListInv, LinkedWhereBlocked, AppendedTo, Fields
<1>8. \A u \in AllTasks : Linked(r, u) <=> Linked(k, u) BY <1>5 DEF Linked
<1>9. WaiterInv(r) BY <1>1, <1>6, <1>8, WaiterFrame DEF KInv, Fields
<1>10. OwnerInv(r) BY <1>1, <1>6, OwnerFrame DEF KInv, Fields
<1>11. DataInv(r) BY <1>1, <1>6 DEF KInv, DataInv, Fields
<1>12. KInv(r) BY <1>3, <1>7, <1>9, <1>10, <1>11 DEF KInv, Changes
<1>13. /\ KInv(k') /\ k'.list = r.list
       /\ Idle \in Range(r.list[Active]) => k'.current \in Range(k'.list[Active])
       /\ Changes(r, k', {"current", "need"})
  BY <1>4, <1>12, ScheduleKeeps, ScheduleShape DEF KInv
<1>14. CurrentInv' BY <1>4, <1>5, <1>13, HeadsDiffer DEF Inv, CurrentInv
<1>15. \A f \in Fields \ {"list", "current", "need"} : k'[f] = k[f]
  BY <1>6, <1>13 DEF Changes
<1>16. \A u \in AllTasks : Present(k', u) <=> Present(k, u)
  BY <1>8, <1>13, <1>15 DEF Present, Linked, Fields
<1>17. Quiet(k') /\ k'.lock = k.lock BY <1>15, <1>16 DEF Quiet, Fields, AllTasks
<1>18. VarTypes' /\ \A u \in Tasks : SameJoin(u) BY <1>4, SameVarTypes DEF Inv
<1>19. QED BY <1>4, <1>13, <1>14, <1>17, <1>18, QuietKeeps

\* task_set_priority (tsetprio.c:24-41) changes priorities alone.
LEMMA TaskSetPriorityInv ==
    ASSUME Inv, NEW t \in Tasks, NEW d \in Tasks, NEW p \in SetPrios, TaskSetPriority(t, d, p)
    PROVE  Inv'
<1> DEFINE q == [k EXCEPT !.base[d] = p]
           r == TaskRecalculatePrio(q, d)
<1>1. KInv(k) /\ DataInv(k) /\ Shaped(k) /\ d \in AllTasks BY DEF Inv, KInv, AllTasks
<1>2. p \in Prios /\ p # 0 BY KernelParameters DEF Prios
<1>3. Changes(k, q, {"base"}) /\ q.base = [k.base EXCEPT ![d] = p]
  BY <1>1 DEF Shaped, Fields, Changes
<1>4. UNCHANGED <<frame, held, joining>> /\ k' = ScheduleIfNeeded(r) BY DEF TaskSetPriority
<1> HIDE DEF q
<1>5. DataInv(q) BY <1>1, <1>2, <1>3 DEF DataInv, Changes, Fields
<1>6. KInv(q) BY <1>1, <1>3, <1>5, KInvFrame DEF Fields
<1>7. KData(q) BY <1>6 DEF KInv, KData, OwnerInv, ListInv, ListType
<1>8. KData(r) /\ Grows(q, r) /\ Changes(q, r, Inherited)
  BY <1>1, <1>7, TaskRecalculateKeeps, TaskRecalculateShape DEF KData
<1> HIDE DEF r
<1>9. /\ r.master = q.master /\ r.owned = q.owned /\ r.deep = q.deep /\ r.base = q.base
      /\ r.list = q.list /\ r.lock = q.lock /\ r.wait = q.wait
  BY <1>8 DEF Changes, Inherited, Fields
<1>10. KInv(r) BY <1>6, <1>8, <1>9, OwnerFrame, ListFrame DEF KInv, KData
<1>11. Grows(k, q) BY <1>3 DEF Grows, Present, Linked, Changes, Fields
<1>12. Grows(k, r) BY <1>8, <1>11, GrowsTrans
<1>13. Changes(k, r, Inherited \cup {"base"}) BY <1>3, <1>8, ChangesTrans
<1>14. \A u \in Tasks : r.base[u] = 0 => k.base[u] = 0
  BY <1>1, <1>2, <1>3, <1>9 DEF DataInv, AllTasks
<1>15. VarTypes' /\ \A u \in Tasks : SameJoin(u) BY <1>4, SameVarTypes DEF Inv
<1>16. (Inherited \cup {"base"}) \cap {"current", "lock", "master", "owned", "deep"} = {}
  BY DEF Inherited
<1>17. QED BY <1>4, <1>10, <1>12, <1>13, <1>14, <1>15, <1>16, SettledStep

\* mutex_attach_irq (iattach.c:25-46).
LEMMA MutexAttachIrqInv ==
    ASSUME Inv, NEW i \in Irqs, NEW f \in BOOLEAN, MutexAttachIrq(i, f)
    PROVE  Inv'
<1> DEFINE m == IrqMutex[i]
           r == [Attached(k, m, i, f) EXCEPT !.allowed[i] = TRUE]
           F == {"irq", "ilock", "fast", "pending", "allowed"}
<1>1. KInv(k) /\ DataInv(k) /\ Shaped(k) BY DEF Inv, KInv
<1>2. m \in Mutexes /\ m \in Locks BY KernelParameters DEF Locks
<1>3. UNCHANGED <<frame, held, joining>> /\ k' = r BY DEF MutexAttachIrq
<1> HIDE DEF m
<1>4. /\ Changes(k, r, F)
      /\ r.irq = [k.irq EXCEPT ![m] = i] /\ r.ilock = [k.ilock EXCEPT ![i] = m]
      /\ r.fast = [k.fast EXCEPT ![i] = f] /\ r.pending = [k.pending EXCEPT ![i] = FALSE]
      /\ r.allowed = [k.allowed EXCEPT ![i] = TRUE]
  <2>1. Shaped(r) BY <1>1 DEF Shaped, Attached
  <2>2. \A x \in Fields \ F : r[x] = k[x] BY <1>1 DEF Shaped, Attached
  <2>3. r.irq = [k.irq EXCEPT ![m] = i] BY <1>1 DEF Shaped, Fields, Attached
  <2>4. r.ilock = [k.ilock EXCEPT ![i] = m] BY <1>1 DEF Shaped, Fields, Attached
  <2>5. r.fast = [k.fast EXCEPT ![i] = f] BY <1>1 DEF Shaped, Fields, Attached
  <2>6. r.pending = [k.pending EXCEPT ![i] = FALSE] BY <1>1 DEF Shaped, Fields, Attached
  <2>7. r.allowed = [k.allowed EXCEPT ![i] = TRUE] BY <1>1 DEF Shaped, Fields, Attached
  <2>8. QED BY <2>1, <2>2, <2>3, <2>4, <2>5, <2>6, <2>7 DEF Changes
<1> HIDE DEF r
<1>5. DataInv(r) BY <1>1, <1>2, <1>4 DEF DataInv, Changes, Fields, OrNone
<1>6. KInv(r) BY <1>1, <1>4, <1>5, KInvFrame DEF Fields
<1>7. r.base = k.base BY <1>4 DEF Changes, Fields
<1>8. Grows(k, r) BY <1>4 DEF Grows, Present, Linked, Changes, Fields
<1>9. VarTypes' /\ \A u \in Tasks : SameJoin(u) BY <1>3, SameVarTypes DEF Inv
<1>10. F \cap {"current", "lock", "master", "owned", "deep"} = {} OBVIOUS
<1>11. \A u \in Tasks : r.base[u] = 0 => k.base[u] = 0 BY <1>7
<1> HIDE DEF F
<1>12. QED BY <1>3, <1>4, <1>6, <1>8, <1>9, <1>10, <1>11, SettledStep

\* The flags of the interrupts alone differ.
LEMMA FlagsKeep ==
    ASSUME NEW s, NEW q, KInv(s), Changes(s, q, {"pending", "allowed"}),
           q.pending \in [Irqs -> BOOLEAN], q.allowed \in [Irqs -> BOOLEAN]
    PROVE  KInv(q) /\ Grows(s, q) /\ q.base = s.base
<1>1. DataInv(q) BY DEF KInv, DataInv, Changes, Fields
<1>2. KInv(q) BY <1>1, KInvFrame DEF Fields
<1>3. QED BY <1>2 DEF Grows, Present, Linked, Changes, Fields

\* An interrupt, once it is masked or its handler has run.
LEMMA FlagsStep ==
    ASSUME Inv, NEW q, Changes(k, q, {"pending", "allowed"}),
           q.pending \in [Irqs -> BOOLEAN], q.allowed \in [Irqs -> BOOLEAN],
           NEW m \in Mutexes, UNCHANGED <<frame, held, joining>>,
           k' = q \/ k' = ScheduleIfNeeded(MutexActivate(q, m, None))
    PROVE  Inv'
<1> DEFINE r == MutexActivate(q, m, None)
<1>1. KInv(q) /\ Grows(k, q) /\ q.base = k.base BY FlagsKeep DEF Inv
<1>2. KInv(r) /\ Grows(q, r) /\ Changes(q, r, Woken)
  BY <1>1, MutexActivateKeeps, MutexActivateShape DEF KInv, OrNone
<1>3. k' = q \/ k' = ScheduleIfNeeded(r) OBVIOUS
<1> HIDE DEF r
<1>4. Grows(k, r) /\ r.base = k.base
  BY <1>1, <1>2, GrowsTrans DEF Changes, Fields, Woken
<1>5. Changes(k, r, Served) BY <1>2, ChangesTrans DEF Served
<1>6. Served \cap {"current", "lock", "master", "owned", "deep"} = {}
  BY DEF Served, Woken
<1>7. VarTypes' /\ \A u \in Tasks : SameJoin(u) BY SameVarTypes DEF Inv
<1>8. Changes(k, q, Served) BY ChangesTrans DEF Served, Changes
<1>9. CASE k' = q BY <1>1, <1>6, <1>7, <1>8, <1>9, SettledStep
<1>10. CASE k' = ScheduleIfNeeded(r) BY <1>2, <1>4, <1>5, <1>6, <1>7, <1>10, SettledStep
<1>11. QED BY <1>3, <1>9, <1>10

\* _irq_handler_ (machdep.c:109-155): a signal, or a pending flag.
LEMMA InterruptInv ==
    ASSUME Inv, NEW i \in Irqs, Interrupt(i)
    PROVE  Inv'
<1> DEFINE m == k.ilock[i]
           Masked(b) == [k EXCEPT !.allowed[i] = b]
           busy == [Masked(FALSE) EXCEPT !.pending[i] = TRUE]
<1>1. KInv(k) /\ DataInv(k) /\ Shaped(k) BY DEF Inv, KInv
<1>2. m \in Mutexes BY <1>1 DEF Interrupt, DataInv, Locks, OrNone
<1>3. UNCHANGED <<frame, held, joining>> BY DEF Interrupt
<1>4. \A b \in BOOLEAN : /\ Changes(k, Masked(b), {"pending", "allowed"})
                          /\ Masked(b).pending \in [Irqs -> BOOLEAN]
                          /\ Masked(b).allowed \in [Irqs -> BOOLEAN]
  BY <1>1 DEF Shaped, Fields, Changes, DataInv
<1>5. /\ Changes(k, busy, {"pending", "allowed"})
      /\ busy.pending \in [Irqs -> BOOLEAN]
      /\ busy.allowed \in [Irqs -> BOOLEAN]
  BY <1>1 DEF Shaped, Fields, Changes, DataInv
<1>6. \A b : [Masked(FALSE) EXCEPT !.allowed[i] = b] = Masked(b)
  BY <1>1 DEF Shaped, Fields, DataInv
<1>7. \/ k' = busy
      \/ \E b \in BOOLEAN : k' = Masked(b) \/ k' = ScheduleIfNeeded(MutexActivate(Masked(b), m, None))
  BY <1>6 DEF Interrupt, Outcomes
<1> HIDE DEF m, Masked, busy
<1>8. CASE k' = busy BY <1>2, <1>3, <1>5, <1>8, FlagsStep
<1>9. CASE k' # busy
  <2>1. PICK b \in BOOLEAN :
          k' = Masked(b) \/ k' = ScheduleIfNeeded(MutexActivate(Masked(b), m, None))
    BY <1>7, <1>9
  <2>2. QED BY <1>2, <1>3, <1>4, <2>1, FlagsStep
<1>10. QED BY <1>8, <1>9

\* A group goes on the lists of its locks, or leaves them.
LEMMA SlotsStep ==
    ASSUME Inv, NEW r, NEW g \in Groups, Changes(k, r, {"groups", "gmessage"}),
           r.groups = [m \in Mutexes |-> r.groups[m]],
           \A m \in Mutexes : Line(r.groups[m], Groups),
           r.gmessage = [k.gmessage EXCEPT ![g] = [m \in Mutexes |-> None]],
           k' = r, UNCHANGED <<frame, held, joining>>
    PROVE  Inv'
<1>1. KInv(k) BY DEF Inv
<1>2. \A f \in Fields \ {"groups", "gmessage"} : r[f] = k[f] BY DEF Changes
<1>3. DataInv(r) BY <1>1, <1>2 DEF KInv, DataInv, Fields, OrNone
<1>4. WaiterInv(r)
  <2>1. r.groups \in [Mutexes -> Seq(Groups)] /\ \A m \in Mutexes : IsInjective(r.groups[m])
    BY DEF Line
  <2>2. \A t : Linked(r, t) <=> Linked(k, t) BY <1>2 DEF Linked, Fields
  <2>3. r.waiter = k.waiter BY <1>2 DEF Fields
  <2>4. QED BY <1>1, <2>1, <2>2, <2>3 DEF WaiterInv, KInv
<1>5. ListInv(r) BY <1>1, <1>2, ListFrame DEF KInv, Fields
<1>6. OwnerInv(r) BY <1>1, <1>2, OwnerFrame DEF KInv, Fields
<1>7. KInv(r) BY <1>3, <1>4, <1>5, <1>6 DEF KInv, Changes
<1>8. Grows(k, r) /\ r.base = k.base BY <1>2 DEF Grows, Present, Linked, Fields
<1>9. VarTypes' /\ \A u \in Tasks : SameJoin(u) BY SameVarTypes DEF Inv
<1>10. {"groups", "gmessage"} \cap {"current", "lock", "master", "owned", "deep"} = {} OBVIOUS
<1>11. QED BY <1>7, <1>8, <1>9, <1>10, SettledStep

\* mutex_group_listen (mgroup.c:59-79).
LEMMA GroupListenInv ==
    ASSUME Inv, NEW g \in Groups, GroupListen(g)
    PROVE  Inv'
<1> DEFINE gs == [m \in Mutexes |->
                    IF m \in Range(Members[g]) THEN <<g>> \o k.groups[m] ELSE k.groups[m]]
           none == [m \in Mutexes |-> None]
           r == [k EXCEPT !.groups = gs, !.gmessage[g] = none]
<1>1. KInv(k) /\ Shaped(k) /\ WaiterInv(k) BY DEF Inv, KInv
<1>2. UNCHANGED <<frame, held, joining>> /\ k' = r BY DEF GroupListen
<1>3. \A m \in Mutexes : Line(gs[m], Groups)
  <2> TAKE m \in Mutexes
  <2>1. Line(k.groups[m], Groups) BY <1>1 DEF WaiterInv, Line
  <2>2. Line(<<g>>, Groups) /\ Range(<<g>>) = {g} BY DEF Line, IsInjective, Range
  <2>3. g \notin Range(k.groups[m]) BY DEF GroupListen, Listening
  <2>4. Line(Joined(<<g>>, k.groups[m]), Groups) BY <2>1, <2>2, <2>3, ConcatLine
  <2>5. QED BY <2>1, <2>4 DEF Joined
<1> HIDE DEF gs, none
<1>4. /\ Changes(k, r, {"groups", "gmessage"}) /\ r.groups = gs
      /\ r.gmessage = [k.gmessage EXCEPT ![g] = none]
  BY <1>1 DEF Shaped, Fields, Changes
<1> HIDE DEF r
<1>5. r.groups = [m \in Mutexes |-> r.groups[m]] BY <1>4 DEF gs
<1>6. QED BY <1>2, <1>3, <1>4, <1>5, SlotsStep DEF none

\* mutex_group_unlisten (mgroup.c:81-101).
LEMMA GroupUnlistenInv ==
    ASSUME Inv, NEW g \in Groups, GroupUnlisten(g)
    PROVE  Inv'
<1> DEFINE gs == [m \in Mutexes |-> Unlinked(k.groups[m], g)]
           none == [m \in Mutexes |-> None]
           r == [k EXCEPT !.groups = gs, !.gmessage[g] = none]
<1>1. KInv(k) /\ Shaped(k) /\ WaiterInv(k) BY DEF Inv, KInv
<1>2. UNCHANGED <<frame, held, joining>> /\ k' = r BY DEF GroupUnlisten
<1>3. \A m \in Mutexes : Line(gs[m], Groups)
  <2> TAKE m \in Mutexes
  <2>1. Line(k.groups[m], Groups) BY <1>1 DEF WaiterInv, Line
  <2>2. QED BY <2>1, UnlinkedLine
<1> HIDE DEF gs, none
<1>4. /\ Changes(k, r, {"groups", "gmessage"}) /\ r.groups = gs
      /\ r.gmessage = [k.gmessage EXCEPT ![g] = none]
  BY <1>1 DEF Shaped, Fields, Changes
<1> HIDE DEF r
<1>5. r.groups = [m \in Mutexes |-> r.groups[m]] BY <1>4 DEF gs
<1>6. QED BY <1>2, <1>3, <1>4, <1>5, SlotsStep DEF none

\* The test of base_prio in task_wait (twait.c:31).
LEMMA TaskWaitTestInv ==
    ASSUME Inv, NEW t \in Tasks, TaskWaitTest(t)
    PROVE  Inv'
<1>1. joining[t] \in [task : Tasks, seen : BOOLEAN]
  BY DEF TaskWaitTest, Joins, Inv, VarTypes, OrNone
<1>2. /\ joining' = [joining EXCEPT ![t] = [joining[t] EXCEPT !.seen = TRUE]]
      /\ k' = k /\ frame' = frame /\ held' = held
  BY DEF TaskWaitTest
<1>3. /\ [joining[t] EXCEPT !.seen = TRUE] \in [task : Tasks, seen : BOOLEAN]
      /\ [joining[t] EXCEPT !.seen = TRUE].task = joining[t].task
  BY <1>1
<1>4. [joining[t] EXCEPT !.seen = TRUE] # None /\ joining[t] # None
  BY <1>1, <1>3, NoneIsNoJoining
<1>5. /\ joining' \in [Tasks -> OrNone([task : Tasks, seen : BOOLEAN])]
      /\ joining'[t] = [joining[t] EXCEPT !.seen = TRUE]
      /\ \A u \in Tasks \ {t} : joining'[u] = joining[u]
  BY <1>2, <1>3 DEF Inv, VarTypes, OrNone
<1>6. VarTypes' BY <1>2, <1>5 DEF Inv, VarTypes
<1>7. \A u \in Tasks : SameJoin(u) BY <1>3, <1>4, <1>5 DEF SameJoin
<1>8. Quiet(k') /\ KInv(k') /\ k'.lock = k.lock BY <1>2 DEF Quiet, Inv
<1>9. CurrentInv' BY <1>2 DEF Inv, CurrentInv
<1>10. QED BY <1>2, <1>6, <1>7, <1>8, <1>9, QuietKeeps

-----------------------------------------------------------------------------
(***************************************************************************)
(* Groups.                                                                 *)
(***************************************************************************)

\* A task begins to wait for a group, or ends it.
LEMMA GroupFrameStep ==
    ASSUME Inv, NEW t \in Tasks, ~Absent(t), joining[t] = None,
           frame[t] = User \/ frame[t].at = "mutex_group_wait",
           NEW f, f = User \/ \E g \in Groups : f = WaitingGroup(g),
           frame' = [frame EXCEPT ![t] = f], UNCHANGED <<held, joining>>,
           Quiet(k'), KInv(k'), k'.lock = k.lock, CurrentInv'
    PROVE  Inv'
<1>1. frame' \in [AllTasks -> Frames] /\ frame'[t] = f
  BY FrameTypes DEF Inv, VarTypes, AllTasks
<1>2. VarTypes' BY <1>1 DEF Inv, VarTypes
<1>3. \A u \in Tasks \ {t} : frame'[u] = frame[u] BY DEF Inv, VarTypes, AllTasks
<1>4. f.at \notin {"mutex_lock", "mutex_lock_irq", "mutex_wait", "task_delete"}
  BY FrameFields
<1>5. frame[t].at \notin {"mutex_lock", "mutex_lock_irq", "mutex_wait", "task_delete"}
  BY FrameFields
<1>6. \A u \in Tasks : BeingDeleted(u)' <=> BeingDeleted(u)
  BY <1>1, <1>3, <1>4, <1>5 DEF BeingDeleted
<1>7. Acts(t) BY <1>3, <1>6 DEF Acts, Quiet
<1>8. FreeInv(k') /\ FinishDeep' BY DEF Inv, FreeInv, FinishDeep, Quiet
<1>9. Blocked(t)' BY <1>1, <1>4, FrameFields DEF Blocked, WaitsOn
<1>10. \A m \in Mutexes : ~WaitsOn(t, m) /\ ~WaitsOn(t, m)' /\ (Uses(t, m)' => Uses(t, m))
  BY <1>1, <1>4, <1>5, <1>6, FrameFields DEF WaitsOn, Uses, Quiet
<1>11. Joined1(t)'
  <2>1. \A m \in Range(finish) : m \in Mutexes BY KernelParameters DEF Range
  <2>2. QED BY <1>10, <2>1 DEF Joined1, Inv, TaskInv
<1>12. Holds(t)' BY <1>6, <1>10 DEF Holds, Inv, TaskInv, Quiet
<1>13. QED BY <1>2, <1>7, <1>8, <1>9, <1>11, <1>12, ActsKeeps DEF TaskInv

\* A slot is marked.
LEMMA GroupFound ==
    ASSUME Inv, NEW t \in Tasks, t = k.current, ~Absent(t), joining[t] = None,
           frame[t] = User \/ frame[t].at = "mutex_group_wait", NEW g \in Groups,
           NEW m, k' = [k EXCEPT !.signalled[g] = @ \ {m}],
           frame' = [frame EXCEPT ![t] = User], UNCHANGED <<held, joining>>,
           t \in Range(k.list[Active])
    PROVE  Inv'
<1>1. KInv(k) /\ DataInv(k) /\ Shaped(k) BY DEF Inv, KInv
<1>2. /\ Changes(k, k', {"signalled"})
      /\ k'.signalled = [k.signalled EXCEPT ![g] = @ \ {m}]
  BY <1>1 DEF Shaped, Fields, Changes
<1>3. k'.signalled \in [Groups -> SUBSET Mutexes] BY <1>1, <1>2 DEF DataInv
<1>4. \A f \in Fields \ {"signalled"} : k'[f] = k[f] BY <1>2 DEF Changes
<1>5. DataInv(k') BY <1>1, <1>3, <1>4 DEF DataInv, Fields
<1>6. KInv(k') BY <1>1, <1>2, <1>5, KInvFrame DEF Fields
<1>7. Quiet(k') /\ k'.lock = k.lock BY <1>4 DEF Quiet, Fields, Present, Linked
<1>8. k'.list = k.list /\ k'.current = t BY <1>4 DEF Fields
<1>9. frame'[Idle] \in {User, Boot} BY KernelConstants DEF Inv, CurrentInv, VarTypes, AllTasks
<1>10. CurrentInv' BY <1>8, <1>9 DEF Inv, CurrentInv
<1>11. QED BY <1>6, <1>7, <1>10, GroupFrameStep

\* mutex_group_wait finds no slot: the caller leaves the ready list (mgroup.c:133-137).
LEMMA GroupSlept ==
    ASSUME Inv, NEW t \in Tasks, t = k.current, ~Absent(t), joining[t] = None,
           frame[t] = User \/ frame[t].at = "mutex_group_wait", NEW g \in Groups,
           k' = TaskSchedule([ListUnlink(k, t) EXCEPT !.waiter[g] = t]),
           frame' = [frame EXCEPT ![t] = WaitingGroup(g)], UNCHANGED <<held, joining>>,
           t \in Range(k.list[Active])
    PROVE  Inv'
<1> DEFINE r == ListUnlink(k, t)
           q == [r EXCEPT !.waiter[g] = t]
<1>1. KInv(k) /\ ListInv(k) /\ WaiterInv(k) /\ DataInv(k) /\ Shaped(k) /\ t \in AllTasks
  BY DEF Inv, KInv, AllTasks
<1>2. /\ Separate(r.list) /\ Changes(k, r, {"list"})
      /\ \A h \in Heads : Range(r.list[h]) = Range(k.list[h]) \ {t}
  BY <1>1, UnlinkLists, UnlinkShape DEF ListInv
<1>3. k' = TaskSchedule(q) OBVIOUS
<1> HIDE DEF r
<1>4. Changes(r, q, {"waiter"}) /\ q.waiter = [k.waiter EXCEPT ![g] = t]
  BY <1>2 DEF Shaped, Fields, Changes
<1> HIDE DEF q
<1>5. /\ Separate(q.list)
      /\ \A h \in Heads : Range(q.list[h]) = Range(k.list[h]) \ {t}
      /\ \A f \in Fields \ {"list", "waiter"} : q[f] = k[f]
  BY <1>2, <1>4 DEF Changes, Fields
<1>6. ListInv(q)
  <2>1. ASSUME NEW m \in Mutexes
        PROVE  /\ Range(q.list[Slaves(m)]) = Range(k.list[Slaves(m)])
               /\ Range(q.list[Waiters(m)]) = Range(k.list[Waiters(m)])
    <3>1. Slaves(m) \in Heads /\ Waiters(m) \in Heads BY HeadsDiffer
    <3>2. t \notin Range(k.list[Slaves(m)]) /\ t \notin Range(k.list[Waiters(m)])
      BY <1>1, ReadyIsFree
    <3>3. /\ Range(q.list[Slaves(m)]) = Range(k.list[Slaves(m)]) \ {t}
          /\ Range(q.list[Waiters(m)]) = Range(k.list[Waiters(m)]) \ {t}
      BY <1>5, <3>1
    <3>4. \A S : t \notin S => S \ {t} = S OBVIOUS
    <3>5. QED BY <3>2, <3>3, <3>4
  <2>2. q.lock = k.lock /\ q.wait = k.wait BY <1>5 DEF Fields
  <2>3. QED BY <1>1, <1>5, <2>1, <2>2 DEF ListInv, LinkedWhereBlocked
<1>7. \A u : Linked(q, u) <=> Linked(k, u) /\ u # t BY <1>5 DEF Linked
<1>8. Linked(k, t) /\ t # None BY <1>1, HeadsDiffer, KernelConstants DEF Linked
<1>9. WaiterInv(q)
  <2>1. q.groups = k.groups BY <1>5 DEF Fields
  <2>2. \A x \in Groups : q.waiter[x] = IF x = g THEN t ELSE k.waiter[x]
    BY <1>1, <1>4 DEF WaiterInv
  <2>3. \A x \in Groups : k.waiter[x] # t BY <1>1, <1>8 DEF WaiterInv
  <2>4. q.waiter \in [Groups -> OrNone(Tasks)] BY <1>1, <1>4 DEF WaiterInv, OrNone
  <2>5. \A x \in Groups : q.waiter[x] # None => ~Linked(q, q.waiter[x])
    BY <1>1, <1>7, <2>2 DEF WaiterInv
  <2>6. \A x, y \in Groups : q.waiter[x] = q.waiter[y] /\ q.waiter[x] # None => x = y
    BY <1>1, <2>2, <2>3 DEF WaiterInv
  <2>7. QED BY <1>1, <2>1, <2>4, <2>5, <2>6 DEF WaiterInv
<1>10. OwnerInv(q) BY <1>1, <1>5, OwnerFrame DEF KInv, Fields
<1>11. DataInv(q) BY <1>1, <1>5 DEF DataInv, Fields
<1>12. KInv(q) BY <1>4, <1>6, <1>9, <1>10, <1>11 DEF KInv, Changes
<1>13. Idle \in Range(q.list[Active])
  BY <1>5, HeadsDiffer, KernelConstants DEF Inv, CurrentInv
<1>14. /\ KInv(k') /\ k'.list = q.list /\ k'.current \in Range(k'.list[Active])
       /\ Changes(q, k', {"current", "need"})
  BY <1>3, <1>12, <1>13, ScheduleKeeps, ScheduleShape DEF KInv
<1>15. /\ \A f \in Fields \ {"list", "waiter", "current", "need"} : k'[f] = k[f]
       /\ k'.waiter = q.waiter
  BY <1>5, <1>14 DEF Changes, Fields
<1>16. \A u \in AllTasks : Present(k', u) => Present(k, u)
  <2>1. \A u : Linked(k', u) => Linked(k, u) BY <1>7, <1>14 DEF Linked
  <2>2. \A x \in Groups : k'.waiter[x] \in {t, k.waiter[x]}
    BY <1>1, <1>4, <1>15 DEF WaiterInv
  <2>3. QED BY <1>8, <2>1, <2>2 DEF Present
<1>17. Quiet(k') /\ k'.lock = k.lock BY <1>15, <1>16 DEF Quiet, Fields, AllTasks
<1>18. frame'[Idle] \in {User, Boot} BY KernelConstants DEF Inv, CurrentInv, VarTypes, AllTasks
<1>19. CurrentInv' BY <1>13, <1>14, <1>18 DEF CurrentInv
<1>20. QED BY <1>14, <1>17, <1>19, GroupFrameStep

\* mutex_group_wait (mgroup.c:108-138), first entered or resumed.
LEMMA GroupWaitInv ==
    ASSUME Inv, NEW t \in Tasks,
           (\E g \in Groups : GroupWait(t, g)) \/ ResumeGroupWait(t)
    PROVE  Inv'
<1>1. PICK g \in Groups : GroupLoop(t, g)
  BY FrameAt, FrameFields DEF GroupWait, ResumeGroupWait, Resumes, Inv, VarTypes, AllTasks
<1>2. t = k.current /\ ((frame[t] = User /\ joining[t] = None) \/ frame[t].at = "mutex_group_wait")
  BY DEF GroupWait, ResumeGroupWait, Resumes, Calls, Running
<1>3. joining[t] = None BY <1>2, FrameFields DEF Inv, TaskInv, Joined1, WaitsOn
<1>4. t \in Range(k.list[Active]) /\ ~Absent(t) BY <1>2, FrameFields, RunnerIsReady
<1>5. CASE k' = TaskSchedule([ListUnlink(k, t) EXCEPT !.waiter[g] = t])
           /\ frame' = [frame EXCEPT ![t] = WaitingGroup(g)]
  BY <1>1, <1>2, <1>3, <1>4, <1>5, GroupSlept DEF GroupLoop
<1>6. CASE k' = [k EXCEPT !.signalled[g] = @ \ {LastSignalled(g)}]
           /\ frame' = [frame EXCEPT ![t] = User]
  BY <1>1, <1>2, <1>3, <1>4, <1>6, GroupFound DEF GroupLoop
<1>7. QED BY <1>1, <1>5, <1>6 DEF GroupLoop

-----------------------------------------------------------------------------
(***************************************************************************)
(* mutex_lock, also of task_wait, mutex_lock_irq and mutex_trylock: the    *)
(* task blocks on m, or has it once more.                                  *)
(***************************************************************************)

\* f is the frame of a task that is to acquire m.
Acquiring(f, m) ==
    \/ f = Locking(m)
    \/ \E i \in Irqs, b \in BOOLEAN : f = LockingIrq(i, b) /\ m = IrqMutex[i]

\* The finish lock is taken inside task_wait, any other outside.
JoinsWith(t, m, f) ==
    /\ joining' \in [Tasks -> OrNone([task : Tasks, seen : BOOLEAN])]
    /\ \A u \in Tasks \ {t} : joining'[u] = joining[u]
    /\ joining[t] = None \/ joining'[t] = joining[t]
    /\ \/ m \notin Range(finish) /\ joining'[t] = None
       \/ /\ joining'[t] # None /\ finish[joining'[t].task] = m
          /\ f = Locking(m) /\ k.master[m] # t

\* What is common to both outcomes.
LockStep(t, m, f, fr) ==
    /\ t = k.current /\ t \in Range(k.list[Active]) /\ ~Absent(t)
    /\ Acquiring(f, m) /\ frame[t] \in {User, f} /\ fr \in {User, f}
    /\ frame' = [frame EXCEPT ![t] = fr]
    /\ JoinsWith(t, m, f)

\* What the frames of a step of the lock loop say of t and of the others.
LEMMA LockFrames ==
    ASSUME Inv, NEW t \in Tasks, NEW m \in Mutexes, NEW f, NEW fr, LockStep(t, m, f, fr)
    PROVE  /\ frame' \in [AllTasks -> Frames] /\ frame'[t] = fr
           /\ \A u \in Tasks \ {t} : frame'[u] = frame[u]
           /\ \A u \in Tasks : BeingDeleted(u)' <=> BeingDeleted(u)
           /\ ~BeingDeleted(t)
           /\ \A n \in Mutexes : /\ ~WaitsOn(t, n) /\ ~WaitsOn(t, n)'
                                 /\ f = Locking(n) => n = m
           /\ \A i \in Irqs, b \in BOOLEAN : f = LockingIrq(i, b) => IrqMutex[i] = m
           /\ User # f /\ frame'[Idle] \in {User, Boot}
<1>1. f \in Frames /\ fr \in Frames /\ fr.at \notin {"mutex_wait", "task_delete"}
  BY FrameTypes, FrameFields DEF LockStep, Acquiring
<1>2. frame[t].at \notin {"mutex_wait", "task_delete"} BY FrameFields DEF LockStep, Acquiring
<1>3. frame' \in [AllTasks -> Frames] /\ frame'[t] = fr
  BY <1>1 DEF LockStep, Inv, VarTypes, AllTasks
<1>4. \A u \in Tasks \ {t} : frame'[u] = frame[u] BY DEF LockStep, Inv, VarTypes, AllTasks
<1>5. \A u \in Tasks : BeingDeleted(u)' <=> BeingDeleted(u)
  BY <1>1, <1>2, <1>3, <1>4 DEF BeingDeleted
<1>6. \A n \in Mutexes : ~WaitsOn(t, n) /\ ~WaitsOn(t, n)'
  BY <1>1, <1>2, <1>3 DEF WaitsOn
<1>7. /\ \A n \in Mutexes : f = Locking(n) => n = m
      /\ \A i \in Irqs, b \in BOOLEAN : f = LockingIrq(i, b) => IrqMutex[i] = m
      /\ User # f
  BY FrameFields DEF LockStep, Acquiring
<1>8. frame'[Idle] \in {User, Boot}
  BY KernelConstants DEF LockStep, Inv, CurrentInv, VarTypes, AllTasks
<1>9. QED BY <1>3, <1>4, <1>5, <1>6, <1>7, <1>8 DEF LockStep, Absent

\* The lock is busy: the caller blocks (mutex.c:52-76).
LEMMA LockBlocks ==
    ASSUME Inv, NEW t \in Tasks, NEW m \in Mutexes, NEW f, LockStep(t, m, f, f),
           k.master[m] \notin {None, t}, k' = BlockOnMutex(k, m), held' = held
    PROVE  Inv'
<1>1. /\ KInv(k) /\ FreeInv(k) /\ Idle \in Range(k.list[Active])
      /\ k.current = t /\ t \in Range(k.list[Active]) /\ ~Absent(t)
  BY DEF Inv, CurrentInv, LockStep
<1>2. /\ KInv(k') /\ FreeInv(k')
      /\ Idle \in Range(k'.list[Active]) /\ k'.current \in Range(k'.list[Active])
      /\ \A u \in AllTasks : Present(k', u) => Present(k, u)
      /\ k'.master = k.master /\ k'.owned = k.owned /\ k'.deep = k.deep
  BY <1>1, BlockOnKeeps
<1>3. k'.base = k.base BY <1>1, BlockShape DEF KInv, Changes, Fields
<1>4. /\ frame' \in [AllTasks -> Frames] /\ frame'[t] = f
      /\ \A u \in Tasks \ {t} : frame'[u] = frame[u]
      /\ \A u \in Tasks : BeingDeleted(u)' <=> BeingDeleted(u)
      /\ ~BeingDeleted(t)
      /\ \A n \in Mutexes : /\ ~WaitsOn(t, n) /\ ~WaitsOn(t, n)'
                            /\ f = Locking(n) => n = m
      /\ \A i \in Irqs, b \in BOOLEAN : f = LockingIrq(i, b) => IrqMutex[i] = m
      /\ User # f /\ frame'[Idle] \in {User, Boot}
  BY LockFrames
<1>5. JoinsWith(t, m, f) BY DEF LockStep
<1>6. Acts(t) BY <1>2, <1>3, <1>4, <1>5 DEF Acts, AllTasks, JoinsWith
<1>7. VarTypes' BY <1>4, <1>5 DEF Inv, VarTypes, JoinsWith
<1>8. CurrentInv' BY <1>2, <1>4 DEF CurrentInv
<1>9. FinishDeep' BY <1>2 DEF Inv, FinishDeep
<1>10. Blocked(t)' BY <1>2, <1>4 DEF Blocked
<1>11. Joined1(t)'
  <2>1. \A g \in Range(finish) : g \in Mutexes BY KernelParameters DEF Range
  <2>2. \A g \in Mutexes : Uses(t, g)' <=> (g = m /\ f = Locking(m)) \/ k.master[g] = t
    BY <1>2, <1>4 DEF Uses
  <2>3. ASSUME NEW g \in Range(finish), Uses(t, g)'
        PROVE  joining'[t] # None /\ finish[joining'[t].task] = g
    <3>1. CASE k.master[g] = t
      <4>1. Uses(t, g) BY <1>4, <3>1 DEF Uses
      <4>2. joining[t] # None /\ finish[joining[t].task] = g
        BY <4>1 DEF Inv, TaskInv, Joined1
      <4>3. QED BY <1>5, <4>2 DEF JoinsWith
    <3>2. CASE g = m BY <1>5, <3>2 DEF JoinsWith
    <3>3. QED BY <2>1, <2>2, <2>3, <3>1, <3>2
  <2>4. joining'[t] # None => frame'[t] = Locking(finish[joining'[t].task])
    BY <1>4, <1>5 DEF JoinsWith
  <2>5. QED BY <1>4, <2>1, <2>3, <2>4 DEF Joined1
<1>12. Holds(t)' BY <1>2, <1>4 DEF Holds, Inv, TaskInv
<1>13. QED BY <1>1, <1>2, <1>6, <1>7, <1>8, <1>9, <1>10, <1>11, <1>12, ActsKeeps DEF TaskInv

\* The lock is free, or the caller's: it takes the lock (mutex.c:78-97).
LEMMA LockTakes ==
    ASSUME Inv, NEW t \in Tasks, NEW m \in Mutexes, NEW f, LockStep(t, m, f, User),
           k.master[m] \in {None, t}, KInv(k'), Changes(k, k', AttachedFields),
           Taken(k, k', m, k.deep[m] + 1), held' = [held EXCEPT ![t][m] = @ + 1]
    PROVE  Inv'
<1>1. /\ KInv(k) /\ OwnerInv(k) /\ OwnerType(k) /\ FreeInv(k)
      /\ Idle \in Range(k.list[Active])
      /\ k.current = t /\ t \in Range(k.list[Active]) /\ ~Absent(t)
  BY DEF Inv, CurrentInv, LockStep, KInv, OwnerInv
<1>2. /\ \A n \in Mutexes : k'.master[n] = IF n = m THEN t ELSE k.master[n]
      /\ \A n \in Mutexes : k'.deep[n] = IF n = m THEN k.deep[m] + 1 ELSE k.deep[n]
      /\ \A u \in Tasks \ {t} : k'.owned[u] = k.owned[u]
  BY <1>1 DEF Taken, OwnerType, AllTasks
<1>3. k'.base = k.base /\ k'.list = k.list /\ k'.lock = k.lock /\ k'.waiter = k.waiter
      /\ k'.current = k.current
  BY DEF Changes, AttachedFields, Locked, Fields
<1>4. /\ frame' \in [AllTasks -> Frames] /\ frame'[t] = User
      /\ \A u \in Tasks \ {t} : frame'[u] = frame[u]
      /\ \A u \in Tasks : BeingDeleted(u)' <=> BeingDeleted(u)
      /\ ~BeingDeleted(t)
      /\ \A n \in Mutexes : ~WaitsOn(t, n) /\ ~WaitsOn(t, n)'
      /\ frame'[Idle] \in {User, Boot}
  BY LockFrames
<1>5. JoinsWith(t, m, f) BY DEF LockStep
<1>6. None # t /\ \A u \in Tasks \ {t} : u # None BY KernelConstants DEF AllTasks
<1>7. k.deep[m] \in 0 .. MaxDeep /\ k'.deep[m] \in 0 .. MaxDeep
  BY <1>1 DEF OwnerType, KInv, OwnerInv
<1>8. \A n \in Mutexes : held[t][n] = IF k.master[n] = t THEN k.deep[n] ELSE 0
  BY <1>4 DEF Inv, TaskInv, Holds
<1>9. held[t][m] = k.deep[m] BY <1>1, <1>8, <1>6 DEF OwnerInv
<1>10. /\ held' \in [Tasks -> [Mutexes -> 0 .. MaxDeep]]
       /\ \A n \in Mutexes : held'[t][n] = IF n = m THEN k'.deep[m] ELSE held[t][n]
       /\ \A u \in Tasks \ {t} : held'[u] = held[u]
  BY <1>2, <1>7, <1>9 DEF Inv, VarTypes
<1>11. Acts(t)
  <2>1. \A u \in Tasks : Present(k', u) <=> Present(k, u) BY <1>3 DEF Present, Linked
  <2>2. QED BY <1>2, <1>3, <1>4, <1>5, <1>6, <1>10, <2>1 DEF Acts, JoinsWith
<1>12. VarTypes' BY <1>4, <1>5, <1>10 DEF VarTypes, JoinsWith
<1>13. CurrentInv' BY <1>1, <1>3, <1>4 DEF CurrentInv
<1>14. FreeInv(k') BY <1>1, <1>2, <1>3, <1>6 DEF FreeInv
<1>15. FinishDeep'
  <2>1. m \in Range(finish) => k.master[m] # t BY <1>5 DEF JoinsWith
  <2>2. m \in Range(finish) => k.deep[m] = 0 BY <1>1, <2>1 DEF OwnerInv
  <2>3. \A g \in Range(finish) : g \in Mutexes BY KernelParameters DEF Range
  <2>4. QED BY <1>2, <2>2, <2>3 DEF FinishDeep, Inv
<1>16. Blocked(t)' BY <1>4, FrameFields DEF Blocked
<1>17. Joined1(t)'
  <2>1. \A g \in Range(finish) : g \in Mutexes BY KernelParameters DEF Range
  <2>2. \A g \in Mutexes : Uses(t, g)' => g = m \/ k.master[g] = t
    BY <1>2, <1>4, FrameFields DEF Uses
  <2>3. ASSUME NEW g \in Range(finish), Uses(t, g)'
        PROVE  joining'[t] # None /\ finish[joining'[t].task] = g
    <3>1. CASE k.master[g] = t
      <4>1. Uses(t, g) BY <1>4, <3>1 DEF Uses
      <4>2. joining[t] # None /\ finish[joining[t].task] = g
        BY <4>1 DEF Inv, TaskInv, Joined1
      <4>3. QED BY <1>5, <4>2 DEF JoinsWith
    <3>2. CASE g = m BY <1>5, <3>2 DEF JoinsWith
    <3>3. QED BY <2>1, <2>2, <2>3, <3>1, <3>2
  <2>4. joining'[t] # None => k'.master[finish[joining'[t].task]] = t
    BY <1>2, <1>5 DEF JoinsWith
  <2>5. QED BY <1>4, <2>1, <2>3, <2>4 DEF Joined1
<1>18. Holds(t)' BY <1>2, <1>4, <1>8, <1>10 DEF Holds
<1>19. QED BY <1>1, <1>11, <1>12, <1>13, <1>14, <1>15, <1>16, <1>17, <1>18, ActsKeeps DEF TaskInv

\* What the state after the last statement of the function is.
LEMMA LockDone ==
    ASSUME Inv, NEW t \in Tasks, t = k.current, NEW m \in Mutexes,
           k.master[m] \in {None, t}, k.master[m] = t => k.deep[m] < MaxDeep
    PROVE  LET r == LockMutex(k, m)
           IN  KInv(r) /\ Changes(k, r, Locked) /\ Taken(k, r, m, k.deep[m] + 1)
<1>1. k.master[m] = None \/ k.deep[m] < MaxDeep OBVIOUS
<1>2. QED BY <1>1, LockKeeps DEF Inv, Locked

\* mutex_lock_irq then attaches the interrupt.
LEMMA LockIrqDone ==
    ASSUME Inv, NEW t \in Tasks, t = k.current, NEW i \in Irqs, NEW b \in BOOLEAN,
           LET m == IrqMutex[i]
           IN  k.master[m] \in {None, t} /\ (k.master[m] = t => k.deep[m] < MaxDeep)
    PROVE  LET m == IrqMutex[i]
               r == Attached(LockMutex(k, m), m, i, b)
           IN  KInv(r) /\ Changes(k, r, AttachedFields) /\ Taken(k, r, m, k.deep[m] + 1)
<1> DEFINE m == IrqMutex[i]
           q == LockMutex(k, m)
           r == Attached(q, m, i, b)
<1>1. m \in Mutexes /\ m \in Locks BY KernelParameters DEF Locks
<1>2. KInv(q) /\ Changes(k, q, Locked) /\ Taken(k, q, m, k.deep[m] + 1)
  BY <1>1, LockDone
<1> HIDE DEF q, m
<1>3. /\ Changes(q, r, {"irq", "ilock", "fast", "pending"})
      /\ r.irq = [q.irq EXCEPT ![m] = i] /\ r.ilock = [q.ilock EXCEPT ![i] = m]
      /\ r.fast = [q.fast EXCEPT ![i] = b] /\ r.pending = [q.pending EXCEPT ![i] = FALSE]
  BY <1>2 DEF Shaped, Fields, Changes, Attached, KInv
<1> HIDE DEF r
<1>4. DataInv(q) BY <1>2 DEF KInv
<1>5. DataInv(r)
  <2>1. /\ r.irq \in [Mutexes -> OrNone(Irqs)] /\ r.ilock \in [Irqs -> OrNone(Locks)]
        /\ r.fast \in [Irqs -> BOOLEAN] /\ r.pending \in [Irqs -> BOOLEAN]
    BY <1>1, <1>3, <1>4 DEF DataInv, OrNone
  <2>2. \A x \in Fields \ {"irq", "ilock", "fast", "pending"} : r[x] = q[x]
    BY <1>3 DEF Changes
  <2>3. QED BY <1>4, <2>1, <2>2 DEF DataInv, Fields
<1>6. KInv(r) BY <1>2, <1>3, <1>5, KInvFrame DEF Fields
<1>7. r.master = q.master /\ r.deep = q.deep /\ r.owned = q.owned BY <1>3 DEF Changes, Fields
<1>8. Taken(k, r, m, k.deep[m] + 1) BY <1>2, <1>7 DEF Taken
<1>9. Changes(k, r, AttachedFields) BY <1>2, <1>3, ChangesTrans DEF AttachedFields
<1>10. QED BY <1>6, <1>8, <1>9 DEF m, q, r

\* One test of the loop of mutex_lock, by whoever calls it.
LEMMA LockLoopInv ==
    ASSUME Inv, NEW t \in Tasks, t = k.current, t \in Range(k.list[Active]), ~Absent(t),
           NEW m \in Mutexes, NEW f, Acquiring(f, m), frame[t] \in {User, f},
           JoinsWith(t, m, f), NEW done,
           k.master[m] \in {None, t} =>
             KInv(done) /\ Changes(k, done, AttachedFields) /\ Taken(k, done, m, k.deep[m] + 1),
           LockLoop(t, m, f, done)
    PROVE  Inv'
<1>1. CASE k.master[m] \notin {None, t}
  <2>1. k' = BlockOnMutex(k, m) /\ frame' = [frame EXCEPT ![t] = f] /\ held' = held
    BY <1>1 DEF LockLoop
  <2>2. QED BY <1>1, <2>1, LockBlocks DEF LockStep
<1>2. CASE k.master[m] \in {None, t}
  <2>1. /\ k' = done /\ frame' = [frame EXCEPT ![t] = User]
        /\ held' = [held EXCEPT ![t][m] = @ + 1]
    BY <1>2 DEF LockLoop
  <2>2. QED BY <1>2, <2>1, LockTakes DEF LockStep
<1>3. QED BY <1>1, <1>2

\* mutex_lock (mutex.c:41-98).
LEMMA MutexLockInv ==
    ASSUME Inv, NEW t \in Tasks, NEW m \in Locks, MutexLock(t, m)
    PROVE  Inv'
<1> DEFINE done == LockMutex(k, m)
<1>1. m \in Mutexes /\ m \notin Range(finish) BY DEF Locks
<1>2. t = k.current /\ frame[t] = User /\ joining[t] = None /\ k.master[m] # t
  BY DEF MutexLock, Calls, Running
<1>3. t \in Range(k.list[Active]) /\ ~Absent(t) BY <1>2, FrameFields, RunnerIsReady
<1>4. JoinsWith(t, m, Locking(m)) BY <1>1, <1>2 DEF MutexLock, JoinsWith, Inv, VarTypes
<1>5. k.master[m] \in {None, t} =>
        KInv(done) /\ Changes(k, done, AttachedFields) /\ Taken(k, done, m, k.deep[m] + 1)
  BY <1>1, <1>2, LockDone DEF Changes, AttachedFields
<1>6. LockLoop(t, m, Locking(m), done) BY DEF MutexLock
<1> HIDE DEF done
<1>7. QED BY <1>1, <1>2, <1>3, <1>4, <1>5, <1>6, LockLoopInv DEF Acquiring

\* mutex_lock, switched away and current again.
LEMMA ResumeLockInv ==
    ASSUME Inv, NEW t \in Tasks, ResumeLock(t)
    PROVE  Inv'
<1>1. PICK m \in Mutexes : frame[t] = Locking(m)
  BY ResumedAt DEF ResumeLock
<1> DEFINE done == LockMutex(k, m)
<1>2. t = k.current /\ LockLoop(t, m, Locking(m), done) /\ joining' = joining
  BY <1>1, FrameFields DEF ResumeLock, Resumes
<1>3. t \in Range(k.list[Active]) /\ ~Absent(t) BY <1>1, <1>2, FrameFields, RunnerIsReady
<1>4. k.master[m] # t BY <1>1 DEF Inv, TaskInv, Blocked
<1>5. JoinsWith(t, m, Locking(m))
  <2>1. CASE m \in Range(finish)
    BY <1>1, <1>2, <1>4, <2>1 DEF Inv, VarTypes, TaskInv, Joined1, Uses, JoinsWith
  <2>2. CASE m \notin Range(finish)
    <3>1. ASSUME joining[t] # None PROVE FALSE
      <4>1. joining[t].task \in Tasks BY <3>1 DEF Inv, VarTypes, OrNone
      <4>2. finish[joining[t].task] \in Mutexes \cap Range(finish)
        BY <4>1, KernelParameters DEF Range
      <4>3. frame[t] = Locking(finish[joining[t].task])
        BY <1>1, <3>1, FrameFields DEF Inv, TaskInv, Joined1, WaitsOn
      <4>4. Locking(m) = Locking(finish[joining[t].task]) BY <1>1, <4>3
      <4>5. Locking(m).mutex = Locking(finish[joining[t].task]).mutex BY <4>4
      <4>6. QED BY <2>2, <4>2, <4>5 DEF Locking
    <3>2. QED BY <1>2, <2>2, <3>1 DEF Inv, VarTypes, JoinsWith
  <2>3. QED BY <2>1, <2>2
<1>6. k.master[m] \in {None, t} =>
        KInv(done) /\ Changes(k, done, AttachedFields) /\ Taken(k, done, m, k.deep[m] + 1)
  BY <1>2, <1>4, LockDone DEF Changes, AttachedFields
<1> HIDE DEF done
<1>7. QED BY <1>1, <1>2, <1>3, <1>5, <1>6, LockLoopInv DEF Acquiring

\* mutex_trylock that succeeds (mtry.c:27-63).
LEMMA MutexTrylockInv ==
    ASSUME Inv, NEW t \in Tasks, NEW m \in Locks, MutexTrylock(t, m)
    PROVE  Inv'
<1> DEFINE done == LockMutex(k, m)
<1>1. m \in Mutexes /\ m \notin Range(finish) BY DEF Locks
<1>2. /\ t = k.current /\ frame[t] = User /\ joining[t] = None
      /\ k.master[m] \in {None, t} /\ k.deep[m] < MaxDeep
  BY DEF MutexTrylock, Calls, Running
<1>3. t \in Range(k.list[Active]) /\ ~Absent(t) BY <1>2, FrameFields, RunnerIsReady
<1>4. JoinsWith(t, m, Locking(m)) BY <1>1, <1>2 DEF MutexTrylock, JoinsWith, Inv, VarTypes
<1>5. KInv(done) /\ Changes(k, done, AttachedFields) /\ Taken(k, done, m, k.deep[m] + 1)
  BY <1>1, <1>2, LockDone DEF Changes, AttachedFields
<1>6. frame' = [frame EXCEPT ![t] = User] BY <1>2 DEF MutexTrylock, Inv, VarTypes
<1>7. LockStep(t, m, Locking(m), User) BY <1>2, <1>3, <1>4, <1>6 DEF LockStep, Acquiring
<1>8. k' = done /\ held' = [held EXCEPT ![t][m] = @ + 1] BY DEF MutexTrylock
<1> HIDE DEF done
<1>9. QED BY <1>1, <1>2, <1>5, <1>7, <1>8, LockTakes

\* task_wait takes the finish lock (twait.c:25-30).
LEMMA TaskWaitInv ==
    ASSUME Inv, NEW t \in Tasks, NEW d \in Tasks, TaskWait(t, d)
    PROVE  Inv'
<1> DEFINE m == finish[d]
           done == LockMutex(k, m)
<1>1. m \in Mutexes /\ m \in Range(finish) BY KernelParameters DEF Range
<1>2. t = k.current /\ frame[t] = User /\ joining[t] = None BY DEF TaskWait, Calls, Running
<1>3. t \in Range(k.list[Active]) /\ ~Absent(t) BY <1>2, FrameFields, RunnerIsReady
<1>4. k.master[m] # t
  BY <1>1, <1>2, <1>3 DEF Inv, TaskInv, Joined1, Uses, Absent
<1>5. JoinsWith(t, m, Locking(m))
  <2>1. Joining(d, FALSE) \in [task : Tasks, seen : BOOLEAN] /\ Joining(d, FALSE).task = d
    BY DEF Joining
  <2>2. Joining(d, FALSE) # None BY <2>1, NoneIsNoJoining
  <2>3. joining' = [joining EXCEPT ![t] = Joining(d, FALSE)] BY DEF TaskWait
  <2>4. QED BY <1>2, <1>4, <2>1, <2>2, <2>3 DEF JoinsWith, Inv, VarTypes, OrNone
<1>6. k.master[m] \in {None, t} =>
        KInv(done) /\ Changes(k, done, AttachedFields) /\ Taken(k, done, m, k.deep[m] + 1)
  BY <1>1, <1>2, <1>4, LockDone DEF Changes, AttachedFields
<1>7. LockLoop(t, m, Locking(m), done) BY DEF TaskWait
<1> HIDE DEF m, done
<1>8. QED BY <1>1, <1>2, <1>3, <1>5, <1>6, <1>7, LockLoopInv DEF Acquiring

\* The lock of an interrupt is a driver's, and no finish lock.
LEMMA IrqJoins ==
    ASSUME Inv, NEW t \in Tasks, NEW i \in Irqs, NEW b \in BOOLEAN, joining' = joining,
           frame[t] = LockingIrq(i, b) \/ joining[t] = None
    PROVE  /\ IrqMutex[i] \in Mutexes
           /\ JoinsWith(t, IrqMutex[i], LockingIrq(i, b))
<1>1. IrqMutex[i] \in Mutexes /\ IrqMutex[i] \notin Range(finish) BY KernelParameters
<1>2. joining[t] = None BY FrameFields DEF Inv, TaskInv, Joined1, WaitsOn
<1>3. QED BY <1>1, <1>2 DEF JoinsWith, Inv, VarTypes

\* mutex_lock_irq (itake.c:27-90).
LEMMA MutexLockIrqInv ==
    ASSUME Inv, NEW t \in Tasks, NEW i \in Irqs, NEW b \in BOOLEAN, MutexLockIrq(t, i, b)
    PROVE  Inv'
<1> DEFINE m == IrqMutex[i]
           done == Attached(LockMutex(k, m), m, i, b)
<1>1. /\ t = k.current /\ frame[t] = User /\ joining[t] = None
      /\ k.master[m] = t => k.deep[m] < MaxDeep
  BY DEF MutexLockIrq, Calls, Running
<1>2. t \in Range(k.list[Active]) /\ ~Absent(t) BY <1>1, FrameFields, RunnerIsReady
<1>3. m \in Mutexes /\ JoinsWith(t, m, LockingIrq(i, b)) BY <1>1, IrqJoins DEF MutexLockIrq
<1>4. k.master[m] \in {None, t} =>
        KInv(done) /\ Changes(k, done, AttachedFields) /\ Taken(k, done, m, k.deep[m] + 1)
  BY <1>1, LockIrqDone
<1>5. LockLoop(t, m, LockingIrq(i, b), done) BY DEF MutexLockIrq
<1>6. Acquiring(LockingIrq(i, b), m) BY DEF Acquiring
<1> HIDE DEF m, done
<1>7. QED BY <1>1, <1>2, <1>3, <1>4, <1>5, <1>6, LockLoopInv

\* mutex_lock_irq, switched away and current again.
LEMMA ResumeLockIrqInv ==
    ASSUME Inv, NEW t \in Tasks, ResumeLockIrq(t)
    PROVE  Inv'
<1>1. PICK i \in Irqs, b \in BOOLEAN : frame[t] = LockingIrq(i, b)
  BY ResumedAt DEF ResumeLockIrq
<1> DEFINE m == IrqMutex[i]
           done == Attached(LockMutex(k, m), m, i, b)
<1>2. t = k.current /\ LockLoop(t, m, LockingIrq(i, b), done) /\ joining' = joining
  BY <1>1, FrameFields DEF ResumeLockIrq, Resumes
<1>3. t \in Range(k.list[Active]) /\ ~Absent(t) BY <1>1, <1>2, FrameFields, RunnerIsReady
<1>4. k.master[m] # t BY <1>1 DEF Inv, TaskInv, Blocked
<1>5. m \in Mutexes /\ JoinsWith(t, m, LockingIrq(i, b)) BY <1>1, <1>2, IrqJoins
<1>6. k.master[m] \in {None, t} =>
        KInv(done) /\ Changes(k, done, AttachedFields) /\ Taken(k, done, m, k.deep[m] + 1)
  BY <1>2, <1>4, LockIrqDone
<1>7. Acquiring(LockingIrq(i, b), m) BY DEF Acquiring
<1> HIDE DEF m, done
<1>8. QED BY <1>1, <1>2, <1>3, <1>5, <1>6, <1>7, LockLoopInv

-----------------------------------------------------------------------------
(***************************************************************************)
(* mutex_unlock, also of task_wait and task_delete, and mutex_unlock_irq.  *)
(***************************************************************************)

\* Its master has m once less, and at last no more; the other locks stay.
GaveBack(m) ==
    /\ \A n \in Mutexes \ {m} : k'.master[n] = k.master[n] /\ k'.deep[n] = k.deep[n]
    /\ k'.deep[m] = k.deep[m] - 1
    /\ k'.master[m] = IF k.deep[m] > 1 THEN k.master[m] ELSE None
    /\ \A u \in Tasks : /\ k.owned[u] = <<>> => k'.owned[u] = <<>>
                        /\ Present(k', u) => Present(k, u)
    /\ k'.base = k.base

\* What the invariant says of k after such a call.
Returned(m) == KInv(k') /\ FreeInv(k') /\ CurrentInv' /\ GaveBack(m)

\* mutex_unlock of a lock that was taken more than once (mutex.c:187-190).
LEMMA UnnestedReturns ==
    ASSUME Inv, NEW m \in Mutexes, k.master[m] # None, k.deep[m] > 1,
           k' = [k EXCEPT !.deep[m] = @ - 1], frame' = frame
    PROVE  Returned(m)
<1>1. KInv(k) /\ OwnerType(k) /\ OwnerInv(k) /\ FreeInv(k) BY DEF Inv, KInv, OwnerInv
<1>2. k.deep[m] - 1 \in 1 .. MaxDeep BY <1>1, KernelParameters DEF OwnerType
<1> DEFINE n == k.deep[m] - 1
           r == [k EXCEPT !.deep[m] = n]
<1>3. k' = r OBVIOUS
<1> HIDE DEF n
<1>4. KInv(r) /\ Changes(k, r, {"deep"}) /\ r.deep = [k.deep EXCEPT ![m] = n]
  BY <1>1, <1>2, DeepKeeps DEF n
<1> HIDE DEF r
<1>5. \A f \in Fields \ {"deep"} : r[f] = k[f] BY <1>4 DEF Changes
<1>6. Grows(k, r) BY <1>5 DEF Grows, Present, Linked, Fields
<1>7. CurrentInv' BY <1>3, <1>5, <1>6, UnscheduledCurrent DEF Fields
<1>8. FreeInv(r) BY <1>1, <1>5 DEF FreeInv, Fields
<1>9. /\ r.deep[m] = k.deep[m] - 1
      /\ \A x \in Mutexes \ {m} : r.deep[x] = k.deep[x]
  BY <1>1, <1>4 DEF OwnerType, n
<1>10. GaveBack(m) BY <1>3, <1>5, <1>6, <1>9 DEF GaveBack, Grows, Fields, AllTasks
<1>11. QED BY <1>3, <1>4, <1>7, <1>8, <1>10 DEF Returned

\* mutex_unlock that releases the lock, and the reschedule at its end.
LEMMA FreedReturns ==
    ASSUME Inv, NEW m \in Mutexes, k.master[m] # None, ~(k.deep[m] > 1),
           NEW r, KInv(r), Grows(k, r), Freed(k, r, m), NEW F, Changes(k, r, F),
           "current" \notin F, "base" \notin F, k' = ScheduleIfNeeded(r), frame' = frame
    PROVE  Returned(m)
<1>1. KInv(k) /\ OwnerType(k) /\ OwnerInv(k) /\ FreeInv(k) BY DEF Inv, KInv, OwnerInv
<1>2. r.current = k.current /\ r.base = k.base BY DEF Changes, Fields
<1>3. frame'[Idle] \in {User, Boot} BY DEF Inv, CurrentInv
<1>4. /\ KInv(k') /\ CurrentInv'
      /\ Changes(r, k', {"current", "need"})
      /\ \A u \in AllTasks : Present(k', u) => Present(k, u)
  BY <1>2, <1>3, SettledCurrent
<1>5. k'.master = r.master /\ k'.deep = r.deep /\ k'.owned = r.owned /\ k'.base = r.base
      /\ k'.lock = r.lock
  BY <1>4 DEF Changes, Fields
<1>6. FreeInv(r) BY <1>1, FreedIsFree
<1>7. FreeInv(k') BY <1>5, <1>6 DEF FreeInv
<1>8. k.deep[m] = 1
  <2>1. k.deep[m] \in 0 .. MaxDeep /\ k.deep[m] # 0 BY <1>1 DEF OwnerInv, OwnerType
  <2>2. QED BY <2>1, KernelParameters
<1>9. /\ \A n \in Mutexes : k'.master[n] = IF n = m THEN None ELSE k.master[n]
      /\ \A n \in Mutexes : k'.deep[n] = IF n = m THEN 0 ELSE k.deep[n]
      /\ \A u \in AllTasks : k.owned[u] = <<>> => k'.owned[u] = <<>>
  BY <1>1, <1>5 DEF Freed, Disowned, OwnerType
<1>10. GaveBack(m) BY <1>2, <1>4, <1>5, <1>8, <1>9 DEF GaveBack, AllTasks
<1>11. QED BY <1>4, <1>7, <1>10 DEF Returned

\* mutex_unlock, either way (mutex.c:178-226).
LEMMA UnlockedReturns ==
    ASSUME Inv, NEW m \in Mutexes, k.master[m] # None, NEW outcome \in Outcomes,
           k' = Unlocked(m, outcome), frame' = frame
    PROVE  Returned(m)
<1>1. KInv(k) BY DEF Inv
<1>2. CASE k.deep[m] > 1 BY <1>2, UnnestedReturns DEF Unlocked
<1>3. CASE ~(k.deep[m] > 1)
  <2> DEFINE r == ReleaseMutex(k, m, outcome)
  <2>1. KInv(r) /\ Grows(k, r) /\ Freed(k, r, m) /\ Changes(k, r, Released)
    BY <1>1, ReleaseKeeps, ReleaseShape DEF KInv
  <2>2. k' = ScheduleIfNeeded(r) BY <1>3 DEF Unlocked
  <2>3. "current" \notin Released /\ "base" \notin Released
    BY DEF Released, Served, Woken, Inherited
  <2> HIDE DEF r
  <2>4. QED BY <1>3, <2>1, <2>2, <2>3, FreedReturns
<1>4. QED BY <1>2, <1>3

\* The interrupt is detached from its lock (irelease.c:63-65).
LEMMA DetachedKeeps ==
    ASSUME NEW s, KInv(s), NEW m \in Mutexes
    PROVE  LET r == Detached(s, m)
           IN  KInv(r) /\ Grows(s, r) /\ Changes(s, r, {"irq", "ilock"})
<1> DEFINE i == s.irq[m]
           r == [s EXCEPT !.ilock[i] = None, !.irq[m] = None]
<1>1. KInv(s) /\ Grows(s, s) /\ Changes(s, s, {"irq", "ilock"}) BY DEF Grows, Changes, KInv
<1>2. ASSUME i # None
      PROVE  KInv(r) /\ Grows(s, r) /\ Changes(s, r, {"irq", "ilock"})
  <2>1. DataInv(s) /\ Shaped(s) BY DEF KInv
  <2>2. i \in Irqs BY <1>2, <2>1 DEF DataInv, OrNone
  <2> HIDE DEF i
  <2>3. /\ Changes(s, r, {"irq", "ilock"})
        /\ r.ilock = [s.ilock EXCEPT ![i] = None] /\ r.irq = [s.irq EXCEPT ![m] = None]
    BY <2>1 DEF Shaped, Fields, Changes
  <2> HIDE DEF r
  <2>4. r.ilock \in [Irqs -> OrNone(Locks)] /\ r.irq \in [Mutexes -> OrNone(Irqs)]
    <3>1. s.ilock \in [Irqs -> OrNone(Locks)] /\ s.irq \in [Mutexes -> OrNone(Irqs)]
      BY <2>1 DEF DataInv
    <3>2. None \in OrNone(Locks) /\ None \in OrNone(Irqs) BY DEF OrNone
    <3>3. QED BY <2>3, <3>1, <3>2
  <2>5. \A x \in Fields \ {"irq", "ilock"} : r[x] = s[x] BY <2>3 DEF Changes
  <2>6. DataInv(r) BY <2>1, <2>4, <2>5 DEF DataInv, Fields
  <2>7. KInv(r) BY <2>3, <2>6, KInvFrame DEF Fields
  <2>8. QED BY <2>3, <2>5, <2>7 DEF Grows, Present, Linked, Fields
<1>3. QED BY <1>1, <1>2 DEF Detached

\* mutex_unlock_irq that releases the lock (irelease.c:27-81).
LEMMA UnlockedIrqReturns ==
    ASSUME Inv, NEW m \in Mutexes, k.master[m] # None, NEW outcome \in Outcomes,
           ~(k.deep[m] > 1), frame' = frame,
           k' = ScheduleIfNeeded(SlavesReleased(
                    Detached(PendingServed(DisownMutex(k, m), m, outcome), m), m))
    PROVE  Returned(m)
<1> DEFINE q == DisownMutex(k, m)
           p == PendingServed(q, m, outcome)
           d == Detached(p, m)
           r == SlavesReleased(d, m)
<1>1. /\ KInv(q) /\ Grows(k, q)
      /\ Changes(k, q, Inherited \cup {"deep", "owned", "master"})
      /\ Disowned(k, q, m)
  BY DisownKeeps DEF Inv
<1>2. k' = ScheduleIfNeeded(r) OBVIOUS
<1> HIDE DEF q
<1>3. KInv(p) /\ Grows(q, p) /\ Changes(q, p, Served)
  BY <1>1, PendingKeeps, PendingShape DEF KInv
<1> HIDE DEF p
<1>4. KInv(d) /\ Grows(p, d) /\ Changes(p, d, {"irq", "ilock"}) BY <1>3, DetachedKeeps
<1> HIDE DEF d
<1>5. /\ KInv(r) /\ Grows(d, r)
      /\ \A t \in AllTasks : r.lock[t] = IF d.lock[t] = m THEN None ELSE d.lock[t]
      /\ Changes(d, r, {"list", "need", "lock", "mprio"})
  BY <1>4, SlavesReleasedKeeps, SlavesReleasedShape DEF KInv
<1> HIDE DEF r
<1>6. Grows(k, r) BY <1>1, <1>3, <1>4, <1>5, GrowsTrans
<1>7. /\ d.lock = k.lock
      /\ r.master = q.master /\ r.deep = q.deep /\ r.owned = q.owned
  BY <1>1, <1>3, <1>4, <1>5 DEF Changes, Fields, Served, Woken, Inherited
<1>8. Freed(k, r, m) BY <1>1, <1>5, <1>7 DEF Freed, Disowned
<1> DEFINE F == Released \cup {"irq", "ilock"}
<1>9. Changes(k, r, F)
  BY <1>1, <1>3, <1>4, <1>5 DEF Changes, Released, Served, Woken, Inherited
<1>10. "current" \notin F /\ "base" \notin F BY DEF Released, Served, Woken, Inherited
<1> HIDE DEF F
<1>11. QED BY <1>2, <1>5, <1>6, <1>8, <1>9, <1>10, FreedReturns

\* The current task unlocks m: in task_wait it unlocks the finish lock last.
LEMMA ReturnedKeeps ==
    ASSUME Inv, NEW t \in Tasks, t = k.current, frame[t] = User, NEW m \in Mutexes,
           k.master[m] = t, Returned(m), frame' = frame,
           held' = [held EXCEPT ![t][m] = @ - 1],
           \/ joining[t] = None /\ joining' = joining
           \/ /\ joining[t] # None /\ finish[joining[t].task] = m
              /\ joining' = [joining EXCEPT ![t] = None]
    PROVE  Inv'
<1>1. /\ KInv(k) /\ OwnerInv(k) /\ OwnerType(k) BY DEF Inv, KInv, OwnerInv
<1>2. KInv(k') /\ FreeInv(k') /\ CurrentInv' /\ GaveBack(m) BY DEF Returned
<1>3. ~Absent(t) BY FrameFields, RunnerIsReady
<1>4. /\ \A u \in Tasks : BeingDeleted(u)' <=> BeingDeleted(u)
      /\ ~BeingDeleted(t)
      /\ \A n \in Mutexes : ~WaitsOn(t, n) /\ ~WaitsOn(t, n)'
  BY <1>3, FrameFields DEF BeingDeleted, Absent, WaitsOn
<1>5. None # t /\ \A u \in Tasks \ {t} : u # None BY KernelConstants DEF AllTasks
<1>6. k.deep[m] \in 1 .. MaxDeep
  <2>1. k.deep[m] \in 0 .. MaxDeep /\ k.deep[m] # 0
    BY <1>1, <1>5 DEF OwnerInv, OwnerType
  <2>2. QED BY <2>1, KernelParameters
<1>7. \A n \in Mutexes : held[t][n] = IF k.master[n] = t THEN k.deep[n] ELSE 0
  BY <1>4 DEF Inv, TaskInv, Holds
<1>8. k.deep[m] - 1 \in 0 .. MaxDeep BY <1>6, KernelParameters
<1>9. /\ held' \in [Tasks -> [Mutexes -> 0 .. MaxDeep]]
      /\ \A n \in Mutexes : held'[t][n] = IF n = m THEN k.deep[m] - 1 ELSE held[t][n]
      /\ \A u \in Tasks \ {t} : held'[u] = held[u]
  BY <1>7, <1>8 DEF Inv, VarTypes
<1>10. /\ joining' \in [Tasks -> OrNone([task : Tasks, seen : BOOLEAN])]
       /\ joining'[t] = None
       /\ \A u \in Tasks \ {t} : joining'[u] = joining[u]
  <2>1. joining \in [Tasks -> OrNone([task : Tasks, seen : BOOLEAN])] BY DEF Inv, VarTypes
  <2>2. None \in OrNone([task : Tasks, seen : BOOLEAN]) BY DEF OrNone
  <2>3. QED BY <2>1, <2>2
<1>11. VarTypes' BY <1>9, <1>10 DEF Inv, VarTypes
<1>12. Acts(t)
  <2>1. \A u \in Tasks \ {t}, n \in Mutexes :
          /\ k'.master[n] = u <=> k.master[n] = u
          /\ k.master[n] = u => k'.deep[n] = k.deep[n]
    BY <1>2, <1>5 DEF GaveBack
  <2>2. QED BY <1>2, <1>4, <1>9, <1>10, <2>1 DEF Acts, GaveBack
<1>13. \A g \in Range(finish) : g \in Mutexes BY KernelParameters DEF Range
<1>14. FinishDeep'
  <2>1. ASSUME NEW g \in Range(finish) PROVE k'.deep[g] <= 1
    <3>1. k.deep[g] <= 1 BY DEF Inv, FinishDeep
    <3>2. CASE g = m BY <1>2, <1>6, <3>1, <3>2 DEF GaveBack
    <3>3. CASE g # m BY <1>2, <1>13, <3>1, <3>3 DEF GaveBack
    <3>4. QED BY <3>2, <3>3
  <2>2. QED BY <2>1 DEF FinishDeep
<1>15. Blocked(t)' BY <1>4, FrameFields DEF Blocked
<1>16. Joined1(t)'
  <2>1. ASSUME NEW g \in Range(finish), Uses(t, g)' PROVE FALSE
    <3>1. k'.master[g] = t BY <1>4, <1>13, <2>1, FrameFields DEF Uses
    <3>2. k.deep[g] <= 1 BY DEF Inv, FinishDeep
    <3>3. g # m
      <4>1. ASSUME g = m PROVE FALSE
        <5>1. ~(k.deep[m] > 1) BY <1>6, <3>2, <4>1
        <5>2. QED BY <1>2, <1>5, <3>1, <4>1, <5>1 DEF GaveBack
      <4>2. QED BY <4>1
    <3>4. k.master[g] = t BY <1>2, <1>13, <3>1, <3>3 DEF GaveBack
    <3>5. Uses(t, g) BY <1>4, <3>4 DEF Uses
    <3>6. joining[t] # None /\ finish[joining[t].task] = g
      BY <3>5 DEF Inv, TaskInv, Joined1
    <3>7. QED BY <3>3, <3>6
  <2>2. QED BY <1>4, <1>10, <1>13, <2>1 DEF Joined1
<1>17. Holds(t)'
  <2> SUFFICES ASSUME NEW n \in Mutexes
               PROVE  held'[t][n] = IF k'.master[n] = t THEN k'.deep[n] ELSE 0
    BY <1>4 DEF Holds
  <2>1. CASE n # m BY <1>2, <1>7, <1>9, <2>1 DEF GaveBack
  <2>2. CASE n = m /\ k.deep[m] > 1
    <3>1. k'.master[m] = t /\ k'.deep[m] = k.deep[m] - 1 BY <1>2, <2>2 DEF GaveBack
    <3>2. QED BY <1>9, <2>2, <3>1
  <2>3. CASE n = m /\ ~(k.deep[m] > 1)
    <3>1. k.deep[m] = 1 BY <1>6, <2>3
    <3>2. k'.master[m] = None BY <1>2, <2>3 DEF GaveBack
    <3>3. held'[t][m] = k.deep[m] - 1 BY <1>9
    <3>4. held'[t][m] = 0 BY <3>1, <3>3
    <3>5. QED BY <1>5, <2>3, <3>2, <3>4
  <2>4. QED BY <2>1, <2>2, <2>3
<1>18. QED BY <1>2, <1>3, <1>11, <1>12, <1>14, <1>15, <1>16, <1>17, ActsKeeps DEF TaskInv

\* mutex_unlock, called by a task.
LEMMA MutexUnlockInv ==
    ASSUME Inv, NEW t \in Tasks, NEW m \in Locks, MutexUnlock(t, m)
    PROVE  Inv'
<1>1. m \in Mutexes BY DEF Locks
<1>2. /\ t = k.current /\ frame[t] = User /\ joining[t] = None /\ k.master[m] = t
      /\ held' = [held EXCEPT ![t][m] = @ - 1] /\ frame' = frame /\ joining' = joining
  BY DEF MutexUnlock, Calls, Running
<1>3. PICK outcome \in Outcomes : k' = Unlocked(m, outcome) BY DEF MutexUnlock
<1>4. k.master[m] # None BY <1>2, KernelConstants DEF AllTasks
<1>5. Returned(m) BY <1>1, <1>2, <1>3, <1>4, UnlockedReturns
<1>6. QED BY <1>1, <1>2, <1>5, ReturnedKeeps

\* mutex_unlock_irq, called by a task.
LEMMA MutexUnlockIrqInv ==
    ASSUME Inv, NEW t \in Tasks, NEW m \in Locks, MutexUnlockIrq(t, m)
    PROVE  Inv'
<1>1. m \in Mutexes BY DEF Locks
<1>2. /\ t = k.current /\ frame[t] = User /\ joining[t] = None /\ k.master[m] = t
      /\ held' = [held EXCEPT ![t][m] = @ - 1] /\ frame' = frame /\ joining' = joining
  BY DEF MutexUnlockIrq, Calls, Running
<1>3. k.master[m] # None BY <1>2, KernelConstants DEF AllTasks
<1>4. CASE k.deep[m] > 1
  <2>1. k' = [k EXCEPT !.deep[m] = @ - 1] BY <1>4 DEF MutexUnlockIrq
  <2>2. Returned(m) BY <1>1, <1>2, <1>3, <1>4, <2>1, UnnestedReturns
  <2>3. QED BY <1>1, <1>2, <2>2, ReturnedKeeps
<1>5. CASE ~(k.deep[m] > 1)
  <2>1. PICK outcome \in Outcomes :
          k' = ScheduleIfNeeded(SlavesReleased(
                   Detached(PendingServed(DisownMutex(k, m), m, outcome), m), m))
    BY <1>5 DEF MutexUnlockIrq
  <2>2. Returned(m) BY <1>1, <1>2, <1>3, <1>5, <2>1, UnlockedIrqReturns
  <2>3. QED BY <1>1, <1>2, <2>2, ReturnedKeeps
<1>6. QED BY <1>4, <1>5

\* Inside task_wait, and running, a task has the finish lock.
LEMMA JoinerHas ==
    ASSUME Inv, NEW t \in Tasks, Joins(t)
    PROVE  LET m == finish[joining[t].task]
           IN  /\ m \in Mutexes /\ m \in Range(finish) /\ k.master[m] = t /\ m # None
               /\ joining[t] # None /\ joining[t] \in [task : Tasks, seen : BOOLEAN]
               /\ t = k.current /\ frame[t] = User
<1>1. t = k.current /\ frame[t] = User /\ joining[t] # None BY DEF Joins, Running
<1>2. joining[t] \in [task : Tasks, seen : BOOLEAN] BY <1>1 DEF Inv, VarTypes, OrNone
<1>3. finish[joining[t].task] \in Mutexes \cap Range(finish)
  BY <1>2, KernelParameters DEF Range
<1>4. k.master[finish[joining[t].task]] = t
  BY <1>1, FrameFields DEF Inv, TaskInv, Joined1, WaitsOn
<1>5. QED BY <1>1, <1>2, <1>3, <1>4, KernelConstants

\* task_wait gives the finish lock back (twait.c:31-34).
LEMMA TaskWaitReturnInv ==
    ASSUME Inv, NEW t \in Tasks, TaskWaitReturn(t)
    PROVE  Inv'
<1> DEFINE m == finish[joining[t].task]
<1>1. /\ m \in Mutexes /\ k.master[m] = t /\ joining[t] # None
      /\ t = k.current /\ frame[t] = User
  BY JoinerHas DEF TaskWaitReturn
<1>2. /\ held' = [held EXCEPT ![t][m] = @ - 1] /\ frame' = frame
      /\ joining' = [joining EXCEPT ![t] = None]
  BY DEF TaskWaitReturn
<1>3. PICK outcome \in Outcomes : k' = Unlocked(m, outcome) BY DEF TaskWaitReturn
<1>4. k.master[m] # None BY <1>1, KernelConstants DEF AllTasks
<1>5. m = finish[joining[t].task] OBVIOUS
<1> HIDE DEF m
<1>6. Returned(m) BY <1>1, <1>2, <1>3, <1>4, UnlockedReturns
<1>7. QED BY <1>1, <1>2, <1>5, <1>6, ReturnedKeeps

-----------------------------------------------------------------------------
(***************************************************************************)
(* mutex_wait, also of task_wait.                                          *)
(***************************************************************************)

\* The task goes on the list of m, from a state k1 that differs from k in the
\* flags of the interrupts.
LEMMA SuspendLists ==
    ASSUME NEW s, KInv(s), NEW t \in AllTasks, t \in Range(s.list[Active]), NEW m \in Mutexes
    PROVE  LET r == ListAppend([Unmasked(s, m) EXCEPT !.wait[t] = m], Waiters(m), t)
           IN  KInv(r) /\ Left(s, r, t) /\ Changes(s, r, {"wait", "allowed", "list"})
<1> DEFINE i == s.irq[m]
           p == Unmasked(s, m)
           q == [p EXCEPT !.wait[t] = m]
           r == ListAppend(q, Waiters(m), t)
<1>1. DataInv(s) /\ Shaped(s) BY DEF KInv
<1>2. /\ Changes(s, p, {"allowed"}) /\ p.allowed \in [Irqs -> BOOLEAN]
  <2>1. CASE i = None BY <1>1, <2>1 DEF Unmasked, Changes, DataInv
  <2>2. CASE i # None
    <3>1. p = [s EXCEPT !.allowed[i] = TRUE] BY <2>2 DEF Unmasked
    <3> HIDE DEF i, p
    <3>2. QED BY <1>1, <3>1 DEF Shaped, Fields, Changes, DataInv
  <2>3. QED BY <2>1, <2>2
<1> HIDE DEF p
<1>3. Changes(p, q, {"wait"}) /\ q.wait = [p.wait EXCEPT ![t] = m]
  BY <1>2 DEF Shaped, Fields, Changes
<1> HIDE DEF q
<1>4. Changes(s, q, {"wait", "allowed"}) BY <1>2, <1>3, ChangesTrans
<1>5. q.wait = [s.wait EXCEPT ![t] = m] /\ q.allowed = p.allowed
  BY <1>2, <1>3 DEF Changes, Fields
<1>6. DataInv(q) BY <1>1, <1>2, <1>4, <1>5 DEF DataInv, Changes, Fields
<1>7. KInv(r) /\ Left(s, r, t) BY <1>4, <1>5, <1>6, WaitingKeeps
<1>8. Changes(q, r, {"list"}) BY <1>4, AppendShape DEF Changes
<1> HIDE DEF r
<1>9. Changes(s, r, {"wait", "allowed", "list"}) BY <1>4, <1>8, ChangesTrans
<1>10. QED BY <1>7, <1>9 DEF r, q, p

\* m is free, and who was blocked on it is ready, when the task switches.
LEMMA SuspendReleases ==
    ASSUME NEW s, KInv(s), FreeInv(s), NEW m \in Mutexes, s.master[m] # None
    PROVE  LET r == [SlavesActivated(DisownMutex(s, m), m) EXCEPT !.mprio[m] = 0]
           IN  /\ KInv(r) /\ FreeInv(r) /\ Grows(s, r) /\ Disowned(s, r, m)
               /\ r.base = s.base
<1> DEFINE d == DisownMutex(s, m)
           a == SlavesActivated(d, m)
           r == [a EXCEPT !.mprio[m] = 0]
<1>1. /\ KInv(d) /\ Grows(s, d)
      /\ Changes(s, d, Inherited \cup {"deep", "owned", "master"})
      /\ Disowned(s, d, m)
  BY DisownKeeps
<1> HIDE DEF d
<1>2. /\ KInv(a) /\ Grows(d, a)
      /\ \A t \in AllTasks : a.lock[t] = IF d.lock[t] = m THEN None ELSE d.lock[t]
      /\ Changes(d, a, {"list", "need", "lock"})
  BY <1>1, SlavesActivatedKeeps, SlavesShape DEF KInv
<1> HIDE DEF a
<1>3. Changes(a, r, {"mprio"}) /\ r.mprio = [a.mprio EXCEPT ![m] = 0]
  BY <1>2 DEF Shaped, Fields, Changes, KInv
<1> HIDE DEF r
<1>4. \A f \in Fields \ {"mprio"} : r[f] = a[f] BY <1>3 DEF Changes
<1>5. DataInv(r)
  <2>1. DataInv(a) BY <1>2 DEF KInv
  <2>2. 0 \in Prios BY KernelParameters DEF Prios
  <2>3. r.mprio \in [Mutexes -> Prios] BY <1>3, <2>1, <2>2 DEF DataInv
  <2>4. QED BY <1>4, <2>1, <2>3 DEF DataInv, Fields
<1>6. KInv(r) BY <1>2, <1>3, <1>5, KInvFrame DEF Fields
<1>7. Grows(a, r) BY <1>4 DEF Grows, Present, Linked, Fields
<1>8. Grows(s, r) BY <1>1, <1>2, <1>7, GrowsTrans
<1>9. /\ d.lock = s.lock /\ r.lock = a.lock /\ r.base = s.base
      /\ r.master = d.master /\ r.deep = d.deep /\ r.owned = d.owned
  BY <1>1, <1>2, <1>4 DEF Changes, Fields, Inherited
<1>10. Disowned(s, r, m) BY <1>1, <1>9 DEF Disowned
<1>11. Freed(s, r, m) BY <1>2, <1>9, <1>10 DEF Freed
<1>12. FreeInv(r) BY <1>11, FreedIsFree
<1>13. QED BY <1>6, <1>8, <1>9, <1>10, <1>12 DEF d, a, r

\* The task is in mutex_wait of m, or in the loop of task_wait that calls it.
MayWait(t, m) ==
    /\ t = k.current /\ frame[t] = User /\ t \in Range(k.list[Active]) /\ ~Absent(t)
    /\ joining' \in [Tasks -> OrNone([task : Tasks, seen : BOOLEAN])]
    /\ \A u \in Tasks : SameJoin(u) /\ (u # t => joining'[u] = joining[u])
    /\ IF m \in Range(finish)
       THEN joining[t] # None /\ finish[joining[t].task] = m ELSE joining[t] = None

\* It did not have m: the assert of mutex_wait does not demand it.
LEMMA SuspendedOutside ==
    ASSUME Inv, NEW t \in Tasks, NEW m \in Mutexes, MayWait(t, m), NEW r, KInv(r),
           Left(k, r, t), Changes(k, r, {"wait", "allowed", "list", "pending"}),
           k' = TaskSchedule(r), UNCHANGED <<frame, held>>
    PROVE  Inv'
<1>1. Idle \in Range(r.list[Active])
  BY KernelConstants DEF Inv, CurrentInv, Left
<1>2. /\ KInv(k') /\ k'.list = r.list /\ k'.current \in Range(k'.list[Active])
      /\ Changes(r, k', {"current", "need"})
  BY <1>1, ScheduleKeeps, ScheduleShape DEF KInv
<1>3. /\ k'.master = k.master /\ k'.owned = k.owned /\ k'.deep = k.deep
      /\ k'.lock = k.lock /\ k'.base = k.base /\ k'.waiter = r.waiter
  BY <1>2 DEF Changes, Fields
<1>4. \A u : Present(k', u) <=> Present(r, u) BY <1>2, <1>3 DEF Present, Linked
<1>5. Quiet(k') BY <1>3, <1>4 DEF Quiet, Left, AllTasks
<1>6. CurrentInv' BY <1>1, <1>2 DEF Inv, CurrentInv
<1>7. VarTypes' BY DEF Inv, VarTypes, MayWait
<1>8. \A u \in Tasks : SameJoin(u) BY DEF MayWait
<1>9. QED BY <1>2, <1>3, <1>5, <1>6, <1>7, <1>8, QuietKeeps

\* mutex_wait by the master: it is remembered how deep it had the lock.
LEMMA SuspendedInside ==
    ASSUME Inv, NEW t \in Tasks, NEW m \in Mutexes, MayWait(t, m), k.master[m] = t,
           KInv(k'), FreeInv(k'), k'.base = k.base,
           Idle \in Range(k'.list[Active]), k'.current \in Range(k'.list[Active]),
           \A u \in Tasks : Present(k', u) => Present(k, u),
           Disowned(k, k', m),
           frame' = [frame EXCEPT ![t] = Waiting(m, k.deep[m])], held' = held
    PROVE  Inv'
<1> DEFINE n == k.deep[m]
<1>1. KInv(k) /\ OwnerInv(k) /\ OwnerType(k) /\ ~Absent(t) BY DEF Inv, KInv, OwnerInv, MayWait
<1>2. t # None /\ \A u \in Tasks : u # None BY KernelConstants DEF AllTasks
<1>3. n \in 1 .. MaxDeep
  <2>1. n \in 0 .. MaxDeep /\ n # 0 BY <1>1, <1>2 DEF OwnerInv, OwnerType
  <2>2. QED BY <2>1, KernelParameters
<1>4. /\ \A x \in Mutexes : k'.master[x] = IF x = m THEN None ELSE k.master[x]
      /\ \A x \in Mutexes : k'.deep[x] = IF x = m THEN 0 ELSE k.deep[x]
      /\ \A u \in AllTasks : k.owned[u] = <<>> => k'.owned[u] = <<>>
  BY <1>1 DEF Disowned, OwnerType
<1>5. frame[t] = User BY DEF MayWait
<1>6. /\ frame' \in [AllTasks -> Frames] /\ frame'[t] = Waiting(m, n)
      /\ \A u \in Tasks \ {t} : frame'[u] = frame[u]
      /\ frame'[Idle] = frame[Idle]
  BY <1>3, FrameTypes, KernelConstants DEF Inv, VarTypes, AllTasks
<1>7. Waiting(m, n).at = "mutex_wait" /\ Waiting(m, n).mutex = m /\ Waiting(m, n).deep = n
  BY FrameFields
<1> HIDE DEF n
<1>8. \A u \in Tasks : BeingDeleted(u)' <=> BeingDeleted(u)
  BY <1>5, <1>6, <1>7, FrameFields DEF BeingDeleted
<1>9. ~BeingDeleted(t) BY <1>1 DEF Absent
<1>10. /\ \A x \in Mutexes : ~WaitsOn(t, x) /\ (WaitsOn(t, x)' <=> x = m)
       /\ \A x : frame'[t] # Locking(x)
       /\ \A i, b : frame'[t] # LockingIrq(i, b)
  BY <1>5, <1>6, <1>7, FrameFields DEF WaitsOn
<1>11. Acts(t) BY <1>1, <1>2, <1>4, <1>6, <1>8 DEF Acts, MayWait, AllTasks
<1>12. VarTypes' BY <1>6 DEF Inv, VarTypes, MayWait
<1>13. CurrentInv' BY <1>6 DEF Inv, CurrentInv
<1>14. \A g \in Range(finish) : g \in Mutexes BY KernelParameters DEF Range
<1>15. FinishDeep' BY <1>4, <1>14 DEF Inv, FinishDeep
<1>16. Blocked(t)' BY <1>2, <1>4, <1>10 DEF Blocked
<1>17. SameJoin(t) BY DEF MayWait
<1>18. Joined1(t)'
  <2>1. ASSUME NEW g \in Range(finish)
        PROVE  /\ WaitsOn(t, g)' => frame'[t].deep = 1
               /\ Uses(t, g)' => joining'[t] # None /\ finish[joining'[t].task] = g
    <3>1. ASSUME g = m PROVE n = 1
      <4>1. n <= 1 BY <3>1 DEF Inv, FinishDeep, n
      <4>2. QED BY <1>3, <4>1, KernelParameters
    <3>2. WaitsOn(t, g)' => frame'[t].deep = 1 BY <1>6, <1>7, <1>10, <1>14, <3>1
    <3>3. Uses(t, g)' => g = m \/ k.master[g] = t
      BY <1>4, <1>10, <1>14 DEF Uses
    <3>4. k.master[g] = t => joining[t] # None /\ finish[joining[t].task] = g
      BY <1>9 DEF Inv, TaskInv, Joined1, Uses
    <3>5. g = m => joining[t] # None /\ finish[joining[t].task] = g BY DEF MayWait
    <3>6. QED BY <1>17, <3>2, <3>3, <3>4, <3>5 DEF SameJoin
  <2>2. ASSUME joining'[t] # None PROVE finish[joining'[t].task] = m
    BY <1>17, <2>2 DEF SameJoin, MayWait
  <2>3. joining'[t] # None => frame'[t].at = "mutex_wait" /\ frame'[t].mutex = finish[joining'[t].task]
    BY <1>6, <1>7, <2>2
  <2>4. QED BY <2>1, <2>3 DEF Joined1, WaitsOn
<1>19. Holds(t)'
  <2>1. \A x \in Mutexes : held[t][x] = IF k.master[x] = t THEN k.deep[x] ELSE 0
    BY <1>9, <1>10 DEF Inv, TaskInv, Holds
  <2>2. held[t][m] = n BY <2>1 DEF n
  <2>3. QED BY <1>4, <1>6, <1>7, <1>10, <2>1, <2>2 DEF Holds
<1>20. QED BY <1>1, <1>11, <1>12, <1>13, <1>15, <1>16, <1>18, <1>19, ActsKeeps DEF TaskInv

\* mutex_wait puts the caller to sleep (msignal.c:75-109).
LEMMA SuspendInv ==
    ASSUME Inv, NEW t \in Tasks, NEW m \in Mutexes, MayWait(t, m), NEW q,
           KInv(q), Grows(k, q), Changes(k, q, {"pending", "allowed"}),
           SuspendOnMutex(t, m, q), held' = held
    PROVE  Inv'
<1> DEFINE r == ListAppend([Unmasked(q, m) EXCEPT !.wait[t] = m], Waiters(m), t)
           z == [SlavesActivated(DisownMutex(r, m), m) EXCEPT !.mprio[m] = 0]
<1>1. \A f \in Fields \ {"pending", "allowed"} : q[f] = k[f] BY DEF Changes
<1>2. q.list = k.list /\ q.waiter = k.waiter BY <1>1 DEF Fields
<1>3. t \in AllTasks /\ t \in Range(q.list[Active]) BY <1>2 DEF MayWait, AllTasks
<1>4. KInv(r) /\ Left(q, r, t) /\ Changes(q, r, {"wait", "allowed", "list"})
  BY <1>3, SuspendLists
<1>5. \/ k.master[m] # t /\ k' = TaskSchedule(r) /\ frame' = frame
      \/ /\ k.master[m] = t /\ k' = TaskSchedule(z)
         /\ frame' = [frame EXCEPT ![t] = Waiting(m, k.deep[m])]
  BY DEF SuspendOnMutex
<1> HIDE DEF r
<1>6. Left(k, r, t) BY <1>2, <1>4 DEF Left, Present, Linked
<1>7. Changes(k, r, {"wait", "allowed", "list", "pending"}) BY <1>4, ChangesTrans
<1>8. CASE k' = TaskSchedule(r) /\ frame' = frame
  BY <1>4, <1>6, <1>7, <1>8, SuspendedOutside
<1>9. CASE /\ k.master[m] = t /\ k' = TaskSchedule(z)
           /\ frame' = [frame EXCEPT ![t] = Waiting(m, k.deep[m])]
  <2>1. /\ r.master = k.master /\ r.owned = k.owned /\ r.deep = k.deep
        /\ r.lock = k.lock /\ r.base = k.base
    BY <1>7 DEF Changes, Fields
  <2>2. FreeInv(r) BY <2>1 DEF FreeInv, Inv
  <2>3. r.master[m] # None BY <1>9, <2>1, KernelConstants DEF AllTasks
  <2>4. KInv(z) /\ FreeInv(z) /\ Grows(r, z) /\ Disowned(r, z, m) /\ z.base = r.base
    BY <1>4, <2>2, <2>3, SuspendReleases
  <2> HIDE DEF z
  <2>5. Idle \in Range(z.list[Active])
    BY <1>6, <2>4, KernelConstants DEF Inv, CurrentInv, Left, Grows
  <2>6. /\ KInv(k') /\ k'.list = z.list /\ k'.current \in Range(k'.list[Active])
        /\ Changes(z, k', {"current", "need"})
    BY <1>9, <2>4, <2>5, ScheduleKeeps, ScheduleShape DEF KInv
  <2>7. /\ k'.master = z.master /\ k'.owned = z.owned /\ k'.deep = z.deep
        /\ k'.lock = z.lock /\ k'.base = z.base /\ k'.waiter = z.waiter
    BY <2>6 DEF Changes, Fields
  <2>8. FreeInv(k') BY <2>4, <2>7 DEF FreeInv
  <2>9. Disowned(k, k', m) BY <2>1, <2>4, <2>7 DEF Disowned
  <2>10. \A u \in Tasks : Present(k', u) => Present(k, u)
    <3>1. \A u : Present(k', u) <=> Present(z, u) BY <2>6, <2>7 DEF Present, Linked
    <3>2. QED BY <1>6, <2>4, <3>1 DEF Left, Grows, AllTasks
  <2>11. k'.base = k.base BY <2>1, <2>4, <2>7
  <2>12. Idle \in Range(k'.list[Active]) BY <2>5, <2>6
  <2>13. QED BY <1>9, <2>6, <2>8, <2>9, <2>10, <2>11, <2>12, SuspendedInside
<1>10. QED BY <1>5, <1>8, <1>9

\* mutex_wait (msignal.c:62-109), with or without a pending interrupt.
LEMMA WaitOnInv ==
    ASSUME Inv, NEW t \in Tasks, NEW m \in Mutexes, MayWait(t, m), WaitOn(t, m)
    PROVE  Inv'
<1>1. KInv(k) BY DEF Inv
<1>2. held' = held BY DEF WaitOn
<1>3. CASE SuspendOnMutex(t, m, k)
  <2>1. Grows(k, k) /\ Changes(k, k, {"pending", "allowed"}) BY <1>1 DEF Grows, Changes, KInv
  <2>2. QED BY <1>1, <1>2, <1>3, <2>1, SuspendInv
<1>4. ASSUME k.irq[m] # None, NEW outcome \in Outcomes,
             SuspendOnMutex(t, m, HandlerCalled(k, k.irq[m], outcome))
      PROVE  Inv'
  <2> DEFINE q == HandlerCalled(k, k.irq[m], outcome)
  <2>1. k.irq[m] \in Irqs BY <1>1, <1>4 DEF KInv, DataInv, OrNone
  <2>2. KInv(q) /\ Grows(k, q) /\ Changes(k, q, {"pending", "allowed"})
    BY <1>1, <2>1, HandlerKeeps, HandlerShape DEF KInv
  <2>3. SuspendOnMutex(t, m, q) BY <1>4
  <2> HIDE DEF q
  <2>4. QED BY <1>2, <2>2, <2>3, SuspendInv
<1>5. ASSUME NEW outcome \in Outcomes,
             k' = ScheduleIfNeeded(PendingServed(k, m, outcome)), frame' = frame
      PROVE  Inv'
  <2> DEFINE r == PendingServed(k, m, outcome)
  <2>1. KInv(r) /\ Grows(k, r) /\ Changes(k, r, Served)
    BY <1>1, PendingKeeps, PendingShape DEF KInv
  <2>2. k' = ScheduleIfNeeded(r) BY <1>5
  <2> HIDE DEF r
  <2>3. Served \cap {"current", "lock", "master", "owned", "deep"} = {}
    BY DEF Served, Woken
  <2>4. \A u \in Tasks : r.base[u] = 0 => k.base[u] = 0
    BY <2>1 DEF Changes, Fields, Served, Woken
  <2>5. VarTypes' /\ \A u \in Tasks : SameJoin(u)
    BY <1>2, <1>5 DEF Inv, VarTypes, MayWait
  <2>6. QED BY <1>2, <1>5, <2>1, <2>2, <2>3, <2>4, <2>5, SettledStep
<1>6. QED BY <1>3, <1>4, <1>5 DEF WaitOn

\* mutex_wait, called by a task.
LEMMA MutexWaitInv ==
    ASSUME Inv, NEW t \in Tasks, NEW m \in Locks, MutexWait(t, m)
    PROVE  Inv'
<1>1. m \in Mutexes /\ m \notin Range(finish) BY DEF Locks
<1>2. t = k.current /\ frame[t] = User /\ joining[t] = None /\ joining' = joining
  BY DEF MutexWait, Calls, Running
<1>3. t \in Range(k.list[Active]) /\ ~Absent(t) BY <1>2, FrameFields, RunnerIsReady
<1>4. MayWait(t, m) BY <1>1, <1>2, <1>3 DEF MayWait, SameJoin, Inv, VarTypes
<1>5. QED BY <1>1, <1>4, WaitOnInv DEF MutexWait

\* mutex_wait, called by task_wait (twait.c:32).
LEMMA TaskWaitSleepInv ==
    ASSUME Inv, NEW t \in Tasks, TaskWaitSleep(t)
    PROVE  Inv'
<1> DEFINE m == finish[joining[t].task]
           j == [joining[t] EXCEPT !.seen = FALSE]
<1>1. /\ m \in Mutexes /\ m \in Range(finish) /\ t = k.current /\ frame[t] = User
      /\ joining[t] # None /\ joining[t] \in [task : Tasks, seen : BOOLEAN]
  BY JoinerHas DEF TaskWaitSleep
<1>2. t \in Range(k.list[Active]) /\ ~Absent(t) BY <1>1, FrameFields, RunnerIsReady
<1>3. j \in [task : Tasks, seen : BOOLEAN] /\ j.task = joining[t].task BY <1>1
<1>4. j # None BY <1>3, NoneIsNoJoining
<1>5. joining' = [joining EXCEPT ![t] = j] /\ WaitOn(t, m) BY DEF TaskWaitSleep
<1> HIDE DEF j
<1>6. /\ joining' \in [Tasks -> OrNone([task : Tasks, seen : BOOLEAN])]
      /\ joining'[t] = j /\ \A u \in Tasks \ {t} : joining'[u] = joining[u]
  BY <1>3, <1>5 DEF Inv, VarTypes, OrNone
<1>7. \A u \in Tasks : SameJoin(u) BY <1>1, <1>3, <1>4, <1>6 DEF SameJoin
<1>8. MayWait(t, m) BY <1>1, <1>2, <1>6, <1>7 DEF MayWait
<1> HIDE DEF m
<1>9. QED BY <1>1, <1>5, <1>8, WaitOnInv

\* mutex_wait resumes, and another task has the lock (msignal.c:111-134).
LEMMA ResumeWaitBlocks ==
    ASSUME Inv, NEW t \in Tasks, t = k.current, t \in Range(k.list[Active]),
           NEW m \in Mutexes, k.master[m] # None, k' = BlockOnMutex(k, m),
           UNCHANGED <<frame, held, joining>>
    PROVE  Inv'
<1>1. /\ KInv(k) /\ FreeInv(k) /\ Idle \in Range(k.list[Active])
  BY DEF Inv, CurrentInv
<1>2. /\ KInv(k') /\ FreeInv(k')
      /\ Idle \in Range(k'.list[Active]) /\ k'.current \in Range(k'.list[Active])
      /\ \A u \in AllTasks : Present(k', u) => Present(k, u)
      /\ k'.master = k.master /\ k'.owned = k.owned /\ k'.deep = k.deep
  BY <1>1, BlockOnKeeps
<1>3. k'.base = k.base BY <1>1, BlockShape DEF KInv, Changes, Fields
<1>4. CurrentInv' BY <1>2 DEF Inv, CurrentInv
<1>5. Quiet(k') BY <1>2, <1>3 DEF Quiet, AllTasks
<1>6. VarTypes' /\ \A u \in Tasks : SameJoin(u) BY SameVarTypes DEF Inv
<1>7. QED BY <1>2, <1>4, <1>5, <1>6, QuietKeeps

\* mutex_wait resumes and has the lock back as deep as before (msignal.c:136-147).
LEMMA ResumeWaitTakes ==
    ASSUME Inv, NEW t \in Tasks, t = k.current, t \in Range(k.list[Active]), ~Absent(t),
           NEW m \in Mutexes, NEW n \in 1 .. MaxDeep, frame[t] = Waiting(m, n),
           k.master[m] = None, KInv(k'), Taken(k, k', m, n),
           Changes(k, k', {"master", "owned", "prio", "deep"}),
           frame' = [frame EXCEPT ![t] = User], UNCHANGED <<held, joining>>
    PROVE  Inv'
<1>1. KInv(k) /\ OwnerInv(k) /\ OwnerType(k) /\ FreeInv(k) BY DEF Inv, KInv, OwnerInv
<1>2. t # None /\ \A u \in Tasks : u # None BY KernelConstants DEF AllTasks
<1>3. /\ \A x \in Mutexes : k'.master[x] = IF x = m THEN t ELSE k.master[x]
      /\ \A x \in Mutexes : k'.deep[x] = IF x = m THEN n ELSE k.deep[x]
      /\ \A u \in Tasks \ {t} : k'.owned[u] = k.owned[u]
  BY <1>1 DEF Taken, OwnerType, AllTasks
<1>4. k'.base = k.base /\ k'.list = k.list /\ k'.lock = k.lock /\ k'.waiter = k.waiter
      /\ k'.current = k.current
  BY DEF Changes, Fields
<1>5. /\ frame' \in [AllTasks -> Frames] /\ frame'[t] = User
      /\ \A u \in Tasks \ {t} : frame'[u] = frame[u]
      /\ frame'[Idle] = frame[Idle]
  BY FrameTypes, KernelConstants DEF Inv, VarTypes, AllTasks
<1>6. Waiting(m, n).at = "mutex_wait" /\ Waiting(m, n).mutex = m /\ Waiting(m, n).deep = n
  BY FrameFields
<1>7. \A u \in Tasks : BeingDeleted(u)' <=> BeingDeleted(u)
  BY <1>5, <1>6, FrameFields DEF BeingDeleted
<1>8. ~BeingDeleted(t) BY DEF Absent
<1>9. \A x \in Mutexes : (WaitsOn(t, x) <=> x = m) /\ ~WaitsOn(t, x)'
  BY <1>5, <1>6, FrameFields DEF WaitsOn
<1>10. Acts(t)
  <2>1. \A u \in Tasks : Present(k', u) <=> Present(k, u) BY <1>4 DEF Present, Linked
  <2>2. QED BY <1>2, <1>3, <1>4, <1>5, <1>7, <2>1 DEF Acts
<1>11. VarTypes' BY <1>5 DEF Inv, VarTypes
<1>12. CurrentInv' BY <1>4, <1>5 DEF Inv, CurrentInv
<1>13. FreeInv(k') BY <1>1, <1>2, <1>3, <1>4 DEF FreeInv
<1>14. \A g \in Range(finish) : g \in Mutexes BY KernelParameters DEF Range
<1>15. m \in Range(finish) => n = 1 BY <1>6, <1>9 DEF Inv, TaskInv, Joined1
<1>16. FinishDeep' BY <1>3, <1>14, <1>15 DEF Inv, FinishDeep
<1>17. Blocked(t)' BY <1>5, <1>9, FrameFields DEF Blocked
<1>18. Joined1(t)'
  <2>1. ASSUME NEW g \in Range(finish), Uses(t, g)' PROVE Uses(t, g)
    BY <1>3, <1>5, <1>8, <1>9, <1>14, <2>1, FrameFields DEF Uses
  <2>2. ASSUME joining[t] # None PROVE finish[joining[t].task] = m
    <3>1. joining[t].task \in Tasks BY <2>2 DEF Inv, VarTypes, OrNone
    <3>2. finish[joining[t].task] \in Mutexes BY <3>1, KernelParameters
    <3>3. frame[t].at = "mutex_wait" BY <1>6
    <3>4. WaitsOn(t, finish[joining[t].task])
      BY <2>2, <3>3, FrameFields DEF Inv, TaskInv, Joined1
    <3>5. QED BY <1>9, <3>2, <3>4
  <2>3. joining'[t] # None => k'.master[finish[joining'[t].task]] = t BY <1>3, <2>2
  <2>4. QED BY <1>5, <1>9, <1>14, <2>1, <2>3 DEF Joined1, Inv, TaskInv
<1>19. Holds(t)'
  <2>1. \A x \in Mutexes : held[t][x] = IF x = m THEN n ELSE IF k.master[x] = t THEN k.deep[x]
                                         ELSE 0
    BY <1>6, <1>8, <1>9 DEF Inv, TaskInv, Holds
  <2>2. QED BY <1>3, <1>9, <2>1 DEF Holds
<1>20. QED BY <1>10, <1>11, <1>12, <1>13, <1>16, <1>17, <1>18, <1>19, ActsKeeps DEF TaskInv

\* mutex_wait, signalled and current again.
LEMMA ResumeWaitInv ==
    ASSUME Inv, NEW t \in Tasks, ResumeWait(t)
    PROVE  Inv'
<1>1. PICK m \in Mutexes, n \in 1 .. MaxDeep : frame[t] = Waiting(m, n)
  BY ResumedAt DEF ResumeWait
<1>2. frame[t].at = "mutex_wait" /\ frame[t].mutex = m /\ frame[t].deep = n
  BY <1>1, FrameFields
<1>3. t = k.current /\ t \in Range(k.list[Active]) /\ ~Absent(t)
  BY <1>2, RunnerIsReady DEF ResumeWait, Resumes
<1>4. held' = held /\ joining' = joining BY DEF ResumeWait
<1>5. CASE k.master[m] # None
  <2>1. k' = BlockOnMutex(k, m) /\ frame' = frame BY <1>2, <1>5 DEF ResumeWait
  <2>2. QED BY <1>3, <1>4, <1>5, <2>1, ResumeWaitBlocks
<1>6. CASE k.master[m] = None
  <2> DEFINE r == [AcquireMutex(k, m) EXCEPT !.deep[m] = n]
  <2>1. k' = r /\ frame' = [frame EXCEPT ![t] = User] BY <1>2, <1>6 DEF ResumeWait
  <2>2. KInv(r) /\ Changes(k, r, {"master", "owned", "prio", "deep"}) /\ Taken(k, r, m, n)
    BY <1>3, <1>6, AcquireKeeps DEF Inv
  <2> HIDE DEF r
  <2>3. QED BY <1>1, <1>3, <1>4, <1>6, <2>1, <2>2, ResumeWaitTakes
<1>7. QED BY <1>5, <1>6

-----------------------------------------------------------------------------
(***************************************************************************)
(* task_delete and task_create.                                            *)
(***************************************************************************)

\* d has left its list, and nothing blocks it any more.
Unblocks(s, r, d) ==
    /\ Separate(r.list)
    /\ \A h \in Heads : Range(r.list[h]) = Range(s.list[h]) \ {d}
    /\ r.lock = [s.lock EXCEPT ![d] = None]
    /\ r.wait = [s.wait EXCEPT ![d] = None]
    /\ r.waiter = s.waiter /\ r.groups = s.groups
    /\ r.master = s.master /\ r.owned = s.owned /\ r.deep = s.deep

\* The data after it.
LEMMA UnblockedKeeps ==
    ASSUME NEW s, KInv(s), NEW d \in Tasks,
           NEW r, Shaped(r), DataInv(r), Unblocks(s, r, d)
    PROVE  KInv(r)
<1> USE DEF Unblocks
<1>1. ListInv(s) /\ WaiterInv(s) /\ OwnerInv(s) /\ d \in AllTasks BY DEF KInv, AllTasks
<1>2. s.lock \in [AllTasks -> OrNone(Mutexes)] /\ s.wait \in [AllTasks -> OrNone(Mutexes)]
  BY <1>1 DEF ListInv
<1>3. None \in OrNone(Mutexes) BY DEF OrNone
<1>4. /\ r.lock \in [AllTasks -> OrNone(Mutexes)] /\ r.wait \in [AllTasks -> OrNone(Mutexes)]
      /\ \A u \in AllTasks : r.lock[u] = IF u = d THEN None ELSE s.lock[u]
      /\ \A u \in AllTasks : r.wait[u] = IF u = d THEN None ELSE s.wait[u]
  BY <1>2, <1>3
<1>5. ASSUME NEW u \in AllTasks, NEW x \in Mutexes
      PROVE  /\ r.lock[u] = x <=> u \in Range(r.list[Slaves(x)])
             /\ r.wait[u] = x <=> u \in Range(r.list[Waiters(x)])
  <2>1. Slaves(x) \in Heads /\ Waiters(x) \in Heads BY HeadsDiffer
  <2>2. /\ Range(r.list[Slaves(x)]) = Range(s.list[Slaves(x)]) \ {d}
        /\ Range(r.list[Waiters(x)]) = Range(s.list[Waiters(x)]) \ {d}
    BY <2>1
  <2>3. /\ s.lock[u] = x <=> u \in Range(s.list[Slaves(x)])
        /\ s.wait[u] = x <=> u \in Range(s.list[Waiters(x)])
    BY <1>1 DEF ListInv, LinkedWhereBlocked
  <2>4. x # None BY KernelConstants
  <2>5. QED BY <1>4, <2>2, <2>3, <2>4
<1>6. LinkedWhereBlocked(r) BY <1>5 DEF LinkedWhereBlocked
<1>7. ListInv(r) BY <1>4, <1>6 DEF ListInv
<1>8. \A u \in AllTasks : Linked(r, u) => Linked(s, u) BY DEF Linked
<1>9. WaiterInv(r) BY <1>1, <1>8, WaiterFrame
<1>10. OwnerInv(r) BY <1>1, OwnerFrame
<1>11. QED BY <1>7, <1>9, <1>10 DEF KInv

\* d leaves its list and what it is blocked on.
Removed(s, d, t) ==
    LET m  == s.lock[d]
        k1 == [ListUnlink(s, d) EXCEPT !.need = @ \/ d = t]
        k2 == IF m # None /\ k1.mprio[m] <= k1.prio[d]
              THEN MutexRecalculatePrio(k1, m) ELSE k1
    IN  [k2 EXCEPT !.lock[d] = None, !.wait[d] = None]

Departed(s, r, d, t) ==
    /\ Changes(s, r, Inherited \cup {"list", "lock", "wait"})
    /\ \A h \in Heads : Range(r.list[h]) = Range(s.list[h]) \ {d}
    /\ s.need \/ d = t => r.need
    /\ r.lock = [s.lock EXCEPT ![d] = None]

\* task_delete, up to the unlocking of the locks (tdelete.c:24-45).
LEMMA DeleteKeeps ==
    ASSUME NEW s, KInv(s), NEW d \in Tasks, NEW t,
           NEW r, r = Removed(s, d, t)
    PROVE  KInv(r) /\ Departed(s, r, d, t)
<1> DEFINE m == s.lock[d]
           k0 == ListUnlink(s, d)
           k1 == [k0 EXCEPT !.need = @ \/ d = t]
           k2 == IF m # None /\ k1.mprio[m] <= k1.prio[d]
                 THEN MutexRecalculatePrio(k1, m) ELSE k1
<1>1. /\ KInv(s) /\ Shaped(s) /\ DataInv(s) /\ ListInv(s) /\ WaiterInv(s) /\ OwnerInv(s)
      /\ OwnerType(s) /\ d \in AllTasks
  BY DEF KInv, OwnerInv, AllTasks
<1>2. r = [k2 EXCEPT !.lock[d] = None, !.wait[d] = None] BY DEF Removed
<1>3. /\ Separate(k0.list) /\ Changes(s, k0, {"list"})
      /\ \A h \in Heads : Range(k0.list[h]) = Range(s.list[h]) \ {d}
  BY <1>1, UnlinkLists, UnlinkShape DEF ListInv
<1>4. m \in OrNone(Mutexes) BY <1>1 DEF ListInv
<1> HIDE DEF k0, m
<1>5. Changes(k0, k1, {"need"}) /\ k1.need = (k0.need \/ d = t)
  BY <1>3 DEF Shaped, Fields, Changes
<1> HIDE DEF k1
<1>6. /\ \A f \in Fields \ {"list", "need"} : k1[f] = s[f]
      /\ k1.list = k0.list /\ k1.need = (s.need \/ d = t) /\ k1.need \in BOOLEAN
  BY <1>1, <1>3, <1>5 DEF Changes, Fields, DataInv
<1>7. KData(k1)
  <2>1. DataInv(k1) BY <1>1, <1>6 DEF DataInv, Fields
  <2>2. ListType(k1) BY <1>1, <1>3, <1>6 DEF ListType, ListInv, Fields
  <2>3. \A u \in AllTasks : Linked(k1, u) => Linked(s, u) BY <1>3, <1>6 DEF Linked
  <2>4. WaiterInv(k1) BY <1>1, <1>6, <2>3, WaiterFrame DEF Fields
  <2>5. OwnerType(k1) BY <1>1, <1>6 DEF OwnerType, Fields
  <2>6. QED BY <1>5, <2>1, <2>2, <2>4, <2>5 DEF KData, Changes
<1>8. KData(k2) /\ Grows(k1, k2) /\ Changes(k1, k2, Inherited)
  <2> DEFINE e == MutexRecalculatePrio(k1, m)
  <2>1. m # None => KData(e) /\ Grows(k1, e) BY <1>4, <1>7, MutexRecalculateKeeps DEF OrNone
  <2>2. Changes(k1, e, Inherited) BY <1>7, MutexRecalculateShape DEF KData
  <2>3. Grows(k1, k1) /\ Changes(k1, k1, Inherited) BY <1>7 DEF Grows, Changes, KData
  <2> HIDE DEF e
  <2>4. (m # None /\ k2 = e) \/ k2 = k1 BY DEF e
  <2>5. QED BY <1>7, <2>1, <2>2, <2>3, <2>4
<1> HIDE DEF k2
<1>9. /\ Changes(k2, r, {"lock", "wait"})
      /\ r.lock = [k2.lock EXCEPT ![d] = None] /\ r.wait = [k2.wait EXCEPT ![d] = None]
  BY <1>2, <1>8 DEF Shaped, Fields, Changes
<1>10. /\ k2.lock = s.lock /\ k2.wait = s.wait /\ k2.list = k0.list
       /\ r.list = k0.list /\ r.waiter = s.waiter /\ r.groups = s.groups
       /\ r.master = s.master /\ r.owned = s.owned /\ r.deep = s.deep /\ r.need = k2.need
  BY <1>6, <1>8, <1>9 DEF Changes, Fields, Inherited
<1>11. Changes(s, r, Inherited \cup {"list", "lock", "wait"})
  BY <1>6, <1>8, <1>9 DEF Changes, Inherited
<1>12. s.need \/ d = t => r.need BY <1>6, <1>8, <1>10 DEF Grows
<1>13. DataInv(r) BY <1>8, <1>9 DEF KData, DataInv, Changes, Fields
<1>14. Shaped(r) BY <1>11 DEF Changes
<1>15. KInv(r)
  <2>1. Separate(r.list) /\ \A h \in Heads : Range(r.list[h]) = Range(s.list[h]) \ {d}
    BY <1>3, <1>10
  <2>2. r.lock = [s.lock EXCEPT ![d] = None] BY <1>9, <1>10
  <2>3. r.wait = [s.wait EXCEPT ![d] = None] BY <1>9, <1>10
  <2>4. /\ r.waiter = s.waiter /\ r.groups = s.groups
        /\ r.master = s.master /\ r.owned = s.owned /\ r.deep = s.deep
    BY <1>10
  <2>5. Unblocks(s, r, d) BY <2>1, <2>2, <2>3, <2>4 DEF Unblocks
  <2>6. QED BY <1>13, <1>14, <2>5, UnblockedKeeps
<1>16. QED BY <1>3, <1>9, <1>10, <1>11, <1>12, <1>15 DEF Departed

\* Nothing is demanded of a task that is being deleted but its absence.
LEMMA DeletedTask ==
    ASSUME AbsentInv', NEW u \in Tasks, BeingDeleted(u)'
    PROVE  TaskInv(u)'
<1>1. frame'[u].at \in {"user", "task_delete"} /\ joining'[u] = None BY DEF AbsentInv
<1>2. \A m : ~WaitsOn(u, m)' /\ frame'[u] # Locking(m) BY <1>1, FrameFields DEF WaitsOn
<1>3. \A i, b : frame'[u] # LockingIrq(i, b) BY <1>1, FrameFields
<1>4. Blocked(u)' BY <1>2, <1>3 DEF Blocked
<1>5. Joined1(u)' BY <1>1, <1>2 DEF Joined1, Uses
<1>6. Holds(u)' BY DEF Holds
<1>7. QED BY <1>4, <1>5, <1>6 DEF TaskInv

\* task_delete and task_exit: the frame and the join of d are gone with it.
LEMMA TaskDeleteInv ==
    ASSUME Inv, NEW t \in Tasks, NEW d \in Tasks, NEW msg \in Messages, TaskDelete(t, d, msg),
           "delete_group_waiter" \notin Misuse
    PROVE  Inv'
<1> DEFINE fr == Deleting(d, msg)
<1>1. /\ KInv(k) /\ FreeInv(k) /\ VarTypes /\ AbsentInv /\ t \in AllTasks /\ d \in AllTasks
      /\ t # Idle /\ d # Idle
  BY KernelConstants DEF Inv, AllTasks
<1>2. /\ t = k.current /\ frame[t] = User /\ joining[t] = None
      /\ frame' = [frame EXCEPT ![d] = User, ![t] = fr]
      /\ joining' = [joining EXCEPT ![d] = None] /\ held' = held
  BY DEF TaskDelete, Calls, Running
<1>3. /\ frame[d].at # "task_delete" /\ k.base[d] # 0
      /\ \A g \in Groups : k.waiter[g] # d
  BY DEF TaskDelete, MayDelete, Alive
<1>4. t \in Range(k.list[Active]) /\ ~Absent(t) BY <1>2, FrameFields, RunnerIsReady
<1>5. /\ KInv(k')
      /\ Changes(k, k', Inherited \cup {"list", "lock", "wait"})
      /\ \A h \in Heads : Range(k'.list[h]) = Range(k.list[h]) \ {d}
      /\ k.need \/ d = t => k'.need
      /\ k'.lock = [k.lock EXCEPT ![d] = None]
  <2> DEFINE r == Removed(k, d, t)
  <2>1. k' = r BY DEF TaskDelete, Removed
  <2>2. r = Removed(k, d, t) OBVIOUS
  <2> HIDE DEF r
  <2>3. KInv(r) /\ Departed(k, r, d, t) BY <1>1, <2>2, DeleteKeeps
  <2>4. QED BY <2>1, <2>3 DEF Departed
<1>6. /\ k'.current = k.current /\ k'.base = k.base /\ k'.waiter = k.waiter
      /\ k'.master = k.master /\ k'.owned = k.owned /\ k'.deep = k.deep
  BY <1>5 DEF Changes, Fields, Inherited
<1>7. /\ frame' \in [AllTasks -> Frames]
      /\ frame'[t] = fr /\ (d # t => frame'[d] = User)
      /\ \A u \in AllTasks \ {t, d} : frame'[u] = frame[u]
  <2>1. fr \in Frames /\ User \in Frames BY FrameTypes
  <2> HIDE DEF fr
  <2>2. QED BY <1>1, <1>2, <2>1 DEF VarTypes
<1>8. /\ joining' \in [Tasks -> OrNone([task : Tasks, seen : BOOLEAN])]
      /\ joining'[d] = None /\ joining'[t] = None
      /\ \A u \in Tasks \ {d} : joining'[u] = joining[u]
  <2>1. None \in OrNone([task : Tasks, seen : BOOLEAN]) BY DEF OrNone
  <2>2. joining \in [Tasks -> OrNone([task : Tasks, seen : BOOLEAN])] BY <1>1 DEF VarTypes
  <2>3. QED BY <1>2, <2>1, <2>2
<1>9. VarTypes' BY <1>1, <1>2, <1>7, <1>8 DEF VarTypes
<1>10. fr.at = "task_delete" /\ fr.task = d /\ User.at = "user" BY FrameFields
<1> HIDE DEF fr
<1>11. \A u \in Tasks : BeingDeleted(u)' <=> BeingDeleted(u) \/ u = d
  <2>1. \A v \in Tasks, u \in Tasks :
          u # d => (frame'[v].at = "task_delete" /\ frame'[v].task = u
                    <=> frame[v].at = "task_delete" /\ frame[v].task = u)
    <3> SUFFICES ASSUME NEW v \in Tasks, NEW u \in Tasks, u # d
                 PROVE  frame'[v].at = "task_delete" /\ frame'[v].task = u
                        <=> frame[v].at = "task_delete" /\ frame[v].task = u
      OBVIOUS
    <3>1. CASE v = t BY <3>1, <1>2, <1>7, <1>10
    <3>2. CASE v = d /\ v # t BY <3>2, <1>3, <1>7, <1>10
    <3>3. CASE v # d /\ v # t BY <3>3, <1>7 DEF AllTasks
    <3>4. QED BY <3>1, <3>2, <3>3
  <2>2. BeingDeleted(d)' BY <1>7, <1>10 DEF BeingDeleted
  <2>3. QED BY <2>1, <2>2 DEF BeingDeleted
<1>12. FreeInv(k')
  <2>1. k'.lock \in [AllTasks -> OrNone(Mutexes)] /\ k.lock \in [AllTasks -> OrNone(Mutexes)]
    BY <1>1, <1>5 DEF KInv, ListInv
  <2>2. \A u \in AllTasks : k'.lock[u] = IF u = d THEN None ELSE k.lock[u] BY <1>5, <2>1
  <2>3. \A m \in Mutexes : m # None BY KernelConstants
  <2>4. QED BY <1>1, <1>6, <2>2, <2>3 DEF FreeInv
<1>13. FinishDeep' BY <1>6 DEF Inv, FinishDeep
<1>14. ~Present(k', d) /\ \A u \in Tasks : Present(k', u) => Present(k, u)
  BY <1>3, <1>5, <1>6 DEF Present, Linked
<1>15. CurrentInv'
  <2>1. Active \in Heads BY HeadsDiffer
  <2>2. Idle \in Range(k'.list[Active]) /\ frame'[Idle] \in {User, Boot}
    BY <1>1, <1>5, <1>7, <2>1 DEF Inv, CurrentInv, AllTasks
  <2>3. CASE d # t
    <3>1. k'.current \in Range(k'.list[Active]) BY <1>2, <1>4, <1>5, <1>6, <2>1, <2>3
    <3>2. QED BY <2>2, <3>1 DEF CurrentInv
  <2>4. CASE d = t
    <3>1. k'.need BY <1>5, <2>4
    <3>2. frame'[k'.current].at = "task_delete" /\ frame'[k'.current].task = k'.current
      BY <1>2, <1>6, <1>7, <1>10, <2>4
    <3>3. QED BY <2>2, <3>1, <3>2 DEF CurrentInv
  <2>5. QED BY <2>3, <2>4
<1>16. AbsentInv'
  <2> SUFFICES ASSUME NEW u \in Tasks, k'.base[u] = 0 \/ BeingDeleted(u)'
               PROVE  /\ ~Present(k', u)
                      /\ frame'[u].at \in {"user", "task_delete"}
                      /\ joining'[u] = None
                      /\ k'.base[u] = 0 => k'.owned[u] = <<>>
    BY DEF AbsentInv
  <2>1. CASE u = d BY <2>1, <1>3, <1>6, <1>7, <1>8, <1>10, <1>11, <1>14
  <2>2. CASE u # d
    <3>1. Absent(u) /\ u # t BY <2>2, <1>4, <1>6, <1>11 DEF Absent
    <3>2. frame'[u] = frame[u] /\ joining'[u] = joining[u] BY <2>2, <3>1, <1>7, <1>8 DEF AllTasks
    <3>3. QED BY <3>1, <3>2, <1>1, <1>6, <1>11, <1>14 DEF AbsentInv, Absent
  <2>3. QED BY <2>1, <2>2
<1>17. ASSUME NEW u \in Tasks PROVE TaskInv(u)'
  <2>1. CASE u = d BY <2>1, <1>11, <1>16, DeletedTask
  <2>2. CASE u # d /\ u # t
    <3>1. frame'[u] = frame[u] /\ joining'[u] = joining[u] /\ held'[u] = held[u]
      BY <2>2, <1>2, <1>7, <1>8 DEF AllTasks
    <3>2. SameJoin(u) BY <3>1 DEF SameJoin
    <3>3. BeingDeleted(u)' <=> BeingDeleted(u) BY <2>2, <1>11
    <3>4. TaskInv(u) BY DEF Inv
    <3>5. QED BY <3>1, <3>2, <3>3, <3>4, <1>1, <1>6, OtherTask
  <2>3. CASE u = t /\ u # d
    <3>1. ~BeingDeleted(t) /\ ~BeingDeleted(t)' BY <2>3, <1>4, <1>11 DEF Absent
    <3>2. TaskInv(t) BY DEF Inv
    <3>3. \A m : ~WaitsOn(t, m)' /\ frame'[t] # Locking(m) BY <1>7, <1>10, FrameFields DEF WaitsOn
    <3>4. \A i, b : frame'[t] # LockingIrq(i, b) BY <1>7, <1>10, FrameFields
    <3>5. \A m : ~WaitsOn(t, m) BY <1>2, <1>10 DEF WaitsOn
    <3>6. Blocked(t)' BY <3>3, <3>4 DEF Blocked
    <3>7. \A f \in Range(finish) : k.master[f] # t
      BY <3>1, <3>2, <1>2 DEF TaskInv, Joined1, Uses
    <3>8. Joined1(t)' BY <3>3, <3>7, <1>6, <1>8 DEF Joined1, Uses
    <3>9. Holds(t)' BY <3>1, <3>2, <3>3, <3>5, <1>2, <1>6 DEF TaskInv, Holds
    <3>10. QED BY <2>3, <3>6, <3>8, <3>9 DEF TaskInv
  <2>4. QED BY <2>1, <2>2, <2>3
<1>18. QED BY <1>5, <1>9, <1>12, <1>13, <1>15, <1>16, <1>17 DEF Inv

\* Who deletes a task, and which.
LEMMA Deletion ==
    ASSUME Inv, NEW t \in Tasks, Resumes(t, "task_delete")
    PROVE  LET d == frame[t].task
           IN  /\ d \in Tasks /\ BeingDeleted(d) /\ t = k.current
               /\ \E msg \in Messages : frame[t] = Deleting(d, msg)
<1>1. t = k.current /\ frame[t].at = "task_delete" BY DEF Resumes
<1>2. frame[t] \in Frames BY DEF Inv, VarTypes, AllTasks
<1>3. PICK d \in Tasks, msg \in Messages : frame[t] = Deleting(d, msg) BY <1>1, <1>2, FrameAt
<1>4. frame[t].task = d BY <1>3, FrameFields
<1>5. BeingDeleted(d) BY <1>1, <1>4 DEF BeingDeleted
<1>6. QED BY <1>1, <1>3, <1>4, <1>5

\* The loop that unlocks what d holds (tdelete.c:46-50).
LEMMA DeleteUnlockInv ==
    ASSUME Inv, NEW t \in Tasks, DeleteUnlock(t)
    PROVE  Inv'
<1> DEFINE d == frame[t].task
           m == Head(k.owned[d])
<1>1. d \in Tasks /\ BeingDeleted(d) BY Deletion DEF DeleteUnlock
<1>2. KInv(k) /\ OwnerInv(k) /\ OwnerType(k) /\ VarTypes BY DEF Inv, KInv, OwnerInv
<1>3. k.owned[d] # <<>> /\ UNCHANGED <<frame, held, joining>> BY DEF DeleteUnlock
<1>4. PICK outcome \in Outcomes : k' = Unlocked(m, outcome) BY DEF DeleteUnlock
<1>5. m \in Mutexes /\ k.master[m] = d /\ k.master[m] # None
  <2>1. d \in AllTasks BY <1>1 DEF AllTasks
  <2>2. k.owned[d] \in Seq(Mutexes) BY <1>2, <2>1 DEF OwnerType
  <2>3. m \in Mutexes /\ m \in Range(k.owned[d])
    <3> DEFINE s == k.owned[d]
    <3>1. s \in Seq(Mutexes) /\ s # <<>> BY <2>2, <1>3
    <3> HIDE DEF s
    <3>2. 1 \in 1 .. Len(s) BY <3>1, EmptySeq
    <3>3. s[1] \in Range(s) /\ s[1] \in Mutexes BY <3>1, <3>2, LineElement
    <3>4. Head(s) = s[1] BY <3>1
    <3>5. QED BY <3>3, <3>4 DEF s
  <2> HIDE DEF m, d
  <2>4. k.master[m] = d BY <1>2, <2>1, <2>3 DEF OwnerInv, OwnedByMaster
  <2>5. QED BY <2>1, <2>3, <2>4, KernelConstants
<1> HIDE DEF m, d
<1>6. Returned(m) BY <1>3, <1>4, <1>5, UnlockedReturns
<1>7. KInv(k') /\ FreeInv(k') /\ CurrentInv' /\ GaveBack(m) BY <1>6 DEF Returned
<1>8. VarTypes' BY <1>2, <1>3 DEF VarTypes
<1>9. \A u \in Tasks : BeingDeleted(u)' <=> BeingDeleted(u) BY <1>3 DEF BeingDeleted
<1>10. AbsentInv' BY <1>3, <1>7, <1>9 DEF Inv, AbsentInv, GaveBack
<1>11. FinishDeep'
  <2>1. ASSUME NEW g \in Range(finish) PROVE k'.deep[g] <= 1
    <3>1. g \in Mutexes BY KernelParameters DEF Range
    <3>2. k.deep[g] <= 1 /\ k.deep[g] \in 0 .. MaxDeep
      BY <1>2, <3>1 DEF Inv, FinishDeep, OwnerType
    <3>3. CASE g = m
      <4>1. k'.deep[g] = k.deep[g] - 1 BY <1>7, <3>3 DEF GaveBack
      <4>2. QED BY <3>2, <4>1, KernelParameters
    <3>4. CASE g # m BY <1>7, <3>1, <3>2, <3>4 DEF GaveBack
    <3>5. QED BY <3>3, <3>4
  <2>2. QED BY <2>1 DEF FinishDeep
<1>12. ASSUME NEW u \in Tasks PROVE TaskInv(u)'
  <2>1. CASE u = d BY <2>1, <1>1, <1>9, <1>10, DeletedTask
  <2>2. CASE u # d
    <3>1. u # None BY KernelConstants DEF AllTasks
    <3>2. ASSUME NEW n \in Mutexes
          PROVE  /\ k'.master[n] = u <=> k.master[n] = u
                 /\ k.master[n] = u => k'.deep[n] = k.deep[n]
      <4>1. CASE n = m BY <4>1, <2>2, <3>1, <1>5, <1>7 DEF GaveBack
      <4>2. CASE n # m BY <4>2, <1>7 DEF GaveBack
      <4>3. QED BY <4>1, <4>2
    <3>3. TaskInv(u) /\ SameJoin(u) BY <1>3 DEF Inv, SameJoin
    <3>4. frame'[u] = frame[u] /\ held'[u] = held[u] BY <1>3
    <3>5. QED BY <1>2, <1>9, <3>2, <3>3, <3>4, OtherTask
  <2>3. QED BY <2>1, <2>2
<1>13. QED BY <1>7, <1>8, <1>10, <1>11, <1>12 DEF Inv

\* The end of task_delete: base_prio is 0, finish is signalled (tdelete.c:52-59).
LEMMA DeleteFinishInv ==
    ASSUME Inv, NEW t \in Tasks, DeleteFinish(t)
    PROVE  Inv'
<1> DEFINE d   == frame[t].task
           f   == finish[d]
           msg == frame[t].message
           k1  == [k EXCEPT !.base[d] = 0]
           q   == MutexActivate(k1, f, msg)
<1>1. /\ d \in Tasks /\ BeingDeleted(d) /\ t = k.current /\ msg \in Messages
      /\ frame[t].at = "task_delete" /\ f \in Mutexes
  <2>1. Resumes(t, "task_delete") BY DEF DeleteFinish
  <2>2. d \in Tasks /\ BeingDeleted(d) /\ t = k.current BY <2>1, Deletion
  <2>3. PICK g \in Messages : frame[t] = Deleting(d, g) BY <2>1, Deletion
  <2>4. frame[t].at = "task_delete" /\ msg = g BY <2>3, FrameFields
  <2>5. f \in Mutexes BY <2>2, KernelParameters
  <2>6. QED BY <2>2, <2>4, <2>5
<1>2. /\ KInv(k) /\ OwnerInv(k) /\ OwnerType(k) /\ VarTypes /\ FreeInv(k) /\ AbsentInv
      /\ Shaped(k) /\ DataInv(k)
  BY DEF Inv, KInv, OwnerInv
<1>3. /\ k.owned[d] = <<>> /\ joining' = joining
      /\ frame' = [frame EXCEPT ![t] = User]
      /\ held' = [held EXCEPT ![d] = [m \in Mutexes |-> 0]]
  BY DEF DeleteFinish
<1>4. PICK r : r \in {k1, q} /\ k' = ScheduleIfNeeded(r) BY DEF DeleteFinish
<1> HIDE DEF d, msg, f
<1>5. /\ Changes(k, k1, {"base"}) /\ k1.base = [k.base EXCEPT ![d] = 0]
  BY <1>2 DEF Shaped, Fields, Changes
<1> HIDE DEF k1
<1>6. KInv(k1)
  <2>1. 0 \in Prios /\ k.base \in [AllTasks -> Prios]
    BY <1>2, KernelParameters DEF DataInv, Prios
  <2>2. k1.base \in [AllTasks -> Prios] BY <2>1, <1>5
  <2>3. DataInv(k1) BY <2>2, <1>2, <1>5 DEF DataInv, Changes, Fields
  <2>4. QED BY <2>3, <1>2, <1>5, KInvFrame DEF Fields
<1>7. Grows(k, k1) BY <1>5 DEF Grows, Present, Linked, Changes, Fields
<1>8. KInv(q) /\ Grows(k1, q) /\ Changes(k1, q, Woken)
  BY <1>1, <1>6, MutexActivateKeeps, MutexActivateShape DEF KInv, OrNone
<1> HIDE DEF q
<1>9. KInv(r) /\ Grows(k, r) /\ Changes(k1, r, Woken)
  <2>1. Changes(k1, k1, Woken) BY <1>6 DEF Changes, KInv
  <2>2. Grows(k, q) BY <1>7, <1>8, GrowsTrans
  <2>3. QED BY <1>4, <1>6, <1>7, <1>8, <2>1, <2>2
<1>10. /\ r.current = k.current /\ r.base = k1.base /\ r.lock = k.lock
       /\ r.master = k.master /\ r.owned = k.owned /\ r.deep = k.deep
  BY <1>5, <1>9 DEF Changes, Fields, Woken
<1>11. /\ frame' \in [AllTasks -> Frames] /\ frame'[t] = User
       /\ \A u \in AllTasks \ {t} : frame'[u] = frame[u]
       /\ t # Idle /\ frame'[Idle] \in {User, Boot}
  BY <1>2, <1>3, FrameTypes, KernelConstants DEF VarTypes, AllTasks, Inv, CurrentInv
<1>12. /\ KInv(k') /\ CurrentInv'
       /\ Changes(r, k', {"current", "need"})
       /\ \A u \in AllTasks : Present(k', u) => Present(k, u)
  BY <1>4, <1>9, <1>10, <1>11, SettledCurrent
<1>13. /\ k'.base = k1.base /\ k'.lock = k.lock
       /\ k'.master = k.master /\ k'.owned = k.owned /\ k'.deep = k.deep
  BY <1>10, <1>12 DEF Changes, Fields
<1>14. \A u \in Tasks : u # d => k'.base[u] = k.base[u]
  BY <1>2, <1>5, <1>13 DEF DataInv, AllTasks
<1>15. /\ held' \in [Tasks -> [Mutexes -> 0 .. MaxDeep]]
       /\ \A m \in Mutexes : held'[d][m] = 0
       /\ \A u \in Tasks \ {d} : held'[u] = held[u]
  <2>1. [m \in Mutexes |-> 0] \in [Mutexes -> 0 .. MaxDeep] BY KernelParameters
  <2>2. QED BY <1>1, <1>2, <1>3, <2>1 DEF VarTypes
<1>16. VarTypes' BY <1>2, <1>3, <1>11, <1>15 DEF VarTypes
<1>17. FreeInv(k') BY <1>2, <1>13 DEF FreeInv
<1>18. FinishDeep' BY <1>13 DEF Inv, FinishDeep
<1>19. /\ \A u \in Tasks : BeingDeleted(u)' => BeingDeleted(u)
       /\ \A u \in Tasks : u # d => (BeingDeleted(u)' <=> BeingDeleted(u))
  <2>1. frame[t].task = d BY DEF d
  <2>2. User.at # "task_delete" BY FrameFields
  <2>3. \A u \in Tasks : u # t => frame'[u] = frame[u] BY <1>11 DEF AllTasks
  <2>4. QED BY <2>1, <2>2, <2>3, <1>11 DEF BeingDeleted
<1>20. AbsentInv'
  <2> SUFFICES ASSUME NEW u \in Tasks, k'.base[u] = 0 \/ BeingDeleted(u)'
               PROVE  /\ ~Present(k', u)
                      /\ frame'[u].at \in {"user", "task_delete"}
                      /\ joining'[u] = None
                      /\ k'.base[u] = 0 => k'.owned[u] = <<>>
    BY DEF AbsentInv
  <2>1. k.base[u] = 0 \/ BeingDeleted(u)
    <3>1. CASE u = d BY <3>1, <1>1
    <3>2. CASE u # d BY <3>2, <1>14, <1>19
    <3>3. QED BY <3>1, <3>2
  <2>2. /\ ~Present(k, u) /\ frame[u].at \in {"user", "task_delete"} /\ joining[u] = None
        /\ k.base[u] = 0 => k.owned[u] = <<>>
    BY <2>1, <1>2 DEF AbsentInv
  <2>3. frame'[u].at \in {"user", "task_delete"}
    <3>1. CASE u = t BY <3>1, <1>11, FrameFields
    <3>2. CASE u # t BY <3>2, <2>2, <1>11 DEF AllTasks
    <3>3. QED BY <3>1, <3>2
  <2>4. k'.base[u] = 0 => k'.owned[u] = <<>>
    <3>1. CASE u = d BY <3>1, <1>3, <1>13
    <3>2. CASE u # d BY <3>2, <2>2, <1>13, <1>14
    <3>3. QED BY <3>1, <3>2
  <2>5. QED BY <2>2, <2>3, <2>4, <1>3, <1>12 DEF AllTasks
<1>21. \A m \in Mutexes : k.master[m] # d
  <2>1. d \in AllTasks BY <1>1 DEF AllTasks
  <2>2. Range(k.owned[d]) = {} BY <1>3, EmptyLine
  <2>3. QED BY <2>1, <2>2, <1>2 DEF OwnerInv, OwnedByMaster
<1>22. ASSUME NEW u \in Tasks PROVE TaskInv(u)'
  <2>0. \A g \in Range(finish) : g \in Mutexes BY KernelParameters DEF Range
  <2>1. CASE u = d
    <3>1. frame'[u].at \in {"user", "task_delete"} /\ joining'[u] = None
      <4>1. frame[u].at \in {"user", "task_delete"} /\ joining[u] = None
        BY <1>1, <1>2, <2>1 DEF AbsentInv
      <4>2. CASE u = t BY <4>1, <4>2, <1>3, <1>11, FrameFields
      <4>3. CASE u # t BY <4>1, <4>3, <1>3, <1>11 DEF AllTasks
      <4>4. QED BY <4>2, <4>3
    <3>2. \A m : ~WaitsOn(u, m)' /\ frame'[u] # Locking(m) BY <3>1, FrameFields DEF WaitsOn
    <3>3. \A i, b : frame'[u] # LockingIrq(i, b) BY <3>1, FrameFields
    <3>4. Blocked(u)' BY <3>2, <3>3 DEF Blocked
    <3>5. \A m \in Mutexes : k'.master[m] # u /\ held'[u][m] = 0 BY <2>1, <1>13, <1>15, <1>21
    <3>6. Joined1(u)' BY <2>0, <3>1, <3>2, <3>5 DEF Joined1, Uses
    <3>7. Holds(u)' BY <3>2, <3>5 DEF Holds
    <3>8. QED BY <3>4, <3>6, <3>7 DEF TaskInv
  <2>2. CASE u # d /\ u = t
    <3>1. /\ TaskInv(t) /\ \A m : ~WaitsOn(t, m) /\ frame[t] # Locking(m) /\ frame[t] # User
      BY <1>1, FrameFields DEF Inv, WaitsOn
    <3>2. joining[t] = None
      <4>1. ASSUME joining[t] # None PROVE FALSE
        BY <4>1, <3>1 DEF TaskInv, Joined1
      <4>2. QED BY <4>1
    <3>3. \A m : ~WaitsOn(t, m)' /\ frame'[t] # Locking(m) BY <1>11, FrameFields DEF WaitsOn
    <3>4. \A i, b : frame'[t] # LockingIrq(i, b) BY <1>11, FrameFields
    <3>5. Blocked(t)' BY <3>3, <3>4 DEF Blocked
    <3>6. BeingDeleted(t)' <=> BeingDeleted(t) BY <2>2, <1>19
    <3>7. \A g \in Range(finish) : ~Uses(t, g) BY <3>1, <3>2 DEF TaskInv, Joined1
    <3>8. Joined1(t)' BY <3>2, <3>3, <3>6, <3>7, <1>3, <1>13 DEF Joined1, Uses
    <3>9. held'[t] = held[t] BY <2>2, <1>15
    <3>10. Holds(t)' BY <3>1, <3>3, <3>6, <3>9, <1>13 DEF TaskInv, Holds
    <3>11. QED BY <2>2, <3>5, <3>8, <3>10 DEF TaskInv
  <2>3. CASE u # d /\ u # t
    <3>1. frame'[u] = frame[u] /\ held'[u] = held[u] BY <2>3, <1>11, <1>15 DEF AllTasks
    <3>2. TaskInv(u) /\ SameJoin(u) BY <1>3 DEF Inv, SameJoin
    <3>3. BeingDeleted(u)' <=> BeingDeleted(u) BY <2>3, <1>19
    <3>4. QED BY <3>1, <3>2, <3>3, <1>2, <1>13, OtherTask
  <2>4. QED BY <2>1, <2>2, <2>3
<1>23. QED BY <1>12, <1>16, <1>17, <1>18, <1>20, <1>22 DEF Inv

\* task_create (tcreate.c:24-51): a task that is on no list becomes ready.
LEMMA TaskCreateInv ==
    ASSUME Inv, NEW t \in Tasks, TaskCreate(t)
    PROVE  Inv'
<1> DEFINE f == finish[t]
           p == StartPrio[t]
           w == <<t>>
           r == [k EXCEPT !.base[t] = p, !.prio[t] = p, !.message[t] = None,
                          !.mprio[f] = 0, !.groups[f] = <<>>]
           F == {"base", "prio", "message", "mprio", "groups"}
<1>1. /\ KInv(k) /\ Shaped(k) /\ DataInv(k) /\ ListInv(k) /\ WaiterInv(k) /\ OwnerInv(k)
      /\ FreeInv(k) /\ VarTypes /\ AbsentInv /\ t \in AllTasks
  BY DEF Inv, KInv, AllTasks
<1>2. f \in Mutexes /\ p \in 1 .. MaxPrio /\ p \in Prios /\ 0 \in Prios
  BY KernelParameters DEF Prios
<1>3. /\ k.base[t] = 0 /\ k' = TaskActivate(r, w) /\ UNCHANGED <<frame, held, joining>>
  BY DEF TaskCreate, Unused
<1>4. ~Present(k, t) BY <1>1, <1>3 DEF AbsentInv
<1>5. Line(w, AllTasks) /\ Range(w) = {t}
  <2>1. w = Appended(<<>>, t) BY DEF Appended
  <2>2. Line(<<>>, AllTasks) /\ Range(<<>>) = {} BY EmptyLine
  <2>3. QED BY <2>1, <2>2, <1>1, AppendLine
<1> HIDE DEF f, p, w
<1>6. /\ Changes(k, r, F)
      /\ r.base = [k.base EXCEPT ![t] = p] /\ r.prio = [k.prio EXCEPT ![t] = p]
      /\ r.message = [k.message EXCEPT ![t] = None]
      /\ r.mprio = [k.mprio EXCEPT ![f] = 0] /\ r.groups = [k.groups EXCEPT ![f] = <<>>]
  <2>1. r = Created(k, t, p, f) BY DEF Created
  <2> HIDE DEF r
  <2>2. CreatedFrom(k, r, t, p, f) BY <1>1, <2>1, CreatedIs
  <2>3. QED BY <2>2 DEF CreatedFrom
<1> HIDE DEF r
<1>7. DataInv(r)
  <2>1. None \in OrNone(Messages) BY DEF OrNone
  <2>2. /\ r.base \in [AllTasks -> Prios] /\ r.prio \in [AllTasks -> Prios]
        /\ r.message \in [AllTasks -> OrNone(Messages)]
        /\ r.mprio \in [Mutexes -> Prios]
    BY <1>1, <1>2, <1>6, <2>1 DEF DataInv
  <2>3. QED BY <2>2, <1>1, <1>6 DEF DataInv, Changes, Fields
<1>8. /\ r.groups \in [Mutexes -> Seq(Groups)]
      /\ \A m \in Mutexes : IsInjective(r.groups[m])
  <2>1. <<>> \in Seq(Groups) /\ IsInjective(<<>>) BY EmptyLine DEF Line
  <2>2. k.groups \in [Mutexes -> Seq(Groups)] /\ \A m \in Mutexes : IsInjective(k.groups[m])
    BY <1>1 DEF WaiterInv
  <2> DEFINE e == <<>>
  <2>3. r.groups = [k.groups EXCEPT ![f] = e] BY <1>6
  <2>4. e \in Seq(Groups) /\ IsInjective(e) BY <2>1
  <2> HIDE DEF e
  <2>5. \A m \in Mutexes : r.groups[m] = IF m = f THEN e ELSE k.groups[m] BY <2>2, <2>3
  <2>6. r.groups \in [Mutexes -> Seq(Groups)] BY <2>2, <2>3, <2>4
  <2>7. QED BY <2>2, <2>4, <2>5, <2>6
<1>9. r.list = k.list /\ Shaped(r) BY <1>6 DEF Changes, Fields
<1>10. /\ Changes(r, k', {"list", "need"})
       /\ Separate(k'.list)
       /\ \A h \in Heads : Range(k'.list[h]) = IF h = Active THEN Range(k.list[h]) \cup {t}
                                               ELSE Range(k.list[h])
       /\ k.need => k'.need
  <2> DEFINE q == TaskActivate(r, w)
  <2>1. \A h \in Heads : Range(r.list[h]) \cap Range(w) = {}
    BY <1>4, <1>5, <1>9 DEF Present, Linked
  <2>2. Separate(r.list) BY <1>1, <1>9 DEF ListInv
  <2>3. /\ Separate(q.list)
        /\ \A h \in Heads : Range(q.list[h]) = IF h = Active THEN Range(r.list[h]) \cup Range(w)
                                               ELSE Range(r.list[h])
        /\ r.need => q.need
    BY <1>5, <1>9, <2>1, <2>2, ActivateLists
  <2>4. Changes(r, q, {"list", "need"}) BY <1>9, ActivateShape
  <2> HIDE DEF q
  <2>5. k' = q BY <1>3 DEF q
  <2>6. r.need = k.need BY <1>6 DEF Changes, Fields
  <2>7. QED BY <1>5, <1>9, <2>3, <2>4, <2>5, <2>6
<1>11. k'.need \in BOOLEAN
  BY <1>3, <1>7, <1>9 DEF TaskActivate, Shaped, Fields, DataInv
<1>12. /\ k'.base = r.base /\ k'.groups = r.groups /\ k'.waiter = k.waiter
       /\ k'.lock = k.lock /\ k'.wait = k.wait /\ k'.current = k.current
       /\ k'.master = k.master /\ k'.owned = k.owned /\ k'.deep = k.deep
  BY <1>6, <1>10 DEF Changes, Fields
<1>13. DataInv(k') BY <1>7, <1>10, <1>11 DEF DataInv, Changes, Fields
<1>14. ListInv(k')
  <2>1. \A m \in Mutexes :
          /\ Range(k'.list[Slaves(m)]) = Range(k.list[Slaves(m)])
          /\ Range(k'.list[Waiters(m)]) = Range(k.list[Waiters(m)])
    BY <1>10, HeadsDiffer
  <2>2. QED BY <2>1, <1>1, <1>10, <1>12 DEF ListInv, LinkedWhereBlocked
<1>15. \A u \in AllTasks : Linked(k', u) => Linked(k, u) \/ u = t
  BY <1>10 DEF Linked
<1>16. WaiterInv(k')
  <2>1. k.waiter \in [Groups -> OrNone(Tasks)] BY <1>1 DEF WaiterInv
  <2>2. ASSUME NEW g \in Groups, k.waiter[g] # None PROVE ~Linked(k', k.waiter[g])
    <3>1. k.waiter[g] \in AllTasks /\ k.waiter[g] # t
      BY <2>1, <2>2, <1>4 DEF OrNone, AllTasks, Present
    <3>2. ~Linked(k, k.waiter[g]) BY <2>2, <1>1 DEF WaiterInv
    <3>3. QED BY <3>1, <3>2, <1>15
  <2>3. QED BY <1>1, <1>8, <1>12, <2>1, <2>2 DEF WaiterInv
<1>17. KInv(k')
  <2>1. OwnerInv(k') BY <1>1, <1>12, OwnerFrame
  <2>2. Shaped(k') BY <1>10 DEF Changes
  <2>3. QED BY <2>1, <2>2, <1>13, <1>14, <1>16 DEF KInv
<1>18. FreeInv(k') /\ FinishDeep' BY <1>1, <1>12 DEF FreeInv, Inv, FinishDeep
<1>19. VarTypes' /\ \A u \in Tasks : SameJoin(u) BY <1>1, <1>3, SameVarTypes
<1>20. CurrentInv'
  <2>1. Range(k.list[Active]) \subseteq Range(k'.list[Active]) BY <1>10, HeadsDiffer
  <2>2. QED BY <2>1, <1>3, <1>10, <1>12 DEF Inv, CurrentInv
<1>21. \A u \in Tasks : BeingDeleted(u)' <=> BeingDeleted(u) BY <1>3 DEF BeingDeleted
<1>22. /\ k'.base[t] # 0 /\ \A u \in Tasks : u # t => k'.base[u] = k.base[u]
       /\ ~BeingDeleted(t)
  <2>1. k'.base[t] = p /\ \A u \in Tasks : u # t => k'.base[u] = k.base[u]
    BY <1>1, <1>6, <1>12 DEF DataInv, AllTasks
  <2>2. p # 0 BY <1>2, KernelParameters
  <2>3. QED BY <2>1, <2>2 DEF TaskCreate, Unused
<1>23. AbsentInv'
  <2> SUFFICES ASSUME NEW u \in Tasks, k'.base[u] = 0 \/ BeingDeleted(u)'
               PROVE  /\ ~Present(k', u)
                      /\ frame'[u].at \in {"user", "task_delete"}
                      /\ joining'[u] = None
                      /\ k'.base[u] = 0 => k'.owned[u] = <<>>
    BY DEF AbsentInv
  <2>1. u # t /\ (k.base[u] = 0 \/ BeingDeleted(u)) BY <1>21, <1>22
  <2>2. ~Present(k', u)
    <3>1. ~Present(k, u) /\ u \in AllTasks BY <2>1, <1>1 DEF AbsentInv, AllTasks
    <3>2. QED BY <3>1, <2>1, <1>12, <1>15 DEF Present
  <2>3. QED BY <2>1, <2>2, <1>1, <1>3, <1>12, <1>22 DEF AbsentInv
<1>24. ASSUME NEW u \in Tasks PROVE TaskInv(u)'
  <2>1. TaskInv(u) BY DEF Inv
  <2>2. QED BY <2>1, <1>1, <1>3, <1>12, <1>19, <1>21, OtherTask
<1>25. QED BY <1>17, <1>18, <1>19, <1>20, <1>23, <1>24 DEF Inv

-----------------------------------------------------------------------------
(***************************************************************************)
(* The invariant holds of what main() builds, and every step keeps it.     *)
(***************************************************************************)
LEMMA InitKernel ==
    ASSUME NEW s, s = KernelInit
    PROVE  /\ KInv(s) /\ FreeInv(s) /\ s.current = Idle
           /\ Idle \in Range(s.list[Active])
           /\ \A t \in Tasks : ~Present(s, t) /\ s.owned[t] = <<>>
           /\ \A m \in Mutexes : s.master[m] = None /\ s.deep[m] = 0
<1> DEFINE w == <<Idle>>
           e == <<>>
<1>1. /\ s.current = Idle /\ s.need = FALSE
      /\ s.list = [h \in Heads |-> IF h = Active THEN w ELSE e]
      /\ s.lock = [t \in AllTasks |-> None] /\ s.wait = [t \in AllTasks |-> None]
      /\ s.owned = [t \in AllTasks |-> e]
      /\ s.base = [t \in AllTasks |-> 0] /\ s.prio = [t \in AllTasks |-> 0]
      /\ s.message = [t \in AllTasks |-> None]
  BY DEF KernelInit
<1>2. /\ s.master = [m \in Mutexes |-> None] /\ s.mprio = [m \in Mutexes |-> 0]
      /\ s.deep = [m \in Mutexes |-> 0] /\ s.groups = [m \in Mutexes |-> e]
      /\ s.irq = [m \in Mutexes |-> None]
  BY DEF KernelInit
<1>3. /\ s.ilock = [i \in Irqs |-> None] /\ s.fast = [i \in Irqs |-> FALSE]
      /\ s.pending = [i \in Irqs |-> FALSE] /\ s.allowed = [i \in Irqs |-> FALSE]
      /\ s.signalled = [g \in Groups |-> {}]
      /\ s.gmessage = [g \in Groups |-> [m \in Mutexes |-> None]]
      /\ s.waiter = [g \in Groups |-> None]
  BY DEF KernelInit
<1>4. Shaped(s) BY DEF KernelInit, Shaped, Fields
<1>5. /\ Idle \in AllTasks /\ Idle \notin Tasks
      /\ \A x \in AllTasks \cup Mutexes : x # None
  BY KernelConstants DEF AllTasks
<1>6. /\ Line(w, AllTasks) /\ Range(w) = {Idle}
      /\ \A S : Line(e, S) /\ Range(e) = {}
  <2>1. \A S : Line(e, S) /\ Range(e) = {} BY EmptyLine
  <2>2. w = Appended(e, Idle) BY DEF Appended
  <2> HIDE DEF w, e
  <2>3. QED BY <2>1, <2>2, <1>5, AppendLine
<1> HIDE DEF w, e
<1>7. \A h \in Heads : /\ Line(s.list[h], AllTasks)
                       /\ Range(s.list[h]) = IF h = Active THEN {Idle} ELSE {}
  BY <1>1, <1>6
<1>8. Separate(s.list)
  <2>1. s.list = [h \in Heads |-> s.list[h]] BY <1>1
  <2>2. QED BY <2>1, <1>7, SeparateParts
<1>9. \A T : None \in OrNone(T) BY DEF OrNone
<1>10. ListInv(s)
  <2>1. LinkedWhereBlocked(s) BY <1>1, <1>5, <1>7, HeadsDiffer DEF LinkedWhereBlocked
  <2>2. QED BY <2>1, <1>1, <1>8, <1>9 DEF ListInv
<1>11. WaiterInv(s)
  <2>1. s.waiter \in [Groups -> OrNone(Tasks)] BY <1>3, <1>9
  <2>2. e \in Seq(Groups) /\ IsInjective(e) BY <1>6 DEF Line
  <2>3. QED BY <2>1, <2>2, <1>2, <1>3 DEF WaiterInv
<1>12. OwnerInv(s)
  <2>1. e \in Seq(Mutexes) /\ IsInjective(e) BY <1>6 DEF Line
  <2>2. s.master \in [Mutexes -> OrNone(Tasks)] /\ s.owned \in [AllTasks -> Seq(Mutexes)]
    BY <1>1, <1>2, <1>9, <2>1
  <2>3. s.deep \in [Mutexes -> 0 .. MaxDeep] BY <1>2, KernelParameters
  <2>4. OwnedByMaster(s) BY <1>1, <1>2, <1>5, <1>6, <2>1 DEF OwnedByMaster
  <2>5. QED BY <2>2, <2>3, <2>4, <1>2 DEF OwnerInv, OwnerType
<1>13. DataInv(s)
  <2>1. 0 \in Prios BY KernelParameters DEF Prios
  <2>2. s.current \in AllTasks /\ s.need \in BOOLEAN BY <1>1, <1>5
  <2>3. /\ s.base \in [AllTasks -> Prios] /\ s.prio \in [AllTasks -> Prios]
        /\ s.mprio \in [Mutexes -> Prios]
    BY <1>1, <1>2, <2>1
  <2>4. /\ s.message \in [AllTasks -> OrNone(Messages)]
        /\ s.irq \in [Mutexes -> OrNone(Irqs)]
        /\ s.ilock \in [Irqs -> OrNone(Locks)]
    BY <1>1, <1>2, <1>3, <1>9
  <2>5. /\ s.fast \in [Irqs -> BOOLEAN]
        /\ s.pending \in [Irqs -> BOOLEAN] /\ s.allowed \in [Irqs -> BOOLEAN]
        /\ s.signalled \in [Groups -> SUBSET Mutexes]
    BY <1>3
  <2>6. s.gmessage \in [Groups -> [Mutexes -> OrNone(Messages)]] BY <1>3, <1>9
  <2>7. QED BY <2>2, <2>3, <2>4, <2>5, <2>6 DEF DataInv
<1>14. FreeInv(s) BY <1>1, <1>5 DEF FreeInv
<1>15. \A t \in Tasks : ~Present(s, t)
  BY <1>3, <1>5, <1>7 DEF Present, Linked, AllTasks
<1>16. QED BY <1>1, <1>2, <1>4, <1>7, <1>10, <1>11, <1>12, <1>13, <1>14, <1>15, HeadsDiffer
      DEF KInv, AllTasks, e

\* The variables at boot: every task is at its beginning and holds nothing.
LEMMA InitInv == Init => Inv
<1> SUFFICES ASSUME Init PROVE Inv OBVIOUS
<1>1. /\ KInv(k) /\ FreeInv(k) /\ k.current = Idle
      /\ Idle \in Range(k.list[Active])
      /\ \A t \in Tasks : ~Present(k, t) /\ k.owned[t] = <<>>
      /\ \A m \in Mutexes : k.master[m] = None /\ k.deep[m] = 0
  BY InitKernel DEF Init
<1>2. /\ frame \in [AllTasks -> Frames] /\ frame[Idle] = Boot
      /\ \A t \in Tasks : frame[t] = User
  BY FrameTypes, KernelConstants DEF Init, AllTasks
<1>3. /\ held \in [Tasks -> [Mutexes -> 0 .. MaxDeep]]
      /\ \A t \in Tasks, m \in Mutexes : held[t][m] = 0
  BY KernelParameters DEF Init
<1>4. joining \in [Tasks -> OrNone([task : Tasks, seen : BOOLEAN])]
      /\ \A t \in Tasks : joining[t] = None
  BY DEF Init, OrNone
<1>5. VarTypes BY <1>2, <1>3, <1>4 DEF VarTypes
<1>6. CurrentInv BY <1>1, <1>2 DEF CurrentInv
<1>7. AbsentInv BY <1>1, <1>2, <1>4, FrameFields DEF AbsentInv
<1>8. \A f \in Range(finish) : f \in Mutexes BY KernelParameters DEF Range
<1>9. FinishDeep BY <1>1, <1>8 DEF FinishDeep
<1>10. ASSUME NEW t \in Tasks PROVE TaskInv(t)
  <2>1. \A m : ~WaitsOn(t, m) /\ frame[t] # Locking(m) BY <1>2, FrameFields DEF WaitsOn
  <2>2. \A i, b : frame[t] # LockingIrq(i, b) BY <1>2, FrameFields
  <2>3. \A m \in Mutexes : k.master[m] # t BY <1>1, KernelConstants DEF AllTasks
  <2>4. Blocked(t) BY <2>1, <2>2 DEF Blocked
  <2>5. Joined1(t) BY <1>4, <1>8, <2>1, <2>3 DEF Joined1, Uses
  <2>6. Holds(t) BY <1>3, <2>1, <2>3 DEF Holds
  <2>7. QED BY <2>4, <2>5, <2>6 DEF TaskInv
<1>11. QED BY <1>1, <1>5, <1>6, <1>7, <1>9, <1>10 DEF Inv

\* A step that changes nothing.
LEMMA StutterInv ==
    ASSUME Inv, UNCHANGED vars
    PROVE  Inv'
<1>1. k' = k /\ frame' = frame /\ held' = held /\ joining' = joining BY DEF vars
<1>2. KInv(k') /\ FreeInv(k') /\ VarTypes' BY <1>1 DEF Inv, VarTypes
<1>3. CurrentInv' /\ FinishDeep' BY <1>1 DEF Inv, CurrentInv, FinishDeep
<1>4. \A u \in Tasks : BeingDeleted(u)' <=> BeingDeleted(u) BY <1>1 DEF BeingDeleted
<1>5. AbsentInv' BY <1>1, <1>4 DEF Inv, AbsentInv
<1>6. ASSUME NEW u \in Tasks PROVE TaskInv(u)'
  <2>1. TaskInv(u) /\ VarTypes BY DEF Inv
  <2>2. SameJoin(u) BY <1>1 DEF SameJoin
  <2>3. QED BY <1>1, <1>4, <2>1, <2>2, OtherTask
<1>7. QED BY <1>2, <1>3, <1>5, <1>6 DEF Inv

\* Every step keeps the invariant: a call, a resumption, an interrupt.
LEMMA NextInv ==
    ASSUME Inv, [Next]_vars, "delete_group_waiter" \notin Misuse
    PROVE  Inv'
<1>1. CASE StartTasks BY <1>1, StartTasksInv
<1>2. ASSUME NEW t \in Tasks, TaskCreate(t) PROVE Inv' BY <1>2, TaskCreateInv
<1>3. ASSUME NEW t \in Tasks, Resume(t) PROVE Inv'
  <2>1. CASE ResumeLock(t) BY <2>1, ResumeLockInv
  <2>2. CASE ResumeLockIrq(t) BY <2>2, ResumeLockIrqInv
  <2>3. CASE ResumeWait(t) BY <2>3, ResumeWaitInv
  <2>4. CASE ResumeGroupWait(t) BY <2>4, GroupWaitInv
  <2>5. CASE DeleteUnlock(t) BY <2>5, DeleteUnlockInv
  <2>6. CASE DeleteFinish(t) BY <2>6, DeleteFinishInv
  <2>7. QED BY <1>3, <2>1, <2>2, <2>3, <2>4, <2>5, <2>6 DEF Resume
<1>4. ASSUME NEW t \in Tasks, TaskCall(t) PROVE Inv'
  <2>1. CASE TaskYield(t) BY <2>1, TaskYieldInv
  <2>2. ASSUME NEW d \in Tasks, NEW p \in SetPrios, TaskSetPriority(t, d, p) PROVE Inv'
    BY <2>2, TaskSetPriorityInv
  <2>3. ASSUME NEW d \in Tasks, NEW msg \in Messages, TaskDelete(t, d, msg) PROVE Inv'
    BY <2>3, TaskDeleteInv
  <2>4. QED BY <1>4, <2>1, <2>2, <2>3 DEF TaskCall
<1>5. ASSUME NEW t \in Tasks, MutexCall(t) PROVE Inv'
  <2>1. PICK m \in Locks :
          \/ MutexLock(t, m) \/ MutexTrylock(t, m) \/ MutexUnlock(t, m) \/ MutexWait(t, m)
          \/ \E msg \in Messages : MutexSignal(t, m, msg)
    BY <1>5 DEF MutexCall
  <2>2. m \in Mutexes BY DEF Locks
  <2>3. CASE MutexLock(t, m) BY <2>3, MutexLockInv
  <2>4. CASE MutexTrylock(t, m) BY <2>4, MutexTrylockInv
  <2>5. CASE MutexUnlock(t, m) BY <2>5, MutexUnlockInv
  <2>6. CASE MutexWait(t, m) BY <2>6, MutexWaitInv
  <2>7. ASSUME NEW msg \in Messages, MutexSignal(t, m, msg) PROVE Inv'
    BY <2>2, <2>7, MutexSignalInv
  <2>8. QED BY <2>1, <2>3, <2>4, <2>5, <2>6, <2>7
<1>6. ASSUME NEW t \in Tasks, JoinCall(t) PROVE Inv'
  <2>1. ASSUME NEW d \in Tasks, TaskWait(t, d) PROVE Inv' BY <2>1, TaskWaitInv
  <2>2. CASE TaskWaitTest(t) BY <2>2, TaskWaitTestInv
  <2>3. CASE TaskWaitSleep(t) BY <2>3, TaskWaitSleepInv
  <2>4. CASE TaskWaitReturn(t) BY <2>4, TaskWaitReturnInv
  <2>5. QED BY <1>6, <2>1, <2>2, <2>3, <2>4 DEF JoinCall
<1>7. ASSUME NEW t \in Tasks, IrqCall(t) PROVE Inv'
  <2>1. ASSUME NEW i \in Irqs, NEW f \in BOOLEAN, MutexLockIrq(t, i, f) PROVE Inv'
    BY <2>1, MutexLockIrqInv
  <2>2. ASSUME NEW m \in Locks, MutexUnlockIrq(t, m) PROVE Inv' BY <2>2, MutexUnlockIrqInv
  <2>3. QED BY <1>7, <2>1, <2>2 DEF IrqCall
<1>8. ASSUME NEW t \in Tasks, NEW g \in Groups, GroupWait(t, g) PROVE Inv'
  BY <1>8, GroupWaitInv
<1>9. ASSUME NEW g \in Groups, GroupListen(g) \/ GroupUnlisten(g) PROVE Inv'
  BY <1>9, GroupListenInv, GroupUnlistenInv
<1>10. ASSUME NEW i \in Irqs, NEW f \in BOOLEAN, MutexAttachIrq(i, f) PROVE Inv'
  BY <1>10, MutexAttachIrqInv
<1>11. ASSUME NEW i \in Irqs, Interrupt(i) PROVE Inv' BY <1>11, InterruptInv
<1>12. CASE UNCHANGED vars BY <1>12, StutterInv
<1>13. QED
  BY <1>1, <1>2, <1>3, <1>4, <1>5, <1>6, <1>7, <1>8, <1>9, <1>10, <1>11, <1>12 DEF Next

-----------------------------------------------------------------------------
(***************************************************************************)
(* What follows for every execution in which no task that waits for a      *)
(* group is deleted.                                                       *)
(***************************************************************************)

\* Every state the kernel reaches has the inductive invariant: from main()
\* (main.c), over every kernel call, resumption and interrupt.
THEOREM KernelInductive ==
    ASSUME "delete_group_waiter" \notin Misuse
    PROVE  Spec => []IInv
<1>1. Init => Inv BY InitInv
<1>2. Inv /\ [Next]_vars => Inv' BY NextInv
<1>3. Inv => IInv BY InvIsIInv
<1>4. QED BY <1>1, <1>2, <1>3, PTL DEF Spec

\* The fields of task_t, mutex_t, mutex_irq_t and mutex_group_t keep their C
\* types, and no lock is deeper than the tasks may take it (mutex.c:95, 188).
THEOREM TypeCorrect ==
    ASSUME "delete_group_waiter" \notin Misuse
    PROVE  Spec => []TypeOK
<1>1. IInv => TypeOK BY DEF IInv
<1>2. QED BY <1>1, KernelInductive, PTL

\* The invariant gives what the asserts of the code test.
LEMMA ConsistentLists == IInv => ListsConsistent
<1> SUFFICES ASSUME IInv PROVE ListsConsistent OBVIOUS
<1>1. /\ ListInv(k) /\ Separate(k.list) /\ LinkedWhereBlocked(k) /\ FreeInv(k)
      /\ OwnerInv(k) /\ OwnerType(k) /\ OwnedByMaster(k)
  BY DEF IInv, ListInv, OwnerInv
<1>2. LinkedOnce(k)
  <2> SUFFICES ASSUME NEW h1 \in Heads, NEW h2 \in Heads,
                      NEW i \in DOMAIN k.list[h1], NEW j \in DOMAIN k.list[h2],
                      k.list[h1][i] = k.list[h2][j]
               PROVE  h1 = h2 /\ i = j
    BY DEF LinkedOnce
  <2>1. h1 = h2
    <3>1. k.list[h1][i] \in Range(k.list[h1]) /\ k.list[h2][j] \in Range(k.list[h2]) BY DEF Range
    <3>2. QED BY <3>1, <1>1 DEF Separate
  <2>2. i = j BY <2>1, <1>1 DEF Separate, IsInjective
  <2>3. QED BY <2>1, <2>2
<1>3. ASSUME NEW m \in Mutexes
      PROVE  IF k.master[m] = None THEN k.list[Slaves(m)] = <<>> /\ k.deep[m] = 0
             ELSE k.deep[m] > 0
  <2>1. CASE k.master[m] = None
    <3> DEFINE s == k.list[Slaves(m)]
    <3>1. s \in Seq(AllTasks) BY <1>1, HeadsDiffer DEF Separate
    <3>2. Range(s) = {}
      <4>1. Range(s) \subseteq AllTasks BY <3>1, RangeOfLine
      <4>2. \A t \in AllTasks : t \notin Range(s)
        BY <1>1, <2>1 DEF FreeInv, LinkedWhereBlocked
      <4>3. QED BY <4>1, <4>2
    <3>3. s = <<>> BY <3>1, <3>2, NoElement
    <3>4. k.deep[m] = 0 BY <1>1, <2>1 DEF OwnerInv
    <3>5. QED BY <2>1, <3>3, <3>4
  <2>2. CASE k.master[m] # None
    <3>1. k.deep[m] \in 0 .. MaxDeep /\ k.deep[m] # 0 BY <1>1, <2>2 DEF OwnerInv, OwnerType
    <3>2. k.deep[m] > 0 BY <3>1, KernelParameters
    <3>3. QED BY <2>2, <3>2
  <2>3. QED BY <2>1, <2>2
<1>4. FreeLockIsClean(k) BY <1>3 DEF FreeLockIsClean
<1>5. QED BY <1>1, <1>2, <1>4 DEF ListsConsistent

\* The asserts of main.c, mutex.c, msignal.c, mtry.c and internal.h on the lists
\* of tasks and of locks, and on the depth of a lock, never fail.
THEOREM ListsStayConsistent ==
    ASSUME "delete_group_waiter" \notin Misuse
    PROVE  Spec => []ListsConsistent
<1>1. IInv => ListsConsistent BY ConsistentLists
<1>2. QED BY <1>1, KernelInductive, PTL

\* task_delete (tdelete.c:31-53) leaves nothing by which the kernel reaches the
\* task_t, which is memory of the application, nor does any call after it.
THEOREM DeadStaysForgotten ==
    ASSUME "delete_group_waiter" \notin Misuse
    PROVE  Spec => []DeadIsForgotten
<1>1. IInv => DeadIsForgotten BY DEF IInv, AbsentInv, DeadIsForgotten, Present
<1>2. QED BY <1>1, KernelInductive, PTL

\* A task owns the locks it took and has not given back, as deep as it took
\* them, over every wait that gives one up and acquires it again (msignal.c).
THEOREM LocksAreHeld ==
    ASSUME "delete_group_waiter" \notin Misuse
    PROVE  Spec => []HeldIsOwned
<1>1. IInv => HeldIsOwned BY DEF IInv
<1>2. QED BY <1>1, KernelInductive, PTL
=============================================================================
