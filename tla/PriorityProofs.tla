--------------------------- MODULE PriorityProofs ---------------------------
(***************************************************************************)
(* The scheduler and priority inheritance.  Unless a reschedule is due,    *)
(* the running task is ready and no ready task has a bigger priority (the  *)
(* scheduler makes it so, and what makes a task ready, raises one or       *)
(* lowers the running one without the scheduler asks for a reschedule):    *)
(* Best.  Every task that exists has what it is owed by its locks, and     *)
(* every lock has its priority from a task it blocks, at the end of each   *)
(* chain of recalculations: InheritInv of KernelInvariant.  Beside the     *)
(* invariant of KernelProofs both are inductive; the theorems are at the   *)
(* end.                                                                    *)
(***************************************************************************)
EXTENDS KernelProofs

Leads(l, p, c) == c \in Range(l) /\ \A t \in Range(l) : p[t] <= p[c]

Best(s) == s.need \/ Leads(s.list[Active], s.prio, s.current)

-----------------------------------------------------------------------------
(***************************************************************************)
(* The scheduler.                                                          *)
(***************************************************************************)
\* A set of numbers that is not empty has a least one.
LEMMA LeastOf ==
    ASSUME NEW S, S \subseteq Nat, S # {}
    PROVE  \E x \in S : \A y \in S : x <= y
<1> DEFINE R == OpToRel(<, Nat)
<1>1. IsWellFoundedOn(R, Nat) BY NatLessThanWellFounded
<1>2. PICK x \in S : \A y \in S : ~(<<y, x>> \in R) BY <1>1, WFMin
<1>3. \A y \in S : ~(y < x) BY <1>2 DEF OpToRel
<1>4. QED BY <1>3

\* task_policy (internal.h:128-142) chooses a ready task of the biggest priority, if
\* the idle task is ready.
LEMMA PolicyLeads ==
    ASSUME NEW s, s.list[Active] \in Seq(AllTasks), s.prio \in [AllTasks -> Prios],
           Idle \in Range(s.list[Active])
    PROVE  Leads(s.list[Active], s.prio, TaskPolicy(s))
<1> DEFINE l == s.list[Active]
           p == s.prio
           Best1(i) == /\ p[l[i]] > p[Idle]
                       /\ \A j \in DOMAIN l : /\ p[l[j]] <= p[l[i]]
                                              /\ j < i => p[l[j]] < p[l[i]]
           best == CHOOSE i \in DOMAIN l : Best1(i)
           ps == {p[l[i]] : i \in DOMAIN l}
           D == {i \in DOMAIN l : p[l[i]] = Max(ps)}
<1>1. /\ DOMAIN l = 1 .. Len(l) /\ Len(l) \in Nat /\ Range(l) = {l[i] : i \in DOMAIN l}
      /\ \A i \in DOMAIN l : l[i] \in AllTasks
  BY LenProperties, RangeOfLine, LineElement
<1>2. TaskPolicy(s) = IF \E i \in DOMAIN l : Best1(i) THEN l[best] ELSE Idle
  BY DEF TaskPolicy
<1> HIDE DEF l, p
<1>3. p \in [AllTasks -> 0 .. MaxPrio] BY DEF Prios, p
<1>4. ps \in SUBSET (0 .. MaxPrio) /\ ps # {} BY <1>1, <1>3 DEF l
<1>5. Max(ps) \in ps /\ \A i \in DOMAIN l : Max(ps) >= p[l[i]]
  <2> HIDE DEF ps
  <2>1. Max(ps) \in ps /\ \A y \in ps : Max(ps) >= y
    BY <1>4, MaxOfPrios, KernelParameters
  <2>2. QED BY <2>1 DEF ps
<1>6. D # {} /\ D \subseteq Nat
  <2>1. D \subseteq Nat BY <1>1
  <2>2. PICK i \in DOMAIN l : Max(ps) = p[l[i]] BY <1>5
  <2>3. i \in D BY <2>2
  <2>4. QED BY <2>1, <2>3
<1>7. \A i \in DOMAIN l : p[l[i]] \in Nat BY <1>1, <1>3
<1>8. PICK i \in D : \A j \in D : i <= j BY <1>6, LeastOf
<1>9. i \in DOMAIN l /\ \A j \in DOMAIN l : p[l[j]] <= p[l[i]] BY <1>5, <1>7, <1>8
<1>10. \A j \in DOMAIN l : j < i => p[l[j]] < p[l[i]]
  <2> SUFFICES ASSUME NEW j \in DOMAIN l, j < i PROVE p[l[j]] < p[l[i]] OBVIOUS
  <2>1. j \notin D
    <3> SUFFICES ASSUME j \in D PROVE FALSE OBVIOUS
    <3> HIDE DEF D
    <3>1. i \in Nat /\ j \in Nat BY <1>6, <1>8
    <3>2. i <= j BY <1>8
    <3>3. QED BY <3>1, <3>2
  <2>2. p[l[j]] # p[l[i]] BY <2>1, <1>8
  <2>3. QED BY <2>2, <1>7, <1>9
<1> HIDE DEF D, ps
<1>11. CASE \E j \in DOMAIN l : Best1(j)
  <2>1. best \in DOMAIN l /\ Best1(best) BY <1>11
  <2> HIDE DEF best
  <2>2. QED BY <2>1, <1>1, <1>2, <1>11 DEF Leads, l, p
<1>12. CASE ~\E j \in DOMAIN l : Best1(j)
  <2>1. ~(p[l[i]] > p[Idle]) BY <1>9, <1>10, <1>12
  <2>2. p[Idle] \in Nat BY <1>3 DEF AllTasks
  <2>3. \A j \in DOMAIN l : p[l[j]] <= p[Idle] BY <2>1, <2>2, <1>7, <1>9
  <2>4. QED BY <2>3, <1>1, <1>2, <1>12 DEF Leads, l, p
<1>13. QED BY <1>11, <1>12

\* After task_schedule the best ready task runs.
LEMMA ScheduledBest ==
    ASSUME NEW r, NEW q, q = TaskSchedule(r), KInv(q), Idle \in Range(q.list[Active])
    PROVE  Best(q)
<1>1. Shaped(q) /\ DataInv(q) /\ Separate(q.list) BY DEF KInv, ListInv
<1>2. q = [r EXCEPT !.need = FALSE, !.current = TaskPolicy(r)] BY DEF TaskSchedule
<1>3. DOMAIN q = Fields BY <1>1 DEF Shaped
<1>4. DOMAIN r = Fields BY <1>2, <1>3
<1>5. q.list = r.list /\ q.prio = r.prio /\ q.current = TaskPolicy(r)
  BY <1>2, <1>4 DEF Fields
<1>6. q.list[Active] \in Seq(AllTasks) /\ q.prio \in [AllTasks -> Prios]
  BY <1>1, HeadsDiffer DEF Separate, DataInv
<1>7. QED BY <1>5, <1>6, PolicyLeads DEF Best

\* So it does after a reschedule that is performed if it is due.
LEMMA ScheduledIfNeededBest ==
    ASSUME NEW r, NEW q, q = ScheduleIfNeeded(r), Best(r),
           KInv(q), Idle \in Range(q.list[Active])
    PROVE  Best(q)
BY ScheduledBest DEF ScheduleIfNeeded

-----------------------------------------------------------------------------
(***************************************************************************)
(* Waking tasks.                                                           *)
(***************************************************************************)
\* Nothing is changed that the scheduler looks at.
LEMMA BestFrame ==
    ASSUME NEW s, NEW r, Best(s), s.need => r.need,
           r.list[Active] = s.list[Active], r.prio = s.prio, r.current = s.current
    PROVE  Best(r)
BY DEF Best

\* The same, by the fields that change.
LEMMA BestChange ==
    ASSUME NEW s, NEW r, NEW F, Best(s), Changes(s, r, F),
           F \cap {"list", "prio", "current", "need"} = {}
    PROVE  Best(r)
<1>1. r.list = s.list /\ r.prio = s.prio /\ r.current = s.current /\ r.need = s.need
  BY DEF Changes, Fields
<1>2. QED BY <1>1, BestFrame

\* task_activate (internal.h:117-126) asks for a reschedule if the task it makes
\* ready is better than the one that runs.
LEMMA ActivateBest ==
    ASSUME NEW s, Shaped(s), s.need \in BOOLEAN, s.list \in [Heads -> Seq(AllTasks)],
           s.prio \in [AllTasks -> Prios], s.current \in AllTasks, Best(s),
           NEW w \in Seq(AllTasks)
    PROVE  Best(TaskActivate(s, w))
<1> DEFINE r == TaskActivate(s, w)
           better == \E t \in Range(w) : s.prio[s.current] < s.prio[t]
<1>1. Active \in Heads /\ s.list[Active] \in Seq(AllTasks) BY HeadsDiffer
<1>2. /\ r.list[Active] = Joined(s.list[Active], w)
      /\ r.need = (s.need \/ better)
      /\ r.prio = s.prio /\ r.current = s.current
  BY <1>1 DEF TaskActivate, Shaped, Fields, Joined
<1>3. Range(r.list[Active]) = Range(s.list[Active]) \cup Range(w)
  BY <1>1, <1>2, RangeConcatenation DEF Joined
<1>4. Range(w) \subseteq AllTasks BY RangeOfLine
<1>5. \A t \in AllTasks : s.prio[t] \in Nat BY KernelParameters DEF Prios
<1> HIDE DEF r
<1>6. Best(r)
  <2>1. CASE s.need \/ better BY <1>2, <2>1 DEF Best
  <2>2. CASE ~s.need /\ ~better
    <3>1. \A t \in Range(w) : s.prio[t] <= s.prio[s.current] BY <1>4, <1>5, <2>2
    <3>2. Leads(s.list[Active], s.prio, s.current) BY <2>2 DEF Best
    <3>3. Leads(r.list[Active], r.prio, r.current) BY <3>1, <3>2, <1>2, <1>3 DEF Leads
    <3>4. QED BY <3>3 DEF Best
  <2>3. QED BY <2>1, <2>2
<1>7. QED BY <1>6 DEF r

\* What the lemma needs is part of the invariant of the data.
LEMMA KInvActivateBest ==
    ASSUME NEW s, KInv(s), Best(s), NEW w \in Seq(AllTasks)
    PROVE  Best(TaskActivate(s, w)) /\ Changes(s, TaskActivate(s, w), {"list", "need"})
<1>1. Shaped(s) /\ DataInv(s) /\ s.list \in [Heads -> Seq(AllTasks)]
  BY DEF KInv, ListInv, Separate
<1>2. QED BY <1>1, ActivateBest, ActivateShape DEF DataInv

\* Every task of a list is activated (main.c:61-69, mutex.c:215-219).
LEMMA MovedBest ==
    ASSUME NEW s, KInv(s), Best(s), NEW hd \in Heads, hd # Active
    PROVE  Best(Moved(s, hd)) /\ Changes(s, Moved(s, hd), {"list", "need"})
<1> DEFINE q == Emptied(s, hd)
           w == s.list[hd]
<1>1. /\ Shaped(s) /\ DataInv(s) /\ s.list \in [Heads -> Seq(AllTasks)]
      /\ w \in Seq(AllTasks)
  BY DEF KInv, ListInv, Separate
<1>2. Changes(s, q, {"list"}) /\ q.list = [s.list EXCEPT ![hd] = <<>>]
  BY <1>1 DEF Emptied, Shaped, Fields, Changes
<1> HIDE DEF q
<1>3. Shaped(q) /\ q.need = s.need /\ q.prio = s.prio /\ q.current = s.current
  BY <1>2 DEF Changes, Fields
<1>4. q.list \in [Heads -> Seq(AllTasks)] /\ q.list[Active] = s.list[Active]
  BY <1>1, <1>2, HeadsDiffer
<1>5. Best(q) BY <1>3, <1>4, BestFrame
<1>6. Best(TaskActivate(q, w)) BY <1>1, <1>3, <1>4, <1>5, ActivateBest DEF DataInv
<1>7. Changes(q, TaskActivate(q, w), {"list", "need"}) BY <1>3, ActivateShape
<1>8. Changes(s, TaskActivate(q, w), {"list", "need"}) BY <1>2, <1>7 DEF Changes
<1>9. QED BY <1>6, <1>8 DEF Moved, q

\* The waiters of a lock that is signalled.
LEMMA WaitersBest ==
    ASSUME NEW s, KInv(s), Best(s), NEW m \in Mutexes, NEW msg
    PROVE  Best(WaitersActivated(s, m, msg))
<1> DEFINE w == s.list[Waiters(m)]
           q == Moved(s, Waiters(m))
           r == WaitersActivated(s, m, msg)
<1>1. Best(q) /\ Shaped(q) BY MovedBest, HeadsDiffer DEF Changes
<1>2. r = [q EXCEPT
            !.wait    = [t \in AllTasks |-> IF t \in Range(w) THEN None ELSE @[t]],
            !.message = [t \in AllTasks |-> IF t \in Range(w) THEN msg ELSE @[t]]]
  BY DEF WaitersActivated, Moved, Emptied
<1> HIDE DEF q, w
<1>3. Changes(q, r, {"wait", "message"}) BY <1>1, <1>2 DEF Shaped, Fields, Changes
<1> HIDE DEF r
<1>4. QED BY <1>1, <1>3, BestChange DEF r

\* The tasks that wait for a group of the lock.
LEMMA GroupsBest ==
    ASSUME NEW s, KInv(s), Best(s), NEW m \in Mutexes, NEW msg
    PROVE  Best(GroupsActivated(s, m, msg))
<1> DEFINE w  == GroupsWoken(s, m)
           gs == Range(s.groups[m])
           q  == TaskActivate(s, w)
           r  == GroupsActivated(s, m, msg)
<1>1. w \in Seq(AllTasks) BY GroupsWokenLine DEF KInv, Line
<1>2. r = [q EXCEPT
            !.signalled = [g \in Groups |-> IF g \in gs THEN @[g] \cup {m} ELSE @[g]],
            !.gmessage  = [g \in Groups |-> IF g \in gs THEN [@[g] EXCEPT ![m] = msg]
                                            ELSE @[g]],
            !.waiter    = [g \in Groups |-> IF g \in gs THEN None ELSE @[g]]]
  BY DEF GroupsActivated
<1> HIDE DEF w, gs
<1>3. Best(q) /\ Shaped(q) BY <1>1, KInvActivateBest DEF Changes
<1> HIDE DEF q
<1>4. Changes(q, r, {"signalled", "gmessage", "waiter"})
  BY <1>2, <1>3 DEF Shaped, Fields, Changes
<1> HIDE DEF r
<1>5. QED BY <1>3, <1>4, BestChange DEF r

\* mutex_activate.
LEMMA MutexActivateBest ==
    ASSUME NEW s, KInv(s), Best(s), NEW m \in Mutexes, NEW msg \in OrNone(Messages)
    PROVE  Best(MutexActivate(s, m, msg))
<1> DEFINE q == WaitersActivated(s, m, msg)
<1>1. KInv(q) /\ Best(q) BY WaitersActivatedKeeps, WaitersBest
<1> HIDE DEF q
<1>2. Best(GroupsActivated(q, m, msg)) BY <1>1, GroupsBest
<1>3. QED BY <1>2 DEF MutexActivate, q

\* The tasks blocked on a lock.
LEMMA SlavesBest ==
    ASSUME NEW s, KInv(s), Best(s), NEW m \in Mutexes
    PROVE  Best(SlavesActivated(s, m))
<1> DEFINE w == s.list[Slaves(m)]
           q == Moved(s, Slaves(m))
           r == SlavesActivated(s, m)
<1>1. Best(q) /\ Shaped(q) BY MovedBest, HeadsDiffer DEF Changes
<1>2. r = [q EXCEPT !.lock = [t \in AllTasks |-> IF t \in Range(w) THEN None ELSE @[t]]]
  BY DEF SlavesActivated, Moved, Emptied
<1> HIDE DEF q, w
<1>3. Changes(q, r, {"lock"}) BY <1>1, <1>2 DEF Shaped, Fields, Changes
<1> HIDE DEF r
<1>4. QED BY <1>1, <1>3, BestChange DEF r

-----------------------------------------------------------------------------
(***************************************************************************)
(* Priority inheritance.  A chain of recalculations asks for a reschedule  *)
(* when it raises a ready task above the running one, or lowers that.      *)
(***************************************************************************)
\* A ready task is neither blocked nor waits.
ReadyFree(s) == \A t \in Range(s.list[Active]) : s.lock[t] = None /\ s.wait[t] = None

BestLevels(s) ==
    {c \in Levels(s) : c.need \/ Leads(s.list[Active], c.prio, s.current)}

\* The lists make it so.
LEMMA ReadyIsReadyFree ==
    ASSUME NEW s, ListInv(s)
    PROVE  ReadyFree(s)
<1>1. s.list[Active] \in Seq(AllTasks) BY HeadsDiffer DEF ListInv, Separate
<1>2. Range(s.list[Active]) \subseteq AllTasks BY <1>1, RangeOfLine
<1>3. \A t \in Range(s.list[Active]), n \in Mutexes : s.lock[t] # n /\ s.wait[t] # n
  BY <1>2, ReadyIsFree
<1>4. QED BY <1>2, <1>3 DEF ReadyFree, ListInv, OrNone

\* One call of mutex_recalculate_prio leaves the priorities of the tasks alone.
LEMMA MutexLevelBest ==
    ASSUME NEW s, KData(s), NEW c \in BestLevels(s), NEW m \in Mutexes
    PROVE  MutexLevel(s, c, m) \in BestLevels(s)
<1> DEFINE r == MutexLevel(s, c, m)
<1>1. c \in Levels(s) BY DEF BestLevels
<1>2. r \in Levels(s) BY <1>1, MutexLevelType
<1>3. r.prio = c.prio /\ r.need = c.need BY <1>1 DEF MutexLevel, Levels
<1> HIDE DEF r
<1>4. r \in BestLevels(s) BY <1>2, <1>3 DEF BestLevels
<1>5. QED BY <1>4 DEF r

\* One call of task_recalculate_prio (mutex.c:100-140).
LEMMA TaskLevelBest ==
    ASSUME NEW s, KData(s), ReadyFree(s), NEW c \in BestLevels(s), c.next # None
    PROVE  TaskLevel(s, c) \in BestLevels(s)
<1> DEFINE t   == c.next
           l   == s.list[Active]
           m   == s.lock[t]
           old == c.prio[t]
           new == Max({s.base[t]} \cup {c.mprio[n] : n \in Range(s.owned[t])})
           c1  == [c EXCEPT !.prio[t] = new, !.next = None]
           up  == new > old
           resched == IF up THEN c1.prio[s.current] < new /\ s.wait[t] = None
                            ELSE t = s.current
           c2  == [c1 EXCEPT !.need = @ \/ resched]
           r   == TaskLevel(s, c)
<1>1. c \in Levels(s) /\ (c.need \/ Leads(l, c.prio, s.current)) BY DEF BestLevels
<1>2. t \in AllTasks /\ c.prio \in [AllTasks -> Prios] /\ c.need \in BOOLEAN
  BY <1>1 DEF Levels, OrNone
<1>3. r \in Levels(s) BY <1>1, TaskLevelType
<1>4. new \in Prios
  <2>1. s.owned[t] \in Seq(Mutexes) BY <1>2 DEF KData, OwnerType
  <2>2. Range(s.owned[t]) \subseteq Mutexes BY <2>1, RangeOfLine
  <2>3. {s.base[t]} \cup {c.mprio[n] : n \in Range(s.owned[t])} \subseteq Prios
    BY <2>2, <1>1, <1>2 DEF KData, DataInv, Levels
  <2>4. QED BY <2>3, PriosMax
<1>5. /\ r = c1 \/ r = c2 \/ r = MutexLevel(s, c1, m)
      /\ m = None /\ new # old => r = c2
  BY DEF TaskLevel
<1> HIDE DEF r, new
<1>6. /\ c1.prio = [c.prio EXCEPT ![t] = new] /\ c1.need = c.need
      /\ c2.prio = c1.prio /\ c2.need = (c.need \/ resched)
  BY <1>1 DEF Levels
<1>7. MutexLevel(s, c1, m).prio = c1.prio /\ MutexLevel(s, c1, m).need = c1.need
  BY <1>1 DEF MutexLevel, Levels
<1> HIDE DEF c1, c2, resched
<1>8. r.prio = [c.prio EXCEPT ![t] = new] /\ (c.need => r.need) BY <1>5, <1>6, <1>7
<1>9. m = None /\ new # old => r.need = (c.need \/ resched) BY <1>5, <1>6
<1>10. c.prio[s.current] \in Nat /\ old \in Nat /\ new \in Nat
       /\ \A u \in AllTasks : c.prio[u] \in Nat /\ r.prio[u] = IF u = t THEN new ELSE c.prio[u]
  <2>1. s.current \in AllTasks BY DEF KData, DataInv
  <2>2. QED BY <2>1, <1>2, <1>4, <1>8, KernelParameters DEF Prios
<1>11. r.need \/ Leads(l, r.prio, s.current)
  <2>1. SUFFICES ASSUME ~r.need PROVE Leads(l, r.prio, s.current) OBVIOUS
  <2>2. s.current \in Range(l) /\ \A u \in Range(l) : c.prio[u] <= c.prio[s.current]
    BY <2>1, <1>1, <1>8 DEF Leads
  <2>3. Range(l) \subseteq AllTasks
    <3>1. l \in Seq(AllTasks) BY HeadsDiffer DEF KData, ListType, Separate
    <3>2. QED BY <3>1, RangeOfLine
  <2> HIDE DEF l
  <2>4. CASE t \notin Range(l) BY <2>2, <2>3, <2>4, <1>10 DEF Leads
  <2>5. CASE t \in Range(l) /\ new = old BY <2>2, <2>3, <2>5, <1>10 DEF Leads
  <2>6. CASE t \in Range(l) /\ new # old
    <3>1. m = None /\ s.wait[t] = None BY <2>6 DEF ReadyFree, l
    <3>2. ~resched BY <3>1, <2>1, <2>6, <1>9
    <3>3. up => ~(c1.prio[s.current] < new) BY <3>1, <3>2 DEF resched
    <3>4. ~up => t # s.current BY <3>2 DEF resched
    <3>5. c1.prio[s.current] = r.prio[s.current] BY <1>6, <1>8
    <3>6. s.current \in AllTasks BY <2>2, <2>3
    <3>7. CASE up
      <4>1. new <= r.prio[s.current] BY <3>3, <3>5, <3>6, <3>7, <1>10
      <4>2. c.prio[s.current] <= r.prio[s.current] BY <3>6, <3>7, <1>10
      <4>3. QED BY <4>1, <4>2, <2>2, <2>3, <3>6, <1>10 DEF Leads
    <3>8. CASE ~up
      <4>1. new <= old BY <3>8, <1>10
      <4>2. QED BY <3>4, <3>6, <3>8, <4>1, <2>2, <2>3, <1>10 DEF Leads
    <3>9. QED BY <3>7, <3>8
  <2>7. QED BY <2>4, <2>5, <2>6
<1>12. QED BY <1>3, <1>11 DEF BestLevels, r

\* The chain, from any level that is so.
LEMMA ChainBest ==
    ASSUME NEW s, KData(s), ReadyFree(s), NEW c \in BestLevels(s)
    PROVE  Best(RecalculateFrom(s, c))
<1> DEFINE r == RecalculateFrom(s, c)
           V == BestLevels(s)
<1>1. c \in V /\ \A v \in V : v.next # None => TaskLevel(s, v) \in V BY TaskLevelBest
<1> HIDE DEF V
<1>2. PICK end \in V : r = Ended(s, end) BY <1>1, ChainWithin
<1>3. r.prio = end.prio /\ r.need = end.need /\ r.list = s.list /\ r.current = s.current
  <2> HIDE DEF r
  <2>1. Shaped(s) BY DEF KData
  <2>2. r.prio = end.prio BY <1>2, <2>1 DEF Ended, Shaped, Fields
  <2>3. r.need = end.need BY <1>2, <2>1 DEF Ended, Shaped, Fields
  <2>4. r.list = s.list BY <1>2, <2>1 DEF Ended, Shaped, Fields
  <2>5. r.current = s.current BY <1>2, <2>1 DEF Ended, Shaped, Fields
  <2>6. QED BY <2>2, <2>3, <2>4, <2>5
<1> HIDE DEF r
<1>4. Best(r) BY <1>3 DEF V, BestLevels, Best
<1>5. QED BY <1>4 DEF r

\* The chain that begins at a task, or at a lock.
LEMMA RecalculateBest ==
    ASSUME NEW s, KData(s), ReadyFree(s), Best(s)
    PROVE  /\ \A t \in AllTasks : Best(TaskRecalculatePrio(s, t))
           /\ \A m \in Mutexes : Best(MutexRecalculatePrio(s, m))
<1>1. \A x \in OrNone(AllTasks) : Level(s, x) \in BestLevels(s)
  BY DEF KData, DataInv, Level, Levels, BestLevels, Best
<1>2. AllTasks \subseteq OrNone(AllTasks) /\ None \in OrNone(AllTasks) BY DEF OrNone
<1>3. ASSUME NEW t \in AllTasks PROVE Best(TaskRecalculatePrio(s, t))
  BY <1>1, <1>2, ChainBest DEF TaskRecalculatePrio
<1>4. ASSUME NEW m \in Mutexes PROVE Best(MutexRecalculatePrio(s, m))
  BY <1>1, <1>2, MutexLevelBest, ChainBest DEF MutexRecalculatePrio
<1>5. QED BY <1>3, <1>4

-----------------------------------------------------------------------------
(***************************************************************************)
(* Locks change hands.                                                     *)
(***************************************************************************)
\* Who takes a lock is the task that runs, and is raised if at all.
LEMMA AcquireBest ==
    ASSUME NEW s, KInv(s), Best(s), NEW m \in Mutexes
    PROVE  Best(AcquireMutex(s, m))
<1> DEFINE t == s.current
           r == AcquireMutex(s, m)
           l == s.list[Active]
<1>1. /\ Shaped(s) /\ t \in AllTasks /\ s.prio \in [AllTasks -> Prios]
      /\ s.mprio \in [Mutexes -> Prios] /\ l \in Seq(AllTasks)
  BY HeadsDiffer DEF KInv, DataInv, ListInv, Separate
<1>2. /\ r.prio = [s.prio EXCEPT ![t] = IF @ < s.mprio[m] THEN s.mprio[m] ELSE @]
      /\ r.list = s.list /\ r.need = s.need /\ r.current = t
  BY <1>1 DEF AcquireMutex, Shaped, Fields
<1> HIDE DEF r
<1>3. \A u \in AllTasks : s.prio[u] \in Nat BY <1>1, KernelParameters DEF Prios
<1>4. s.mprio[m] \in Nat BY <1>1, KernelParameters DEF Prios
<1>5. \A u \in AllTasks : r.prio[u] = IF u = t /\ s.prio[t] < s.mprio[m]
                                      THEN s.mprio[m] ELSE s.prio[u]
  BY <1>1, <1>2
<1>6. Range(l) \subseteq AllTasks BY <1>1, RangeOfLine
<1>7. Leads(l, s.prio, t) => Leads(l, r.prio, t)
  <2> HIDE DEF l, t
  <2>1. t \in AllTasks BY <1>1
  <2>2. QED BY <2>1, <1>3, <1>4, <1>5, <1>6 DEF Leads
<1>8. Best(r) BY <1>2, <1>7 DEF Best
<1>9. QED BY <1>8 DEF r

\* The lock is taken n deep, or once more.
LEMMA LockBest ==
    ASSUME NEW s, KInv(s), Best(s), NEW m \in Mutexes
    PROVE  /\ Best(LockMutex(s, m)) /\ Shaped(LockMutex(s, m))
           /\ \A n : Best([AcquireMutex(s, m) EXCEPT !.deep[m] = n])
<1>1. Shaped(s) BY DEF KInv
<1>2. ASSUME NEW q, Shaped(q), Best(q), NEW n
      PROVE  Best([q EXCEPT !.deep[m] = n]) /\ Shaped([q EXCEPT !.deep[m] = n])
  <2> DEFINE r == [q EXCEPT !.deep[m] = n]
  <2>1. Changes(q, r, {"deep"}) BY <1>2 DEF Shaped, Fields, Changes
  <2> HIDE DEF r
  <2>2. Best(r) /\ Shaped(r)
    <3>1. {"deep"} \cap {"list", "prio", "current", "need"} = {} OBVIOUS
    <3>2. QED BY <1>2, <2>1, <3>1, BestChange DEF Changes
  <2>3. QED BY <2>2 DEF r
<1> DEFINE a == AcquireMutex(s, m)
           q == IF s.master[m] = None THEN a ELSE s
<1>3. Best(a) /\ Shaped(a) BY <1>1, AcquireBest, AcquireShape DEF Changes
<1>4. LockMutex(s, m) = [q EXCEPT !.deep[m] = q.deep[m] + 1] BY DEF LockMutex
<1> HIDE DEF a
<1>5. Best(q) /\ Shaped(q) BY <1>1, <1>3
<1> HIDE DEF q
<1>6. Best(LockMutex(s, m)) /\ Shaped(LockMutex(s, m)) BY <1>2, <1>4, <1>5
<1>7. \A n : Best([a EXCEPT !.deep[m] = n]) BY <1>2, <1>3
<1>8. QED BY <1>6, <1>7 DEF a

\* The master gives the lock up, and may be lowered (mutex.c:187-202).
LEMMA DisownBest ==
    ASSUME NEW s, KInv(s), Best(s), NEW m \in Mutexes, s.master[m] # None
    PROVE  Best(DisownMutex(s, m))
<1> DEFINE t == s.master[m]
           q == Unowned(s, t, m)
           p == IF s.prio[t] <= s.mprio[m] /\ s.base[t] < s.mprio[m]
                THEN TaskRecalculatePrio(q, t) ELSE q
           r == DisownMutex(s, m)
<1>1. /\ Shaped(s) /\ DataInv(s) /\ ListInv(s) /\ WaiterInv(s) /\ OwnerType(s)
      /\ OwnedByMaster(s)
  BY DEF KInv, OwnerInv
<1>2. t \in AllTasks BY <1>1 DEF OwnerType, OrNone, AllTasks
<1>3. /\ Changes(s, q, {"deep", "owned"})
      /\ q.deep = [s.deep EXCEPT ![m] = 0]
      /\ q.owned = [s.owned EXCEPT ![t] = Unlinked(@, m)]
  BY <1>1 DEF Unowned, Shaped, Fields, Changes
<1>4. r = [p EXCEPT !.master[m] = None] BY DEF DisownMutex
<1> HIDE DEF q
<1>5. KData(q)
  <2>1. /\ q.list = s.list /\ q.lock = s.lock /\ q.wait = s.wait
        /\ q.waiter = s.waiter /\ q.groups = s.groups /\ q.master = s.master
    BY <1>3 DEF Changes, Fields
  <2>2. ListType(q) /\ WaiterInv(q)
    BY <1>1, <2>1, WaiterFrame DEF Linked, ListInv, ListType
  <2>3. DataInv(q) BY <1>1, <1>3 DEF DataInv, Changes, Fields
  <2>4. q.deep \in [Mutexes -> 0 .. MaxDeep] BY <1>1, <1>3, KernelParameters DEF OwnerType
  <2>5. Unlinked(s.owned[t], m) \in Seq(Mutexes)
    <3>1. Line(s.owned[t], Mutexes) BY <1>1, <1>2 DEF Line, OwnedByMaster, OwnerType
    <3>2. QED BY <3>1, UnlinkedLine DEF Line
  <2>6. q.owned \in [AllTasks -> Seq(Mutexes)] BY <1>1, <1>2, <1>3, <2>5 DEF OwnerType
  <2>7. QED BY <2>1, <2>2, <2>3, <2>4, <2>6, <1>1, <1>3 DEF KData, OwnerType, Changes
<1>6. ReadyFree(q)
  <2>1. q.list = s.list /\ q.lock = s.lock /\ q.wait = s.wait BY <1>3 DEF Changes, Fields
  <2>2. QED BY <2>1, <1>1, ReadyIsReadyFree DEF ReadyFree
<1>7. Best(q) BY <1>3, BestChange
<1>8. Best(p) /\ Shaped(p)
  <2> DEFINE e == TaskRecalculatePrio(q, t)
  <2>1. Best(e) BY <1>2, <1>5, <1>6, <1>7, RecalculateBest
  <2>2. Shaped(e) /\ Shaped(q) BY <1>3, TaskRecalculateShape DEF Changes
  <2> HIDE DEF e
  <2>3. p = e \/ p = q BY DEF e
  <2>4. QED BY <2>1, <2>2, <2>3, <1>7
<1> HIDE DEF p
<1>9. Changes(p, r, {"master"}) BY <1>4, <1>8 DEF Shaped, Fields, Changes
<1> HIDE DEF r
<1>10. Best(r) BY <1>8, <1>9, BestChange
<1>11. QED BY <1>10 DEF r

\* The pending interrupt of the lock is served.
LEMMA PendingBest ==
    ASSUME NEW s, KInv(s), Best(s), NEW m \in Mutexes, NEW outcome \in Outcomes
    PROVE  Best(PendingServed(s, m, outcome))
<1> DEFINE q == HandlerCalled(s, s.irq[m], outcome)
<1>1. CASE s.irq[m] = None \/ ~s.pending[s.irq[m]] BY <1>1 DEF PendingServed
<1>2. CASE s.irq[m] # None /\ s.pending[s.irq[m]]
  <2>1. s.irq[m] \in Irqs BY <1>2 DEF KInv, DataInv, OrNone
  <2>2. KInv(q) BY <2>1, HandlerKeeps
  <2>3. Changes(s, q, {"pending", "allowed"}) BY HandlerShape DEF KInv
  <2>4. PendingServed(s, m, outcome) \in {q, MutexActivate(q, m, None)}
    BY <1>2 DEF PendingServed
  <2> HIDE DEF q
  <2>5. Best(q) BY <2>3, BestChange
  <2>6. Best(MutexActivate(q, m, None)) BY <2>2, <2>5, MutexActivateBest DEF OrNone
  <2>7. QED BY <2>4, <2>5, <2>6
<1>3. QED BY <1>1, <1>2

\* Its slaves are activated.
LEMMA SlavesReleasedBest ==
    ASSUME NEW s, KInv(s), Best(s), NEW m \in Mutexes
    PROVE  Best(SlavesReleased(s, m))
<1> DEFINE q == SlavesActivated(s, m)
           p == [q EXCEPT !.mprio[m] = 0]
<1>1. CASE s.list[Slaves(m)] = <<>> BY <1>1 DEF SlavesReleased
<1>2. CASE s.list[Slaves(m)] # <<>>
  <2>1. Best(q) /\ Shaped(q) BY SlavesBest, SlavesActivatedKeeps DEF KInv
  <2>2. SlavesReleased(s, m) = p BY <1>2 DEF SlavesReleased
  <2> HIDE DEF q
  <2>3. Changes(q, p, {"mprio"}) BY <2>1 DEF Shaped, Fields, Changes
  <2> HIDE DEF p
  <2>4. Best(p) BY <2>1, <2>3, BestChange
  <2>5. QED BY <2>2, <2>4
<1>3. QED BY <1>1, <1>2

\* A lock is released (mutex.c:194-221).
LEMMA ReleaseBest ==
    ASSUME NEW s, KInv(s), Best(s), NEW m \in Mutexes, s.master[m] # None,
           NEW outcome \in Outcomes
    PROVE  Best(ReleaseMutex(s, m, outcome))
<1> DEFINE q == DisownMutex(s, m)
           p == PendingServed(q, m, outcome)
<1>1. KInv(q) /\ Best(q) BY DisownKeeps, DisownBest
<1> HIDE DEF q
<1>2. KInv(p) /\ Best(p) BY <1>1, PendingKeeps, PendingBest
<1> HIDE DEF p
<1>3. Best(SlavesReleased(p, m)) BY <1>2, SlavesReleasedBest
<1>4. QED BY <1>3 DEF ReleaseMutex, p, q

\* A task leaves its list and what it is blocked on; if it is the one that
\* runs, a reschedule is due (tdelete.c:24-45).
LEMMA RemovedBest ==
    ASSUME NEW s, KInv(s), Best(s), NEW d \in Tasks
    PROVE  Best(Removed(s, d, s.current))
<1> DEFINE t == s.current
           m == s.lock[d]
           k0 == ListUnlink(s, d)
           k1 == [k0 EXCEPT !.need = @ \/ d = t]
           k2 == IF m # None /\ k1.mprio[m] <= k1.prio[d]
                 THEN MutexRecalculatePrio(k1, m) ELSE k1
           r == Removed(s, d, t)
<1>1. /\ Shaped(s) /\ DataInv(s) /\ ListInv(s) /\ WaiterInv(s) /\ OwnerType(s)
      /\ d \in AllTasks
  BY DEF KInv, OwnerInv, AllTasks
<1>2. r = [k2 EXCEPT !.lock[d] = None, !.wait[d] = None] BY DEF Removed
<1>3. /\ Separate(k0.list) /\ Changes(s, k0, {"list"})
      /\ \A h \in Heads : Range(k0.list[h]) = Range(s.list[h]) \ {d}
  BY <1>1, UnlinkLists, UnlinkShape DEF ListInv
<1>4. m \in OrNone(Mutexes) BY <1>1 DEF ListInv
<1> HIDE DEF k0, m
<1>5. Changes(k0, k1, {"need"}) /\ k1.need = (k0.need \/ d = t)
  BY <1>3 DEF Shaped, Fields, Changes
<1> HIDE DEF k1
<1>6. /\ \A f \in Fields \ {"list", "need"} : k1[f] = s[f]
      /\ k1.list = k0.list /\ k1.need = (s.need \/ d = t) /\ k1.need \in BOOLEAN
  BY <1>1, <1>3, <1>5 DEF Changes, Fields, DataInv
<1>7. KData(k1)
  <2>1. DataInv(k1) BY <1>1, <1>6 DEF DataInv, Fields
  <2>2. ListType(k1) BY <1>1, <1>3, <1>6 DEF ListType, ListInv, Fields
  <2>3. \A u \in AllTasks : Linked(k1, u) => Linked(s, u) BY <1>3, <1>6 DEF Linked
  <2>4. WaiterInv(k1) BY <1>1, <1>6, <2>3, WaiterFrame DEF Fields
  <2>5. OwnerType(k1) BY <1>1, <1>6 DEF OwnerType, Fields
  <2>6. QED BY <1>5, <2>1, <2>2, <2>4, <2>5 DEF KData, Changes
<1>8. Range(k1.list[Active]) = Range(s.list[Active]) \ {d} BY <1>3, <1>6, HeadsDiffer
<1>9. ReadyFree(k1)
  <2>1. k1.lock = s.lock /\ k1.wait = s.wait BY <1>6 DEF Fields
  <2>2. QED BY <2>1, <1>1, <1>8, ReadyIsReadyFree DEF ReadyFree
<1>10. Best(k1)
  <2>1. k1.prio = s.prio /\ k1.current = t BY <1>6 DEF Fields
  <2>2. QED BY <2>1, <1>6, <1>8 DEF Best, Leads
<1>11. Best(k2) /\ Shaped(k2)
  <2> DEFINE e == MutexRecalculatePrio(k1, m)
  <2>1. m # None => Best(e) BY <1>4, <1>7, <1>9, <1>10, RecalculateBest DEF OrNone
  <2>2. Shaped(e) /\ Shaped(k1) BY <1>7, MutexRecalculateShape DEF KData, Changes
  <2> HIDE DEF e
  <2>3. (m # None /\ k2 = e) \/ k2 = k1 BY DEF e
  <2>4. QED BY <2>1, <2>2, <2>3, <1>10
<1> HIDE DEF k2
<1>12. Changes(k2, r, {"lock", "wait"}) BY <1>2, <1>11 DEF Shaped, Fields, Changes
<1> HIDE DEF r
<1>13. Best(r) BY <1>11, <1>12, BestChange
<1>14. QED BY <1>13 DEF r

-----------------------------------------------------------------------------
(***************************************************************************)
(* The steps.  A step that keeps the invariant and ends in the scheduler,  *)
(* or in a reschedule if one is due, leaves the best task running.         *)
(***************************************************************************)
\* The scheduler ran.
LEMMA SwitchedBest ==
    ASSUME Inv', NEW r, k' = TaskSchedule(r)
    PROVE  Best(k')
<1>1. KInv(k') /\ Idle \in Range(k'.list[Active]) BY DEF Inv, CurrentInv
<1>2. QED BY <1>1, ScheduledBest

\* The scheduler ran if it was due, or did not.
LEMMA SettledBest ==
    ASSUME Inv', NEW r, Best(r), k' = r \/ k' = ScheduleIfNeeded(r)
    PROVE  Best(k')
<1>1. KInv(k') /\ Idle \in Range(k'.list[Active]) BY DEF Inv, CurrentInv
<1>2. QED BY <1>1, ScheduledIfNeededBest

\* task_create (tcreate.c:24-51): the task is not on the active list until
\* task_activate puts it there, and asks for a reschedule if it is better.
LEMMA TaskCreateBest ==
    ASSUME Inv, Best(k), NEW t \in Tasks, TaskCreate(t)
    PROVE  Best(k')
<1> DEFINE f == finish[t]
           p == StartPrio[t]
           w == <<t>>
           r == [k EXCEPT !.base[t] = p, !.prio[t] = p, !.message[t] = None,
                          !.mprio[f] = 0, !.groups[f] = <<>>]
<1>1. /\ Shaped(k) /\ DataInv(k) /\ Separate(k.list) /\ AbsentInv /\ t \in AllTasks
      /\ k.list[Active] \in Seq(AllTasks)
  BY HeadsDiffer DEF Inv, KInv, ListInv, Separate, AllTasks
<1>2. p \in Prios BY KernelParameters DEF Prios
<1>3. k.base[t] = 0 /\ k' = TaskActivate(r, w) BY DEF TaskCreate, Unused
<1>4. t \notin Range(k.list[Active])
  BY <1>1, <1>3, HeadsDiffer DEF AbsentInv, Present, Linked
<1>5. w \in Seq(AllTasks) BY <1>1
<1> HIDE DEF f, p, w
<1>6. /\ Changes(k, r, {"base", "prio", "message", "mprio", "groups"})
      /\ r.prio = [k.prio EXCEPT ![t] = p]
  <2>1. r = Created(k, t, p, f) BY DEF Created
  <2> HIDE DEF r
  <2>2. CreatedFrom(k, r, t, p, f) BY <1>1, <2>1, CreatedIs
  <2>3. QED BY <2>2 DEF CreatedFrom
<1> HIDE DEF r
<1>7. /\ Shaped(r) /\ r.list = k.list /\ r.need = k.need /\ r.current = k.current
  BY <1>6 DEF Changes, Fields
<1>8. r.prio \in [AllTasks -> Prios] BY <1>1, <1>2, <1>6 DEF DataInv
<1>9. Best(r)
  <2>1. \A u \in AllTasks : u # t => r.prio[u] = k.prio[u] BY <1>1, <1>6 DEF DataInv
  <2>2. Range(k.list[Active]) \subseteq AllTasks BY <1>1, RangeOfLine
  <2>3. QED BY <2>1, <2>2, <1>4, <1>7 DEF Best, Leads
<1>10. Best(TaskActivate(r, w))
  BY <1>1, <1>5, <1>7, <1>8, <1>9, ActivateBest DEF DataInv, Separate
<1>11. QED BY <1>3, <1>10

\* task_set_priority (tsetprio.c:24-41).
LEMMA TaskSetPriorityBest ==
    ASSUME Inv, Inv', Best(k), NEW t \in Tasks, NEW d \in Tasks, NEW p \in SetPrios,
           TaskSetPriority(t, d, p)
    PROVE  Best(k')
<1> DEFINE q == [k EXCEPT !.base[d] = p]
           r == TaskRecalculatePrio(q, d)
<1>1. KInv(k) /\ DataInv(k) /\ Shaped(k) /\ d \in AllTasks BY DEF Inv, KInv, AllTasks
<1>2. p \in Prios /\ p # 0 BY KernelParameters DEF Prios
<1>3. Changes(k, q, {"base"}) /\ q.base = [k.base EXCEPT ![d] = p]
  BY <1>1 DEF Shaped, Fields, Changes
<1>4. k' = ScheduleIfNeeded(r) BY DEF TaskSetPriority
<1> HIDE DEF q
<1>5. DataInv(q) BY <1>1, <1>2, <1>3 DEF DataInv, Changes, Fields
<1>6. KInv(q) BY <1>1, <1>3, <1>5, KInvFrame DEF Fields
<1>7. KData(q) /\ ReadyFree(q)
  BY <1>6, ReadyIsReadyFree DEF KInv, KData, OwnerInv, ListInv, ListType
<1>8. Best(q)
  <2>1. {"base"} \cap {"list", "prio", "current", "need"} = {} OBVIOUS
  <2>2. QED BY <1>3, <2>1, BestChange
<1>9. Best(r) BY <1>1, <1>7, <1>8, RecalculateBest
<1> HIDE DEF r
<1>10. QED BY <1>4, <1>9, SettledBest

\* The loop of mutex_lock (mutex.c:52-76) blocks, or is done.
LEMMA LockLoopBest ==
    ASSUME Inv', NEW t, NEW m, NEW f, NEW done, Best(done), LockLoop(t, m, f, done)
    PROVE  Best(k')
<1>1. CASE k' = BlockOnMutex(k, m) BY <1>1, SwitchedBest DEF BlockOnMutex
<1>2. CASE k' = done BY <1>2
<1>3. QED BY <1>1, <1>2 DEF LockLoop

\* What the loop leaves when it is done: the lock, with an interrupt or not.
LEMMA LockDoneBest ==
    ASSUME Inv, Best(k), NEW m \in Mutexes
    PROVE  /\ Best(LockMutex(k, m))
           /\ \A i, f : Best(Attached(LockMutex(k, m), m, i, f))
<1> DEFINE q == LockMutex(k, m)
<1>1. Best(q) /\ Shaped(q) BY LockBest DEF Inv
<1> HIDE DEF q
<1>2. ASSUME NEW i, NEW f PROVE Best(Attached(q, m, i, f))
  <2>1. Changes(q, Attached(q, m, i, f), {"irq", "ilock", "fast", "pending"})
    BY <1>1, AttachedShape
  <2>2. {"irq", "ilock", "fast", "pending"} \cap {"list", "prio", "current", "need"} = {}
    OBVIOUS
  <2>3. QED BY <1>1, <2>1, <2>2, BestChange
<1>3. QED BY <1>1, <1>2 DEF q

\* The calls that take a lock, and mutex_lock and mutex_lock_irq resumed.
LEMMA LockCallBest ==
    ASSUME Inv, Inv', Best(k), NEW t \in Tasks,
           \/ \E m \in Locks : MutexLock(t, m) \/ MutexTrylock(t, m)
           \/ \E d \in Tasks : TaskWait(t, d)
           \/ \E i \in Irqs, f \in BOOLEAN : MutexLockIrq(t, i, f)
    PROVE  Best(k')
<1>1. ASSUME NEW m \in Locks, MutexLock(t, m) PROVE Best(k')
  <2>1. m \in Mutexes BY DEF Locks
  <2>2. QED BY <1>1, <2>1, LockDoneBest, LockLoopBest DEF MutexLock
<1>2. ASSUME NEW m \in Locks, MutexTrylock(t, m) PROVE Best(k')
  <2>1. m \in Mutexes BY DEF Locks
  <2>2. QED BY <1>2, <2>1, LockDoneBest DEF MutexTrylock
<1>3. ASSUME NEW d \in Tasks, TaskWait(t, d) PROVE Best(k')
  <2>1. finish[d] \in Mutexes BY KernelParameters
  <2>2. QED BY <1>3, <2>1, LockDoneBest, LockLoopBest DEF TaskWait
<1>4. ASSUME NEW i \in Irqs, NEW f \in BOOLEAN, MutexLockIrq(t, i, f) PROVE Best(k')
  <2>1. IrqMutex[i] \in Mutexes BY KernelParameters
  <2>2. QED BY <1>4, <2>1, LockDoneBest, LockLoopBest DEF MutexLockIrq
<1>5. QED BY <1>1, <1>2, <1>3, <1>4

LEMMA ResumeLockBest ==
    ASSUME Inv, Inv', Best(k), NEW t \in Tasks, ResumeLock(t) \/ ResumeLockIrq(t)
    PROVE  Best(k')
<1>1. CASE ResumeLock(t)
  <2>1. PICK m \in Mutexes : frame[t] = Locking(m)
    BY <1>1, ResumedAt DEF ResumeLock
  <2>2. LockLoop(t, m, frame[t], LockMutex(k, m))
    BY <1>1, <2>1, FrameFields DEF ResumeLock
  <2>3. QED BY <2>2, LockDoneBest, LockLoopBest
<1>2. CASE ResumeLockIrq(t)
  <2>1. PICK i \in Irqs, b \in BOOLEAN : frame[t] = LockingIrq(i, b)
    BY <1>2, ResumedAt DEF ResumeLockIrq
  <2> DEFINE m == IrqMutex[i]
  <2>2. LockLoop(t, m, frame[t], Attached(LockMutex(k, m), m, i, b))
    BY <1>2, <2>1, FrameFields DEF ResumeLockIrq
  <2>3. m \in Mutexes BY KernelParameters
  <2> HIDE DEF m
  <2>4. QED BY <2>2, <2>3, LockDoneBest, LockLoopBest
<1>3. QED BY <1>1, <1>2

\* mutex_wait (msignal.c:62-135): the task is switched away, or a pending
\* interrupt is the signal.
LEMMA WaitOnBest ==
    ASSUME Inv, Inv', Best(k), NEW t, NEW m \in Mutexes, WaitOn(t, m)
    PROVE  Best(k')
<1>1. ASSUME NEW q, SuspendOnMutex(t, m, q) PROVE Best(k')
  BY <1>1, SwitchedBest DEF SuspendOnMutex
<1>2. ASSUME NEW outcome \in Outcomes, k' = ScheduleIfNeeded(PendingServed(k, m, outcome))
      PROVE  Best(k')
  <2>1. Best(PendingServed(k, m, outcome)) BY PendingBest DEF Inv
  <2>2. QED BY <1>2, <2>1, SettledBest
<1>3. QED BY <1>1, <1>2 DEF WaitOn

\* It is called, or resumed.
LEMMA WaitBest ==
    ASSUME Inv, Inv', Best(k), NEW t \in Tasks,
           \/ \E m \in Locks : MutexWait(t, m)
           \/ TaskWaitSleep(t)
           \/ ResumeWait(t)
    PROVE  Best(k')
<1>1. ASSUME NEW m \in Locks, MutexWait(t, m) PROVE Best(k')
  BY <1>1, WaitOnBest DEF MutexWait, Locks
<1>2. CASE TaskWaitSleep(t)
  <2>1. finish[joining[t].task] \in Mutexes BY <1>2, JoinerHas DEF TaskWaitSleep
  <2>2. QED BY <1>2, <2>1, WaitOnBest DEF TaskWaitSleep
<1>3. CASE ResumeWait(t)
  <2>1. PICK m \in Mutexes, n \in 1 .. MaxDeep : frame[t] = Waiting(m, n)
    BY <1>3, ResumedAt DEF ResumeWait
  <2>2. \/ k' = BlockOnMutex(k, m)
        \/ k' = [AcquireMutex(k, m) EXCEPT !.deep[m] = n]
    BY <1>3, <2>1, FrameFields DEF ResumeWait
  <2>3. CASE k' = BlockOnMutex(k, m) BY <2>3, SwitchedBest DEF BlockOnMutex
  <2>4. CASE k' = [AcquireMutex(k, m) EXCEPT !.deep[m] = n] BY <2>4, LockBest DEF Inv
  <2>5. QED BY <2>2, <2>3, <2>4
<1>4. QED BY <1>1, <1>2, <1>3

\* A lock is given up: once less deep, or released (mutex.c:187-226).
LEMMA UnlockedBest ==
    ASSUME Inv, Inv', Best(k), NEW m \in Mutexes, k.master[m] # None,
           NEW outcome \in Outcomes, k' = Unlocked(m, outcome)
    PROVE  Best(k')
<1> DEFINE q == [k EXCEPT !.deep[m] = @ - 1]
<1>1. CASE k.deep[m] > 1
  <2>1. k' = q BY <1>1 DEF Unlocked
  <2>2. Changes(k, q, {"deep"}) BY DEF Inv, KInv, Shaped, Fields, Changes
  <2> HIDE DEF q
  <2>3. {"deep"} \cap {"list", "prio", "current", "need"} = {} OBVIOUS
  <2>4. QED BY <2>1, <2>2, <2>3, BestChange
<1>2. CASE ~(k.deep[m] > 1)
  <2>1. k' = ScheduleIfNeeded(ReleaseMutex(k, m, outcome)) BY <1>2 DEF Unlocked
  <2>2. Best(ReleaseMutex(k, m, outcome)) BY ReleaseBest DEF Inv
  <2>3. QED BY <2>1, <2>2, SettledBest
<1>3. QED BY <1>1, <1>2

\* The locks of a task are those it is the master of.
LEMMA OwnedHead ==
    ASSUME Inv, NEW d \in Tasks, k.owned[d] # <<>>
    PROVE  Head(k.owned[d]) \in Mutexes /\ k.master[Head(k.owned[d])] = d
<1> DEFINE s == k.owned[d]
<1>1. OwnedByMaster(k) /\ s \in Seq(Mutexes) /\ d \in AllTasks
  BY DEF Inv, KInv, OwnerInv, OwnerType, AllTasks
<1>2. s # <<>> OBVIOUS
<1> HIDE DEF s
<1>3. 1 \in 1 .. Len(s) BY <1>1, <1>2, EmptySeq
<1>4. s[1] \in Range(s) /\ s[1] \in Mutexes BY <1>1, <1>3, LineElement
<1>5. Head(s) = s[1] BY <1>1, <1>2
<1>6. Range(k.owned[d]) = Range(s) BY DEF s
<1>7. QED BY <1>1, <1>4, <1>5, <1>6 DEF OwnedByMaster, s

\* mutex_unlock, called by a task, by task_wait and by task_delete.
LEMMA UnlockCallBest ==
    ASSUME Inv, Inv', Best(k), NEW t \in Tasks,
           \/ \E m \in Locks : MutexUnlock(t, m)
           \/ TaskWaitReturn(t)
           \/ DeleteUnlock(t)
    PROVE  Best(k')
<1>1. \A u \in Tasks : u # None BY KernelConstants DEF AllTasks
<1>2. ASSUME NEW m \in Locks, MutexUnlock(t, m) PROVE Best(k')
  <2>1. m \in Mutexes /\ k.master[m] # None BY <1>1, <1>2 DEF Locks, MutexUnlock
  <2>2. QED BY <1>2, <2>1, UnlockedBest DEF MutexUnlock
<1>3. CASE TaskWaitReturn(t)
  <2> DEFINE m == finish[joining[t].task]
  <2>1. m \in Mutexes /\ k.master[m] # None BY <1>1, <1>3, JoinerHas DEF TaskWaitReturn
  <2>2. PICK outcome \in Outcomes : k' = Unlocked(m, outcome) BY <1>3 DEF TaskWaitReturn
  <2> HIDE DEF m
  <2>3. QED BY <2>1, <2>2, UnlockedBest
<1>4. CASE DeleteUnlock(t)
  <2> DEFINE d == frame[t].task
             m == Head(k.owned[d])
  <2>1. d \in Tasks /\ k.owned[d] # <<>> BY <1>4, Deletion DEF DeleteUnlock
  <2>2. m \in Mutexes /\ k.master[m] # None BY <1>1, <2>1, OwnedHead
  <2>3. PICK outcome \in Outcomes : k' = Unlocked(m, outcome) BY <1>4 DEF DeleteUnlock
  <2> HIDE DEF m
  <2>4. QED BY <2>2, <2>3, UnlockedBest
<1>5. QED BY <1>2, <1>3, <1>4

\* mutex_unlock_irq (irelease.c:27-81).
LEMMA MutexUnlockIrqBest ==
    ASSUME Inv, Inv', Best(k), NEW t \in Tasks, NEW m \in Locks, MutexUnlockIrq(t, m)
    PROVE  Best(k')
<1>1. /\ KInv(k) /\ m \in Mutexes /\ k.master[m] # None
  BY KernelConstants DEF Inv, Locks, MutexUnlockIrq, AllTasks
<1>2. CASE k.deep[m] > 1
  <2> DEFINE r == [k EXCEPT !.deep[m] = @ - 1]
  <2>1. k' = r BY <1>2 DEF MutexUnlockIrq
  <2>2. Changes(k, r, {"deep"}) BY <1>1 DEF KInv, Shaped, Fields, Changes
  <2> HIDE DEF r
  <2>3. {"deep"} \cap {"list", "prio", "current", "need"} = {} OBVIOUS
  <2>4. QED BY <2>1, <2>2, <2>3, BestChange
<1>3. CASE ~(k.deep[m] > 1)
  <2>1. PICK outcome \in Outcomes :
          k' = ScheduleIfNeeded(SlavesReleased(
                   Detached(PendingServed(DisownMutex(k, m), m, outcome), m), m))
    BY <1>3 DEF MutexUnlockIrq
  <2> DEFINE q == DisownMutex(k, m)
             p == PendingServed(q, m, outcome)
             d == Detached(p, m)
  <2>2. KInv(q) /\ Best(q) BY <1>1, DisownKeeps, DisownBest
  <2>3. k' = ScheduleIfNeeded(SlavesReleased(d, m)) BY <2>1
  <2> HIDE DEF q
  <2>4. KInv(p) /\ Best(p) BY <2>2, <1>1, PendingKeeps, PendingBest
  <2> HIDE DEF p
  <2>5. KInv(d) /\ Changes(p, d, {"irq", "ilock"}) BY <2>4, <1>1, DetachedKeeps
  <2> HIDE DEF d
  <2>6. {"irq", "ilock"} \cap {"list", "prio", "current", "need"} = {} OBVIOUS
  <2>7. Best(d) BY <2>4, <2>5, <2>6, BestChange
  <2>8. Best(SlavesReleased(d, m)) BY <1>1, <2>5, <2>7, SlavesReleasedBest
  <2>9. QED BY <2>3, <2>8, SettledBest
<1>4. QED BY <1>2, <1>3

\* mutex_signal (msignal.c:25-41).
LEMMA MutexSignalBest ==
    ASSUME Inv, Inv', Best(k), NEW t \in Tasks, NEW m \in Locks, NEW msg \in Messages,
           MutexSignal(t, m, msg)
    PROVE  Best(k')
<1>1. m \in Mutexes /\ msg \in OrNone(Messages) BY DEF Locks, OrNone
<1>2. Best(MutexActivate(k, m, msg)) BY <1>1, MutexActivateBest DEF Inv
<1>3. k' = k \/ k' = ScheduleIfNeeded(MutexActivate(k, m, msg)) BY DEF MutexSignal
<1>4. QED BY <1>2, <1>3, SettledBest

\* The interrupt handler (machdep.c:109-155).
LEMMA InterruptBest ==
    ASSUME Inv, Inv', Best(k), NEW i \in Irqs, Interrupt(i)
    PROVE  Best(k')
<1> DEFINE m == k.ilock[i]
           Masked(b) == [k EXCEPT !.allowed[i] = b]
           busy == [Masked(FALSE) EXCEPT !.pending[i] = TRUE]
           F == {"pending", "allowed"}
<1>1. KInv(k) /\ DataInv(k) /\ Shaped(k) BY DEF Inv, KInv
<1>2. m \in Mutexes BY <1>1 DEF Interrupt, DataInv, Locks, OrNone
<1>3. \A b \in BOOLEAN : /\ Changes(k, Masked(b), F)
                          /\ Masked(b).pending \in [Irqs -> BOOLEAN]
                          /\ Masked(b).allowed \in [Irqs -> BOOLEAN]
  BY <1>1 DEF Shaped, Fields, Changes, DataInv
<1>4. Changes(k, busy, F) BY <1>1 DEF Shaped, Fields, Changes, DataInv
<1>5. \A b : [Masked(FALSE) EXCEPT !.allowed[i] = b] = Masked(b)
  BY <1>1 DEF Shaped, Fields, DataInv
<1>6. \/ k' = busy
      \/ \E b \in BOOLEAN : \/ k' = Masked(b)
                            \/ k' = ScheduleIfNeeded(MutexActivate(Masked(b), m, None))
  BY <1>5 DEF Interrupt, Outcomes
<1> HIDE DEF m, Masked, busy
<1>7. F \cap {"list", "prio", "current", "need"} = {} OBVIOUS
<1>8. CASE k' = busy BY <1>4, <1>7, <1>8, BestChange
<1>9. ASSUME NEW b \in BOOLEAN,
             k' = Masked(b) \/ k' = ScheduleIfNeeded(MutexActivate(Masked(b), m, None))
      PROVE  Best(k')
  <2> DEFINE r == Masked(b)
  <2>1. Best(r) BY <1>3, <1>7, BestChange
  <2>2. KInv(r) BY <1>1, <1>3, FlagsKeep
  <2>3. Best(MutexActivate(r, m, None)) BY <1>2, <2>1, <2>2, MutexActivateBest DEF OrNone
  <2>4. QED BY <1>9, <2>1, <2>3, SettledBest
<1>10. QED BY <1>6, <1>8, <1>9

\* The end of task_delete (tdelete.c:52-59).
LEMMA DeleteFinishBest ==
    ASSUME Inv, Inv', Best(k), NEW t \in Tasks, DeleteFinish(t)
    PROVE  Best(k')
<1> DEFINE d   == frame[t].task
           f   == finish[d]
           msg == frame[t].message
           q   == [k EXCEPT !.base[d] = 0]
<1>1. /\ d \in Tasks /\ msg \in OrNone(Messages) /\ f \in Mutexes
  BY Deletion, FrameFields, KernelParameters DEF DeleteFinish, OrNone
<1>2. KInv(k) /\ Shaped(k) /\ DataInv(k) BY DEF Inv, KInv
<1>3. \/ k' = ScheduleIfNeeded(q)
      \/ k' = ScheduleIfNeeded(MutexActivate(q, f, msg))
  BY DEF DeleteFinish
<1> HIDE DEF d, msg, f
<1>4. Changes(k, q, {"base"}) /\ q.base = [k.base EXCEPT ![d] = 0]
  BY <1>2 DEF Shaped, Fields, Changes
<1> HIDE DEF q
<1>5. KInv(q)
  <2>1. 0 \in Prios /\ k.base \in [AllTasks -> Prios]
    BY <1>2, KernelParameters DEF DataInv, Prios
  <2>2. q.base \in [AllTasks -> Prios] BY <2>1, <1>4
  <2>3. DataInv(q) BY <2>2, <1>2, <1>4 DEF DataInv, Changes, Fields
  <2>4. QED BY <2>3, <1>2, <1>4, KInvFrame DEF Fields
<1>6. Best(q)
  <2>1. {"base"} \cap {"list", "prio", "current", "need"} = {} OBVIOUS
  <2>2. QED BY <1>4, <2>1, BestChange
<1>7. Best(MutexActivate(q, f, msg)) BY <1>1, <1>5, <1>6, MutexActivateBest
<1>8. QED BY <1>3, <1>6, <1>7, SettledBest

\* The calls that change nothing the scheduler looks at: an interrupt is
\* attached, the slots of a group are put on the lists of its locks or taken off.
LEMMA UnrelatedBest ==
    ASSUME Inv, Best(k),
           \/ \E i \in Irqs, f \in BOOLEAN : MutexAttachIrq(i, f)
           \/ \E g \in Groups : GroupListen(g) \/ GroupUnlisten(g)
    PROVE  Best(k')
<1>1. Shaped(k) BY DEF Inv, KInv
<1>2. ASSUME NEW i \in Irqs, NEW f \in BOOLEAN, MutexAttachIrq(i, f) PROVE Best(k')
  <2> DEFINE q == Attached(k, IrqMutex[i], i, f)
             F == {"irq", "ilock", "fast", "pending", "allowed"}
  <2>1. Changes(k, q, {"irq", "ilock", "fast", "pending"}) BY <1>1, AttachedShape
  <2>2. k' = [q EXCEPT !.allowed[i] = TRUE] BY <1>2 DEF MutexAttachIrq
  <2> HIDE DEF q
  <2>3. Changes(k, k', F) BY <2>1, <2>2 DEF Shaped, Fields, Changes
  <2>4. F \cap {"list", "prio", "current", "need"} = {} OBVIOUS
  <2>5. QED BY <2>3, <2>4, BestChange
<1>3. ASSUME NEW g \in Groups, GroupListen(g) \/ GroupUnlisten(g) PROVE Best(k')
  <2> DEFINE F == {"groups", "gmessage"}
  <2>1. PICK gs : k' = [k EXCEPT !.groups = gs, !.gmessage[g] = [m \in Mutexes |-> None]]
    BY <1>3 DEF GroupListen, GroupUnlisten
  <2>2. Changes(k, k', F) BY <1>1, <2>1 DEF Shaped, Fields, Changes
  <2>3. F \cap {"list", "prio", "current", "need"} = {} OBVIOUS
  <2>4. QED BY <2>2, <2>3, BestChange
<1>4. QED BY <1>2, <1>3

\* mutex_group_wait (mgroup.c:103-139) takes a signal, or sleeps.
LEMMA GroupLoopBest ==
    ASSUME Inv, Inv', Best(k), NEW t, NEW g, GroupLoop(t, g)
    PROVE  Best(k')
<1> DEFINE q == [k EXCEPT !.signalled[g] = @ \ {LastSignalled(g)}]
<1>1. CASE k' = q
  <2>1. Changes(k, q, {"signalled"}) BY DEF Inv, KInv, Shaped, Fields, Changes
  <2> HIDE DEF q
  <2>2. {"signalled"} \cap {"list", "prio", "current", "need"} = {} OBVIOUS
  <2>3. QED BY <1>1, <2>1, <2>2, BestChange
<1>2. CASE k' = TaskSchedule([ListUnlink(k, t) EXCEPT !.waiter[g] = t])
  BY <1>2, SwitchedBest
<1>3. QED BY <1>1, <1>2 DEF GroupLoop

\* Every step: a call, a resumption, an interrupt.
LEMMA NextBest ==
    ASSUME Inv, Inv', Best(k), [Next]_vars
    PROVE  Best(k')
<1>1. CASE StartTasks BY <1>1, SwitchedBest DEF StartTasks
<1>2. ASSUME NEW t \in Tasks, TaskCreate(t) PROVE Best(k') BY <1>2, TaskCreateBest
<1>3. ASSUME NEW t \in Tasks, Resume(t) PROVE Best(k')
  <2>1. CASE ResumeLock(t) \/ ResumeLockIrq(t) BY <2>1, ResumeLockBest
  <2>2. CASE ResumeWait(t) BY <2>2, WaitBest
  <2>3. CASE ResumeGroupWait(t) BY <2>3, GroupLoopBest DEF ResumeGroupWait
  <2>4. CASE DeleteUnlock(t) BY <2>4, UnlockCallBest
  <2>5. CASE DeleteFinish(t) BY <2>5, DeleteFinishBest
  <2>6. QED BY <1>3, <2>1, <2>2, <2>3, <2>4, <2>5 DEF Resume
<1>4. ASSUME NEW t \in Tasks, TaskCall(t) PROVE Best(k')
  <2>1. CASE TaskYield(t) BY <2>1, SwitchedBest DEF TaskYield
  <2>2. ASSUME NEW d \in Tasks, NEW p \in SetPrios, TaskSetPriority(t, d, p) PROVE Best(k')
    BY <2>2, TaskSetPriorityBest
  <2>3. ASSUME NEW d \in Tasks, NEW msg \in Messages, TaskDelete(t, d, msg) PROVE Best(k')
    <3>1. t = k.current /\ k' = Removed(k, d, t)
      BY <2>3 DEF TaskDelete, Removed, Calls, Running
    <3>2. QED BY <3>1, RemovedBest DEF Inv
  <2>4. QED BY <1>4, <2>1, <2>2, <2>3 DEF TaskCall
<1>5. ASSUME NEW t \in Tasks, MutexCall(t) PROVE Best(k')
  <2>1. PICK m \in Locks :
          \/ MutexLock(t, m) \/ MutexTrylock(t, m) \/ MutexUnlock(t, m) \/ MutexWait(t, m)
          \/ \E msg \in Messages : MutexSignal(t, m, msg)
    BY <1>5 DEF MutexCall
  <2>2. CASE MutexLock(t, m) \/ MutexTrylock(t, m) BY <2>2, LockCallBest
  <2>3. CASE MutexUnlock(t, m) BY <2>3, UnlockCallBest
  <2>4. CASE MutexWait(t, m) BY <2>4, WaitBest
  <2>5. ASSUME NEW msg \in Messages, MutexSignal(t, m, msg) PROVE Best(k')
    BY <2>5, MutexSignalBest
  <2>6. QED BY <2>1, <2>2, <2>3, <2>4, <2>5
<1>6. ASSUME NEW t \in Tasks, JoinCall(t) PROVE Best(k')
  <2>1. ASSUME NEW d \in Tasks, TaskWait(t, d) PROVE Best(k') BY <2>1, LockCallBest
  <2>2. CASE TaskWaitTest(t) BY <2>2 DEF TaskWaitTest
  <2>3. CASE TaskWaitSleep(t) BY <2>3, WaitBest
  <2>4. CASE TaskWaitReturn(t) BY <2>4, UnlockCallBest
  <2>5. QED BY <1>6, <2>1, <2>2, <2>3, <2>4 DEF JoinCall
<1>7. ASSUME NEW t \in Tasks, IrqCall(t) PROVE Best(k')
  <2>1. ASSUME NEW i \in Irqs, NEW f \in BOOLEAN, MutexLockIrq(t, i, f) PROVE Best(k')
    BY <2>1, LockCallBest
  <2>2. ASSUME NEW m \in Locks, MutexUnlockIrq(t, m) PROVE Best(k')
    BY <2>2, MutexUnlockIrqBest
  <2>3. QED BY <1>7, <2>1, <2>2 DEF IrqCall
<1>8. ASSUME NEW t \in Tasks, NEW g \in Groups, GroupWait(t, g) PROVE Best(k')
  BY <1>8, GroupLoopBest DEF GroupWait
<1>9. ASSUME NEW g \in Groups, GroupListen(g) \/ GroupUnlisten(g) PROVE Best(k')
  BY <1>9, UnrelatedBest
<1>10. ASSUME NEW i \in Irqs, NEW f \in BOOLEAN, MutexAttachIrq(i, f) PROVE Best(k')
  BY <1>10, UnrelatedBest
<1>11. ASSUME NEW i \in Irqs, Interrupt(i) PROVE Best(k') BY <1>11, InterruptBest
<1>12. CASE UNCHANGED vars BY <1>12 DEF vars
<1>13. QED
  BY <1>1, <1>2, <1>3, <1>4, <1>5, <1>6, <1>7, <1>8, <1>9, <1>10, <1>11, <1>12 DEF Next

\* At boot the idle task runs, and is the only one that is ready.
LEMMA InitBest == Init => Best(k)
<1> SUFFICES ASSUME Init PROVE Best(k) OBVIOUS
<1>1. /\ k.list[Active] = <<Idle>> /\ k.current = Idle
      /\ k.prio = [t \in AllTasks |-> 0]
  BY HeadsDiffer DEF Init, KernelInit
<1>2. Range(<<Idle>>) = {Idle} BY DEF Range
<1>3. k.prio[Idle] = 0 BY <1>1 DEF AllTasks
<1>4. QED BY <1>1, <1>2, <1>3 DEF Best, Leads


-----------------------------------------------------------------------------
(***************************************************************************)
(* Inheritance.  The maxima that mutex.c computes.                         *)
(***************************************************************************)
\* A task is owed the maximum of its own priority and those of its locks.
MaxWith(b, mp, O) == Max({b} \cup {mp[n] : n \in O})

LEMMA OwedIsMax ==
    ASSUME NEW b \in Prios, NEW mp \in [Mutexes -> Prios], NEW O, O \subseteq Mutexes
    PROVE  /\ MaxWith(b, mp, O) \in Prios
           /\ \A p : p = MaxWith(b, mp, O) <=> p \in Prios /\ Owed(p, b, mp, O)
<1> DEFINE S == {b} \cup {mp[n] : n \in O}
           x == Max(S)
<1>1. S \in SUBSET (0 .. MaxPrio) /\ S # {} BY DEF Prios
<1>2. b \in S /\ \A n \in O : mp[n] \in S OBVIOUS
<1>3. \A y \in S : y = b \/ \E n \in O : y = mp[n] OBVIOUS
<1> HIDE DEF S
<1>4. x \in S /\ \A y \in S : x >= y BY <1>1, MaxOfPrios, KernelParameters
<1>5. \A y \in S : y \in Nat /\ y \in Prios BY <1>1, KernelParameters DEF Prios
<1> HIDE DEF x
<1>6. x \in Prios /\ Owed(x, b, mp, O) BY <1>2, <1>3, <1>4, <1>5 DEF Owed
<1>7. ASSUME NEW p \in Prios, Owed(p, b, mp, O) PROVE p = x
  <2>1. p \in S /\ \A y \in S : p >= y BY <1>2, <1>3, <1>7 DEF Owed
  <2>2. QED BY <2>1, <1>4, <1>5
<1>8. QED BY <1>6, <1>7 DEF x, S, MaxWith

\* A lock is owed the maximum of the priorities of the tasks of L.
LEMMA SlavesMax ==
    ASSUME NEW p \in [AllTasks -> Prios], NEW L, L \subseteq AllTasks
    PROVE  LET x == Max({0} \cup {p[t] : t \in L})
           IN  /\ x \in Prios
               /\ \A t \in L : x >= p[t]
               /\ x = 0 \/ \E t \in L : x = p[t]
<1> DEFINE S == {0} \cup {p[t] : t \in L}
           x == Max(S)
<1>1. S \in SUBSET (0 .. MaxPrio) /\ S # {} BY KernelParameters DEF Prios
<1>2. 0 \in S /\ \A t \in L : p[t] \in S OBVIOUS
<1>3. \A y \in S : y = 0 \/ \E t \in L : y = p[t] OBVIOUS
<1> HIDE DEF S
<1>4. x \in S /\ \A y \in S : x >= y BY <1>1, MaxOfPrios, KernelParameters
<1> HIDE DEF x
<1>5. x \in Prios BY <1>1, <1>4 DEF Prios
<1>6. QED BY <1>2, <1>3, <1>4, <1>5 DEF x, S

-----------------------------------------------------------------------------
(***************************************************************************)
(* The chain of recalculations.  At every level each task but the one that *)
(* is to be recalculated has what it is owed, and each lock its priority   *)
(* from a task on its list.                                                *)
(***************************************************************************)
TasksOwed(s, c) ==
    \A t \in AllTasks : s.base[t] # 0 /\ t # c.next =>
        Owed(c.prio[t], s.base[t], c.mprio, Range(s.owned[t]))

Backed(s, c, m) ==
    c.mprio[m] = 0 \/ \E t \in Range(s.list[Slaves(m)]) : c.prio[t] >= c.mprio[m]

\* No task on the list of m has a bigger priority of its own.
Serves(s, c, m) ==
    SetPrios = {} => \A t \in Range(s.list[Slaves(m)]) : s.base[t] <= c.mprio[m]

OwedLevels(s) ==
    {c \in Levels(s) : /\ TasksOwed(s, c)
                       /\ \A m \in Mutexes : Backed(s, c, m) /\ Serves(s, c, m)}

\* The tasks on the list of a lock are blocked on it.
SlavesBlocked(s) ==
    \A m \in Mutexes, t \in AllTasks : t \in Range(s.list[Slaves(m)]) => s.lock[t] = m

\* One call of mutex_recalculate_prio (mutex.c:142-170): the lock is owed its
\* priority again, and its master unless that is called next.
LEMMA MutexLevelOwes ==
    ASSUME NEW s, KData(s), OwnedByMaster(s), NEW m \in Mutexes, NEW c \in Levels(s),
           c.next = None, TasksOwed(s, c),
           \A n \in Mutexes \ {m} : Backed(s, c, n) /\ Serves(s, c, n)
    PROVE  MutexLevel(s, c, m) \in OwedLevels(s)
<1> DEFINE L   == Range(s.list[Slaves(m)])
           old == c.mprio[m]
           new == Max({0} \cup {c.prio[t] : t \in L})
           M   == s.master[m]
           follow == /\ M # None
                     /\ \/ new > old /\ c.prio[M] < new
                        \/ new < old /\ c.prio[M] <= old /\ s.base[M] < old
           r   == MutexLevel(s, c, m)
<1>1. /\ c.prio \in [AllTasks -> Prios] /\ c.mprio \in [Mutexes -> Prios]
      /\ s.base \in [AllTasks -> Prios]
      /\ s.owned \in [AllTasks -> Seq(Mutexes)] /\ s.master \in [Mutexes -> OrNone(Tasks)]
  BY DEF Levels, KData, DataInv, OwnerType
<1>2. L \subseteq AllTasks
  <2>1. s.list[Slaves(m)] \in Seq(AllTasks) BY HeadsDiffer DEF KData, ListType, Separate
  <2>2. QED BY <2>1, RangeOfLine
<1>3. r \in Levels(s) BY MutexLevelType
<1>4. r = [c EXCEPT !.mprio[m] = new, !.next = IF follow THEN M ELSE None]
  BY DEF MutexLevel
<1>5. /\ r.prio = c.prio /\ r.mprio = [c.mprio EXCEPT ![m] = new]
      /\ r.next = IF follow THEN M ELSE None
  <2> HIDE DEF follow, new, M
  <2>1. QED BY <1>4 DEF Levels
<1>6. /\ new \in Prios
      /\ \A t \in L : new >= c.prio[t]
      /\ new = 0 \/ \E t \in L : new = c.prio[t]
  <2> HIDE DEF L
  <2>1. QED BY <1>1, <1>2, SlavesMax
<1> HIDE DEF r, new
<1>7. /\ \A p \in Prios : p \in Nat
      /\ \A n \in Mutexes : r.mprio[n] = IF n = m THEN new ELSE c.mprio[n]
  BY <1>1, <1>5, KernelParameters DEF Prios
<1>8. \A n \in Mutexes : Backed(s, r, n) /\ Serves(s, r, n)
  <2>1. ASSUME NEW n \in Mutexes \ {m} PROVE Backed(s, r, n) /\ Serves(s, r, n)
    BY <1>5, <1>7, <2>1 DEF Backed, Serves
  <2>2. Backed(s, r, m)
    <3>1. CASE new = 0 BY <3>1, <1>7 DEF Backed
    <3>2. CASE new # 0
      <4>1. PICK t \in L : new = c.prio[t] BY <3>2, <1>6
      <4>2. r.prio[t] >= r.mprio[m] BY <4>1, <1>5, <1>6, <1>7
      <4>3. QED BY <4>2 DEF Backed
    <3>3. QED BY <3>1, <3>2
  <2>3. Serves(s, r, m)
    <3>1. ASSUME NEW t \in L PROVE s.base[t] <= new
      <4>1. t \in AllTasks /\ s.base[t] \in Nat /\ c.prio[t] \in Nat /\ new \in Nat
        BY <1>1, <1>2, <1>6, <1>7
      <4>2. new >= c.prio[t] BY <1>6
      <4>3. CASE s.base[t] = 0 BY <4>1, <4>3
      <4>4. CASE s.base[t] # 0
        <5>1. t # None BY <4>1, KernelConstants
        <5>2. c.prio[t] >= s.base[t] BY <4>1, <4>4, <5>1 DEF TasksOwed, Owed
        <5>3. QED BY <4>1, <4>2, <5>2
      <4>5. QED BY <4>3, <4>4
    <3>2. QED BY <3>1, <1>7 DEF Serves
  <2>4. QED BY <2>1, <2>2, <2>3
<1>9. TasksOwed(s, r)
  <2> SUFFICES ASSUME NEW t \in AllTasks, s.base[t] # 0, t # r.next
               PROVE  Owed(r.prio[t], s.base[t], r.mprio, Range(s.owned[t]))
    BY DEF TasksOwed
  <2> DEFINE O == Range(s.owned[t])
  <2>1. t # None BY KernelConstants
  <2>2. Owed(c.prio[t], s.base[t], c.mprio, O) BY <2>1 DEF TasksOwed
  <2>3. O \subseteq Mutexes BY <1>1, RangeOfLine
  <2>4. m \in O <=> M = t BY DEF OwnedByMaster
  <2> HIDE DEF O
  <2>5. CASE m \notin O
    <3>1. \A n \in O : r.mprio[n] = c.mprio[n] BY <2>3, <2>5, <1>7
    <3>2. QED BY <3>1, <2>2, <1>5 DEF Owed, O
  <2>6. CASE m \in O
    <3>1. M = t /\ ~follow BY <2>1, <2>4, <2>6, <1>5
    <3>2. old \in Nat /\ new \in Nat /\ c.prio[t] \in Nat /\ s.base[t] \in Nat
      BY <1>1, <1>6, <1>7
    <3>3. c.prio[t] >= s.base[t] /\ c.prio[t] >= old BY <2>2, <2>6 DEF Owed
    <3>4. c.prio[t] >= new BY <2>1, <3>1, <3>2, <3>3
    <3>5. \A n \in O : c.prio[t] >= r.mprio[n] BY <2>2, <2>3, <3>4, <1>7 DEF Owed
    <3>6. c.prio[t] = s.base[t] \/ \E n \in O : c.prio[t] = r.mprio[n]
      <4>1. CASE c.prio[t] = s.base[t] BY <4>1
      <4>2. ASSUME NEW n \in O, c.prio[t] = c.mprio[n], c.prio[t] # s.base[t]
            PROVE  c.prio[t] = r.mprio[n]
        <5>1. CASE n # m BY <4>2, <5>1, <2>3, <1>7
        <5>2. CASE n = m
          <6>1. c.prio[t] = old BY <4>2, <5>2
          <6>2. new = old BY <2>1, <3>1, <3>2, <3>3, <4>2, <6>1
          <6>3. QED BY <5>2, <6>1, <6>2, <1>7
        <5>3. QED BY <5>1, <5>2
      <4>3. QED BY <4>1, <4>2, <2>2 DEF Owed
    <3>7. QED BY <3>3, <3>5, <3>6, <1>5 DEF Owed, O
  <2>7. QED BY <2>5, <2>6
<1>10. QED BY <1>3, <1>8, <1>9 DEF OwedLevels, r

\* What a task is owed by its own priority and its locks (mutex.c:105-109).
Due(s, t, mp) == MaxWith(s.base[t], mp, Range(s.owned[t]))

DueSet(s, c) == [c EXCEPT !.prio[c.next] = Due(s, c.next, c.mprio), !.next = None]

\* The first lines of task_recalculate_prio: the task has what it is owed, the
\* lock that blocks it may have lost who gave it its priority.
LEMMA SetLevelOwes ==
    ASSUME NEW s, KData(s), SlavesBlocked(s), NEW c \in OwedLevels(s), c.next # None
    PROVE  /\ c.next \in AllTasks /\ Due(s, c.next, c.mprio) \in Prios
           /\ DueSet(s, c) \in Levels(s) /\ DueSet(s, c).next = None
           /\ DueSet(s, c).mprio = c.mprio
           /\ DueSet(s, c).prio = [c.prio EXCEPT ![c.next] = Due(s, c.next, c.mprio)]
           /\ TasksOwed(s, DueSet(s, c))
           /\ \A n \in Mutexes :
                /\ Serves(s, DueSet(s, c), n)
                /\ \/ n # s.lock[c.next] \/ Due(s, c.next, c.mprio) >= c.prio[c.next]
                   \/ c.mprio[n] > c.prio[c.next]
                   => Backed(s, DueSet(s, c), n)
<1> DEFINE t   == c.next
           new == Due(s, t, c.mprio)
           c1  == DueSet(s, c)
<1>1. /\ c \in Levels(s) /\ TasksOwed(s, c)
      /\ \A m \in Mutexes : Backed(s, c, m) /\ Serves(s, c, m)
  BY DEF OwedLevels
<1>2. /\ t \in AllTasks
      /\ c.prio \in [AllTasks -> Prios] /\ c.mprio \in [Mutexes -> Prios]
      /\ s.base \in [AllTasks -> Prios] /\ s.owned \in [AllTasks -> Seq(Mutexes)]
  BY <1>1 DEF Levels, OrNone, KData, DataInv, OwnerType
<1>3. Range(s.owned[t]) \subseteq Mutexes BY <1>2, RangeOfLine
<1>4. new \in Prios /\ Owed(new, s.base[t], c.mprio, Range(s.owned[t]))
  <2> HIDE DEF t
  <2>1. s.base[t] \in Prios BY <1>2
  <2>2. QED BY <2>1, <1>2, <1>3, OwedIsMax DEF Due
<1> HIDE DEF new
<1>5. /\ c1 \in Levels(s) /\ c1.next = None /\ c1.mprio = c.mprio
      /\ c1.prio = [c.prio EXCEPT ![t] = new]
  BY <1>1, <1>2, <1>4 DEF Levels, OrNone, DueSet, new
<1> HIDE DEF c1
<1>6. TasksOwed(s, c1)
  <2> SUFFICES ASSUME NEW u \in AllTasks, s.base[u] # 0
               PROVE  Owed(c1.prio[u], s.base[u], c1.mprio, Range(s.owned[u]))
    BY DEF TasksOwed
  <2>1. CASE u = t BY <2>1, <1>2, <1>4, <1>5
  <2>2. CASE u # t BY <2>2, <1>1, <1>2, <1>5 DEF TasksOwed
  <2>3. QED BY <2>1, <2>2
<1>7. \A n \in Mutexes : Serves(s, c1, n) BY <1>1, <1>5 DEF Serves
<1>8. ASSUME NEW n \in Mutexes,
             n # s.lock[t] \/ new >= c.prio[t] \/ c.mprio[n] > c.prio[t]
      PROVE  Backed(s, c1, n)
  <2>1. CASE c.mprio[n] = 0 BY <2>1, <1>5 DEF Backed
  <2>2. CASE c.mprio[n] # 0
    <3>1. PICK u \in Range(s.list[Slaves(n)]) : c.prio[u] >= c.mprio[n]
      BY <2>2, <1>1 DEF Backed
    <3>2. u \in AllTasks
      <4>1. s.list[Slaves(n)] \in Seq(AllTasks) BY HeadsDiffer DEF KData, ListType, Separate
      <4>2. QED BY <4>1, RangeOfLine
    <3>3. \A p \in Prios : p \in Nat BY KernelParameters DEF Prios
    <3>4. c.prio[u] \in Nat /\ c.mprio[n] \in Nat /\ new \in Nat /\ c.prio[t] \in Nat
      BY <3>2, <3>3, <1>2, <1>4
    <3>5. CASE u # t BY <3>1, <3>2, <3>5, <1>2, <1>5 DEF Backed
    <3>6. CASE u = t
      <4>1. s.lock[t] = n BY <3>1, <3>2, <3>6 DEF SlavesBlocked
      <4>2. ~(c.mprio[n] > c.prio[t]) BY <3>1, <3>4, <3>6
      <4>3. new >= c.mprio[n] BY <3>1, <3>4, <3>6, <4>1, <4>2, <1>8
      <4>4. QED BY <3>1, <3>6, <4>3, <1>2, <1>5 DEF Backed
    <3>7. QED BY <3>5, <3>6
  <2>3. QED BY <2>1, <2>2
<1>9. QED BY <1>2, <1>4, <1>5, <1>6, <1>7, <1>8 DEF c1, new

\* One call of task_recalculate_prio (mutex.c:100-140).
LEMMA TaskLevelOwes ==
    ASSUME NEW s, KData(s), OwnedByMaster(s), SlavesBlocked(s),
           NEW c \in OwedLevels(s), c.next # None
    PROVE  TaskLevel(s, c) \in OwedLevels(s)
<1> DEFINE t   == c.next
           m   == s.lock[t]
           old == c.prio[t]
           new == Due(s, t, c.mprio)
           c1  == DueSet(s, c)
           up  == new > old
           resched == IF up THEN c1.prio[s.current] < new /\ s.wait[t] = None
                            ELSE t = s.current
           c2  == [c1 EXCEPT !.need = @ \/ resched]
           r   == TaskLevel(s, c)
<1>1. /\ t \in AllTasks /\ new \in Prios
      /\ c1 \in Levels(s) /\ c1.next = None /\ c1.mprio = c.mprio
      /\ TasksOwed(s, c1)
      /\ \A n \in Mutexes :
           /\ Serves(s, c1, n)
           /\ n # m \/ new >= old \/ c.mprio[n] > old => Backed(s, c1, n)
  BY SetLevelOwes
<1>2. /\ m \in OrNone(Mutexes) /\ old \in Nat /\ new \in Nat
      /\ \A n \in Mutexes : c.mprio[n] \in Nat
  BY <1>1, KernelParameters DEF KData, ListType, OwedLevels, Levels, Prios
<1>3. \/ r = c1 /\ new = old
      \/ r = c2 /\ m = None
      \/ r = c1 /\ m # None /\ up
      \/ r = c1 /\ m # None /\ ~up /\ ~(c1.mprio[m] <= old)
      \/ r = MutexLevel(s, c1, m) /\ m # None
  <2>1. new = Max({s.base[t]} \cup {c.mprio[n] : n \in Range(s.owned[t])})
    BY DEF Due, MaxWith
  <2>2. c1 = [c EXCEPT !.prio[t] = new, !.next = None]
    BY DEF DueSet
  <2>3. r = CASE new = old                   -> c1
              [] new # old /\ m = None       -> c2
              [] new # old /\ m # None /\ up  -> IF c.mprio[m] < new THEN MutexLevel(s, c1, m)
                                                ELSE c1
              [] new # old /\ m # None /\ ~up -> IF c.mprio[m] <= old THEN MutexLevel(s, c1, m)
                                                ELSE c1
    BY <2>1, <2>2 DEF TaskLevel
  <2>4. c1.mprio = c.mprio BY <1>1
  <2> HIDE DEF r, c1, c2, new, m, old, up
  <2>5. QED BY <2>3, <2>4
<1> HIDE DEF r, c1, new, m, old, resched
<1>4. c2.prio = c1.prio /\ c2.mprio = c1.mprio /\ c2.next = c1.next /\ c2 \in Levels(s)
  BY <1>1 DEF Levels, resched
<1> HIDE DEF c2
<1>5. CASE \A n \in Mutexes : Backed(s, c1, n)
  <2>1. c1 \in OwedLevels(s) BY <1>1, <1>5 DEF OwedLevels
  <2>2. c2 \in OwedLevels(s)
    BY <2>1, <1>4 DEF OwedLevels, TasksOwed, Backed, Serves
  <2>3. m \in Mutexes => MutexLevel(s, c1, m) \in OwedLevels(s)
    BY <1>1, <1>5, MutexLevelOwes
  <2>4. QED BY <2>1, <2>2, <2>3, <1>2, <1>3 DEF OrNone, r
<1>6. CASE ~\A n \in Mutexes : Backed(s, c1, n)
  <2>1. m \in Mutexes /\ new < old /\ ~(c.mprio[m] > old) BY <1>1, <1>2, <1>6
  <2>2. m # None BY <2>1, KernelConstants
  <2>3. r = MutexLevel(s, c1, m)
    BY <2>1, <2>2, <1>1, <1>2, <1>3
  <2>4. r \in OwedLevels(s) BY <2>1, <2>3, <1>1, MutexLevelOwes
  <2>5. QED BY <2>4 DEF r
<1>7. QED BY <1>5, <1>6

-----------------------------------------------------------------------------
(***************************************************************************)
(* The chain ends.  Tasks that have locked each other out are in a cycle,  *)
(* and the chain may come round to a task again; but first it only lowers  *)
(* priorities, and from the first task that it raises it only raises them. *)
(***************************************************************************)
Rises(s, v) == v.next # None /\ Due(s, v.next, v.mprio) > v.prio[v.next]

\* The changes that are left after the level v.
Raises(p) == {x \in Changing : x[1] = "up" /\ x[3] > p[x[2]]}
Lowers(p) == {x \in Changing : x[1] = "down" => x[3] < p[x[2]]}

Rank(s, v) == IF Rises(s, v) THEN Raises(v.prio) ELSE Lowers(v.prio)

\* Whoever goes on from a task that was raised raises the next one.
LEMMA RiseGoesOn ==
    ASSUME NEW s, KData(s), OwnedByMaster(s), SlavesBlocked(s),
           NEW c \in OwedLevels(s), c.next # None, TaskLevel(s, c).next # None
    PROVE  /\ TaskLevel(s, c).prio = [c.prio EXCEPT ![c.next] = Due(s, c.next, c.mprio)]
           /\ Due(s, c.next, c.mprio) # c.prio[c.next]
           /\ Rises(s, c) => Rises(s, TaskLevel(s, c))
<1> DEFINE t   == c.next
           m   == s.lock[t]
           old == c.prio[t]
           new == Due(s, t, c.mprio)
           c1  == DueSet(s, c)
           up  == new > old
           resched == IF up THEN c1.prio[s.current] < new /\ s.wait[t] = None
                            ELSE t = s.current
           c2  == [c1 EXCEPT !.need = @ \/ resched]
           w   == TaskLevel(s, c)
           M    == s.master[m]
           mold == c1.mprio[m]
           mnew == Max({0} \cup {c1.prio[u] : u \in Range(s.list[Slaves(m)])})
           follow == /\ M # None
                     /\ \/ mnew > mold /\ c1.prio[M] < mnew
                        \/ mnew < mold /\ c1.prio[M] <= mold /\ s.base[M] < mold
<1>1. /\ t \in AllTasks /\ new \in Prios
      /\ c1 \in Levels(s) /\ c1.next = None /\ c1.mprio = c.mprio
      /\ c1.prio = [c.prio EXCEPT ![t] = new]
      /\ \A n \in Mutexes : n # m \/ new >= old \/ c.mprio[n] > old => Backed(s, c1, n)
  BY SetLevelOwes
<1>2. \/ w = c1
      \/ w = c2
      \/ w = MutexLevel(s, c1, m) /\ m # None /\ new # old
  BY DEF TaskLevel, Due, MaxWith, DueSet
<1>3. m \in OrNone(Mutexes) BY <1>1 DEF KData, ListType
<1>4. MutexLevel(s, c1, m) = [c1 EXCEPT !.mprio[m] = mnew, !.next = IF follow THEN M ELSE None]
  BY DEF MutexLevel
<1>5. w.next # None OBVIOUS
<1> HIDE DEF w, c1, new, m
<1>6. c2.next = c1.next BY <1>1 DEF Levels
<1>7. w = MutexLevel(s, c1, m) /\ m # None /\ new # old BY <1>1, <1>2, <1>5, <1>6
<1> HIDE DEF follow, M, mnew
<1>8. /\ w.prio = c1.prio /\ w.mprio = [c1.mprio EXCEPT ![m] = mnew]
      /\ w.next = IF follow THEN M ELSE None
  BY <1>1, <1>4, <1>7 DEF Levels
<1>9. follow /\ w.next = M /\ M # None BY <1>5, <1>8 DEF follow
<1>10. ASSUME up PROVE Rises(s, w)
  <2>1. m \in Mutexes BY <1>3, <1>7 DEF OrNone
  <2>2. /\ c1.prio \in [AllTasks -> Prios] /\ c1.mprio \in [Mutexes -> Prios]
        /\ \A p \in Prios : p \in Nat
    <3>1. c1.prio \in [AllTasks -> Prios] /\ c1.mprio \in [Mutexes -> Prios]
      BY <1>1 DEF Levels
    <3>2. \A p \in Prios : p \in Nat BY KernelParameters DEF Prios
    <3>3. QED BY <3>1, <3>2
  <2>3. Range(s.list[Slaves(m)]) \subseteq AllTasks
    <3>1. s.list[Slaves(m)] \in Seq(AllTasks)
      BY <2>1, HeadsDiffer DEF KData, ListType, Separate
    <3>2. QED BY <3>1, RangeOfLine
  <2>4. /\ mnew \in Prios
        /\ \A u \in Range(s.list[Slaves(m)]) : mnew >= c1.prio[u]
    <3> DEFINE L == Range(s.list[Slaves(m)])
    <3> HIDE DEF L
    <3>1. L \subseteq AllTasks BY <2>3 DEF L
    <3>2. mnew = Max({0} \cup {c1.prio[u] : u \in L}) BY DEF mnew, L
    <3>3. mnew \in Prios /\ \A u \in L : mnew >= c1.prio[u] BY <2>2, <3>1, <3>2, SlavesMax
    <3>4. QED BY <3>3 DEF L
  <2>5. Backed(s, c1, m)
    <3>1. old \in Nat /\ new \in Nat
      BY <1>1, <2>2 DEF OwedLevels, Levels
    <3>2. QED BY <1>1, <1>10, <2>1, <3>1
  <2>6. mnew >= mold
    <3>1. mold \in Nat /\ mnew \in Nat BY <2>1, <2>2, <2>4
    <3>2. CASE mold = 0 BY <3>1, <3>2
    <3>3. ASSUME NEW u \in Range(s.list[Slaves(m)]), c1.prio[u] >= mold PROVE mnew >= mold
      <4>1. c1.prio[u] \in Nat /\ mnew >= c1.prio[u] BY <2>2, <2>3, <2>4
      <4>2. QED BY <3>1, <3>3, <4>1
    <3>4. QED BY <2>5, <3>2, <3>3 DEF Backed
  <2>7. c1.prio[M] < mnew
    <3>1. mold \in Nat /\ mnew \in Nat BY <2>1, <2>2, <2>4
    <3>2. QED BY <1>9, <2>6, <3>1 DEF follow
  <2>8. M \in AllTasks /\ m \in Range(s.owned[M])
    <3>1. M \in Tasks BY <1>9, <2>1 DEF KData, OwnerType, OrNone, M
    <3>2. QED BY <2>1, <3>1 DEF OwnedByMaster, AllTasks, M
  <2>9. Due(s, M, w.mprio) \in Prios /\ Due(s, M, w.mprio) >= w.mprio[m]
    <3> DEFINE O == Range(s.owned[M])
    <3>1. s.base[M] \in Prios BY <2>8 DEF KData, DataInv
    <3>2. O \subseteq Mutexes
      <4>1. s.owned[M] \in Seq(Mutexes) BY <2>8 DEF KData, OwnerType
      <4>2. QED BY <4>1, RangeOfLine
    <3>3. w.mprio \in [Mutexes -> Prios] BY <1>8, <2>1, <2>2, <2>4
    <3>4. m \in O BY <2>8
    <3>5. Due(s, M, w.mprio) = MaxWith(s.base[M], w.mprio, O) BY DEF Due
    <3> HIDE DEF O
    <3>6. Owed(Due(s, M, w.mprio), s.base[M], w.mprio, O) /\ Due(s, M, w.mprio) \in Prios
      BY <3>1, <3>2, <3>3, <3>5, OwedIsMax
    <3>7. QED BY <3>4, <3>6 DEF Owed
  <2>10. w.mprio[m] = mnew BY <1>8, <2>1, <2>2
  <2>11. c1.prio[M] \in Nat /\ mnew \in Nat /\ Due(s, M, w.mprio) \in Nat
    BY <2>2, <2>4, <2>8, <2>9
  <2>12. QED BY <1>8, <1>9, <2>7, <2>9, <2>10, <2>11 DEF Rises
<1>11. QED BY <1>1, <1>7, <1>8, <1>10 DEF Rises, w, new

\* Every level that does not end the chain uses a change up.
LEMMA LevelsLessen ==
    ASSUME NEW s, KData(s), OwnedByMaster(s), SlavesBlocked(s)
    PROVE  Lessens(s, OwedLevels(s), [v \in OwedLevels(s) |-> Rank(s, v)])
<1> SUFFICES ASSUME NEW v \in OwedLevels(s), v.next # None,
                    NEW w, w = TaskLevel(s, v), w.next # None
             PROVE  Rank(s, w) \subseteq Rank(s, v) /\ Rank(s, w) # Rank(s, v)
  BY TaskLevelOwes DEF Lessens
<1> DEFINE t   == v.next
           old == v.prio[t]
           new == Due(s, t, v.mprio)
<1>1. t \in AllTasks /\ new \in Prios BY SetLevelOwes
<1>2. w.prio = [v.prio EXCEPT ![t] = new] /\ new # old /\ (Rises(s, v) => Rises(s, w))
  BY RiseGoesOn
<1>3. v.prio \in [AllTasks -> Prios] BY DEF OwedLevels, Levels
<1>4. Rises(s, v) <=> new > old BY DEF Rises
<1> HIDE DEF new
<1>5. /\ \A u \in AllTasks : w.prio[u] = IF u = t THEN new ELSE v.prio[u]
      /\ \A p \in Prios : p \in Nat
      /\ \A u \in AllTasks : v.prio[u] \in Nat /\ w.prio[u] \in Nat
  BY <1>1, <1>2, <1>3, KernelParameters DEF Prios
<1>6. old \in Nat /\ new \in Nat /\ 0 \in Prios BY <1>1, <1>5, KernelParameters DEF Prios
<1>7. \A x \in Changing : x[1] \in {"down", "up"} /\ x[2] \in AllTasks /\ x[3] \in Nat
  BY KernelParameters DEF Changing
<1>8. \A b \in {"down", "up"}, p \in Prios : <<b, t, p>> \in Changing
  BY <1>1 DEF Changing, Prios
<1>9. CASE new > old
  <2>1. Rank(s, v) = Raises(v.prio) /\ Rank(s, w) = Raises(w.prio)
    BY <1>2, <1>4, <1>9 DEF Rank
  <2>2. \A u \in AllTasks : w.prio[u] >= v.prio[u] BY <1>5, <1>6, <1>9
  <2>3. ASSUME NEW x \in Changing, x[3] > w.prio[x[2]] PROVE x[3] > v.prio[x[2]]
    BY <2>2, <2>3, <1>5, <1>7
  <2>4. Raises(w.prio) \subseteq Raises(v.prio) BY <2>3 DEF Raises
  <2>5. <<"up", t, new>> \in Raises(v.prio) BY <1>1, <1>8, <1>9 DEF Raises
  <2>6. <<"up", t, new>> \notin Raises(w.prio) BY <1>1, <1>5, <1>6 DEF Raises
  <2>7. QED BY <2>1, <2>4, <2>5, <2>6
<1>10. CASE ~(new > old)
  <2>1. new < old BY <1>2, <1>6, <1>10
  <2>2. Rank(s, v) = Lowers(v.prio) BY <1>4, <1>10 DEF Rank
  <2>3. \A u \in AllTasks : w.prio[u] <= v.prio[u] BY <1>5, <1>6, <2>1
  <2>4. CASE Rises(s, w)
    <3>1. Rank(s, w) = Raises(w.prio) BY <2>4 DEF Rank
    <3>2. Raises(w.prio) \subseteq Lowers(v.prio) BY DEF Raises, Lowers
    <3>3. <<"up", t, 0>> \in Lowers(v.prio) BY <1>6, <1>8 DEF Lowers
    <3>4. <<"up", t, 0>> \notin Raises(w.prio) BY <1>1, <1>5, <1>6 DEF Raises
    <3>5. QED BY <2>2, <3>1, <3>2, <3>3, <3>4
  <2>5. CASE ~Rises(s, w)
    <3>1. Rank(s, w) = Lowers(w.prio) BY <2>5 DEF Rank
    <3>2. ASSUME NEW x \in Changing, x[3] < w.prio[x[2]] PROVE x[3] < v.prio[x[2]]
      BY <3>2, <1>5, <1>7, <2>3
    <3>3. Lowers(w.prio) \subseteq Lowers(v.prio) BY <3>2 DEF Lowers
    <3>4. <<"down", t, new>> \in Lowers(v.prio) BY <2>1, <1>1, <1>8 DEF Lowers
    <3>5. <<"down", t, new>> \notin Lowers(w.prio) BY <1>1, <1>5, <1>6 DEF Lowers
    <3>6. QED BY <2>2, <3>1, <3>3, <3>4, <3>5
  <2>6. QED BY <2>4, <2>5
<1>11. QED BY <1>9, <1>10

\* The whole chain: from a level where all but one have what they are owed to
\* one where all have.
LEMMA ChainOwes ==
    ASSUME NEW s, KData(s), OwnedByMaster(s), SlavesBlocked(s), NEW c \in OwedLevels(s)
    PROVE  \E end \in OwedLevels(s) : end.next = None /\ RecalculateFrom(s, c) = Ended(s, end)
<1> DEFINE V == OwedLevels(s)
           W == [v \in V |-> Rank(s, v)]
<1>1. \A v \in V : v.next # None => TaskLevel(s, v) \in V BY TaskLevelOwes
<1>2. W \in [V -> SUBSET Changing] BY DEF Rank, Raises, Lowers
<1>3. Lessens(s, V, W) BY LevelsLessen
<1>4. c \in V OBVIOUS
<1> HIDE DEF V, W
<1>5. \E end \in V : end.next = None /\ RecalculateFrom(s, c) = Ended(s, end)
  BY <1>1, <1>2, <1>3, <1>4, ChainEnds
<1>6. QED BY <1>5 DEF V

-----------------------------------------------------------------------------
(***************************************************************************)
(* What each function of the kernel does to the inheritance.               *)
(***************************************************************************)
\* What inheritance is about.
Inheritance == {"base", "prio", "mprio", "lock", "owned"}

\* Nothing of it is changed.
LEMMA InheritChange ==
    ASSUME NEW s, NEW r, NEW F, InheritInv(s), Changes(s, r, F), F \cap Inheritance = {}
    PROVE  InheritInv(r)
<1>1. r.base = s.base /\ r.prio = s.prio /\ r.mprio = s.mprio /\ r.lock = s.lock
      /\ r.owned = s.owned
  BY DEF Changes, Fields, Inheritance
<1>2. QED BY <1>1 DEF InheritInv, OwedBut, LocksBacked, OwnPriosServed

\* The lists and t->lock agree.
LEMMA SlavesOfLock ==
    ASSUME NEW s, ListInv(s)
    PROVE  /\ SlavesBlocked(s)
           /\ \A m \in Mutexes : /\ Range(s.list[Slaves(m)]) \subseteq AllTasks
                                 /\ \A t \in AllTasks :
                                      s.lock[t] = m <=> t \in Range(s.list[Slaves(m)])
<1>1. ASSUME NEW m \in Mutexes PROVE Range(s.list[Slaves(m)]) \subseteq AllTasks
  <2>1. s.list[Slaves(m)] \in Seq(AllTasks) BY HeadsDiffer DEF ListInv, Separate
  <2>2. QED BY <2>1, RangeOfLine
<1>2. QED BY <1>1 DEF SlavesBlocked, ListInv, LinkedWhereBlocked

\* A level, from a state where all tasks but that of the level have their due.
LEMMA OwedLevel ==
    ASSUME NEW s, DataInv(s), ListInv(s), NEW x \in OrNone(AllTasks),
           OwedBut(s, {x}), LocksBacked(s), OwnPriosServed(s)
    PROVE  Level(s, x) \in OwedLevels(s)
<1> DEFINE c == Level(s, x)
<1>1. c \in Levels(s) BY DEF DataInv, Level, Levels
<1>2. c.prio = s.prio /\ c.mprio = s.mprio /\ c.next = x BY DEF Level
<1> HIDE DEF c
<1>3. TasksOwed(s, c) BY <1>2 DEF OwedBut, TasksOwed
<1>4. ASSUME NEW m \in Mutexes PROVE Backed(s, c, m) /\ Serves(s, c, m)
  <2>1. /\ Range(s.list[Slaves(m)]) \subseteq AllTasks
        /\ \A t \in AllTasks : s.lock[t] = m <=> t \in Range(s.list[Slaves(m)])
    BY SlavesOfLock
  <2>2. Backed(s, c, m) BY <2>1, <1>2 DEF LocksBacked, Backed
  <2>3. Serves(s, c, m) BY <2>1, <1>2 DEF OwnPriosServed, Serves
  <2>4. QED BY <2>2, <2>3
<1>5. QED BY <1>1, <1>3, <1>4 DEF OwedLevels, c

\* Where a chain has ended, and what blocks the tasks is what the lists say.
LEMMA EndInherits ==
    ASSUME NEW s, s.list \in [Heads -> Seq(AllTasks)],
           NEW end \in OwedLevels(s), end.next = None,
           NEW r, r.prio = end.prio, r.mprio = end.mprio, r.base = s.base, r.owned = s.owned,
           \A m \in Mutexes, t \in AllTasks :
              r.lock[t] = m <=> t \in Range(s.list[Slaves(m)])
    PROVE  InheritInv(r)
<1>1. \A t \in AllTasks : t # None BY KernelConstants
<1>2. OwedBut(r, {}) BY <1>1 DEF OwedBut, OwedLevels, TasksOwed
<1>3. ASSUME NEW m \in Mutexes
      PROVE  /\ \/ r.mprio[m] = 0
                \/ \E t \in AllTasks : r.lock[t] = m /\ r.prio[t] >= r.mprio[m]
             /\ SetPrios = {} => \A t \in AllTasks : r.lock[t] = m => r.base[t] <= r.mprio[m]
  <2>1. Range(s.list[Slaves(m)]) \subseteq AllTasks
    <3>1. s.list[Slaves(m)] \in Seq(AllTasks) BY HeadsDiffer
    <3>2. QED BY <3>1, RangeOfLine
  <2>2. Backed(s, end, m) /\ Serves(s, end, m) BY DEF OwedLevels
  <2>3. \/ r.mprio[m] = 0
        \/ \E t \in AllTasks : r.lock[t] = m /\ r.prio[t] >= r.mprio[m]
    BY <2>1, <2>2 DEF Backed
  <2>4. SetPrios = {} => \A t \in AllTasks : r.lock[t] = m => r.base[t] <= r.mprio[m]
    BY <2>1, <2>2 DEF Serves
  <2>5. QED BY <2>3, <2>4
<1>4. LocksBacked(r) /\ OwnPriosServed(r) BY <1>3 DEF LocksBacked, OwnPriosServed
<1>5. QED BY <1>2, <1>4 DEF InheritInv

\* The chain changes priorities alone.
LEMMA EndedInherits ==
    ASSUME NEW s, Shaped(s), ListInv(s), NEW end \in OwedLevels(s), end.next = None
    PROVE  InheritInv(Ended(s, end))
<1> DEFINE r == Ended(s, end)
<1>1. r.prio = end.prio /\ r.mprio = end.mprio /\ r.base = s.base /\ r.owned = s.owned
      /\ r.lock = s.lock
  BY DEF Ended, Shaped, Fields
<1>2. s.list \in [Heads -> Seq(AllTasks)] BY DEF ListInv, Separate
<1>3. \A m \in Mutexes, t \in AllTasks : r.lock[t] = m <=> t \in Range(s.list[Slaves(m)])
  BY <1>1, SlavesOfLock
<1> HIDE DEF r
<1>4. InheritInv(r) BY <1>1, <1>2, <1>3, EndInherits
<1>5. QED BY <1>4 DEF r

\* task_recalculate_prio gives the tasks and the locks what they are owed.
LEMMA TaskRecalculateInherits ==
    ASSUME NEW s, KInv(s), NEW d \in AllTasks,
           OwedBut(s, {d}), LocksBacked(s), OwnPriosServed(s)
    PROVE  InheritInv(TaskRecalculatePrio(s, d))
<1> DEFINE r == TaskRecalculatePrio(s, d)
           c == Level(s, d)
<1>1. /\ KData(s) /\ OwnedByMaster(s) /\ SlavesBlocked(s) /\ ListInv(s) /\ Shaped(s)
      /\ DataInv(s)
  BY SlavesOfLock DEF KInv, KData, OwnerInv, ListInv, ListType
<1>2. c \in OwedLevels(s) BY <1>1, OwedLevel DEF OrNone
<1>3. r = RecalculateFrom(s, c) BY DEF TaskRecalculatePrio
<1> HIDE DEF c, r
<1>4. PICK end \in OwedLevels(s) : end.next = None /\ r = Ended(s, end)
  BY <1>1, <1>2, <1>3, ChainOwes
<1>5. InheritInv(r) BY <1>1, <1>4, EndedInherits
<1>6. QED BY <1>5 DEF r

\* So it does for a task that is not blocked, whoever the lists of locks say
\* are the masters: the chain ends there.
LEMMA FreeRecalculateInherits ==
    ASSUME NEW s, KData(s), ListInv(s), NEW d \in AllTasks, s.lock[d] = None,
           OwedBut(s, {d}), LocksBacked(s), OwnPriosServed(s)
    PROVE  InheritInv(TaskRecalculatePrio(s, d))
<1> DEFINE r == TaskRecalculatePrio(s, d)
           c == Level(s, d)
           new == Due(s, c.next, c.mprio)
           old == c.prio[c.next]
           c1  == DueSet(s, c)
           resched == IF new > old THEN c1.prio[s.current] < new /\ s.wait[c.next] = None
                                   ELSE c.next = s.current
           c2  == [c1 EXCEPT !.need = @ \/ resched]
           w   == TaskLevel(s, c)
<1>1. Shaped(s) /\ DataInv(s) /\ SlavesBlocked(s) BY SlavesOfLock DEF KData
<1>2. c \in OwedLevels(s) BY <1>1, OwedLevel DEF OrNone
<1>3. r = RecalculateFrom(s, c) BY DEF TaskRecalculatePrio
<1>4. c.next = d /\ d # None /\ s.lock[c.next] = None BY KernelConstants DEF Level
<1> HIDE DEF r, c
<1>5. /\ c1 \in Levels(s) /\ c1.next = None /\ TasksOwed(s, c1)
      /\ \A n \in Mutexes : Serves(s, c1, n) /\ Backed(s, c1, n)
  <2>1. \A n \in Mutexes : n # s.lock[c.next] BY <1>4, KernelConstants
  <2>2. QED BY <2>1, <1>1, <1>2, <1>4, SetLevelOwes
<1>6. c1 \in OwedLevels(s) BY <1>5 DEF OwedLevels
<1>7. w = c1 \/ w = c2 BY <1>4 DEF TaskLevel, Due, MaxWith, DueSet
<1> HIDE DEF w, c1, resched
<1>8. c2.prio = c1.prio /\ c2.mprio = c1.mprio /\ c2.next = c1.next /\ c2 \in Levels(s)
  <2>1. resched \in BOOLEAN BY DEF resched
  <2>2. QED BY <2>1, <1>5 DEF Levels
<1> HIDE DEF c2
<1>9. w \in OwedLevels(s) /\ w.next = None
  <2>1. c2 \in OwedLevels(s) BY <1>5, <1>6, <1>8 DEF OwedLevels, TasksOwed, Backed, Serves
  <2>2. QED BY <2>1, <1>5, <1>6, <1>7, <1>8
<1> DEFINE V == {c, w}
           W == [v \in V |-> {}]
<1>10. c \in V /\ \A v \in V : v.next # None => TaskLevel(s, v) \in V BY <1>9 DEF w
<1>11. W \in [V -> SUBSET Changing] OBVIOUS
<1>12. Lessens(s, V, W) BY <1>9 DEF Lessens, w
<1> HIDE DEF W
<1>13. PICK end \in V : end.next = None /\ RecalculateFrom(s, c) = Ended(s, end)
  <2> HIDE DEF V
  <2>1. QED BY <1>10, <1>11, <1>12, ChainEnds
<1>14. end \in OwedLevels(s) BY <1>2, <1>9, <1>13
<1>15. InheritInv(r) BY <1>1, <1>3, <1>13, <1>14, EndedInherits
<1>16. QED BY <1>15 DEF r

\* A lock that is free blocks nobody, and has no priority to give.
LEMMA FreeHasNoPrio ==
    ASSUME NEW s, FreeInv(s), LocksBacked(s), NEW m \in Mutexes, s.master[m] = None
    PROVE  s.mprio[m] = 0
BY DEF FreeInv, LocksBacked

\* Who takes a free lock (mutex.c:86-92) has what it is owed by it.
LEMMA AcquireInherits ==
    ASSUME NEW s, KInv(s), FreeInv(s), InheritInv(s), NEW m \in Mutexes, s.master[m] = None
    PROVE  InheritInv(AcquireMutex(s, m))
<1> DEFINE t == s.current
           r == AcquireMutex(s, m)
<1>1. /\ Shaped(s) /\ t \in AllTasks /\ s.prio \in [AllTasks -> Prios]
      /\ s.mprio \in [Mutexes -> Prios] /\ s.base \in [AllTasks -> Prios]
      /\ s.owned \in [AllTasks -> Seq(Mutexes)]
  BY DEF KInv, DataInv, OwnerInv, OwnerType
<1>2. s.mprio[m] = 0 BY FreeHasNoPrio DEF InheritInv
<1>3. /\ r.prio = [s.prio EXCEPT ![t] = IF @ < s.mprio[m] THEN s.mprio[m] ELSE @]
      /\ r.owned = [s.owned EXCEPT ![t] = Append(@, m)]
      /\ r.base = s.base /\ r.mprio = s.mprio /\ r.lock = s.lock
  BY <1>1 DEF AcquireMutex, Shaped, Fields
<1> HIDE DEF r
<1>4. \A u \in AllTasks : s.prio[u] \in Nat BY <1>1, KernelParameters DEF Prios
<1>5. r.prio = s.prio
  <2>1. ~(s.prio[t] < s.mprio[m]) BY <1>1, <1>2, <1>4
  <2>2. QED BY <2>1, <1>1, <1>3
<1>6. ASSUME NEW u \in AllTasks, s.base[u] # 0
      PROVE  Owed(r.prio[u], r.base[u], r.mprio, Range(r.owned[u]))
  <2>1. Owed(s.prio[u], s.base[u], s.mprio, Range(s.owned[u]))
    BY <1>6 DEF InheritInv, OwedBut
  <2>2. CASE u # t BY <2>1, <2>2, <1>1, <1>3, <1>5
  <2>3. CASE u = t
    <3>1. Range(r.owned[u]) = Range(s.owned[u]) \cup {m}
      <4>1. r.owned[u] = Appended(s.owned[u], m) BY <2>3, <1>1, <1>3 DEF Appended
      <4>2. Line(s.owned[u], Mutexes) /\ m \notin Range(s.owned[u])
        BY <1>1, KernelConstants DEF KInv, OwnerInv, OwnedByMaster, Line
      <4>3. QED BY <4>1, <4>2, AppendLine
    <3>2. s.prio[u] >= s.mprio[m] BY <1>2, <1>4
    <3>3. QED BY <2>1, <3>1, <3>2, <1>3, <1>5 DEF Owed
  <2>4. QED BY <2>2, <2>3
<1>7. OwedBut(r, {}) BY <1>3, <1>6 DEF OwedBut
<1>8. LocksBacked(r) /\ OwnPriosServed(r)
  BY <1>3, <1>5 DEF InheritInv, LocksBacked, OwnPriosServed
<1>9. QED BY <1>7, <1>8 DEF InheritInv, r

\* The lock is taken once more, or n deep.
LEMMA LockInherits ==
    ASSUME NEW s, KInv(s), FreeInv(s), InheritInv(s), NEW m \in Mutexes
    PROVE  /\ InheritInv(LockMutex(s, m)) /\ Shaped(LockMutex(s, m))
           /\ s.master[m] = None => \A n : InheritInv([AcquireMutex(s, m) EXCEPT !.deep[m] = n])
<1>1. Shaped(s) BY DEF KInv
<1>2. ASSUME NEW q, Shaped(q), InheritInv(q), NEW n
      PROVE  InheritInv([q EXCEPT !.deep[m] = n]) /\ Shaped([q EXCEPT !.deep[m] = n])
  <2> DEFINE r == [q EXCEPT !.deep[m] = n]
  <2>1. Changes(q, r, {"deep"}) BY <1>2 DEF Shaped, Fields, Changes
  <2> HIDE DEF r
  <2>2. {"deep"} \cap Inheritance = {} BY DEF Inheritance
  <2>3. InheritInv(r) /\ Shaped(r) BY <1>2, <2>1, <2>2, InheritChange DEF Changes
  <2>4. QED BY <2>3 DEF r
<1> DEFINE a == AcquireMutex(s, m)
           q == IF s.master[m] = None THEN a ELSE s
<1>3. s.master[m] = None => InheritInv(a) /\ Shaped(a)
  BY <1>1, AcquireInherits, AcquireShape DEF Changes
<1>4. LockMutex(s, m) = [q EXCEPT !.deep[m] = q.deep[m] + 1] BY DEF LockMutex
<1> HIDE DEF a
<1>5. InheritInv(q) /\ Shaped(q) BY <1>1, <1>3
<1> HIDE DEF q
<1>6. InheritInv(LockMutex(s, m)) /\ Shaped(LockMutex(s, m)) BY <1>2, <1>4, <1>5
<1>7. s.master[m] = None => \A n : InheritInv([a EXCEPT !.deep[m] = n]) BY <1>2, <1>3
<1>8. QED BY <1>6, <1>7 DEF a

\* A task blocks on a busy lock, and raises it and its master (mutex.c:58-74).
LEMMA BlockOnInherits ==
    ASSUME NEW s, KInv(s), InheritInv(s), NEW m \in Mutexes, s.master[m] # None,
           s.current \in Range(s.list[Active])
    PROVE  InheritInv(BlockOnMutex(s, m))
<1> DEFINE t == s.current
           M == s.master[m]
           p == s.prio[t]
           raise == s.mprio[m] < p
           q == [s EXCEPT !.lock[t] = m,
                          !.mprio[m] = IF raise THEN p ELSE @,
                          !.prio[M] = IF raise /\ @ < p THEN p ELSE @]
           a == ListAppend(q, Slaves(m), t)
           r == TaskSchedule(a)
<1>1. /\ Shaped(s) /\ DataInv(s) /\ ListInv(s) /\ t \in AllTasks /\ OwnedByMaster(s)
      /\ s.prio \in [AllTasks -> Prios] /\ s.mprio \in [Mutexes -> Prios]
      /\ s.base \in [AllTasks -> Prios] /\ s.lock \in [AllTasks -> OrNone(Mutexes)]
      /\ s.owned \in [AllTasks -> Seq(Mutexes)] /\ s.master \in [Mutexes -> OrNone(Tasks)]
  <2>1. Shaped(s) /\ DataInv(s) /\ ListInv(s) /\ OwnerType(s) /\ OwnedByMaster(s)
    BY DEF KInv, OwnerInv
  <2> HIDE DEF t
  <2>2. s.prio \in [AllTasks -> Prios] /\ s.mprio \in [Mutexes -> Prios]
        /\ s.base \in [AllTasks -> Prios] /\ s.lock \in [AllTasks -> OrNone(Mutexes)]
    BY <2>1 DEF DataInv, ListInv
  <2>3. s.owned \in [AllTasks -> Seq(Mutexes)] /\ s.master \in [Mutexes -> OrNone(Tasks)]
    BY <2>1 DEF OwnerType
  <2>4. t \in AllTasks BY <2>1 DEF DataInv, t
  <2>5. QED BY <2>1, <2>2, <2>3, <2>4
<1>2. M \in AllTasks BY <1>1 DEF OrNone, AllTasks
<1>3. /\ Changes(s, q, {"lock", "mprio", "prio"})
      /\ q.lock = [s.lock EXCEPT ![t] = m]
      /\ q.mprio = [s.mprio EXCEPT ![m] = IF raise THEN p ELSE @]
      /\ q.prio = [s.prio EXCEPT ![M] = IF raise /\ @ < p THEN p ELSE @]
  BY <1>1 DEF Shaped, Fields, Changes
<1>4. BlockOnMutex(s, m) = r BY DEF BlockOnMutex
<1> HIDE DEF q
<1>5. Changes(q, a, {"list"}) BY <1>3, AppendShape DEF Changes
<1> HIDE DEF a
<1>6. Changes(a, r, {"current", "need"}) BY <1>5, ScheduleShape DEF Changes
<1> HIDE DEF r
<1>7. /\ r.base = s.base /\ r.owned = s.owned
      /\ r.lock = q.lock /\ r.mprio = q.mprio /\ r.prio = q.prio
  BY <1>3, <1>5, <1>6 DEF Changes, Fields
<1>8. /\ \A x \in Prios : x \in Nat
      /\ \A u \in AllTasks : s.prio[u] \in Nat /\ s.base[u] \in Nat
      /\ \A n \in Mutexes : s.mprio[n] \in Nat
  <2>1. \A x \in Prios : x \in Nat BY KernelParameters DEF Prios
  <2>2. \A u \in AllTasks : s.prio[u] \in Prios /\ s.base[u] \in Prios BY <1>1
  <2>3. \A n \in Mutexes : s.mprio[n] \in Prios BY <1>1
  <2>4. QED BY <2>1, <2>2, <2>3
<1>9. /\ \A u \in AllTasks : r.lock[u] = IF u = t THEN m ELSE s.lock[u]
      /\ \A n \in Mutexes : r.mprio[n] = IF n = m /\ raise THEN p ELSE s.mprio[n]
      /\ \A u \in AllTasks : r.prio[u] = IF u = M /\ raise /\ s.prio[u] < p
                                         THEN p ELSE s.prio[u]
  <2> HIDE DEF p, raise, t, M
  <2>1. \A u \in AllTasks : r.lock[u] = IF u = t THEN m ELSE s.lock[u] BY <1>1, <1>3, <1>7
  <2>2. \A n \in Mutexes : r.mprio[n] = IF n = m /\ raise THEN p ELSE s.mprio[n]
    BY <1>1, <1>3, <1>7
  <2>3. \A u \in AllTasks : r.prio[u] = IF u = M /\ raise /\ s.prio[u] < p
                                        THEN p ELSE s.prio[u]
    BY <1>1, <1>2, <1>3, <1>7
  <2>4. QED BY <2>1, <2>2, <2>3
<1> DEFINE Has(u) == Owed(s.prio[u], s.base[u], s.mprio, Range(s.owned[u]))
<1>10. \A u \in AllTasks : s.base[u] # 0 => Has(u) BY DEF InheritInv, OwedBut
<1>11. p \in Nat /\ \A u \in AllTasks : r.prio[u] \in Nat /\ r.prio[u] >= s.prio[u]
  <2>1. p \in Nat BY <1>1, <1>8
  <2> HIDE DEF p, raise, M
  <2>2. QED BY <2>1, <1>8, <1>9
<1>12. /\ \A n \in Mutexes : r.mprio[n] \in Nat /\ r.mprio[n] >= s.mprio[n]
       /\ r.mprio[m] >= p
  BY <1>8, <1>9, <1>11
<1>13. ASSUME NEW u \in AllTasks, s.base[u] # 0
       PROVE  Owed(r.prio[u], r.base[u], r.mprio, Range(r.owned[u]))
  <2> DEFINE O == Range(s.owned[u])
  <2>1. Has(u) BY <1>10, <1>13
  <2>2. O \subseteq Mutexes /\ (m \in O <=> M = u)
    <3>1. s.owned[u] \in Seq(Mutexes) BY <1>1
    <3>2. QED BY <3>1, <1>1, RangeOfLine DEF OwnedByMaster
  <2> HIDE DEF O, p, raise
  <2>3. CASE ~raise
    <3>1. r.prio[u] = s.prio[u] /\ \A n \in O : r.mprio[n] = s.mprio[n]
      BY <2>2, <2>3, <1>9
    <3>2. QED BY <3>1, <2>1, <1>7 DEF Owed, O
  <2>4. CASE M # u
    <3>1. r.prio[u] = s.prio[u] /\ \A n \in O : r.mprio[n] = s.mprio[n]
      BY <2>2, <2>4, <1>9
    <3>2. QED BY <3>1, <2>1, <1>7 DEF Owed, O
  <2>5. CASE raise /\ M = u
    <3>1. m \in O /\ r.mprio[m] = p BY <2>2, <2>5, <1>9
    <3>2. s.prio[u] >= s.base[u] /\ \A n \in O : s.prio[u] >= s.mprio[n]
      BY <2>1 DEF Owed, O
    <3>3. r.prio[u] >= s.base[u] /\ r.prio[u] >= p
      BY <3>2, <2>5, <1>8, <1>9, <1>11
    <3>4. \A n \in O : r.prio[u] >= r.mprio[n]
      <4>1. ASSUME NEW n \in O, n # m PROVE r.prio[u] >= r.mprio[n]
        <5>1. s.prio[u] >= s.mprio[n] /\ r.mprio[n] = s.mprio[n] BY <4>1, <3>2, <2>2, <1>9
        <5>2. QED BY <5>1, <4>1, <2>2, <1>8, <1>11
      <4>2. QED BY <4>1, <3>1, <3>3
    <3>5. r.prio[u] = s.base[u] \/ \E n \in O : r.prio[u] = r.mprio[n]
      <4>1. CASE s.prio[u] < p
        <5>1. r.prio[u] = p BY <4>1, <2>5, <1>9
        <5>2. QED BY <5>1, <3>1
      <4>2. CASE ~(s.prio[u] < p)
        <5>1. r.prio[u] = s.prio[u] BY <4>2, <1>9
        <5>2. CASE s.prio[u] = s.base[u] BY <5>1, <5>2
        <5>3. ASSUME NEW n \in O, s.prio[u] = s.mprio[n] PROVE s.prio[u] = r.mprio[n]
          <6>1. s.mprio[m] < p BY <2>5 DEF raise
          <6>2. n # m BY <5>3, <6>1, <4>2, <2>2, <1>8, <1>11
          <6>3. QED BY <5>3, <6>2, <2>2, <1>9
        <5>4. QED BY <5>1, <5>2, <5>3, <2>1 DEF Owed, O
      <4>3. QED BY <4>1, <4>2
    <3>6. QED BY <3>3, <3>4, <3>5, <1>7 DEF Owed, O
  <2>6. QED BY <2>3, <2>4, <2>5
<1>14. OwedBut(r, {}) BY <1>7, <1>13 DEF OwedBut
<1>15. \A n \in Mutexes : s.lock[t] # n BY <1>1, ReadyIsFree
<1>16. LocksBacked(r)
  <2> SUFFICES ASSUME NEW n \in Mutexes, r.mprio[n] # 0
               PROVE  \E u \in AllTasks : r.lock[u] = n /\ r.prio[u] >= r.mprio[n]
    BY DEF LocksBacked
  <2>1. CASE n = m /\ raise
    <3>1. r.lock[t] = n /\ r.mprio[n] = p /\ r.prio[t] >= p BY <2>1, <1>1, <1>9, <1>11
    <3>2. QED BY <3>1, <1>1
  <2>2. CASE ~(n = m /\ raise)
    <3>1. r.mprio[n] = s.mprio[n] BY <2>2, <1>9
    <3>2. PICK u \in AllTasks : s.lock[u] = n /\ s.prio[u] >= s.mprio[n]
      BY <3>1 DEF InheritInv, LocksBacked
    <3>3. r.lock[u] = n BY <3>2, <1>9, <1>15
    <3>4. r.prio[u] >= s.mprio[n] BY <3>2, <1>8, <1>11
    <3>5. QED BY <3>1, <3>3, <3>4
  <2>3. QED BY <2>1, <2>2
<1>17. OwnPriosServed(r)
  <2> SUFFICES ASSUME SetPrios = {}, NEW u \in AllTasks, NEW n \in Mutexes, r.lock[u] = n
               PROVE  s.base[u] <= r.mprio[n]
    BY <1>7 DEF OwnPriosServed
  <2>1. CASE u = t
    <3>1. n = m BY <2>1, <1>9
    <3>2. CASE s.base[t] = 0 BY <3>1, <3>2, <2>1, <1>12
    <3>3. CASE s.base[t] # 0
      <4>1. p >= s.base[t] BY <3>3, <1>1, <1>10 DEF Owed
      <4>2. QED BY <4>1, <3>1, <2>1, <1>1, <1>8, <1>11, <1>12
    <3>4. QED BY <3>2, <3>3
  <2>2. CASE u # t
    <3>1. s.base[u] <= s.mprio[n] BY <2>2, <1>9 DEF InheritInv, OwnPriosServed
    <3>2. QED BY <3>1, <1>8, <1>12
  <2>3. QED BY <2>1, <2>2
<1>18. QED BY <1>4, <1>14, <1>16, <1>17 DEF InheritInv

\* The master gives the lock up, and is owed no more what it had from it
\* (mutex.c:187-202).
LEMMA DisownInherits ==
    ASSUME NEW s, KInv(s), InheritInv(s), NEW m \in Mutexes, s.master[m] # None,
           \A n \in Mutexes : s.lock[s.master[m]] # n
    PROVE  InheritInv(DisownMutex(s, m))
<1> DEFINE t == s.master[m]
           q == Unowned(s, t, m)
           lower == s.prio[t] <= s.mprio[m] /\ s.base[t] < s.mprio[m]
           e == TaskRecalculatePrio(q, t)
           p == IF lower THEN e ELSE q
           r == DisownMutex(s, m)
<1>1. /\ Shaped(s) /\ DataInv(s) /\ ListInv(s) /\ WaiterInv(s) /\ OwnerType(s)
      /\ OwnedByMaster(s)
  BY DEF KInv, OwnerInv
<1>2. t \in AllTasks BY <1>1 DEF OwnerType, OrNone, AllTasks
<1>3. s.lock[t] = None BY <1>1, <1>2 DEF ListInv, OrNone
<1>4. r = [p EXCEPT !.master[m] = None] BY DEF DisownMutex
<1>5. Line(s.owned[t], Mutexes) BY <1>1, <1>2 DEF Line, OwnedByMaster, OwnerType
<1>6. /\ Unlinked(s.owned[t], m) \in Seq(Mutexes)
      /\ Range(Unlinked(s.owned[t], m)) = Range(s.owned[t]) \ {m}
  BY <1>5, UnlinkedLine DEF Line
<1>7. m \in Range(s.owned[t]) BY <1>1, <1>2 DEF OwnedByMaster
<1> HIDE DEF t
<1>8. /\ Changes(s, q, {"deep", "owned"})
      /\ q.deep = [s.deep EXCEPT ![m] = 0]
      /\ q.owned = [s.owned EXCEPT ![t] = Unlinked(@, m)]
  BY <1>1 DEF Unowned, Shaped, Fields, Changes
<1> HIDE DEF q, r
<1>9. /\ q.list = s.list /\ q.lock = s.lock /\ q.wait = s.wait /\ q.base = s.base
      /\ q.waiter = s.waiter /\ q.groups = s.groups /\ q.master = s.master
      /\ q.prio = s.prio /\ q.mprio = s.mprio
  BY <1>8 DEF Changes, Fields
<1>10. KData(q) /\ ListInv(q)
  <2>1. ListType(q) /\ WaiterInv(q) /\ ListInv(q)
    BY <1>1, <1>9, WaiterFrame DEF Linked, ListInv, ListType, LinkedWhereBlocked
  <2>2. DataInv(q) BY <1>1, <1>8 DEF DataInv, Changes, Fields
  <2>3. q.deep \in [Mutexes -> 0 .. MaxDeep] BY <1>1, <1>8, KernelParameters DEF OwnerType
  <2>4. q.owned \in [AllTasks -> Seq(Mutexes)] BY <1>1, <1>2, <1>6, <1>8 DEF OwnerType
  <2>5. QED BY <2>1, <2>2, <2>3, <2>4, <1>1, <1>8, <1>9 DEF KData, OwnerType, Changes
<1>11. \A u \in AllTasks : q.owned[u] = IF u = t THEN Unlinked(s.owned[t], m) ELSE s.owned[u]
  BY <1>1, <1>2, <1>8 DEF OwnerType
<1>12. OwedBut(q, {t}) /\ LocksBacked(q) /\ OwnPriosServed(q)
  BY <1>9, <1>11 DEF InheritInv, OwedBut, LocksBacked, OwnPriosServed
<1>13. ASSUME lower PROVE InheritInv(p) /\ Shaped(p)
  <2>1. InheritInv(e) BY <1>2, <1>3, <1>9, <1>10, <1>12, FreeRecalculateInherits
  <2>2. Shaped(e) BY <1>10, TaskRecalculateShape DEF KData, Changes
  <2> HIDE DEF e
  <2>3. QED BY <2>1, <2>2, <1>13
<1>14. ASSUME ~lower PROVE InheritInv(p) /\ Shaped(p)
  <2>1. ASSUME s.base[t] # 0
        PROVE  Owed(q.prio[t], q.base[t], q.mprio, Range(q.owned[t]))
    <3> DEFINE O == Range(s.owned[t])
    <3>1. Owed(s.prio[t], s.base[t], s.mprio, O)
      BY <2>1, <1>2 DEF InheritInv, OwedBut
    <3>2. Range(q.owned[t]) = O \ {m} BY <1>2, <1>6, <1>11
    <3>3. s.prio[t] \in Nat /\ s.base[t] \in Nat /\ s.mprio[m] \in Nat
      <4>1. \A x \in Prios : x \in Nat BY KernelParameters DEF Prios
      <4>2. QED BY <4>1, <1>1, <1>2 DEF DataInv
    <3>4. m \in O BY <1>7
    <3> HIDE DEF O
    <3>5. s.prio[t] = s.base[t] \/ \E n \in O \ {m} : s.prio[t] = s.mprio[n]
      BY <3>1, <3>3, <3>4, <1>14 DEF Owed
    <3>6. Owed(s.prio[t], s.base[t], s.mprio, O \ {m}) BY <3>1, <3>5 DEF Owed
    <3>7. QED BY <3>2, <3>6, <1>9
  <2>2. InheritInv(q)
    BY <2>1, <1>9, <1>12 DEF InheritInv, OwedBut
  <2>3. QED BY <2>2, <1>8, <1>14 DEF Changes
<1>15. InheritInv(p) /\ Shaped(p) BY <1>13, <1>14
<1> HIDE DEF p
<1>16. Changes(p, r, {"master"}) BY <1>4, <1>15 DEF Shaped, Fields, Changes
<1>17. InheritInv(r)
  <2>1. {"master"} \cap Inheritance = {} BY DEF Inheritance
  <2>2. QED BY <2>1, <1>15, <1>16, InheritChange
<1>18. QED BY <1>17 DEF r

\* Who was blocked on a lock that is free now competes for it again, and the lock
\* has no priority (mutex.c:215-220, msignal.c:104-108).
LEMMA SlavesInherit ==
    ASSUME NEW s, KInv(s), InheritInv(s), NEW m \in Mutexes, s.master[m] = None
    PROVE  InheritInv([SlavesActivated(s, m) EXCEPT !.mprio[m] = 0])
<1> DEFINE q == SlavesActivated(s, m)
           r == [q EXCEPT !.mprio[m] = 0]
<1>1. /\ Shaped(s) /\ DataInv(s) /\ OwnedByMaster(s) /\ OwnerType(s)
      /\ Changes(s, q, {"list", "need", "lock"})
  BY SlavesShape DEF KInv, OwnerInv
<1>2. \A u \in AllTasks : q.lock[u] = IF s.lock[u] = m THEN None ELSE s.lock[u]
  BY SlavesActivatedKeeps
<1> HIDE DEF q
<1>3. /\ r.mprio = [s.mprio EXCEPT ![m] = 0]
      /\ r.lock = q.lock /\ r.prio = s.prio /\ r.base = s.base /\ r.owned = s.owned
  BY <1>1 DEF Changes, Shaped, Fields
<1> HIDE DEF r
<1>4. \A n \in Mutexes : r.mprio[n] = IF n = m THEN 0 ELSE s.mprio[n]
  BY <1>1, <1>3 DEF DataInv
<1>5. ASSUME NEW u \in AllTasks, s.base[u] # 0
      PROVE  Owed(r.prio[u], r.base[u], r.mprio, Range(r.owned[u]))
  <2> DEFINE O == Range(s.owned[u])
  <2>1. Owed(s.prio[u], s.base[u], s.mprio, O) BY <1>5 DEF InheritInv, OwedBut
  <2>2. O \subseteq Mutexes
    <3>1. s.owned[u] \in Seq(Mutexes) BY <1>1 DEF OwnerType
    <3>2. QED BY <3>1, RangeOfLine
  <2>3. m \notin O
    <3>1. u # None BY KernelConstants
    <3>2. QED BY <3>1, <1>1 DEF OwnedByMaster
  <2> HIDE DEF O
  <2>4. \A n \in O : r.mprio[n] = s.mprio[n] BY <2>2, <2>3, <1>4
  <2>5. Owed(r.prio[u], r.base[u], r.mprio, O) BY <2>1, <2>4, <1>3 DEF Owed
  <2>6. QED BY <2>5, <1>3 DEF O
<1>6. OwedBut(r, {}) BY <1>3, <1>5 DEF OwedBut
<1>7. LocksBacked(r)
  <2> SUFFICES ASSUME NEW n \in Mutexes, r.mprio[n] # 0
               PROVE  \E u \in AllTasks : r.lock[u] = n /\ r.prio[u] >= r.mprio[n]
    BY DEF LocksBacked
  <2>1. n # m /\ r.mprio[n] = s.mprio[n] BY <1>4
  <2>2. PICK u \in AllTasks : s.lock[u] = n /\ s.prio[u] >= s.mprio[n]
    BY <2>1 DEF InheritInv, LocksBacked
  <2>3. QED BY <2>1, <2>2, <1>2, <1>3
<1>8. OwnPriosServed(r)
  <2> SUFFICES ASSUME SetPrios = {}, NEW u \in AllTasks, NEW n \in Mutexes, r.lock[u] = n
               PROVE  r.base[u] <= r.mprio[n]
    BY DEF OwnPriosServed
  <2>1. s.lock[u] = n /\ n # m BY <1>2, <1>3, KernelConstants
  <2>2. QED BY <2>1, <1>3, <1>4 DEF InheritInv, OwnPriosServed
<1>9. InheritInv(r) BY <1>6, <1>7, <1>8 DEF InheritInv
<1>10. QED BY <1>9 DEF r, q

\* A release does so if there are any.
LEMMA SlavesReleasedInherit ==
    ASSUME NEW s, KInv(s), InheritInv(s), NEW m \in Mutexes, s.master[m] = None
    PROVE  InheritInv(SlavesReleased(s, m))
BY SlavesInherit DEF SlavesReleased

\* A pending interrupt that is served changes no priority.
LEMMA PendingInherits ==
    ASSUME NEW s, KInv(s), InheritInv(s), NEW m \in Mutexes, NEW outcome
    PROVE  /\ InheritInv(PendingServed(s, m, outcome))
           /\ PendingServed(s, m, outcome).master = s.master
<1> DEFINE r == PendingServed(s, m, outcome)
<1>1. Changes(s, r, Served) BY PendingShape DEF KInv
<1> HIDE DEF r
<1>2. Served \cap Inheritance = {} BY DEF Served, Woken, Inheritance
<1>3. InheritInv(r) BY <1>1, <1>2, InheritChange
<1>4. r.master = s.master BY <1>1 DEF Changes, Fields, Served, Woken
<1>5. QED BY <1>3, <1>4 DEF r

\* A lock is released (mutex.c:194-221).
LEMMA ReleaseInherits ==
    ASSUME NEW s, KInv(s), InheritInv(s), NEW m \in Mutexes, s.master[m] # None,
           \A n \in Mutexes : s.lock[s.master[m]] # n, NEW outcome \in Outcomes
    PROVE  InheritInv(ReleaseMutex(s, m, outcome))
<1> DEFINE q == DisownMutex(s, m)
           p == PendingServed(q, m, outcome)
<1>1. KInv(q) /\ InheritInv(q) /\ q.master = [s.master EXCEPT ![m] = None]
  BY DisownKeeps, DisownInherits DEF Disowned
<1> HIDE DEF q
<1>2. KInv(p) /\ InheritInv(p) /\ p.master[m] = None
  <2>1. s.master \in [Mutexes -> OrNone(Tasks)] BY DEF KInv, OwnerInv, OwnerType
  <2>2. q.master[m] = None BY <2>1, <1>1
  <2>3. QED BY <2>2, <1>1, PendingKeeps, PendingInherits
<1> HIDE DEF p
<1>3. InheritInv(SlavesReleased(p, m)) BY <1>2, SlavesReleasedInherit
<1>4. QED BY <1>3 DEF ReleaseMutex, p, q

\* A task leaves the lock it is blocked on, and the lock loses what it had from it
\* alone; so does the master of the lock, and who blocks that (tdelete.c:24-45).
LEMMA RemovedInherits ==
    ASSUME NEW s, KInv(s), InheritInv(s), NEW d \in Tasks, NEW t
    PROVE  InheritInv(Removed(s, d, t))
<1> DEFINE m == s.lock[d]
           k0 == ListUnlink(s, d)
           k1 == [k0 EXCEPT !.need = @ \/ d = t]
           redo == m # None /\ k1.mprio[m] <= k1.prio[d]
           e  == MutexRecalculatePrio(k1, m)
           k2 == IF redo THEN e ELSE k1
           c  == Level(k1, None)
           r  == Removed(s, d, t)
<1>1. /\ Shaped(s) /\ DataInv(s) /\ ListInv(s) /\ WaiterInv(s) /\ OwnerType(s)
      /\ OwnedByMaster(s) /\ d \in AllTasks
  BY DEF KInv, OwnerInv, AllTasks
<1>2. r = [k2 EXCEPT !.lock[d] = None, !.wait[d] = None] BY DEF Removed
<1>3. /\ Separate(k0.list) /\ Changes(s, k0, {"list"})
      /\ \A h \in Heads : Range(k0.list[h]) = Range(s.list[h]) \ {d}
  BY <1>1, UnlinkLists, UnlinkShape DEF ListInv
<1>4. m \in OrNone(Mutexes) BY <1>1 DEF ListInv
<1> HIDE DEF k0
<1>5. Changes(k0, k1, {"need"}) /\ k1.need = (k0.need \/ d = t)
  BY <1>3 DEF Shaped, Fields, Changes
<1> HIDE DEF k1
<1>6. /\ \A f \in Fields \ {"list", "need"} : k1[f] = s[f]
      /\ k1.list = k0.list /\ k1.need = (s.need \/ d = t) /\ k1.need \in BOOLEAN
  BY <1>1, <1>3, <1>5 DEF Changes, Fields, DataInv
<1>7. KData(k1)
  <2>1. DataInv(k1) BY <1>1, <1>6 DEF DataInv, Fields
  <2>2. ListType(k1) BY <1>1, <1>3, <1>6 DEF ListType, ListInv, Fields
  <2>3. \A u \in AllTasks : Linked(k1, u) => Linked(s, u) BY <1>3, <1>6 DEF Linked
  <2>4. WaiterInv(k1) BY <1>1, <1>6, <2>3, WaiterFrame DEF Fields
  <2>5. OwnerType(k1) BY <1>1, <1>6 DEF OwnerType, Fields
  <2>6. QED BY <1>5, <2>1, <2>2, <2>4, <2>5 DEF KData, Changes
<1>8. /\ k1.lock = s.lock /\ k1.prio = s.prio /\ k1.mprio = s.mprio /\ k1.base = s.base
      /\ k1.owned = s.owned /\ k1.master = s.master
  BY <1>6 DEF Fields
<1>9. \A n \in Mutexes : /\ Range(k1.list[Slaves(n)]) = Range(s.list[Slaves(n)]) \ {d}
                         /\ Range(s.list[Slaves(n)]) \subseteq AllTasks
                         /\ \A u \in AllTasks :
                              s.lock[u] = n <=> u \in Range(s.list[Slaves(n)])
  BY <1>1, <1>3, <1>6, SlavesOfLock, HeadsDiffer
<1>10. OwnedByMaster(k1) /\ SlavesBlocked(k1)
  BY <1>1, <1>8, <1>9 DEF OwnedByMaster, SlavesBlocked
<1>11. c \in Levels(k1) /\ c.next = None /\ c.prio = s.prio /\ c.mprio = s.mprio
  BY <1>7, <1>8 DEF KData, DataInv, Level, Levels, OrNone
<1> HIDE DEF c
<1>12. TasksOwed(k1, c) BY <1>8, <1>11 DEF InheritInv, OwedBut, TasksOwed
<1>13. \A n \in Mutexes : Serves(k1, c, n)
  BY <1>8, <1>9, <1>11 DEF InheritInv, OwnPriosServed, Serves
<1>14. ASSUME NEW n \in Mutexes, n # m \/ ~redo PROVE Backed(k1, c, n)
  <2>1. CASE s.mprio[n] = 0 BY <2>1, <1>11 DEF Backed
  <2>2. CASE s.mprio[n] # 0
    <3>1. PICK u \in AllTasks : s.lock[u] = n /\ s.prio[u] >= s.mprio[n]
      BY <2>2 DEF InheritInv, LocksBacked
    <3>2. u # d
      <4>1. CASE n # m BY <3>1, <4>1
      <4>2. CASE n = m
        <5>1. ~(s.mprio[n] <= s.prio[d])
          BY <4>2, <1>8, <1>14, KernelConstants
        <5>2. s.prio[d] \in Nat /\ s.mprio[n] \in Nat
          <6>1. \A x \in Prios : x \in Nat BY KernelParameters DEF Prios
          <6>2. QED BY <6>1, <1>1 DEF DataInv
        <5>3. QED BY <3>1, <5>1, <5>2
      <4>3. QED BY <4>1, <4>2
    <3>3. u \in Range(k1.list[Slaves(n)]) BY <3>1, <3>2, <1>9
    <3>4. QED BY <3>1, <3>3, <1>11 DEF Backed
  <2>3. QED BY <2>1, <2>2
<1>15. PICK end \in OwedLevels(k1) : /\ end.next = None /\ Shaped(k2)
                                     /\ k2.prio = end.prio /\ k2.mprio = end.mprio
                                     /\ Changes(k1, k2, Inherited)
  <2>1. CASE redo
    <3>1. m \in Mutexes BY <2>1, <1>4 DEF OrNone
    <3>2. MutexLevel(k1, c, m) \in OwedLevels(k1)
      BY <3>1, <1>7, <1>10, <1>11, <1>12, <1>13, <1>14, MutexLevelOwes
    <3>3. e = RecalculateFrom(k1, MutexLevel(k1, c, m)) BY DEF MutexRecalculatePrio, c
    <3>4. PICK end \in OwedLevels(k1) : end.next = None /\ e = Ended(k1, end)
      BY <3>2, <3>3, <1>7, <1>10, ChainOwes
    <3>5. Changes(k1, e, Inherited) BY <1>7, MutexRecalculateShape DEF KData
    <3> HIDE DEF e
    <3>6. e.prio = end.prio /\ e.mprio = end.mprio
      BY <3>4, <1>7 DEF Ended, KData, Shaped, Fields
    <3>7. k2 = e BY <2>1
    <3> HIDE DEF k2
    <3>8. QED BY <3>4, <3>5, <3>6, <3>7 DEF Changes
  <2>2. CASE ~redo
    <3>1. c \in OwedLevels(k1) BY <2>2, <1>11, <1>12, <1>13, <1>14 DEF OwedLevels
    <3>2. k2 = k1 /\ Changes(k1, k1, Inherited) BY <2>2, <1>7 DEF KData, Changes
    <3> HIDE DEF k2
    <3>3. QED BY <3>1, <3>2, <1>8, <1>11 DEF Changes
  <2>3. QED BY <2>1, <2>2
<1> HIDE DEF k2
<1>16. Changes(k2, r, {"lock", "wait"}) /\ r.lock = [k2.lock EXCEPT ![d] = None]
  BY <1>2, <1>15 DEF Shaped, Fields, Changes
<1>17. /\ r.prio = end.prio /\ r.mprio = end.mprio /\ r.base = k1.base /\ r.owned = k1.owned
       /\ k2.lock = s.lock
  BY <1>8, <1>15, <1>16 DEF Changes, Fields, Inherited
<1>18. \A n \in Mutexes, u \in AllTasks : r.lock[u] = n <=> u \in Range(k1.list[Slaves(n)])
  <2>1. \A u \in AllTasks : r.lock[u] = IF u = d THEN None ELSE s.lock[u]
    BY <1>1, <1>16, <1>17 DEF ListInv
  <2> HIDE DEF r
  <2>2. ASSUME NEW n \in Mutexes, NEW u \in AllTasks
        PROVE  r.lock[u] = n <=> u \in Range(k1.list[Slaves(n)])
    <3>1. None # n BY KernelConstants
    <3>2. u \in Range(k1.list[Slaves(n)]) <=> u # d /\ s.lock[u] = n BY <1>9
    <3>3. r.lock[u] = IF u = d THEN None ELSE s.lock[u] BY <2>1
    <3>4. QED BY <3>1, <3>2, <3>3
  <2>3. QED BY <2>2
<1> HIDE DEF r
<1>19. k1.list \in [Heads -> Seq(AllTasks)] BY <1>7 DEF KData, ListType, Separate
<1>20. InheritInv(r) BY <1>15, <1>17, <1>18, <1>19, EndInherits
<1>21. QED BY <1>20 DEF r

-----------------------------------------------------------------------------
(***************************************************************************)
(* The steps keep inheritance.  A task that runs is not blocked, so that   *)
(* what it gives up lowers nobody but itself.                              *)
(***************************************************************************)
\* The scheduler changes no priority.
LEMMA ScheduledInherits ==
    ASSUME NEW s, Shaped(s), InheritInv(s)
    PROVE  InheritInv(TaskSchedule(s)) /\ InheritInv(ScheduleIfNeeded(s))
<1>1. {"current", "need"} \cap Inheritance = {} BY DEF Inheritance
<1>2. Changes(s, TaskSchedule(s), {"current", "need"}) BY ScheduleShape
<1>3. Changes(s, ScheduleIfNeeded(s), {"current", "need"}) BY ScheduleIfNeededShape
<1>4. QED BY <1>1, <1>2, <1>3, InheritChange

\* Nor does a signal.
LEMMA SignalInherits ==
    ASSUME NEW s, Shaped(s), InheritInv(s), NEW m, NEW msg
    PROVE  InheritInv(MutexActivate(s, m, msg)) /\ Shaped(MutexActivate(s, m, msg))
<1>1. Woken \cap Inheritance = {} BY DEF Woken, Inheritance
<1>2. Changes(s, MutexActivate(s, m, msg), Woken) BY MutexActivateShape
<1>3. QED BY <1>1, <1>2, InheritChange DEF Changes

\* The task that runs is not blocked on a lock.
LEMMA RunnerIsFree ==
    ASSUME Inv, NEW t \in Tasks, t = k.current,
           frame[t].at # "task_delete" \/ frame[t].task # t
    PROVE  /\ t \in Range(k.list[Active])
           /\ \A n \in Mutexes : k.lock[t] # n
<1>1. t \in Range(k.list[Active]) BY RunnerIsReady
<1>2. ListInv(k) /\ t \in AllTasks BY DEF Inv, KInv, AllTasks
<1>3. QED BY <1>1, <1>2, ReadyIsFree

\* Nor is one that is being deleted.
LEMMA AbsentIsFree ==
    ASSUME Inv, NEW d \in Tasks, Absent(d)
    PROVE  \A n \in Mutexes : k.lock[d] # n
<1>1. ~Linked(k, d) BY DEF Inv, AbsentInv, Present, Absent
<1>2. ListInv(k) /\ d \in AllTasks BY DEF Inv, KInv, AllTasks
<1>3. ASSUME NEW n \in Mutexes PROVE k.lock[d] # n
  <2>1. Slaves(n) \in Heads BY HeadsDiffer
  <2>2. d \notin Range(k.list[Slaves(n)]) BY <1>1, <2>1 DEF Linked
  <2>3. QED BY <1>2, <2>2 DEF ListInv, LinkedWhereBlocked
<1>4. QED BY <1>3

\* task_create (tcreate.c:24-51): the new task owns nothing, and its lock finish
\* blocks nobody.
LEMMA TaskCreateInherits ==
    ASSUME Inv, InheritInv(k), NEW t \in Tasks, TaskCreate(t)
    PROVE  InheritInv(k')
<1> DEFINE f == finish[t]
           p == StartPrio[t]
           w == <<t>>
           r == [k EXCEPT !.base[t] = p, !.prio[t] = p, !.message[t] = None,
                          !.mprio[f] = 0, !.groups[f] = <<>>]
<1>1. /\ KInv(k) /\ Shaped(k) /\ DataInv(k) /\ t \in AllTasks /\ f \in Mutexes
      /\ FreeInv(k)
  BY KernelParameters DEF Inv, KInv, AllTasks
<1>2. p \in Prios BY KernelParameters DEF Prios
<1>3. k.base[t] = 0 /\ ~BeingDeleted(t) /\ k.master[f] = None /\ k' = TaskActivate(r, w)
  BY DEF TaskCreate, Unused
<1>4. k.owned[t] = <<>> /\ Range(k.owned[t]) = {}
  BY <1>3, EmptyLine DEF Inv, AbsentInv
<1>5. \A n \in Mutexes : k.lock[t] # n BY <1>3, AbsentIsFree DEF Absent
<1>6. k.mprio[f] = 0 BY <1>1, <1>3, FreeHasNoPrio DEF InheritInv
<1> HIDE DEF f, p, w
<1>7. /\ Changes(k, r, {"base", "prio", "message", "mprio", "groups"})
      /\ r.prio = [k.prio EXCEPT ![t] = p] /\ r.base = [k.base EXCEPT ![t] = p]
      /\ r.mprio = [k.mprio EXCEPT ![f] = 0]
  <2>1. r = Created(k, t, p, f) BY DEF Created
  <2> HIDE DEF r
  <2>2. CreatedFrom(k, r, t, p, f) BY <1>1, <2>1, CreatedIs
  <2>3. QED BY <2>2 DEF CreatedFrom
<1> HIDE DEF r
<1>8. r.lock = k.lock /\ r.owned = k.owned BY <1>7 DEF Changes, Fields
<1>9. r.mprio = k.mprio BY <1>1, <1>6, <1>7 DEF DataInv
<1>10. \A u \in AllTasks : /\ r.prio[u] = IF u = t THEN p ELSE k.prio[u]
                           /\ r.base[u] = IF u = t THEN p ELSE k.base[u]
  BY <1>1, <1>7 DEF DataInv
<1>11. OwedBut(r, {})
  <2>1. ASSUME NEW u \in AllTasks, r.base[u] # 0
        PROVE  Owed(r.prio[u], r.base[u], r.mprio, Range(r.owned[u]))
    <3>1. CASE u = t
      <4>1. p >= p BY <1>2, KernelParameters DEF Prios
      <4>2. QED BY <3>1, <4>1, <1>4, <1>8, <1>10 DEF Owed
    <3>2. CASE u # t BY <2>1, <3>2, <1>8, <1>9, <1>10 DEF InheritInv, OwedBut
    <3>3. QED BY <3>1, <3>2
  <2>2. QED BY <2>1 DEF OwedBut
<1>12. LocksBacked(r)
  <2>1. ASSUME NEW m \in Mutexes, r.mprio[m] # 0
        PROVE  \E u \in AllTasks : r.lock[u] = m /\ r.prio[u] >= r.mprio[m]
    <3>1. PICK u \in AllTasks : k.lock[u] = m /\ k.prio[u] >= k.mprio[m]
      BY <2>1, <1>9 DEF InheritInv, LocksBacked
    <3>2. u # t BY <3>1, <1>5
    <3>3. QED BY <3>1, <3>2, <1>8, <1>9, <1>10
  <2>2. QED BY <2>1 DEF LocksBacked
<1>13. OwnPriosServed(r)
  <2>1. ASSUME SetPrios = {}, NEW u \in AllTasks, NEW m \in Mutexes, r.lock[u] = m
        PROVE  r.base[u] <= r.mprio[m]
    <3>1. u # t BY <2>1, <1>5, <1>8
    <3>2. QED BY <2>1, <3>1, <1>8, <1>9, <1>10 DEF InheritInv, OwnPriosServed
  <2>2. QED BY <2>1 DEF OwnPriosServed
<1>14. InheritInv(r) BY <1>11, <1>12, <1>13 DEF InheritInv
<1>15. Changes(r, TaskActivate(r, w), {"list", "need"}) BY <1>7, ActivateShape DEF Changes
<1>16. {"list", "need"} \cap Inheritance = {} BY DEF Inheritance
<1>17. QED BY <1>3, <1>14, <1>15, <1>16, InheritChange

\* task_set_priority (tsetprio.c:24-41) recomputes what the task is owed.
LEMMA TaskSetPriorityInherits ==
    ASSUME Inv, InheritInv(k), NEW t \in Tasks, NEW d \in Tasks, NEW p \in SetPrios,
           TaskSetPriority(t, d, p)
    PROVE  InheritInv(k')
<1> DEFINE q == [k EXCEPT !.base[d] = p]
           r == TaskRecalculatePrio(q, d)
<1>1. KInv(k) /\ DataInv(k) /\ Shaped(k) /\ d \in AllTasks BY DEF Inv, KInv, AllTasks
<1>2. p \in Prios BY KernelParameters DEF Prios
<1>3. Changes(k, q, {"base"}) /\ q.base = [k.base EXCEPT ![d] = p]
  BY <1>1 DEF Shaped, Fields, Changes
<1>4. k' = ScheduleIfNeeded(r) BY DEF TaskSetPriority
<1> HIDE DEF q
<1>5. DataInv(q) BY <1>1, <1>2, <1>3 DEF DataInv, Changes, Fields
<1>6. KInv(q) BY <1>1, <1>3, <1>5, KInvFrame DEF Fields
<1>7. /\ q.prio = k.prio /\ q.mprio = k.mprio /\ q.lock = k.lock /\ q.owned = k.owned
      /\ \A u \in AllTasks \ {d} : q.base[u] = k.base[u]
  BY <1>1, <1>3 DEF Changes, Fields, DataInv
<1>8. OwedBut(q, {d}) BY <1>7 DEF InheritInv, OwedBut
<1>9. LocksBacked(q) /\ OwnPriosServed(q)
  BY <1>7 DEF InheritInv, LocksBacked, OwnPriosServed
<1>10. InheritInv(r) BY <1>1, <1>6, <1>8, <1>9, TaskRecalculateInherits
<1>11. Shaped(r)
  BY <1>6, TaskRecalculateShape DEF KInv, Changes
<1> HIDE DEF r
<1>12. QED BY <1>4, <1>10, <1>11, ScheduledInherits

\* The loop of mutex_lock (mutex.c:52-76) blocks, or is done.
LEMMA LockLoopInherits ==
    ASSUME Inv, InheritInv(k), NEW t, t = k.current, t \in Range(k.list[Active]),
           NEW m \in Mutexes, NEW f, NEW done, InheritInv(done), LockLoop(t, m, f, done)
    PROVE  InheritInv(k')
<1>1. CASE k.master[m] \notin {None, t} /\ k' = BlockOnMutex(k, m)
  BY <1>1, BlockOnInherits DEF Inv
<1>2. CASE k' = done BY <1>2
<1>3. QED BY <1>1, <1>2 DEF LockLoop

\* What the loop leaves when it is done: the lock, with an interrupt or not.
LEMMA LockDoneInherits ==
    ASSUME Inv, InheritInv(k), NEW m \in Mutexes
    PROVE  /\ InheritInv(LockMutex(k, m))
           /\ \A i, f : InheritInv(Attached(LockMutex(k, m), m, i, f))
<1> DEFINE q == LockMutex(k, m)
<1>1. InheritInv(q) /\ Shaped(q) BY LockInherits DEF Inv
<1> HIDE DEF q
<1>2. ASSUME NEW i, NEW f PROVE InheritInv(Attached(q, m, i, f))
  <2>1. Changes(q, Attached(q, m, i, f), {"irq", "ilock", "fast", "pending"})
    BY <1>1, AttachedShape
  <2>2. {"irq", "ilock", "fast", "pending"} \cap Inheritance = {} BY DEF Inheritance
  <2>3. QED BY <1>1, <2>1, <2>2, InheritChange
<1>3. QED BY <1>1, <1>2 DEF q

\* The calls that take a lock, and mutex_lock and mutex_lock_irq resumed.
LEMMA LockCallInherits ==
    ASSUME Inv, InheritInv(k), NEW t \in Tasks,
           \/ \E m \in Locks : MutexLock(t, m) \/ MutexTrylock(t, m)
           \/ \E d \in Tasks : TaskWait(t, d)
           \/ \E i \in Irqs, f \in BOOLEAN : MutexLockIrq(t, i, f)
    PROVE  InheritInv(k')
<1>1. t = k.current /\ t \in Range(k.list[Active])
  <2>1. t = k.current /\ frame[t] = User
    BY DEF MutexLock, MutexTrylock, TaskWait, MutexLockIrq, Calls, Running
  <2>2. QED BY <2>1, FrameFields, RunnerIsFree
<1>2. ASSUME NEW m \in Locks, MutexLock(t, m) PROVE InheritInv(k')
  <2>1. m \in Mutexes BY DEF Locks
  <2>2. QED BY <1>1, <1>2, <2>1, LockDoneInherits, LockLoopInherits DEF MutexLock
<1>3. ASSUME NEW m \in Locks, MutexTrylock(t, m) PROVE InheritInv(k')
  <2>1. m \in Mutexes BY DEF Locks
  <2>2. QED BY <1>3, <2>1, LockDoneInherits DEF MutexTrylock
<1>4. ASSUME NEW d \in Tasks, TaskWait(t, d) PROVE InheritInv(k')
  <2>1. finish[d] \in Mutexes BY KernelParameters
  <2>2. QED BY <1>1, <1>4, <2>1, LockDoneInherits, LockLoopInherits DEF TaskWait
<1>5. ASSUME NEW i \in Irqs, NEW f \in BOOLEAN, MutexLockIrq(t, i, f) PROVE InheritInv(k')
  <2>1. IrqMutex[i] \in Mutexes BY KernelParameters
  <2>2. QED BY <1>1, <1>5, <2>1, LockDoneInherits, LockLoopInherits DEF MutexLockIrq
<1>6. QED BY <1>2, <1>3, <1>4, <1>5

LEMMA ResumeLockInherits ==
    ASSUME Inv, InheritInv(k), NEW t \in Tasks, ResumeLock(t) \/ ResumeLockIrq(t)
    PROVE  InheritInv(k')
<1>1. t = k.current /\ t \in Range(k.list[Active])
  BY RunnerIsFree DEF ResumeLock, ResumeLockIrq, Resumes
<1>2. CASE ResumeLock(t)
  <2>1. PICK m \in Mutexes : frame[t] = Locking(m)
    BY <1>2, ResumedAt DEF ResumeLock
  <2>2. LockLoop(t, m, frame[t], LockMutex(k, m))
    BY <1>2, <2>1, FrameFields DEF ResumeLock
  <2>3. QED BY <1>1, <2>2, LockDoneInherits, LockLoopInherits
<1>3. CASE ResumeLockIrq(t)
  <2>1. PICK i \in Irqs, b \in BOOLEAN : frame[t] = LockingIrq(i, b)
    BY <1>3, ResumedAt DEF ResumeLockIrq
  <2> DEFINE m == IrqMutex[i]
  <2>2. LockLoop(t, m, frame[t], Attached(LockMutex(k, m), m, i, b))
    BY <1>3, <2>1, FrameFields DEF ResumeLockIrq
  <2>3. m \in Mutexes BY KernelParameters
  <2> HIDE DEF m
  <2>4. QED BY <1>1, <2>2, <2>3, LockDoneInherits, LockLoopInherits
<1>4. QED BY <1>2, <1>3

\* mutex_wait (msignal.c:87-109): the task gives the lock up, if it has it, and
\* who was blocked on it is ready.
LEMMA SuspendInherits ==
    ASSUME NEW q, KInv(q), InheritInv(q), NEW t \in Tasks, t \in Range(q.list[Active]),
           NEW m \in Mutexes, q.master[m] = k.master[m], SuspendOnMutex(t, m, q)
    PROVE  InheritInv(k')
<1> DEFINE r == ListAppend([Unmasked(q, m) EXCEPT !.wait[t] = m], Waiters(m), t)
           e == DisownMutex(r, m)
           z == [SlavesActivated(e, m) EXCEPT !.mprio[m] = 0]
<1>1. t \in AllTasks /\ t # None BY KernelConstants DEF AllTasks
<1>2. KInv(r) /\ Changes(q, r, {"wait", "allowed", "list"}) BY <1>1, SuspendLists
<1>3. r.master[m] = k.master[m] /\ r.lock = q.lock BY <1>2 DEF Changes, Fields
<1>4. InheritInv(r)
  <2>1. {"wait", "allowed", "list"} \cap Inheritance = {} BY DEF Inheritance
  <2>2. QED BY <1>2, <2>1, InheritChange
<1>5. \/ k.master[m] # t /\ k' = TaskSchedule(r)
      \/ k.master[m] = t /\ k' = TaskSchedule(z)
  BY DEF SuspendOnMutex
<1> HIDE DEF r
<1>6. CASE k' = TaskSchedule(r) BY <1>2, <1>4, <1>6, ScheduledInherits DEF Changes
<1>7. CASE k.master[m] = t /\ k' = TaskSchedule(z)
  <2>1. \A n \in Mutexes : r.lock[t] # n BY <1>1, <1>3, ReadyIsFree DEF KInv
  <2>2. r.master[m] = t /\ r.master[m] # None BY <1>1, <1>3, <1>7
  <2>3. InheritInv(e) BY <1>2, <1>4, <2>1, <2>2, DisownInherits
  <2>4. KInv(e) /\ e.master = [r.master EXCEPT ![m] = None]
    BY <1>2, <2>2, DisownKeeps DEF Disowned
  <2> HIDE DEF e
  <2>5. e.master[m] = None
    <3>1. r.master \in [Mutexes -> OrNone(Tasks)] BY <1>2 DEF KInv, OwnerInv, OwnerType
    <3>2. QED BY <2>4, <3>1
  <2>6. InheritInv(z) BY <2>3, <2>4, <2>5, SlavesInherit
  <2>7. Shaped(z)
    <3>1. Shaped(e) BY <2>4 DEF KInv
    <3>2. Shaped(SlavesActivated(e, m)) BY <3>1, SlavesShape DEF Changes
    <3>3. QED BY <3>2 DEF Shaped
  <2> HIDE DEF z
  <2>8. QED BY <1>7, <2>6, <2>7, ScheduledInherits
<1>8. QED BY <1>5, <1>6, <1>7

LEMMA WaitOnInherits ==
    ASSUME Inv, InheritInv(k), NEW t \in Tasks, t \in Range(k.list[Active]),
           NEW m \in Mutexes, WaitOn(t, m)
    PROVE  InheritInv(k')
<1>1. KInv(k) BY DEF Inv
<1>2. CASE SuspendOnMutex(t, m, k) BY <1>1, <1>2, SuspendInherits
<1>3. ASSUME k.irq[m] # None, NEW outcome \in Outcomes,
             SuspendOnMutex(t, m, HandlerCalled(k, k.irq[m], outcome))
      PROVE  InheritInv(k')
  <2> DEFINE q == HandlerCalled(k, k.irq[m], outcome)
  <2>1. k.irq[m] \in Irqs BY <1>1, <1>3 DEF KInv, DataInv, OrNone
  <2>2. KInv(q) /\ Changes(k, q, {"pending", "allowed"})
    BY <1>1, <2>1, HandlerKeeps, HandlerShape DEF KInv
  <2>3. SuspendOnMutex(t, m, q) BY <1>3
  <2> HIDE DEF q
  <2>4. {"pending", "allowed"} \cap Inheritance = {} BY DEF Inheritance
  <2>5. InheritInv(q) BY <2>2, <2>4, InheritChange
  <2>6. q.list = k.list /\ q.master = k.master BY <2>2 DEF Changes, Fields
  <2>7. QED BY <2>2, <2>3, <2>5, <2>6, SuspendInherits
<1>4. ASSUME NEW outcome \in Outcomes, k' = ScheduleIfNeeded(PendingServed(k, m, outcome))
      PROVE  InheritInv(k')
  <2> DEFINE r == PendingServed(k, m, outcome)
  <2>1. InheritInv(r) /\ Shaped(r)
    BY <1>1, PendingInherits, PendingShape DEF KInv, Changes
  <2>2. k' = ScheduleIfNeeded(r) BY <1>4
  <2> HIDE DEF r
  <2>3. QED BY <2>1, <2>2, ScheduledInherits
<1>5. QED BY <1>2, <1>3, <1>4 DEF WaitOn

\* It is called, or resumed.
LEMMA WaitInherits ==
    ASSUME Inv, InheritInv(k), NEW t \in Tasks,
           \/ \E m \in Locks : MutexWait(t, m)
           \/ TaskWaitSleep(t)
           \/ ResumeWait(t)
    PROVE  InheritInv(k')
<1>1. ASSUME NEW m \in Locks, MutexWait(t, m) PROVE InheritInv(k')
  <2>1. t = k.current /\ frame[t] = User BY <1>1 DEF MutexWait, Calls, Running
  <2>2. t \in Range(k.list[Active]) BY <2>1, FrameFields, RunnerIsFree
  <2>3. QED BY <1>1, <2>2, WaitOnInherits DEF MutexWait, Locks
<1>2. CASE TaskWaitSleep(t)
  <2>1. finish[joining[t].task] \in Mutexes /\ t = k.current /\ frame[t] = User
    BY <1>2, JoinerHas DEF TaskWaitSleep
  <2>2. t \in Range(k.list[Active]) BY <2>1, FrameFields, RunnerIsFree
  <2>3. QED BY <1>2, <2>1, <2>2, WaitOnInherits DEF TaskWaitSleep
<1>3. CASE ResumeWait(t)
  <2>1. PICK m \in Mutexes, n \in 1 .. MaxDeep : frame[t] = Waiting(m, n)
    BY <1>3, ResumedAt DEF ResumeWait
  <2>2. \/ k.master[m] # None /\ k' = BlockOnMutex(k, m)
        \/ k.master[m] = None /\ k' = [AcquireMutex(k, m) EXCEPT !.deep[m] = n]
    BY <1>3, <2>1, FrameFields DEF ResumeWait
  <2>3. CASE k.master[m] # None /\ k' = BlockOnMutex(k, m)
    <3>1. t = k.current /\ t \in Range(k.list[Active])
      BY <1>3, RunnerIsFree DEF ResumeWait, Resumes
    <3>2. QED BY <2>3, <3>1, BlockOnInherits DEF Inv
  <2>4. CASE k.master[m] = None /\ k' = [AcquireMutex(k, m) EXCEPT !.deep[m] = n]
    BY <2>4, LockInherits DEF Inv
  <2>5. QED BY <2>2, <2>3, <2>4
<1>4. QED BY <1>1, <1>2, <1>3

\* A lock is given up: once less deep, or released (mutex.c:187-226).
LEMMA UnlockedInherits ==
    ASSUME Inv, InheritInv(k), NEW m \in Mutexes, k.master[m] # None,
           \A n \in Mutexes : k.lock[k.master[m]] # n,
           NEW outcome \in Outcomes, k' = Unlocked(m, outcome)
    PROVE  InheritInv(k')
<1> DEFINE q == [k EXCEPT !.deep[m] = @ - 1]
<1>1. CASE k.deep[m] > 1
  <2>1. k' = q BY <1>1 DEF Unlocked
  <2>2. Changes(k, q, {"deep"}) BY DEF Inv, KInv, Shaped, Fields, Changes
  <2> HIDE DEF q
  <2>3. {"deep"} \cap Inheritance = {} BY DEF Inheritance
  <2>4. QED BY <2>1, <2>2, <2>3, InheritChange
<1>2. CASE ~(k.deep[m] > 1)
  <2> DEFINE r == ReleaseMutex(k, m, outcome)
  <2>1. k' = ScheduleIfNeeded(r) BY <1>2 DEF Unlocked
  <2>2. InheritInv(r) /\ Shaped(r)
    BY ReleaseInherits, ReleaseShape DEF Inv, KInv, Changes
  <2> HIDE DEF r
  <2>3. QED BY <2>1, <2>2, ScheduledInherits
<1>3. QED BY <1>1, <1>2

\* mutex_unlock, called by a task, by task_wait and by task_delete.
LEMMA UnlockCallInherits ==
    ASSUME Inv, InheritInv(k), NEW t \in Tasks,
           \/ \E m \in Locks : MutexUnlock(t, m)
           \/ TaskWaitReturn(t)
           \/ DeleteUnlock(t)
    PROVE  InheritInv(k')
<1>1. \A u \in Tasks : u # None BY KernelConstants DEF AllTasks
<1>2. ASSUME NEW m \in Locks, MutexUnlock(t, m) PROVE InheritInv(k')
  <2>1. m \in Mutexes /\ k.master[m] = t /\ t = k.current /\ frame[t] = User
    BY <1>2 DEF Locks, MutexUnlock, Calls, Running
  <2>2. \A n \in Mutexes : k.lock[t] # n BY <2>1, FrameFields, RunnerIsFree
  <2>3. QED BY <1>1, <1>2, <2>1, <2>2, UnlockedInherits DEF MutexUnlock
<1>3. CASE TaskWaitReturn(t)
  <2> DEFINE m == finish[joining[t].task]
  <2>1. m \in Mutexes /\ k.master[m] = t /\ t = k.current /\ frame[t] = User
    BY <1>3, JoinerHas DEF TaskWaitReturn
  <2>2. PICK outcome \in Outcomes : k' = Unlocked(m, outcome) BY <1>3 DEF TaskWaitReturn
  <2>3. \A n \in Mutexes : k.lock[t] # n BY <2>1, FrameFields, RunnerIsFree
  <2> HIDE DEF m
  <2>4. QED BY <1>1, <2>1, <2>2, <2>3, UnlockedInherits
<1>4. CASE DeleteUnlock(t)
  <2> DEFINE d == frame[t].task
             m == Head(k.owned[d])
  <2>1. d \in Tasks /\ BeingDeleted(d) /\ k.owned[d] # <<>>
    BY <1>4, Deletion DEF DeleteUnlock
  <2>2. m \in Mutexes /\ k.master[m] = d BY <2>1, OwnedHead
  <2>3. PICK outcome \in Outcomes : k' = Unlocked(m, outcome) BY <1>4 DEF DeleteUnlock
  <2>4. \A n \in Mutexes : k.lock[d] # n BY <2>1, AbsentIsFree DEF Absent
  <2> HIDE DEF m, d
  <2>5. QED BY <1>1, <2>1, <2>2, <2>3, <2>4, UnlockedInherits
<1>5. QED BY <1>2, <1>3, <1>4

\* mutex_unlock_irq (irelease.c:27-81).
LEMMA MutexUnlockIrqInherits ==
    ASSUME Inv, InheritInv(k), NEW t \in Tasks, NEW m \in Locks, MutexUnlockIrq(t, m)
    PROVE  InheritInv(k')
<1>1. /\ KInv(k) /\ m \in Mutexes /\ k.master[m] = t /\ k.master[m] # None
      /\ t = k.current /\ frame[t] = User
  BY KernelConstants DEF Inv, Locks, MutexUnlockIrq, AllTasks, Calls, Running
<1>2. \A n \in Mutexes : k.lock[k.master[m]] # n BY <1>1, FrameFields, RunnerIsFree
<1>3. CASE k.deep[m] > 1
  <2> DEFINE r == [k EXCEPT !.deep[m] = @ - 1]
  <2>1. k' = r BY <1>3 DEF MutexUnlockIrq
  <2>2. Changes(k, r, {"deep"}) BY <1>1 DEF KInv, Shaped, Fields, Changes
  <2> HIDE DEF r
  <2>3. {"deep"} \cap Inheritance = {} BY DEF Inheritance
  <2>4. QED BY <2>1, <2>2, <2>3, InheritChange
<1>4. CASE ~(k.deep[m] > 1)
  <2>1. PICK outcome \in Outcomes :
          k' = ScheduleIfNeeded(SlavesReleased(
                   Detached(PendingServed(DisownMutex(k, m), m, outcome), m), m))
    BY <1>4 DEF MutexUnlockIrq
  <2> DEFINE q == DisownMutex(k, m)
             p == PendingServed(q, m, outcome)
             d == Detached(p, m)
             z == SlavesReleased(d, m)
  <2>2. KInv(q) /\ InheritInv(q) /\ q.master = [k.master EXCEPT ![m] = None]
    BY <1>1, <1>2, DisownKeeps, DisownInherits DEF Disowned
  <2>3. k' = ScheduleIfNeeded(z) BY <2>1
  <2> HIDE DEF q
  <2>4. q.master[m] = None
    <3>1. k.master \in [Mutexes -> OrNone(Tasks)] BY <1>1 DEF KInv, OwnerInv, OwnerType
    <3>2. QED BY <2>2, <3>1, <1>1
  <2>5. KInv(p) /\ InheritInv(p) /\ p.master[m] = None
    BY <2>2, <2>4, <1>1, PendingKeeps, PendingInherits
  <2> HIDE DEF p
  <2>6. KInv(d) /\ Changes(p, d, {"irq", "ilock"}) BY <2>5, <1>1, DetachedKeeps
  <2> HIDE DEF d
  <2>7. {"irq", "ilock"} \cap Inheritance = {} BY DEF Inheritance
  <2>8. InheritInv(d) BY <2>5, <2>6, <2>7, InheritChange
  <2>9. d.master[m] = None BY <2>5, <2>6 DEF Changes, Fields
  <2>10. InheritInv(z) /\ Shaped(z)
    BY <1>1, <2>6, <2>8, <2>9, SlavesReleasedInherit, SlavesReleasedKeeps DEF KInv
  <2> HIDE DEF z
  <2>11. QED BY <2>3, <2>10, ScheduledInherits
<1>5. QED BY <1>3, <1>4

\* The interrupt handler (machdep.c:109-155) signals a lock.
LEMMA InterruptInherits ==
    ASSUME Inv, InheritInv(k), NEW i \in Irqs, Interrupt(i)
    PROVE  InheritInv(k')
<1> DEFINE m == k.ilock[i]
           Masked(b) == [k EXCEPT !.allowed[i] = b]
           busy == [Masked(FALSE) EXCEPT !.pending[i] = TRUE]
           F == {"pending", "allowed"}
<1>1. Shaped(k) BY DEF Inv, KInv
<1>2. Changes(k, busy, F) /\ \A b \in BOOLEAN : Changes(k, Masked(b), F)
  BY <1>1 DEF Shaped, Fields, Changes
<1>3. \A b : [Masked(FALSE) EXCEPT !.allowed[i] = b] = Masked(b)
  BY <1>1 DEF Shaped, Fields, Inv, KInv, DataInv
<1>4. \/ k' = busy
      \/ \E b \in BOOLEAN : \/ k' = Masked(b)
                            \/ k' = ScheduleIfNeeded(MutexActivate(Masked(b), m, None))
  BY <1>3 DEF Interrupt, Outcomes
<1> HIDE DEF m, Masked, busy
<1>5. F \cap Inheritance = {} BY DEF Inheritance
<1>6. CASE k' = busy BY <1>2, <1>5, <1>6, InheritChange
<1>7. ASSUME NEW b \in BOOLEAN,
             k' = Masked(b) \/ k' = ScheduleIfNeeded(MutexActivate(Masked(b), m, None))
      PROVE  InheritInv(k')
  <2> DEFINE r == Masked(b)
             z == MutexActivate(r, m, None)
  <2>1. InheritInv(r) /\ Shaped(r) BY <1>2, <1>5, InheritChange DEF Changes
  <2>2. InheritInv(z) /\ Shaped(z) BY <2>1, SignalInherits
  <2> HIDE DEF z
  <2>3. QED BY <1>7, <2>1, <2>2, ScheduledInherits DEF z
<1>8. QED BY <1>4, <1>6, <1>7

\* The end of task_delete (tdelete.c:52-59): the task is owed nothing any more.
LEMMA DeleteFinishInherits ==
    ASSUME Inv, InheritInv(k), NEW t \in Tasks, DeleteFinish(t)
    PROVE  InheritInv(k')
<1> DEFINE d   == frame[t].task
           f   == finish[d]
           msg == frame[t].message
           q   == [k EXCEPT !.base[d] = 0]
<1>1. d \in Tasks /\ BeingDeleted(d) BY Deletion DEF DeleteFinish
<1>2. KInv(k) /\ Shaped(k) /\ DataInv(k) /\ d \in AllTasks BY <1>1 DEF Inv, KInv, AllTasks
<1>3. k' = ScheduleIfNeeded(q) \/ k' = ScheduleIfNeeded(MutexActivate(q, f, msg))
  BY DEF DeleteFinish
<1>4. \A n \in Mutexes : k.lock[d] # n BY <1>1, AbsentIsFree DEF Absent
<1> HIDE DEF d, msg, f
<1>5. Changes(k, q, {"base"}) /\ q.base = [k.base EXCEPT ![d] = 0]
  BY <1>2 DEF Shaped, Fields, Changes
<1> HIDE DEF q
<1>6. /\ q.prio = k.prio /\ q.mprio = k.mprio /\ q.lock = k.lock /\ q.owned = k.owned
      /\ \A u \in AllTasks : q.base[u] = IF u = d THEN 0 ELSE k.base[u]
  BY <1>2, <1>5 DEF Changes, Fields, DataInv
<1>7. OwedBut(q, {}) BY <1>6 DEF InheritInv, OwedBut
<1>8. LocksBacked(q) BY <1>6 DEF InheritInv, LocksBacked
<1>9. OwnPriosServed(q) BY <1>4, <1>6 DEF InheritInv, OwnPriosServed
<1>10. InheritInv(q) /\ Shaped(q) BY <1>5, <1>7, <1>8, <1>9 DEF InheritInv, Changes
<1> DEFINE z == MutexActivate(q, f, msg)
<1>11. InheritInv(z) /\ Shaped(z) BY <1>10, SignalInherits
<1>12. k' = ScheduleIfNeeded(q) \/ k' = ScheduleIfNeeded(z) BY <1>3
<1> HIDE DEF z
<1>13. QED BY <1>10, <1>11, <1>12, ScheduledInherits

\* The calls that change no priority and no lock: an interrupt is attached, the
\* slots of a group are put on the lists of its locks or taken off.
LEMMA UnrelatedInherits ==
    ASSUME Inv, InheritInv(k),
           \/ \E i \in Irqs, f \in BOOLEAN : MutexAttachIrq(i, f)
           \/ \E g \in Groups : GroupListen(g) \/ GroupUnlisten(g)
    PROVE  InheritInv(k')
<1>1. Shaped(k) BY DEF Inv, KInv
<1>2. ASSUME NEW i \in Irqs, NEW f \in BOOLEAN, MutexAttachIrq(i, f) PROVE InheritInv(k')
  <2> DEFINE q == Attached(k, IrqMutex[i], i, f)
             F == {"irq", "ilock", "fast", "pending", "allowed"}
  <2>1. Changes(k, q, {"irq", "ilock", "fast", "pending"}) BY <1>1, AttachedShape
  <2>2. k' = [q EXCEPT !.allowed[i] = TRUE] BY <1>2 DEF MutexAttachIrq
  <2> HIDE DEF q
  <2>3. Changes(k, k', F) BY <2>1, <2>2 DEF Shaped, Fields, Changes
  <2>4. F \cap Inheritance = {} BY DEF Inheritance
  <2>5. QED BY <2>3, <2>4, InheritChange
<1>3. ASSUME NEW g \in Groups, GroupListen(g) \/ GroupUnlisten(g) PROVE InheritInv(k')
  <2> DEFINE F == {"groups", "gmessage"}
  <2>1. PICK gs : k' = [k EXCEPT !.groups = gs, !.gmessage[g] = [m \in Mutexes |-> None]]
    BY <1>3 DEF GroupListen, GroupUnlisten
  <2>2. Changes(k, k', F) BY <1>1, <2>1 DEF Shaped, Fields, Changes
  <2>3. F \cap Inheritance = {} BY DEF Inheritance
  <2>4. QED BY <2>2, <2>3, InheritChange
<1>4. QED BY <1>2, <1>3

\* Who runs changes, and the list the task is on.
LEMMA SwitchInherits ==
    ASSUME Inv, InheritInv(k), NEW t,
           \/ StartTasks
           \/ TaskYield(t)
           \/ \E g : GroupLoop(t, g)
    PROVE  InheritInv(k')
<1>1. Shaped(k) BY DEF Inv, KInv
<1>2. CASE StartTasks BY <1>1, <1>2, ScheduledInherits DEF StartTasks
<1>3. CASE TaskYield(t)
  <2> DEFINE q == ListAppend(k, Active, t)
  <2>1. Changes(k, q, {"list"}) BY <1>1, AppendShape
  <2>2. k' = TaskSchedule(q) BY <1>3 DEF TaskYield
  <2> HIDE DEF q
  <2>3. {"list"} \cap Inheritance = {} BY DEF Inheritance
  <2>4. InheritInv(q) /\ Shaped(q) BY <2>1, <2>3, InheritChange DEF Changes
  <2>5. QED BY <2>2, <2>4, ScheduledInherits
<1>4. ASSUME NEW g, GroupLoop(t, g) PROVE InheritInv(k')
  <2> DEFINE q == [k EXCEPT !.signalled[g] = @ \ {LastSignalled(g)}]
             u == ListUnlink(k, t)
             z == [u EXCEPT !.waiter[g] = t]
             F == {"list", "waiter", "signalled"}
  <2>1. F \cap Inheritance = {} BY DEF Inheritance
  <2>2. CASE k' = q
    <3>1. Changes(k, q, F) BY <1>1 DEF Shaped, Fields, Changes
    <3> HIDE DEF q
    <3>2. QED BY <2>1, <2>2, <3>1, InheritChange
  <2>3. CASE k' = TaskSchedule(z)
    <3>1. Changes(k, u, {"list"}) BY <1>1, UnlinkShape
    <3> HIDE DEF u
    <3>2. Changes(k, z, F) BY <3>1 DEF Shaped, Fields, Changes
    <3> HIDE DEF z
    <3>3. InheritInv(z) /\ Shaped(z) BY <2>1, <3>2, InheritChange DEF Changes
    <3>4. QED BY <2>3, <3>3, ScheduledInherits
  <2>4. QED BY <1>4, <2>2, <2>3 DEF GroupLoop
<1>5. QED BY <1>2, <1>3, <1>4

\* Every step: a call, a resumption, an interrupt.
LEMMA NextInherits ==
    ASSUME Inv, InheritInv(k), [Next]_vars
    PROVE  InheritInv(k')
<1>1. CASE StartTasks BY <1>1, SwitchInherits
<1>2. ASSUME NEW t \in Tasks, TaskCreate(t) PROVE InheritInv(k') BY <1>2, TaskCreateInherits
<1>3. ASSUME NEW t \in Tasks, Resume(t) PROVE InheritInv(k')
  <2>1. CASE ResumeLock(t) \/ ResumeLockIrq(t) BY <2>1, ResumeLockInherits
  <2>2. CASE ResumeWait(t) BY <2>2, WaitInherits
  <2>3. CASE ResumeGroupWait(t) BY <2>3, SwitchInherits DEF ResumeGroupWait
  <2>4. CASE DeleteUnlock(t) BY <2>4, UnlockCallInherits
  <2>5. CASE DeleteFinish(t) BY <2>5, DeleteFinishInherits
  <2>6. QED BY <1>3, <2>1, <2>2, <2>3, <2>4, <2>5 DEF Resume
<1>4. ASSUME NEW t \in Tasks, TaskCall(t) PROVE InheritInv(k')
  <2>1. CASE TaskYield(t) BY <2>1, SwitchInherits
  <2>2. ASSUME NEW d \in Tasks, NEW p \in SetPrios, TaskSetPriority(t, d, p)
        PROVE  InheritInv(k')
    BY <2>2, TaskSetPriorityInherits
  <2>3. ASSUME NEW d \in Tasks, NEW msg \in Messages, TaskDelete(t, d, msg)
        PROVE  InheritInv(k')
    <3>1. k' = Removed(k, d, t) BY <2>3 DEF TaskDelete, Removed
    <3>2. QED BY <3>1, RemovedInherits DEF Inv
  <2>4. QED BY <1>4, <2>1, <2>2, <2>3 DEF TaskCall
<1>5. ASSUME NEW t \in Tasks, MutexCall(t) PROVE InheritInv(k')
  <2>1. PICK m \in Locks :
          \/ MutexLock(t, m) \/ MutexTrylock(t, m) \/ MutexUnlock(t, m) \/ MutexWait(t, m)
          \/ \E msg \in Messages : MutexSignal(t, m, msg)
    BY <1>5 DEF MutexCall
  <2>2. CASE MutexLock(t, m) \/ MutexTrylock(t, m) BY <2>2, LockCallInherits
  <2>3. CASE MutexUnlock(t, m) BY <2>3, UnlockCallInherits
  <2>4. CASE MutexWait(t, m) BY <2>4, WaitInherits
  <2>5. ASSUME NEW msg \in Messages, MutexSignal(t, m, msg) PROVE InheritInv(k')
    <3> DEFINE z == MutexActivate(k, m, msg)
    <3>1. InheritInv(z) /\ Shaped(z) BY SignalInherits DEF Inv, KInv
    <3>2. k' = k \/ k' = ScheduleIfNeeded(z) BY <2>5 DEF MutexSignal
    <3> HIDE DEF z
    <3>3. QED BY <3>1, <3>2, ScheduledInherits
  <2>6. QED BY <2>1, <2>2, <2>3, <2>4, <2>5
<1>6. ASSUME NEW t \in Tasks, JoinCall(t) PROVE InheritInv(k')
  <2>1. ASSUME NEW d \in Tasks, TaskWait(t, d) PROVE InheritInv(k') BY <2>1, LockCallInherits
  <2>2. CASE TaskWaitTest(t) BY <2>2 DEF TaskWaitTest
  <2>3. CASE TaskWaitSleep(t) BY <2>3, WaitInherits
  <2>4. CASE TaskWaitReturn(t) BY <2>4, UnlockCallInherits
  <2>5. QED BY <1>6, <2>1, <2>2, <2>3, <2>4 DEF JoinCall
<1>7. ASSUME NEW t \in Tasks, IrqCall(t) PROVE InheritInv(k')
  <2>1. ASSUME NEW i \in Irqs, NEW f \in BOOLEAN, MutexLockIrq(t, i, f) PROVE InheritInv(k')
    BY <2>1, LockCallInherits
  <2>2. ASSUME NEW m \in Locks, MutexUnlockIrq(t, m) PROVE InheritInv(k')
    BY <2>2, MutexUnlockIrqInherits
  <2>3. QED BY <1>7, <2>1, <2>2 DEF IrqCall
<1>8. ASSUME NEW t \in Tasks, NEW g \in Groups, GroupWait(t, g) PROVE InheritInv(k')
  BY <1>8, SwitchInherits DEF GroupWait
<1>9. ASSUME NEW g \in Groups, GroupListen(g) \/ GroupUnlisten(g) PROVE InheritInv(k')
  BY <1>9, UnrelatedInherits
<1>10. ASSUME NEW i \in Irqs, NEW f \in BOOLEAN, MutexAttachIrq(i, f) PROVE InheritInv(k')
  BY <1>10, UnrelatedInherits
<1>11. ASSUME NEW i \in Irqs, Interrupt(i) PROVE InheritInv(k') BY <1>11, InterruptInherits
<1>12. CASE UNCHANGED vars BY <1>12 DEF vars
<1>13. QED
  BY <1>1, <1>2, <1>3, <1>4, <1>5, <1>6, <1>7, <1>8, <1>9, <1>10, <1>11, <1>12 DEF Next

\* At boot only the idle task exists, of priority 0, and no lock is taken.
LEMMA InitInherits == Init => InheritInv(k)
<1> SUFFICES ASSUME Init PROVE InheritInv(k) OBVIOUS
<1>1. /\ k.base = [t \in AllTasks |-> 0] /\ k.lock = [t \in AllTasks |-> None]
      /\ k.mprio = [m \in Mutexes |-> 0]
  BY DEF Init, KernelInit
<1>2. \A m \in Mutexes : m # None BY KernelConstants
<1>3. QED BY <1>1, <1>2 DEF InheritInv, OwedBut, LocksBacked, OwnPriosServed

-----------------------------------------------------------------------------
(***************************************************************************)
(* The invariant of all the variables, and what follows from it.           *)
(***************************************************************************)
PInv == Inv /\ Best(k) /\ InheritInv(k)

LEMMA PrioritiesInductive ==
    ASSUME "delete_group_waiter" \notin Misuse
    PROVE  Spec => []PInv
<1>1. Init => PInv BY InitInv, InitBest, InitInherits DEF PInv
<1>2. PInv /\ [Next]_vars => PInv'
  <2> SUFFICES ASSUME PInv, [Next]_vars PROVE PInv' OBVIOUS
  <2>1. Inv' BY NextInv DEF PInv
  <2>2. Best(k') BY <2>1, NextBest DEF PInv
  <2>3. InheritInv(k') BY NextInherits DEF PInv
  <2>4. QED BY <2>1, <2>2, <2>3 DEF PInv
<1>3. QED BY <1>1, <1>2, PTL DEF Spec

\* Outside the kernel and with no reschedule due, the running task has the
\* biggest priority of the ready tasks (task_policy, internal.h:128-142): no call
\* and no interrupt makes a better task ready, raises one or lowers the running
\* one, along a chain of blocked tasks of any length, and forgets the reschedule.
THEOREM BestTaskAlwaysRuns ==
    ASSUME "delete_group_waiter" \notin Misuse
    PROVE  Spec => []BestTaskRuns
<1>1. PInv => BestTaskRuns BY DEF PInv, Best, Leads, BestTaskRuns
<1>2. QED BY <1>1, PrioritiesInductive, PTL

\* A task has the maximum of its own priority and of those of the locks it holds
\* (task_recalculate_prio, mutex.c:100-140), whatever was locked, released, waited
\* for, reprioritised or deleted along the chain of the tasks it blocks.
THEOREM TasksInheritPriorities ==
    ASSUME "delete_group_waiter" \notin Misuse
    PROVE  Spec => []TaskPrioIsInherited
<1>1. PInv => TaskPrioIsInherited
  <2> SUFFICES ASSUME PInv, NEW t \in Tasks, Alive(t)
               PROVE  k.prio[t] = Max({k.base[t]} \cup {k.mprio[m] : m \in Range(k.owned[t])})
    BY DEF TaskPrioIsInherited
  <2> DEFINE O == Range(k.owned[t])
  <2>1. /\ t \in AllTasks /\ k.base[t] \in Prios /\ k.prio[t] \in Prios
        /\ k.mprio \in [Mutexes -> Prios] /\ k.owned[t] \in Seq(Mutexes)
    BY DEF AllTasks, PInv, Inv, KInv, DataInv, OwnerInv, OwnerType
  <2>2. O \subseteq Mutexes BY <2>1, RangeOfLine
  <2>3. Owed(k.prio[t], k.base[t], k.mprio, O)
    BY <2>1 DEF Alive, PInv, InheritInv, OwedBut
  <2> HIDE DEF O
  <2>4. k.prio[t] = MaxWith(k.base[t], k.mprio, O) BY <2>1, <2>2, <2>3, OwedIsMax
  <2>5. QED BY <2>4 DEF MaxWith, O
<1>2. QED BY <1>1, PrioritiesInductive, PTL

\* A lock has no priority that no task blocked on it has (mutex.c:142-170, 215-220,
\* msignal.c:108, tdelete.c:37-40): nobody stays raised for a task that is gone.
THEOREM LocksDropPriorities ==
    ASSUME "delete_group_waiter" \notin Misuse
    PROVE  Spec => []LockPrioIsBacked
<1>1. PInv => LockPrioIsBacked
  <2> SUFFICES ASSUME PInv, NEW m \in Mutexes PROVE k.mprio[m] <= BlockedPrio(m)
    BY DEF LockPrioIsBacked
  <2> DEFINE S == Range(k.list[Slaves(m)])
             x == Max({0} \cup {k.prio[t] : t \in S})
  <2>1. ListInv(k) /\ k.prio \in [AllTasks -> Prios] /\ k.mprio[m] \in Prios
    BY DEF PInv, Inv, KInv, DataInv
  <2>2. S \subseteq AllTasks /\ \A t \in AllTasks : k.lock[t] = m <=> t \in S
    BY <2>1, SlavesOfLock
  <2> HIDE DEF S
  <2>3. x \in Prios /\ \A t \in S : k.prio[t] <= x BY <2>1, <2>2, SlavesMax
  <2> HIDE DEF x
  <2>4. \A p \in Prios : p \in Nat BY KernelParameters DEF Prios
  <2>5. k.mprio[m] <= x
    <3>1. CASE k.mprio[m] = 0 BY <3>1, <2>3, <2>4
    <3>2. CASE k.mprio[m] # 0
      <4>1. PICK t \in AllTasks : k.lock[t] = m /\ k.prio[t] >= k.mprio[m]
        BY <3>2 DEF PInv, InheritInv, LocksBacked
      <4>2. k.prio[t] \in Nat /\ x \in Nat /\ k.mprio[m] \in Nat /\ k.prio[t] <= x
        BY <4>1, <2>1, <2>2, <2>3, <2>4
      <4>3. QED BY <4>1, <4>2
    <3>3. QED BY <3>1, <3>2
  <2>6. QED BY <2>5 DEF BlockedPrio, x, S
<1>2. QED BY <1>1, PrioritiesInductive, PTL

\* While a task is blocked on a lock whose master is ready, no task runs whose
\* priority is below that of the lock, nor, unless task_set_priority is called,
\* below the blocked task's own (mutex.c:58-74): no third task delays it.
THEOREM NobodyInvertsPriorities ==
    ASSUME "delete_group_waiter" \notin Misuse
    PROVE  Spec => []InversionIsBounded
<1>1. PInv => InversionIsBounded
  <2> SUFFICES ASSUME PInv, NEW t \in Tasks, k.lock[t] # None,
                      frame[k.current] = User, ~k.need,
                      k.master[k.lock[t]] \in Range(k.list[Active])
               PROVE  /\ k.prio[k.current] >= k.mprio[k.lock[t]]
                      /\ SetPrios = {} => k.prio[k.current] >= k.base[t]
    BY DEF InversionIsBounded
  <2> DEFINE m == k.lock[t]
             M == k.master[m]
             r == k.current
  <2>1. /\ DataInv(k) /\ ListInv(k) /\ OwnerInv(k) /\ t \in AllTasks
        /\ r \in AllTasks /\ AbsentInv /\ InheritInv(k)
    BY DEF PInv, Inv, KInv, DataInv, AllTasks
  <2>2. m \in Mutexes /\ M \in Tasks /\ M \in AllTasks
    <3>1. m \in Mutexes BY <2>1 DEF ListInv, OrNone
    <3>2. k.list[Active] \in Seq(AllTasks) BY <2>1, HeadsDiffer DEF ListInv, Separate
    <3>3. M \in AllTasks BY <3>2, RangeOfLine
    <3>4. M \in OrNone(Tasks) BY <2>1, <3>1 DEF OwnerInv, OwnerType
    <3>5. QED BY <3>1, <3>3, <3>4, KernelConstants DEF OrNone
  <2>3. m \in Range(k.owned[M]) BY <2>1, <2>2 DEF OwnerInv, OwnedByMaster
  <2>4. k.base[M] # 0
    <3>1. Present(k, M) BY HeadsDiffer DEF Present, Linked
    <3>2. QED BY <2>1, <2>2, <3>1 DEF AbsentInv
  <2>5. k.prio[M] >= k.mprio[m]
    BY <2>1, <2>2, <2>3, <2>4 DEF InheritInv, OwedBut, Owed
  <2>6. k.prio[M] <= k.prio[r] BY DEF PInv, Best, Leads
  <2>7. SetPrios = {} => k.base[t] <= k.mprio[m]
    BY <2>1, <2>2 DEF InheritInv, OwnPriosServed
  <2>8. k.prio[M] \in Nat /\ k.prio[r] \in Nat /\ k.mprio[m] \in Nat /\ k.base[t] \in Nat
    <3>1. \A p \in Prios : p \in Nat BY KernelParameters DEF Prios
    <3>2. QED BY <2>1, <2>2, <3>1 DEF DataInv
  <2> HIDE DEF m, M, r
  <2>9. k.prio[r] >= k.mprio[m] /\ (SetPrios = {} => k.prio[r] >= k.base[t])
    BY <2>5, <2>6, <2>7, <2>8
  <2>10. QED BY <2>9 DEF m, r
<1>2. QED BY <1>1, PrioritiesInductive, PTL
=============================================================================
