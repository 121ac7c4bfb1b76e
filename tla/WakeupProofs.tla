---------------------------- MODULE WakeupProofs ----------------------------
(***************************************************************************)
(* No task is lost, no signal to a group is lost, no interrupt stays       *)
(* pending on a free lock, and a task that waits for an interrupt finds it *)
(* unmasked.  The first two need that the task that waits for a group is   *)
(* in mutex_group_wait of that group, alone; the others that an interrupt  *)
(* and its lock point to each other.  Each function of the kernel is       *)
(* reduced to what it does to these; each action then keeps them, beside   *)
(* the invariant of KernelProofs.                                          *)
(*                                                                         *)
(* And every mutex of the kernel implements Monitor: what a library may    *)
(* rely on when it locks, waits and signals.                               *)
(***************************************************************************)
EXTENDS KernelProofs, FiniteSetTheorems

InGroupWait(t) == frame[t].at = "mutex_group_wait"

\* Who waits for a group, and what wakes it.
GroupsInv ==
    /\ \A g \in Groups : k.waiter[g] # None =>
          k.signalled[g] = {} /\ frame[k.waiter[g]] = WaitingGroup(g)
    /\ \A t \in Tasks, g \in Groups :
          frame[t] = WaitingGroup(g) /\ k.waiter[g] # t => k.signalled[g] # {}
    /\ \A t, u \in Tasks : InGroupWait(t) /\ frame[t] = frame[u] => t = u

AliveInv == \A t \in Tasks : Alive(t) => Present(k, t)

\* An interrupt that is attached and its lock point to each other; it is
\* pending only if somebody will release that lock.
IrqInv(s) ==
    /\ \A i \in Irqs : s.ilock[i] # None =>
          s.ilock[i] = IrqMutex[i] /\ s.irq[IrqMutex[i]] = i
    /\ \A m \in Mutexes : s.irq[m] # None => s.ilock[s.irq[m]] = m
    /\ \A i \in Irqs : s.pending[i] => s.ilock[i] # None /\ s.master[IrqMutex[i]] # None

WakeInv == GroupsInv /\ AliveInv /\ IrqInv(k)

-----------------------------------------------------------------------------
(***************************************************************************)
(* What the functions do to the tasks and the groups.                      *)
(***************************************************************************)
\* Nobody is dropped but t, and whoever is woken from a group finds a signal.
StaysBut(s, r, t) ==
    /\ \A u \in AllTasks \ {t} : Present(s, u) => Present(r, u)
    /\ \A g \in Groups :
          \/ r.waiter[g] = s.waiter[g] /\ r.signalled[g] = s.signalled[g]
          \/ r.waiter[g] = None /\ r.signalled[g] # {}

Stays(s, r) == StaysBut(s, r, None)

\* One function after the other.
LEMMA StaysTrans ==
    ASSUME NEW s, NEW q, NEW r, Stays(s, q), Stays(q, r)
    PROVE  Stays(s, r)
BY DEF Stays, StaysBut

WakeFields == {"list", "waiter", "signalled"}

\* Any other field may change.
LEMMA StaysChange ==
    ASSUME NEW s, NEW r, NEW F, Changes(s, r, F), F \cap WakeFields = {}
    PROVE  Stays(s, r)
<1>1. WakeFields \subseteq Fields BY DEF WakeFields, Fields
<1>2. \A f \in WakeFields : r[f] = s[f] BY <1>1 DEF Changes
<1>3. r.list = s.list /\ r.waiter = s.waiter /\ r.signalled = s.signalled
  BY <1>2 DEF WakeFields
<1>4. QED BY <1>3 DEF Stays, StaysBut, Present, Linked

\* The lists change, and hold whom they held.
LEMMA StaysLists ==
    ASSUME NEW s, NEW r, r.waiter = s.waiter, r.signalled = s.signalled,
           \A u \in AllTasks : Linked(s, u) => Linked(r, u)
    PROVE  Stays(s, r)
BY DEF Stays, StaysBut, Present

\* The scheduler switches, or not.
LEMMA StaysScheduled ==
    ASSUME NEW s, Shaped(s)
    PROVE  Stays(s, TaskSchedule(s)) /\ Stays(s, ScheduleIfNeeded(s))
BY ScheduleShape, ScheduleIfNeededShape, StaysChange DEF WakeFields

\* list_append takes the task off one list and puts it on another.
LEMMA StaysAppended ==
    ASSUME NEW s, Shaped(s), Separate(s.list), NEW t \in AllTasks, NEW hd \in Heads
    PROVE  Stays(s, ListAppend(s, hd, t))
<1> DEFINE r == ListAppend(s, hd, t)
<1>1. AppendedTo(s.list, r.list, hd, t) BY AppendLists
<1>2. Changes(s, r, {"list"}) BY AppendShape
<1> HIDE DEF r
<1>3. r.waiter = s.waiter /\ r.signalled = s.signalled BY <1>2 DEF Changes, Fields
<1>4. \A u \in AllTasks : Linked(s, u) => Linked(r, u) BY <1>1 DEF AppendedTo, Linked
<1>5. QED BY <1>3, <1>4, StaysLists DEF r

\* All tasks of a list become ready.
LEMMA StaysMoved ==
    ASSUME NEW s, Shaped(s), Separate(s.list), NEW hd \in Heads, hd # Active
    PROVE  LET r == Moved(s, hd) IN Stays(s, r) /\ Changes(s, r, {"list", "need"})
<1> DEFINE r == Moved(s, hd)
<1>1. /\ Changes(s, r, {"list", "need"})
      /\ Range(r.list[Active]) = Range(s.list[Active]) \cup Range(s.list[hd])
      /\ \A h \in Heads \ {hd, Active} : Range(r.list[h]) = Range(s.list[h])
  BY MovedLists
<1> HIDE DEF r
<1>2. r.waiter = s.waiter /\ r.signalled = s.signalled BY <1>1 DEF Changes, Fields
<1>3. ASSUME NEW u \in AllTasks, Linked(s, u) PROVE Linked(r, u)
  <2>1. PICK h \in Heads : u \in Range(s.list[h]) BY <1>3 DEF Linked
  <2>2. CASE h \in {hd, Active} BY <1>1, <2>1, <2>2, HeadsDiffer DEF Linked
  <2>3. CASE h \notin {hd, Active} BY <1>1, <2>1, <2>3 DEF Linked
  <2>4. QED BY <2>2, <2>3
<1>4. QED BY <1>1, <1>2, <1>3, StaysLists DEF r

\* The waiters of a lock (main.c:61-69).
LEMMA StaysWaiters ==
    ASSUME NEW s, KInv(s), NEW m \in Mutexes, NEW msg
    PROVE  Stays(s, WaitersActivated(s, m, msg))
<1> DEFINE w == s.list[Waiters(m)]
           q == Moved(s, Waiters(m))
           r == WaitersActivated(s, m, msg)
<1>1. Shaped(s) /\ Separate(s.list) BY DEF KInv, ListInv
<1>2. Stays(s, q) /\ Changes(s, q, {"list", "need"}) BY <1>1, StaysMoved, HeadsDiffer
<1>3. r = [q EXCEPT
            !.wait    = [t \in AllTasks |-> IF t \in Range(w) THEN None ELSE @[t]],
            !.message = [t \in AllTasks |-> IF t \in Range(w) THEN msg ELSE @[t]]]
  BY DEF WaitersActivated, Moved, Emptied
<1> HIDE DEF q, r, w
<1>4. Changes(q, r, {"wait", "message"}) BY <1>2, <1>3 DEF Shaped, Fields, Changes
<1>5. Stays(q, r) BY <1>4, StaysChange DEF WakeFields
<1>6. QED BY <1>2, <1>5, StaysTrans DEF r

\* The groups that listen on a lock (main.c:71-82).
LEMMA StaysGroups ==
    ASSUME NEW s, KInv(s), NEW m \in Mutexes, NEW msg
    PROVE  Stays(s, GroupsActivated(s, m, msg))
<1> DEFINE w  == GroupsWoken(s, m)
           gs == Range(s.groups[m])
           q  == TaskActivate(s, w)
           r  == GroupsActivated(s, m, msg)
<1>1. /\ Shaped(s) /\ ListInv(s) /\ WaiterInv(s) /\ Separate(s.list)
      /\ s.signalled \in [Groups -> SUBSET Mutexes]
      /\ s.waiter \in [Groups -> OrNone(Tasks)]
  BY DEF KInv, ListInv, WaiterInv, DataInv
<1>2. Line(w, AllTasks) /\ Range(w) = {s.waiter[g] : g \in gs} \ {None}
  BY <1>1, GroupsWokenLine
<1>3. \A h \in Heads : Range(s.list[h]) \cap Range(w) = {}
  <2>1. \A g \in Groups, h \in Heads : s.waiter[g] # None => s.waiter[g] \notin Range(s.list[h])
    BY <1>1 DEF WaiterInv, Linked
  <2>2. gs \subseteq Groups BY <1>1, RangeOfLine DEF WaiterInv
  <2>3. QED BY <2>1, <2>2, <1>2
<1>4. r = [q EXCEPT
            !.signalled = [g \in Groups |-> IF g \in gs THEN @[g] \cup {m} ELSE @[g]],
            !.gmessage  = [g \in Groups |-> IF g \in gs THEN [@[g] EXCEPT ![m] = msg]
                                            ELSE @[g]],
            !.waiter    = [g \in Groups |-> IF g \in gs THEN None ELSE @[g]]]
  BY DEF GroupsActivated
<1> HIDE DEF w, gs
<1>5. /\ Changes(s, q, {"list", "need"})
      /\ \A h \in Heads : Range(q.list[h]) = IF h = Active THEN Range(s.list[h]) \cup Range(w)
                                             ELSE Range(s.list[h])
  BY <1>1, <1>2, <1>3, ActivateShape, ActivateLists
<1> HIDE DEF q, r
<1>6. Changes(q, r, {"signalled", "gmessage", "waiter"})
  BY <1>4, <1>5 DEF Shaped, Fields, Changes
<1>7. /\ r.signalled = [g \in Groups |-> IF g \in gs THEN q.signalled[g] \cup {m}
                                         ELSE q.signalled[g]]
      /\ r.waiter = [g \in Groups |-> IF g \in gs THEN None ELSE q.waiter[g]]
  BY <1>4, <1>5 DEF Shaped, Fields, Changes
<1>8. q.signalled = s.signalled /\ q.waiter = s.waiter /\ r.list = q.list
  BY <1>5, <1>6 DEF Changes, Fields
<1>9. ASSUME NEW u \in AllTasks, Present(s, u) PROVE Present(r, u)
  <2>1. CASE Linked(s, u) BY <1>5, <1>8, <2>1 DEF Present, Linked
  <2>2. ASSUME NEW g \in Groups, s.waiter[g] = u PROVE Present(r, u)
    <3>1. CASE g \in gs
      <4>1. u \in Range(w) BY <1>2, <2>2, <3>1, KernelConstants
      <4>2. QED BY <1>5, <1>8, <4>1, HeadsDiffer DEF Present, Linked
    <3>2. CASE g \notin gs BY <1>7, <1>8, <2>2, <3>2 DEF Present
    <3>3. QED BY <3>1, <3>2
  <2>3. QED BY <1>9, <2>1, <2>2 DEF Present
<1>10. \A g \in Groups :
          \/ r.waiter[g] = s.waiter[g] /\ r.signalled[g] = s.signalled[g]
          \/ r.waiter[g] = None /\ r.signalled[g] # {}
  BY <1>7, <1>8
<1>11. QED BY <1>9, <1>10 DEF Stays, StaysBut, r

\* mutex_activate.
LEMMA StaysSignalled ==
    ASSUME NEW s, KInv(s), NEW m \in Mutexes, NEW msg \in OrNone(Messages)
    PROVE  Stays(s, MutexActivate(s, m, msg))
<1> DEFINE q == WaitersActivated(s, m, msg)
<1>1. KInv(q) /\ Stays(s, q) BY WaitersActivatedKeeps, StaysWaiters
<1> HIDE DEF q
<1>2. Stays(q, GroupsActivated(q, m, msg)) BY <1>1, StaysGroups
<1>3. MutexActivate(s, m, msg) = GroupsActivated(q, m, msg) BY DEF MutexActivate, q
<1>4. QED BY <1>1, <1>2, <1>3, StaysTrans

\* The tasks blocked on a lock (mutex.c:215-221).
LEMMA StaysSlaves ==
    ASSUME NEW s, KInv(s), NEW m \in Mutexes
    PROVE  Stays(s, SlavesActivated(s, m)) /\ Stays(s, SlavesReleased(s, m))
<1> DEFINE w == s.list[Slaves(m)]
           q == Moved(s, Slaves(m))
           r == SlavesActivated(s, m)
           z == [r EXCEPT !.mprio[m] = 0]
<1>1. Shaped(s) /\ Separate(s.list) BY DEF KInv, ListInv
<1>2. Stays(s, q) /\ Changes(s, q, {"list", "need"}) BY <1>1, StaysMoved, HeadsDiffer
<1>3. r = [q EXCEPT !.lock = [t \in AllTasks |-> IF t \in Range(w) THEN None ELSE @[t]]]
  BY DEF SlavesActivated, Moved, Emptied
<1>4. SlavesReleased(s, m) \in {s, z} BY DEF SlavesReleased
<1>5. Stays(s, s) BY DEF Stays, StaysBut
<1> HIDE DEF q, r, w
<1>6. Changes(q, r, {"lock"}) BY <1>2, <1>3 DEF Shaped, Fields, Changes
<1>7. Changes(r, z, {"mprio"}) BY <1>6 DEF Shaped, Fields, Changes
<1> HIDE DEF z
<1>8. Stays(q, r) /\ Stays(r, z) BY <1>6, <1>7, StaysChange DEF WakeFields
<1>9. Stays(s, r) /\ Stays(s, z) BY <1>2, <1>8, StaysTrans
<1>10. QED BY <1>4, <1>5, <1>9 DEF r

\* A pending interrupt is a signal, or nothing (mutex.c:204-211).
LEMMA StaysServed ==
    ASSUME NEW s, KInv(s), NEW m \in Mutexes, NEW outcome \in Outcomes
    PROVE  Stays(s, PendingServed(s, m, outcome))
<1> DEFINE i == s.irq[m]
           q == HandlerCalled(s, i, outcome)
           a == MutexActivate(q, m, None)
<1>1. Stays(s, s) BY DEF Stays, StaysBut
<1>2. ASSUME i # None PROVE Stays(s, q) /\ Stays(s, a)
  <2>1. i \in Irqs BY <1>2 DEF KInv, DataInv, OrNone
  <2> HIDE DEF i
  <2>2. KInv(q) /\ Changes(s, q, {"pending", "allowed"})
    BY <2>1, HandlerKeeps, HandlerShape DEF KInv
  <2> HIDE DEF q
  <2>3. Stays(s, q) BY <2>2, StaysChange DEF WakeFields
  <2>4. Stays(q, a) BY <2>2, StaysSignalled DEF OrNone
  <2>5. QED BY <2>3, <2>4, StaysTrans
<1>3. PendingServed(s, m, outcome) = s \/ (i # None /\ PendingServed(s, m, outcome) \in {q, a})
  BY DEF PendingServed
<1>4. QED BY <1>1, <1>2, <1>3

-----------------------------------------------------------------------------
(***************************************************************************)
(* What the functions do to the interrupts.                                *)
(***************************************************************************)
\* No interrupt becomes pending, and no lock is released.
IrqStays(s, r) ==
    /\ r.irq = s.irq /\ r.ilock = s.ilock
    /\ \A i \in Irqs : r.pending[i] => s.pending[i]
    /\ \A m \in Mutexes : s.master[m] # None => r.master[m] # None

IrqFields == {"irq", "ilock", "pending", "master"}

\* Such a step keeps the invariant.
LEMMA IrqKept ==
    ASSUME NEW s, NEW r, IrqInv(s), IrqStays(s, r)
    PROVE  IrqInv(r)
<1>1. \A i \in Irqs : IrqMutex[i] \in Mutexes BY KernelParameters
<1>2. QED BY <1>1 DEF IrqInv, IrqStays

\* Any other field may change.
LEMMA IrqChange ==
    ASSUME NEW s, NEW r, NEW F, Changes(s, r, F), F \cap IrqFields = {}
    PROVE  IrqStays(s, r)
<1>1. IrqFields \subseteq Fields BY DEF IrqFields, Fields
<1>2. \A f \in IrqFields : r[f] = s[f] BY <1>1 DEF Changes
<1>3. r.irq = s.irq /\ r.ilock = s.ilock /\ r.pending = s.pending /\ r.master = s.master
  BY <1>2 DEF IrqFields
<1>4. QED BY <1>3 DEF IrqStays

\* The fast handler is called: the interrupt is pending no more.
LEMMA HandlerIrqs ==
    ASSUME NEW s, KInv(s), NEW i \in Irqs, NEW outcome \in Outcomes
    PROVE  LET r == HandlerCalled(s, i, outcome)
           IN  /\ IrqStays(s, r) /\ r.master = s.master
               /\ r.pending = [s.pending EXCEPT ![i] = FALSE]
<1> DEFINE r == HandlerCalled(s, i, outcome)
<1>1. Shaped(s) /\ s.pending \in [Irqs -> BOOLEAN] BY DEF KInv, DataInv
<1>2. Changes(s, r, {"pending", "allowed"}) /\ r.pending = [s.pending EXCEPT ![i] = FALSE]
  BY <1>1 DEF Shaped, Fields, Changes, HandlerCalled
<1> HIDE DEF r
<1>3. r.irq = s.irq /\ r.ilock = s.ilock /\ r.master = s.master BY <1>2 DEF Changes, Fields
<1>4. QED BY <1>1, <1>2, <1>3 DEF IrqStays, r

\* A release serves the interrupt of the lock, if it is pending (mutex.c:204-211).
LEMMA ServedIrqs ==
    ASSUME NEW s, KInv(s), NEW m \in Mutexes, NEW outcome \in Outcomes
    PROVE  LET r == PendingServed(s, m, outcome)
           IN  /\ IrqStays(s, r) /\ r.master = s.master
               /\ \A i \in Irqs : r.pending[i] => s.irq[m] # i
<1> DEFINE i == s.irq[m]
           q == HandlerCalled(s, i, outcome)
           a == MutexActivate(q, m, None)
           r == PendingServed(s, m, outcome)
<1>1. CASE i = None \/ ~s.pending[i]
  <2>1. r = s BY <1>1 DEF PendingServed
  <2>2. None \notin Irqs BY KernelConstants
  <2>3. QED BY <1>1, <2>1, <2>2 DEF IrqStays
<1>2. CASE ~(i = None \/ ~s.pending[i])
  <2>1. i \in Irqs BY <1>2 DEF KInv, DataInv, OrNone
  <2>2. r \in {q, a} BY <1>2 DEF PendingServed
  <2>3. /\ KInv(q) /\ IrqStays(s, q) /\ q.master = s.master
        /\ q.pending = [s.pending EXCEPT ![i] = FALSE]
    BY <2>1, HandlerKeeps, HandlerIrqs
  <2>4. s.pending \in [Irqs -> BOOLEAN] BY DEF KInv, DataInv
  <2>5. \A j \in Irqs : q.pending[j] => i # j BY <2>3, <2>4
  <2> HIDE DEF q
  <2>6. Changes(q, a, Woken) BY <2>3, MutexActivateShape DEF KInv
  <2> HIDE DEF a
  <2>7. /\ a.irq = q.irq /\ a.ilock = q.ilock
        /\ a.pending = q.pending /\ a.master = q.master
    BY <2>6 DEF Changes, Fields, Woken
  <2>8. QED BY <2>2, <2>3, <2>5, <2>7 DEF IrqStays
<1>3. QED BY <1>1, <1>2

\* The interrupt is detached from a free lock (irelease.c:63-65).
LEMMA DetachedIrqs ==
    ASSUME NEW s, KInv(s), IrqInv(s), NEW m \in Mutexes, s.master[m] = None
    PROVE  IrqInv(Detached(s, m))
<1> DEFINE i == s.irq[m]
           r == [s EXCEPT !.ilock[i] = None, !.irq[m] = None]
<1>1. CASE i = None BY <1>1 DEF Detached
<1>2. CASE i # None
  <2>1. /\ Shaped(s) /\ s.ilock \in [Irqs -> OrNone(Locks)] /\ s.irq \in [Mutexes -> OrNone(Irqs)]
        /\ i \in Irqs
    BY <1>2 DEF KInv, DataInv, OrNone
  <2>2. s.ilock[i] = m /\ m # None BY <1>2, KernelConstants DEF IrqInv
  <2>3. IrqMutex[i] = m BY <2>1, <2>2 DEF IrqInv
  <2>4. \A j \in Irqs : IrqMutex[j] \in Mutexes /\ j # None BY KernelParameters, KernelConstants
  <2>5. Detached(s, m) = r BY <1>2 DEF Detached
  <2>6. s.irq[m] = i OBVIOUS
  <2> HIDE DEF i
  <2>7. /\ r.ilock = [s.ilock EXCEPT ![i] = None] /\ r.irq = [s.irq EXCEPT ![m] = None]
        /\ r.pending = s.pending /\ r.master = s.master
    BY <2>1 DEF Shaped, Fields
  <2> HIDE DEF r
  <2>8. /\ \A j \in Irqs : r.ilock[j] = IF j = i THEN None ELSE s.ilock[j]
        /\ \A n \in Mutexes : r.irq[n] = IF n = m THEN None ELSE s.irq[n]
    BY <2>1, <2>7
  <2>9. ASSUME NEW j \in Irqs, r.ilock[j] # None
        PROVE  r.ilock[j] = IrqMutex[j] /\ r.irq[IrqMutex[j]] = j
    <3>1. j # i /\ s.ilock[j] = IrqMutex[j] /\ s.irq[IrqMutex[j]] = j
      BY <2>8, <2>9 DEF IrqInv
    <3>2. IrqMutex[j] # m BY <2>6, <3>1
    <3>3. QED BY <2>4, <2>8, <3>1, <3>2
  <2>10. ASSUME NEW n \in Mutexes, r.irq[n] # None PROVE r.ilock[r.irq[n]] = n
    <3>1. n # m /\ r.irq[n] = s.irq[n] /\ s.ilock[s.irq[n]] = n BY <2>8, <2>10 DEF IrqInv
    <3>2. s.irq[n] \in Irqs BY <2>1, <2>10, <3>1 DEF OrNone
    <3>3. s.irq[n] # i BY <2>2, <3>1
    <3>4. QED BY <2>8, <3>1, <3>2, <3>3
  <2>11. ASSUME NEW j \in Irqs, r.pending[j]
         PROVE  r.ilock[j] # None /\ r.master[IrqMutex[j]] # None
    <3>1. s.ilock[j] # None /\ s.master[IrqMutex[j]] # None BY <2>7, <2>11 DEF IrqInv
    <3>2. j # i BY <2>3, <3>1
    <3>3. QED BY <2>7, <2>8, <3>1, <3>2
  <2>12. QED BY <2>5, <2>9, <2>10, <2>11 DEF IrqInv
<1>3. QED BY <1>1, <1>2

\* An interrupt is attached to its lock (itake.c:80-88).
LEMMA AttachedIrqs ==
    ASSUME NEW s, KInv(s), IrqInv(s), NEW i \in Irqs, NEW b
    PROVE  IrqInv(Attached(s, IrqMutex[i], i, b))
<1> DEFINE m == IrqMutex[i]
           r == Attached(s, m, i, b)
<1>1. /\ Shaped(s) /\ s.ilock \in [Irqs -> OrNone(Locks)] /\ s.irq \in [Mutexes -> OrNone(Irqs)]
      /\ s.pending \in [Irqs -> BOOLEAN]
  BY DEF KInv, DataInv
<1>2. \A j \in Irqs : IrqMutex[j] \in Mutexes /\ IrqMutex[j] # None /\ j # None
  BY KernelParameters, KernelConstants
<1>3. \A j \in Irqs : IrqMutex[j] = m => j = i BY KernelParameters
<1>4. m \in Mutexes BY <1>2
<1> HIDE DEF m
<1>5. /\ r.irq = [s.irq EXCEPT ![m] = i] /\ r.ilock = [s.ilock EXCEPT ![i] = m]
      /\ r.pending = [s.pending EXCEPT ![i] = FALSE] /\ r.master = s.master
  BY <1>1 DEF Shaped, Fields, Attached
<1> HIDE DEF r
<1>6. /\ \A j \in Irqs : r.ilock[j] = IF j = i THEN m ELSE s.ilock[j]
      /\ \A n \in Mutexes : r.irq[n] = IF n = m THEN i ELSE s.irq[n]
      /\ \A j \in Irqs : r.pending[j] => j # i /\ s.pending[j]
  BY <1>1, <1>4, <1>5
<1>7. ASSUME NEW j \in Irqs, r.ilock[j] # None
      PROVE  r.ilock[j] = IrqMutex[j] /\ r.irq[IrqMutex[j]] = j
  BY <1>2, <1>3, <1>6, <1>7 DEF IrqInv, m
<1>8. ASSUME NEW n \in Mutexes, r.irq[n] # None PROVE r.ilock[r.irq[n]] = n
  <2>1. CASE n = m BY <1>6, <2>1
  <2>2. CASE n # m
    <3>1. r.irq[n] = s.irq[n] /\ s.ilock[s.irq[n]] = n BY <1>6, <1>8, <2>2 DEF IrqInv
    <3>2. s.irq[n] \in Irqs BY <1>1, <1>8, <3>1 DEF OrNone
    <3>3. n # None BY KernelConstants
    <3>4. IrqMutex[s.irq[n]] = n BY <3>1, <3>2, <3>3 DEF IrqInv
    <3>5. s.irq[n] # i BY <2>2, <3>4 DEF m
    <3>6. QED BY <1>6, <3>1, <3>2, <3>5
  <2>3. QED BY <2>1, <2>2
<1>9. ASSUME NEW j \in Irqs, r.pending[j]
      PROVE  r.ilock[j] # None /\ r.master[IrqMutex[j]] # None
  BY <1>5, <1>6, <1>9 DEF IrqInv
<1>10. QED BY <1>7, <1>8, <1>9 DEF IrqInv, r, m

-----------------------------------------------------------------------------
(***************************************************************************)
(* A lock is given back, or given up in mutex_wait.                        *)
(***************************************************************************)
\* m is free, and its interrupt is not pending.
LEMMA FreedIrqs ==
    ASSUME NEW s, NEW r, NEW m \in Mutexes, IrqInv(s), r.irq = s.irq, r.ilock = s.ilock,
           \A i \in Irqs : r.pending[i] => s.pending[i] /\ s.irq[m] # i,
           \A n \in Mutexes : n # m /\ s.master[n] # None => r.master[n] # None
    PROVE  IrqInv(r)
<1>1. \A i \in Irqs : IrqMutex[i] \in Mutexes BY KernelParameters
<1>2. QED BY <1>1 DEF IrqInv

\* The release of a lock, its interrupt detached or not (mutex.c:187-221,
\* irelease.c:40-76).
LEMMA ReleaseWakes ==
    ASSUME NEW s, KInv(s), IrqInv(s), NEW m \in Mutexes, s.master[m] # None,
           NEW outcome \in Outcomes, NEW d,
           LET p == PendingServed(DisownMutex(s, m), m, outcome)
           IN  d \in {p, Detached(p, m)}
    PROVE  LET r == SlavesReleased(d, m)
           IN  Stays(s, r) /\ IrqInv(r) /\ Shaped(r) /\ r.base = s.base
<1> DEFINE q == DisownMutex(s, m)
           p == PendingServed(q, m, outcome)
           r == SlavesReleased(d, m)
<1>1. /\ KInv(q) /\ Changes(s, q, Inherited \cup {"deep", "owned", "master"})
      /\ Disowned(s, q, m)
  BY DisownKeeps
<1>2. d \in {p, Detached(p, m)} OBVIOUS
<1> HIDE DEF q
<1>3. KInv(p) /\ Changes(q, p, Served) BY <1>1, PendingKeeps, PendingShape DEF KInv
<1>4. /\ Stays(q, p) /\ IrqStays(q, p) /\ p.master = q.master
      /\ \A i \in Irqs : p.pending[i] => q.irq[m] # i
  BY <1>1, StaysServed, ServedIrqs
<1> HIDE DEF p
<1>5. Stays(s, q) BY <1>1, StaysChange DEF WakeFields, Inherited
<1>6. s.master \in [Mutexes -> OrNone(Tasks)] BY DEF KInv, OwnerInv, OwnerType
<1>7. IrqInv(p) /\ p.master[m] = None
  <2>1. q.irq = s.irq /\ q.ilock = s.ilock /\ q.pending = s.pending
    BY <1>1 DEF Changes, Fields, Inherited
  <2>2. p.irq = s.irq /\ p.ilock = s.ilock BY <1>4, <2>1 DEF IrqStays
  <2>3. \A i \in Irqs : p.pending[i] => s.pending[i] /\ s.irq[m] # i
    BY <1>4, <2>1 DEF IrqStays
  <2>4. \A n \in Mutexes : p.master[n] = IF n = m THEN None ELSE s.master[n]
    BY <1>1, <1>4, <1>6 DEF Disowned
  <2>5. QED BY <2>2, <2>3, <2>4, FreedIrqs
<1>8. /\ KInv(d) /\ IrqInv(d) /\ Stays(p, d) /\ d.base = p.base
  <2>1. Stays(p, p) BY DEF Stays, StaysBut
  <2>2. KInv(Detached(p, m)) /\ Changes(p, Detached(p, m), {"irq", "ilock"})
    BY <1>3, DetachedKeeps
  <2>3. Stays(p, Detached(p, m)) BY <2>2, StaysChange DEF WakeFields
  <2>4. IrqInv(Detached(p, m)) BY <1>3, <1>7, DetachedIrqs
  <2>5. Detached(p, m).base = p.base BY <2>2 DEF Changes, Fields
  <2>6. QED BY <1>2, <1>3, <1>7, <2>1, <2>2, <2>3, <2>4, <2>5
<1>9. Stays(d, r) /\ Changes(d, r, {"list", "need", "lock", "mprio"})
  BY <1>8, StaysSlaves, SlavesReleasedShape DEF KInv
<1> HIDE DEF r
<1>10. IrqStays(d, r) BY <1>9, IrqChange DEF IrqFields
<1>11. IrqInv(r) BY <1>8, <1>10, IrqKept
<1>12. Stays(s, r) BY <1>4, <1>5, <1>8, <1>9, StaysTrans
<1>13. r.base = s.base
  BY <1>1, <1>3, <1>8, <1>9 DEF Changes, Fields, Inherited, Served, Woken
<1>14. QED BY <1>9, <1>11, <1>12, <1>13 DEF r, Changes

\* The task goes on the waiters of m (msignal.c:75-90).
LEMMA WaitingWakes ==
    ASSUME NEW s, KInv(s), IrqInv(s), NEW t \in AllTasks, t \in Range(s.list[Active]),
           NEW m \in Mutexes
    PROVE  LET r == ListAppend([Unmasked(s, m) EXCEPT !.wait[t] = m], Waiters(m), t)
           IN  Stays(s, r) /\ IrqInv(r) /\ KInv(r) /\ Changes(s, r, {"wait", "allowed", "list"})
<1> DEFINE u == Unmasked(s, m)
           v == [u EXCEPT !.wait[t] = m]
           r == ListAppend(v, Waiters(m), t)
<1>1. Shaped(s) /\ Separate(s.list) BY DEF KInv, ListInv
<1>2. KInv(r) /\ Changes(s, r, {"wait", "allowed", "list"}) BY SuspendLists
<1>3. Changes(s, u, {"allowed"})
  <2> DEFINE i == s.irq[m]
  <2>1. CASE i = None BY <1>1, <2>1 DEF Unmasked, Changes
  <2>2. CASE i # None
    <3>1. u = [s EXCEPT !.allowed[i] = TRUE] BY <2>2 DEF Unmasked
    <3> HIDE DEF i, u
    <3>2. QED BY <1>1, <3>1 DEF Shaped, Fields, Changes
  <2>3. QED BY <2>1, <2>2
<1> HIDE DEF u
<1>4. Changes(u, v, {"wait"}) BY <1>3 DEF Shaped, Fields, Changes
<1> HIDE DEF v
<1>5. Shaped(v) /\ Separate(v.list) BY <1>1, <1>3, <1>4 DEF Changes, Fields
<1>6. Stays(v, r) BY <1>5, StaysAppended, HeadsDiffer
<1>7. Stays(s, u) /\ Stays(u, v) BY <1>3, <1>4, StaysChange DEF WakeFields
<1>8. Stays(s, r) BY <1>6, <1>7, StaysTrans
<1> HIDE DEF r
<1>9. IrqInv(r)
  <2>1. IrqStays(s, r) BY <1>2, IrqChange DEF IrqFields
  <2>2. QED BY <2>1, IrqKept
<1>10. QED BY <1>2, <1>8, <1>9 DEF r, v, u

\* The master gives m up in mutex_wait (msignal.c:91-109).
LEMMA GivenUpWakes ==
    ASSUME NEW s, KInv(s), IrqInv(s), NEW m \in Mutexes, s.master[m] # None,
           \A i \in Irqs : s.pending[i] => s.irq[m] # i
    PROVE  LET r == [SlavesActivated(DisownMutex(s, m), m) EXCEPT !.mprio[m] = 0]
           IN  Stays(s, r) /\ IrqInv(r) /\ Shaped(r) /\ r.base = s.base
<1> DEFINE d == DisownMutex(s, m)
           a == SlavesActivated(d, m)
           r == [a EXCEPT !.mprio[m] = 0]
<1>1. /\ KInv(d) /\ Changes(s, d, Inherited \cup {"deep", "owned", "master"})
      /\ Disowned(s, d, m)
  BY DisownKeeps
<1> HIDE DEF d
<1>2. Stays(d, a) /\ Changes(d, a, {"list", "need", "lock"})
  BY <1>1, StaysSlaves, SlavesShape DEF KInv
<1> HIDE DEF a
<1>3. Changes(a, r, {"mprio"}) BY <1>2 DEF Shaped, Fields, Changes
<1> HIDE DEF r
<1>4. Stays(s, d) /\ Stays(a, r) BY <1>1, <1>3, StaysChange DEF WakeFields, Inherited
<1>5. Stays(s, r) BY <1>2, <1>4, StaysTrans
<1>6. /\ r.irq = s.irq /\ r.ilock = s.ilock /\ r.pending = s.pending
      /\ r.master = d.master /\ r.base = s.base
  BY <1>1, <1>2, <1>3 DEF Changes, Fields, Inherited
<1>7. s.master \in [Mutexes -> OrNone(Tasks)] BY DEF KInv, OwnerInv, OwnerType
<1>8. \A n \in Mutexes : r.master[n] = IF n = m THEN None ELSE s.master[n]
  BY <1>1, <1>6, <1>7 DEF Disowned
<1>9. IrqInv(r) BY <1>6, <1>8, FreedIrqs
<1>10. QED BY <1>3, <1>5, <1>6, <1>9 DEF Changes, d, a, r

\* The task is put on the slaves of m (mutex.c:58-76).
LEMMA BlockWakes ==
    ASSUME NEW s, KInv(s), IrqInv(s), NEW m \in Mutexes
    PROVE  LET r == BlockOnMutex(s, m)
           IN  Stays(s, r) /\ IrqInv(r) /\ r.base = s.base
<1> DEFINE t == s.current
           master == s.master[m]
           p == s.prio[t]
           raise == s.mprio[m] < p
           q == [s EXCEPT !.lock[t] = m,
                          !.mprio[m] = IF raise THEN p ELSE @,
                          !.prio[master] = IF raise /\ @ < p THEN p ELSE @]
           a == ListAppend(q, Slaves(m), t)
           r == BlockOnMutex(s, m)
<1>1. Shaped(s) /\ Separate(s.list) /\ t \in AllTasks BY DEF KInv, ListInv, DataInv
<1>2. Changes(s, q, {"lock", "mprio", "prio"}) BY <1>1 DEF Shaped, Fields, Changes
<1>3. r = TaskSchedule(a) BY DEF BlockOnMutex
<1>4. Changes(s, r, {"lock", "mprio", "prio", "list", "current", "need"}) BY <1>1, BlockShape
<1> HIDE DEF q, t
<1>5. Stays(q, a) /\ Changes(q, a, {"list"})
  <2>1. Shaped(q) /\ Separate(q.list) BY <1>1, <1>2 DEF Changes, Fields
  <2>2. QED BY <1>1, <2>1, StaysAppended, AppendShape, HeadsDiffer
<1> HIDE DEF a
<1>6. Stays(s, q) BY <1>2, StaysChange DEF WakeFields
<1>7. Stays(a, r) BY <1>3, <1>5, StaysScheduled DEF Changes
<1> HIDE DEF r
<1>8. Stays(s, r) BY <1>5, <1>6, <1>7, StaysTrans
<1>9. IrqStays(s, r) BY <1>4, IrqChange DEF IrqFields
<1>10. r.base = s.base BY <1>4 DEF Changes, Fields
<1>11. QED BY <1>8, <1>9, <1>10, IrqKept DEF r

-----------------------------------------------------------------------------
(***************************************************************************)
(* Steps in which nobody enters or leaves task_delete or mutex_group_wait. *)
(***************************************************************************)
Special == {"task_delete", "mutex_group_wait"}

SameCalls ==
    \A u \in Tasks : \/ frame'[u] = frame[u]
                     \/ frame[u].at \notin Special /\ frame'[u].at \notin Special

\* The frame of one task changes, outside these functions.
LEMMA FrameCalls ==
    ASSUME Inv, NEW t \in AllTasks, NEW f, f.at \notin Special, frame[t].at \notin Special,
           frame' = [frame EXCEPT ![t] = f]
    PROVE  SameCalls
BY DEF SameCalls, Inv, VarTypes, AllTasks

\* The groups: a task that leaves mutex_group_wait is not waited for any more.
LEMMA GroupsStay ==
    ASSUME Inv, GroupsInv, NEW d, StaysBut(k, k', d),
           \A u \in Tasks :
              \/ frame'[u] = frame[u]
              \/ /\ frame'[u].at # "mutex_group_wait"
                 /\ frame[u].at # "mutex_group_wait" \/ \A g \in Groups : k.waiter[g] # u
    PROVE  GroupsInv'
<1>1. \A g \in Groups : k.waiter[g] # None => k.waiter[g] \in Tasks
  BY DEF Inv, KInv, WaiterInv, OrNone
<1>2. \A g : WaitingGroup(g).at = "mutex_group_wait" BY FrameFields
<1>3. \A g \in Groups :
          \/ k'.waiter[g] = k.waiter[g] /\ k'.signalled[g] = k.signalled[g]
          \/ k'.waiter[g] = None /\ k'.signalled[g] # {}
  BY DEF StaysBut
<1>4. ASSUME NEW g \in Groups, k'.waiter[g] # None
      PROVE  k'.signalled[g] = {} /\ frame'[k'.waiter[g]] = WaitingGroup(g)
  <2> DEFINE u == k.waiter[g]
  <2>1. k'.waiter[g] = u /\ k'.signalled[g] = k.signalled[g] BY <1>3, <1>4
  <2>2. k.signalled[g] = {} /\ frame[u] = WaitingGroup(g) BY <1>4, <2>1 DEF GroupsInv
  <2>3. u \in Tasks /\ frame[u].at = "mutex_group_wait" BY <1>1, <1>2, <1>4, <2>1, <2>2
  <2>4. ~ \A h \in Groups : k.waiter[h] # u OBVIOUS
  <2> HIDE DEF u
  <2>5. frame'[u] = frame[u] BY <2>3, <2>4
  <2>6. QED BY <2>1, <2>2, <2>5
<1>5. \A u \in Tasks : frame'[u].at = "mutex_group_wait" => frame'[u] = frame[u] OBVIOUS
<1>6. ASSUME NEW t \in Tasks, NEW g \in Groups,
             frame'[t] = WaitingGroup(g), k'.waiter[g] # t
      PROVE  k'.signalled[g] # {}
  <2>1. frame[t] = WaitingGroup(g) BY <1>2, <1>5, <1>6
  <2>2. k.waiter[g] # t => k.signalled[g] # {} BY <2>1 DEF GroupsInv
  <2>3. QED BY <1>3, <1>6, <2>2
<1>7. ASSUME NEW t \in Tasks, NEW u \in Tasks,
             frame'[t].at = "mutex_group_wait", frame'[t] = frame'[u]
      PROVE  t = u
  BY <1>5, <1>7 DEF GroupsInv, InGroupWait
<1>8. QED BY <1>4, <1>6, <1>7 DEF GroupsInv, InGroupWait

\* The tasks: nobody comes to life but t, and nobody is dropped but d.
LEMMA AliveStays ==
    ASSUME WakeInv, NEW d, StaysBut(k, k', d), NEW t,
           \A u \in Tasks \ {t} : Alive(u)' => Alive(u) /\ u # d,
           t \in Tasks /\ Alive(t)' => Present(k', t)
    PROVE  AliveInv'
<1>1. ASSUME NEW u \in Tasks, Alive(u)', u # t PROVE Present(k', u)
  <2>1. Alive(u) /\ u \in AllTasks \ {d} BY <1>1 DEF AllTasks
  <2>2. Present(k, u) BY <2>1 DEF WakeInv, AliveInv
  <2>3. QED BY <2>1, <2>2 DEF StaysBut
<1>2. \A u \in Tasks : Alive(u)' => Present(k', u) BY <1>1
<1>3. QED BY <1>2 DEF AliveInv, Alive, BeingDeleted

\* All of the invariant.
LEMMA KeptWakes ==
    ASSUME Inv, WakeInv, Stays(k, k'), IrqInv(k'), SameCalls,
           \A u \in Tasks : k'.base[u] # 0 => k.base[u] # 0
    PROVE  WakeInv'
<1>1. \A u \in Tasks : BeingDeleted(u)' <=> BeingDeleted(u)
  BY SameDeletions DEF SameCalls, Special
<1>2. StaysBut(k, k', None) /\ \A u \in Tasks : u # None
  BY KernelConstants DEF Stays, AllTasks
<1>3. \A u \in Tasks : Alive(u)' => Alive(u) /\ u # None BY <1>1, <1>2 DEF Alive
<1>4. AliveInv' BY <1>2, <1>3, AliveStays
<1>5. GroupsInv' BY <1>2, GroupsStay DEF WakeInv, SameCalls, Special
<1>6. QED BY <1>4, <1>5 DEF WakeInv

\* The call ends with a reschedule, due or not.
LEMMA ScheduledWakes ==
    ASSUME Inv, WakeInv, NEW r, Stays(k, r), IrqInv(r), Shaped(r), SameCalls,
           k' = r \/ k' = ScheduleIfNeeded(r) \/ k' = TaskSchedule(r),
           \A u \in Tasks : r.base[u] # 0 => k.base[u] # 0
    PROVE  WakeInv'
<1>1. Stays(r, r) /\ IrqStays(r, r) BY DEF Stays, StaysBut, IrqStays
<1>2. Stays(r, k') BY <1>1, StaysScheduled
<1>3. \/ k' = r
      \/ Changes(r, k', {"current", "need"})
  BY ScheduleShape, ScheduleIfNeededShape
<1>4. IrqStays(r, k') /\ k'.base = r.base
  <2>1. CASE k' = r BY <1>1, <2>1
  <2>2. CASE Changes(r, k', {"current", "need"})
    <3>1. IrqStays(r, k') BY <2>2, IrqChange DEF IrqFields
    <3>2. k'.base = r.base BY <2>2 DEF Changes, Fields
    <3>3. QED BY <3>1, <3>2
  <2>3. QED BY <1>3, <2>1, <2>2
<1>5. Stays(k, k') BY <1>2, StaysTrans
<1>6. IrqInv(k') BY <1>4, IrqKept
<1>7. QED BY <1>4, <1>5, <1>6, KeptWakes

-----------------------------------------------------------------------------
(***************************************************************************)
(* The actions that are about a lock.                                      *)
(***************************************************************************)
\* One turn of the loop of mutex_lock, whoever calls it.
LEMMA LoopWakes ==
    ASSUME Inv, WakeInv, NEW t \in Tasks, frame[t].at \notin Special,
           NEW m \in Mutexes, NEW f, f.at \notin Special, NEW done,
           k.master[m] \in {None, t} =>
             Stays(k, done) /\ IrqInv(done) /\ done.base = k.base,
           LockLoop(t, m, f, done)
    PROVE  WakeInv'
<1>1. KInv(k) /\ IrqInv(k) /\ t \in AllTasks BY DEF Inv, WakeInv, AllTasks
<1>2. User.at \notin Special BY FrameFields DEF Special
<1>3. frame' = [frame EXCEPT ![t] = f] \/ frame' = [frame EXCEPT ![t] = User] BY DEF LockLoop
<1>4. SameCalls BY <1>1, <1>2, <1>3, FrameCalls
<1>5. \/ k' = BlockOnMutex(k, m)
      \/ k' = done /\ k.master[m] \in {None, t}
  BY DEF LockLoop
<1>6. Stays(k, k') /\ IrqInv(k') /\ k'.base = k.base BY <1>1, <1>5, BlockWakes
<1>7. QED BY <1>4, <1>6, KeptWakes

\* The lock is taken: no interrupt is touched.
LEMMA TakenWakes ==
    ASSUME Inv, WakeInv, NEW t \in Tasks, t = k.current, NEW m \in Mutexes, NEW r, NEW n,
           Changes(k, r, Locked), Taken(k, r, m, n)
    PROVE  Stays(k, r) /\ IrqInv(r) /\ r.base = k.base
<1>1. Stays(k, r) BY StaysChange DEF WakeFields, Locked
<1>2. r.irq = k.irq /\ r.ilock = k.ilock /\ r.pending = k.pending /\ r.base = k.base
  BY DEF Changes, Fields, Locked
<1>3. k.master \in [Mutexes -> OrNone(Tasks)] BY DEF Inv, KInv, OwnerInv, OwnerType
<1>4. r.master = [k.master EXCEPT ![m] = t] /\ t # None
  BY KernelConstants DEF Taken, AllTasks
<1>5. \A x \in Mutexes : k.master[x] # None => r.master[x] # None BY <1>3, <1>4
<1>6. IrqStays(k, r) BY <1>2, <1>5 DEF IrqStays
<1>7. QED BY <1>1, <1>2, <1>6, IrqKept DEF WakeInv

\* mutex_lock, mutex_trylock and the lock of task_wait.
LEMMA LockWakes ==
    ASSUME Inv, WakeInv, NEW t \in Tasks,
           \/ \E m \in Locks : MutexLock(t, m) \/ MutexTrylock(t, m)
           \/ \E d \in Tasks : TaskWait(t, d)
           \/ ResumeLock(t)
    PROVE  WakeInv'
<1>1. User.at \notin Special /\ \A m : Locking(m).at \notin Special
  BY FrameFields DEF Special
<1>2. ASSUME NEW m \in Mutexes, t = k.current, k.master[m] = t => k.deep[m] < MaxDeep,
             k.master[m] \in {None, t}
      PROVE  LET r == LockMutex(k, m)
             IN  Stays(k, r) /\ IrqInv(r) /\ r.base = k.base
  BY <1>2, LockDone, TakenWakes
<1>3. ASSUME NEW m \in Locks, MutexLock(t, m) PROVE WakeInv'
  <2>1. /\ m \in Mutexes /\ t = k.current /\ frame[t] = User /\ k.master[m] # t
        /\ LockLoop(t, m, Locking(m), LockMutex(k, m))
    BY <1>3 DEF Locks, MutexLock, Calls, Running
  <2>2. QED BY <1>1, <1>2, <2>1, LoopWakes
<1>4. ASSUME NEW m \in Locks, MutexTrylock(t, m) PROVE WakeInv'
  <2>1. /\ m \in Mutexes /\ t = k.current /\ k.master[m] \in {None, t} /\ k.deep[m] < MaxDeep
        /\ k' = LockMutex(k, m) /\ frame' = frame
    BY <1>4 DEF Locks, MutexTrylock, Calls, Running
  <2>2. SameCalls BY <2>1 DEF SameCalls
  <2>3. QED BY <1>2, <2>1, <2>2, KeptWakes
<1>5. ASSUME NEW d \in Tasks, TaskWait(t, d) PROVE WakeInv'
  <2> DEFINE m == finish[d]
  <2>1. m \in Mutexes /\ m \in Range(finish) BY KernelParameters DEF Range
  <2>2. t = k.current /\ frame[t] = User /\ joining[t] = None BY <1>5 DEF TaskWait, Calls, Running
  <2>3. ~Absent(t) BY <2>2, FrameFields, RunnerIsReady
  <2>4. k.master[m] # t BY <2>1, <2>2, <2>3 DEF Inv, TaskInv, Joined1, Uses, Absent
  <2>5. LockLoop(t, m, Locking(m), LockMutex(k, m)) BY <1>5 DEF TaskWait
  <2> HIDE DEF m
  <2>6. QED BY <1>1, <1>2, <2>1, <2>2, <2>4, <2>5, LoopWakes
<1>6. CASE ResumeLock(t)
  <2>1. PICK m \in Mutexes : frame[t] = Locking(m)
    BY <1>6, ResumedAt DEF ResumeLock
  <2>2. t = k.current /\ LockLoop(t, m, Locking(m), LockMutex(k, m))
    BY <1>6, <2>1, FrameFields DEF ResumeLock, Resumes
  <2>3. k.master[m] # t BY <2>1 DEF Inv, TaskInv, Blocked
  <2>4. QED BY <1>1, <1>2, <2>1, <2>2, <2>3, LoopWakes
<1>7. QED BY <1>3, <1>4, <1>5, <1>6

\* mutex_lock_irq (itake.c:27-90).
LEMMA LockIrqWakes ==
    ASSUME Inv, WakeInv, NEW t \in Tasks,
           \/ \E i \in Irqs, b \in BOOLEAN : MutexLockIrq(t, i, b)
           \/ ResumeLockIrq(t)
    PROVE  WakeInv'
<1>1. User.at \notin Special /\ \A i, b : LockingIrq(i, b).at \notin Special
  BY FrameFields DEF Special
<1>2. ASSUME NEW i \in Irqs, NEW b \in BOOLEAN, t = k.current, frame[t].at \notin Special,
             LET m == IrqMutex[i]
             IN  /\ k.master[m] = t => k.deep[m] < MaxDeep
                 /\ LockLoop(t, m, LockingIrq(i, b), Attached(LockMutex(k, m), m, i, b))
      PROVE  WakeInv'
  <2> DEFINE m == IrqMutex[i]
             q == LockMutex(k, m)
             done == Attached(q, m, i, b)
  <2>1. m \in Mutexes BY KernelParameters
  <2>2. ASSUME k.master[m] \in {None, t}
        PROVE  Stays(k, done) /\ IrqInv(done) /\ done.base = k.base
    <3>1. KInv(q) /\ Changes(k, q, Locked) /\ Taken(k, q, m, k.deep[m] + 1)
      BY <1>2, <2>1, <2>2, LockDone
    <3> HIDE DEF q
    <3>2. Stays(k, q) /\ IrqInv(q) /\ q.base = k.base BY <1>2, <2>1, <3>1, TakenWakes
    <3>3. IrqInv(done) BY <3>1, <3>2, AttachedIrqs
    <3>4. Changes(q, done, {"irq", "ilock", "fast", "pending"})
      BY <3>1, AttachedShape DEF Changes
    <3> HIDE DEF done
    <3>5. Stays(q, done) BY <3>4, StaysChange DEF WakeFields
    <3>6. QED BY <3>2, <3>3, <3>4, <3>5, StaysTrans DEF Changes, Fields
  <2>3. LockLoop(t, m, LockingIrq(i, b), done) BY <1>2
  <2> HIDE DEF m, done
  <2>4. QED BY <1>1, <1>2, <2>1, <2>2, <2>3, LoopWakes
<1>3. ASSUME NEW i \in Irqs, NEW b \in BOOLEAN, MutexLockIrq(t, i, b) PROVE WakeInv'
  <2>1. t = k.current /\ frame[t] = User BY <1>3 DEF MutexLockIrq, Calls, Running
  <2>2. QED BY <1>1, <1>2, <1>3, <2>1 DEF MutexLockIrq
<1>4. CASE ResumeLockIrq(t)
  <2>1. PICK i \in Irqs, b \in BOOLEAN : frame[t] = LockingIrq(i, b)
    BY <1>4, ResumedAt DEF ResumeLockIrq
  <2>2. /\ t = k.current
        /\ LET m == IrqMutex[i]
           IN  LockLoop(t, m, LockingIrq(i, b), Attached(LockMutex(k, m), m, i, b))
    BY <1>4, <2>1, FrameFields DEF ResumeLockIrq, Resumes
  <2>3. k.master[IrqMutex[i]] # t BY <2>1 DEF Inv, TaskInv, Blocked
  <2>4. QED BY <1>1, <1>2, <2>1, <2>2, <2>3
<1>5. QED BY <1>3, <1>4

\* A lock is unlocked once, its interrupt detached or not.
LEMMA GiveBackWakes ==
    ASSUME Inv, WakeInv, NEW m \in Mutexes, k.master[m] # None, frame' = frame,
           \/ k' = [k EXCEPT !.deep[m] = @ - 1]
           \/ \E outcome \in Outcomes :
                LET p == PendingServed(DisownMutex(k, m), m, outcome)
                IN  \E d \in {p, Detached(p, m)} : k' = ScheduleIfNeeded(SlavesReleased(d, m))
    PROVE  WakeInv'
<1>1. KInv(k) /\ Shaped(k) /\ IrqInv(k) BY DEF Inv, KInv, WakeInv
<1>2. SameCalls BY DEF SameCalls
<1>3. CASE k' = [k EXCEPT !.deep[m] = @ - 1]
  <2>1. Changes(k, k', {"deep"}) BY <1>1, <1>3 DEF Shaped, Fields, Changes
  <2>2. Stays(k, k') BY <2>1, StaysChange DEF WakeFields
  <2>3. IrqInv(k') BY <1>1, <2>1, IrqChange, IrqKept DEF IrqFields
  <2>4. k'.base = k.base BY <2>1 DEF Changes, Fields
  <2>5. QED BY <1>2, <2>2, <2>3, <2>4, KeptWakes
<1>4. ASSUME NEW outcome \in Outcomes, NEW d,
             LET p == PendingServed(DisownMutex(k, m), m, outcome)
             IN  d \in {p, Detached(p, m)},
             k' = ScheduleIfNeeded(SlavesReleased(d, m))
      PROVE  WakeInv'
  <2> DEFINE r == SlavesReleased(d, m)
  <2>1. Stays(k, r) /\ IrqInv(r) /\ Shaped(r) /\ r.base = k.base
    BY <1>1, <1>4, ReleaseWakes
  <2>2. k' = ScheduleIfNeeded(r) BY <1>4
  <2> HIDE DEF r
  <2>3. QED BY <1>2, <2>1, <2>2, ScheduledWakes
<1>5. QED BY <1>3, <1>4

\* mutex_unlock, whoever calls it.
LEMMA UnlockWakes ==
    ASSUME Inv, WakeInv, NEW m \in Mutexes, k.master[m] # None, frame' = frame,
           NEW outcome \in Outcomes, k' = Unlocked(m, outcome)
    PROVE  WakeInv'
<1> DEFINE p == PendingServed(DisownMutex(k, m), m, outcome)
<1>1. \/ k' = [k EXCEPT !.deep[m] = @ - 1]
      \/ k' = ScheduleIfNeeded(SlavesReleased(p, m))
  BY DEF Unlocked, ReleaseMutex
<1>2. p \in {p, Detached(p, m)} OBVIOUS
<1>3. \/ k' = [k EXCEPT !.deep[m] = @ - 1]
      \/ \E o \in Outcomes :
           LET q == PendingServed(DisownMutex(k, m), m, o)
           IN  \E d \in {q, Detached(q, m)} : k' = ScheduleIfNeeded(SlavesReleased(d, m))
  BY <1>1, <1>2
<1>4. QED BY <1>3, GiveBackWakes

\* The calls of mutex_unlock, in task_wait and task_delete too, and of
\* mutex_unlock_irq.
LEMMA UnlocksWake ==
    ASSUME Inv, WakeInv, NEW t \in Tasks,
           \/ \E m \in Locks : MutexUnlock(t, m) \/ MutexUnlockIrq(t, m)
           \/ TaskWaitReturn(t)
           \/ DeleteUnlock(t)
    PROVE  WakeInv'
<1>1. t # None BY KernelConstants DEF AllTasks
<1>2. ASSUME NEW m \in Locks, MutexUnlock(t, m) PROVE WakeInv'
  <2>1. m \in Mutexes /\ k.master[m] # None BY <1>1, <1>2 DEF Locks, MutexUnlock
  <2>2. QED BY <1>2, <2>1, UnlockWakes DEF MutexUnlock
<1>3. ASSUME NEW m \in Locks, MutexUnlockIrq(t, m) PROVE WakeInv'
  <2> DEFINE p(outcome) == PendingServed(DisownMutex(k, m), m, outcome)
  <2>1. m \in Mutexes /\ k.master[m] # None /\ frame' = frame
    BY <1>1, <1>3 DEF Locks, MutexUnlockIrq
  <2>2. \/ k' = [k EXCEPT !.deep[m] = @ - 1]
        \/ \E outcome \in Outcomes :
             k' = ScheduleIfNeeded(SlavesReleased(Detached(p(outcome), m), m))
    BY <1>3 DEF MutexUnlockIrq
  <2>3. \A outcome : Detached(p(outcome), m) \in {p(outcome), Detached(p(outcome), m)}
    OBVIOUS
  <2>4. \/ k' = [k EXCEPT !.deep[m] = @ - 1]
        \/ \E o \in Outcomes :
             LET q == PendingServed(DisownMutex(k, m), m, o)
             IN  \E d \in {q, Detached(q, m)} : k' = ScheduleIfNeeded(SlavesReleased(d, m))
    BY <2>2, <2>3
  <2>5. QED BY <2>1, <2>4, GiveBackWakes
<1>4. CASE TaskWaitReturn(t)
  <2>1. Joins(t) /\ frame' = frame BY <1>4 DEF TaskWaitReturn
  <2> DEFINE m == finish[joining[t].task]
  <2>2. m \in Mutexes /\ k.master[m] # None BY <1>1, <2>1, JoinerHas
  <2>3. \E outcome \in Outcomes : k' = Unlocked(m, outcome) BY <1>4 DEF TaskWaitReturn
  <2> HIDE DEF m
  <2>4. QED BY <2>1, <2>2, <2>3, UnlockWakes
<1>5. CASE DeleteUnlock(t)
  <2> DEFINE d == frame[t].task
             s == k.owned[d]
             m == Head(s)
  <2>1. d \in Tasks BY <1>5, Deletion DEF DeleteUnlock
  <2>2. s # <<>> /\ frame' = frame /\ \E outcome \in Outcomes : k' = Unlocked(m, outcome)
    BY <1>5 DEF DeleteUnlock
  <2>3. OwnerInv(k) /\ d \in AllTasks BY <2>1 DEF Inv, KInv, AllTasks
  <2>4. s \in Seq(Mutexes) BY <2>3 DEF OwnerInv, OwnerType
  <2>5. m \in Mutexes /\ m \in Range(s)
    <3> HIDE DEF s
    <3>1. 1 \in 1 .. Len(s) BY <2>2, <2>4, EmptySeq
    <3>2. s[1] \in Range(s) /\ s[1] \in Mutexes BY <2>4, <3>1, LineElement
    <3>3. m = s[1] BY <2>2, <2>4
    <3>4. QED BY <3>2, <3>3
  <2> HIDE DEF m, d
  <2>6. k.master[m] # None
    <3>1. k.master[m] = d BY <2>3, <2>5 DEF OwnerInv, OwnedByMaster
    <3>2. QED BY <2>1, <3>1, KernelConstants DEF AllTasks
  <2>7. QED BY <2>2, <2>5, <2>6, UnlockWakes
<1>6. QED BY <1>2, <1>3, <1>4, <1>5

\* mutex_wait puts the task to sleep (msignal.c:75-109).
LEMMA SuspendWakes ==
    ASSUME Inv, WakeInv, NEW t \in Tasks, frame[t] = User, t \in Range(k.list[Active]),
           NEW m \in Mutexes, NEW q, KInv(q), IrqInv(q), Changes(k, q, {"pending", "allowed"}),
           \A i \in Irqs : q.pending[i] => q.irq[m] # i, SuspendOnMutex(t, m, q)
    PROVE  WakeInv'
<1> DEFINE r == ListAppend([Unmasked(q, m) EXCEPT !.wait[t] = m], Waiters(m), t)
           z == [SlavesActivated(DisownMutex(r, m), m) EXCEPT !.mprio[m] = 0]
<1>1. \/ k' = TaskSchedule(r) /\ frame' = frame
      \/ /\ k.master[m] = t /\ k' = TaskSchedule(z)
         /\ frame' = [frame EXCEPT ![t] = Waiting(m, k.deep[m])]
  BY DEF SuspendOnMutex
<1>2. q.list = k.list /\ q.master = k.master /\ q.base = k.base BY DEF Changes, Fields
<1>3. t \in AllTasks /\ t \in Range(q.list[Active]) BY <1>2 DEF AllTasks
<1>4. Stays(q, r) /\ IrqInv(r) /\ KInv(r) /\ Changes(q, r, {"wait", "allowed", "list"})
  BY <1>3, WaitingWakes
<1> HIDE DEF r
<1>5. Stays(k, q) BY StaysChange DEF WakeFields
<1>6. Stays(k, r) BY <1>4, <1>5, StaysTrans
<1>7. /\ r.base = k.base /\ r.master = k.master
      /\ r.pending = q.pending /\ r.irq = q.irq
  BY <1>2, <1>4 DEF Changes, Fields
<1>8. frame[t].at \notin Special /\ \A n : Waiting(m, n).at \notin Special
  BY FrameFields DEF Special
<1>9. CASE k' = TaskSchedule(r) /\ frame' = frame
  <2>1. SameCalls BY <1>9 DEF SameCalls
  <2>2. QED BY <1>4, <1>6, <1>7, <1>9, <2>1, ScheduledWakes DEF Changes
<1>10. CASE /\ k.master[m] = t /\ k' = TaskSchedule(z)
            /\ frame' = [frame EXCEPT ![t] = Waiting(m, k.deep[m])]
  <2>1. r.master[m] # None BY <1>7, <1>10, KernelConstants DEF AllTasks
  <2>2. Stays(r, z) /\ IrqInv(z) /\ Shaped(z) /\ z.base = r.base
    BY <1>4, <1>7, <2>1, GivenUpWakes
  <2> HIDE DEF z
  <2>3. Stays(k, z) BY <1>6, <2>2, StaysTrans
  <2>4. SameCalls BY <1>3, <1>8, <1>10, FrameCalls
  <2>5. QED BY <1>7, <1>10, <2>2, <2>3, <2>4, ScheduledWakes
<1>11. QED BY <1>1, <1>9, <1>10

\* A pending interrupt is the signal, or the task sleeps (msignal.c:62-109).
LEMMA WaitWakes ==
    ASSUME Inv, WakeInv, NEW t \in Tasks, Running(t), ~Absent(t), NEW m \in Mutexes, WaitOn(t, m)
    PROVE  WakeInv'
<1>1. KInv(k) /\ Shaped(k) /\ IrqInv(k) /\ k.pending \in [Irqs -> BOOLEAN]
  BY DEF Inv, KInv, DataInv, WakeInv
<1>2. frame[t] = User /\ t \in Range(k.list[Active]) BY RunnerIsReady, FrameFields DEF Running
<1>3. CASE (k.irq[m] # None => ~k.pending[k.irq[m]]) /\ SuspendOnMutex(t, m, k)
  <2>1. Changes(k, k, {"pending", "allowed"}) BY <1>1 DEF Changes
  <2>2. \A i \in Irqs : k.pending[i] => k.irq[m] # i BY <1>3, KernelConstants
  <2>3. QED BY <1>1, <1>2, <1>3, <2>1, <2>2, SuspendWakes
<1>4. ASSUME k.irq[m] # None, NEW outcome \in Outcomes,
             SuspendOnMutex(t, m, HandlerCalled(k, k.irq[m], outcome))
      PROVE  WakeInv'
  <2> DEFINE j == k.irq[m]
             q == HandlerCalled(k, j, outcome)
  <2>1. j \in Irqs BY <1>1, <1>4 DEF KInv, DataInv, OrNone
  <2>2. SuspendOnMutex(t, m, q) BY <1>4
  <2>3. k.irq[m] = j OBVIOUS
  <2> HIDE DEF j
  <2>4. KInv(q) /\ Changes(k, q, {"pending", "allowed"})
    BY <1>1, <2>1, HandlerKeeps, HandlerShape
  <2>5. IrqStays(k, q) /\ q.pending = [k.pending EXCEPT ![j] = FALSE]
    BY <1>1, <2>1, HandlerIrqs
  <2> HIDE DEF q
  <2>6. \A i \in Irqs : q.pending[i] => q.irq[m] # i BY <1>1, <2>1, <2>3, <2>5 DEF IrqStays
  <2>7. IrqInv(q) BY <1>1, <2>5, IrqKept
  <2>8. QED BY <1>2, <2>2, <2>4, <2>6, <2>7, SuspendWakes
<1>5. ASSUME NEW outcome \in Outcomes,
             k' = ScheduleIfNeeded(PendingServed(k, m, outcome)), frame' = frame
      PROVE  WakeInv'
  <2> DEFINE r == PendingServed(k, m, outcome)
  <2>1. Stays(k, r) /\ IrqStays(k, r) BY <1>1, StaysServed, ServedIrqs
  <2>2. Changes(k, r, Served) BY <1>1, PendingShape
  <2>3. k' = ScheduleIfNeeded(r) BY <1>5
  <2> HIDE DEF r
  <2>4. Shaped(r) /\ r.base = k.base BY <2>2 DEF Changes, Fields, Served, Woken
  <2>5. IrqInv(r) BY <1>1, <2>1, IrqKept
  <2>6. SameCalls BY <1>5 DEF SameCalls
  <2>7. QED BY <2>1, <2>3, <2>4, <2>5, <2>6, ScheduledWakes
<1>6. QED BY <1>3, <1>4, <1>5 DEF WaitOn

\* mutex_wait, called by a task or by task_wait.
LEMMA SleepWakes ==
    ASSUME Inv, WakeInv, NEW t \in Tasks, (\E m \in Locks : MutexWait(t, m)) \/ TaskWaitSleep(t)
    PROVE  WakeInv'
<1>1. ASSUME Running(t) PROVE ~Absent(t) BY <1>1, RunnerIsReady, FrameFields DEF Running
<1>2. ASSUME NEW m \in Locks, MutexWait(t, m) PROVE WakeInv'
  <2>1. m \in Mutexes /\ Running(t) /\ WaitOn(t, m) BY <1>2 DEF Locks, MutexWait, Calls
  <2>2. QED BY <1>1, <2>1, WaitWakes
<1>3. CASE TaskWaitSleep(t)
  <2> DEFINE m == finish[joining[t].task]
  <2>1. Joins(t) /\ WaitOn(t, m) BY <1>3 DEF TaskWaitSleep
  <2>2. m \in Mutexes /\ Running(t) BY <2>1, JoinerHas DEF Joins
  <2> HIDE DEF m
  <2>3. QED BY <1>1, <2>1, <2>2, WaitWakes
<1>4. QED BY <1>2, <1>3

\* mutex_wait resumes (msignal.c:111-134).
LEMMA ResumeWaitWakes ==
    ASSUME Inv, WakeInv, NEW t \in Tasks, ResumeWait(t)
    PROVE  WakeInv'
<1>1. PICK m \in Mutexes, n \in 1 .. MaxDeep : frame[t] = Waiting(m, n)
  BY ResumedAt DEF ResumeWait
<1>2. frame[t].at = "mutex_wait" /\ frame[t].mutex = m /\ frame[t].deep = n /\ t = k.current
  BY <1>1, FrameFields DEF ResumeWait, Resumes
<1>3. KInv(k) /\ IrqInv(k) /\ t \in AllTasks BY DEF Inv, WakeInv, AllTasks
<1>4. CASE k' = BlockOnMutex(k, m) /\ frame' = frame
  <2>1. Stays(k, k') /\ IrqInv(k') /\ k'.base = k.base BY <1>3, <1>4, BlockWakes
  <2>2. SameCalls BY <1>4 DEF SameCalls
  <2>3. QED BY <2>1, <2>2, KeptWakes
<1>5. CASE /\ k.master[m] = None /\ k' = [AcquireMutex(k, m) EXCEPT !.deep[m] = n]
           /\ frame' = [frame EXCEPT ![t] = User]
  <2> DEFINE r == [AcquireMutex(k, m) EXCEPT !.deep[m] = n]
  <2>1. Changes(k, r, {"master", "owned", "prio", "deep"}) /\ Taken(k, r, m, n)
    BY <1>2, <1>3, <1>5, AcquireKeeps
  <2>2. k' = r BY <1>5
  <2> HIDE DEF r
  <2>3. Changes(k, r, Locked) BY <2>1 DEF Locked
  <2>4. Stays(k, r) /\ IrqInv(r) /\ r.base = k.base BY <1>2, <2>1, <2>3, TakenWakes
  <2>5. frame[t].at \notin Special /\ User.at \notin Special
    BY <1>2, FrameFields DEF Special
  <2>6. SameCalls BY <1>3, <1>5, <2>5, FrameCalls
  <2>7. QED BY <2>2, <2>4, <2>6, KeptWakes
<1>6. QED BY <1>2, <1>4, <1>5 DEF ResumeWait

\* mutex_activate on data with the same tasks, and the reschedule.
LEMMA SignalledWakes ==
    ASSUME Inv, WakeInv, NEW q, KInv(q), IrqInv(q), Stays(k, q), q.base = k.base, SameCalls,
           NEW m \in Mutexes, NEW msg \in OrNone(Messages),
           k' = q \/ k' = ScheduleIfNeeded(MutexActivate(q, m, msg))
    PROVE  WakeInv'
<1> DEFINE a == MutexActivate(q, m, msg)
<1>1. Changes(q, a, Woken) BY MutexActivateShape DEF KInv
<1>2. Stays(q, a) BY StaysSignalled
<1>3. k' = q \/ k' = ScheduleIfNeeded(a) OBVIOUS
<1> HIDE DEF a
<1>4. Shaped(a) /\ a.base = k.base BY <1>1 DEF Changes, Fields, Woken
<1>5. IrqInv(a) BY <1>1, IrqChange, IrqKept DEF IrqFields, Woken
<1>6. Stays(k, a) BY <1>2, StaysTrans
<1>7. CASE k' = q BY <1>7, KeptWakes
<1>8. CASE k' = ScheduleIfNeeded(a) BY <1>4, <1>5, <1>6, <1>8, ScheduledWakes
<1>9. QED BY <1>3, <1>7, <1>8

\* mutex_signal (msignal.c:25-41).
LEMMA SignalWakes ==
    ASSUME Inv, WakeInv, NEW t \in Tasks, NEW m \in Mutexes, NEW msg \in Messages,
           MutexSignal(t, m, msg)
    PROVE  WakeInv'
<1>1. KInv(k) /\ IrqInv(k) /\ Stays(k, k) BY DEF Inv, WakeInv, Stays, StaysBut
<1>2. SameCalls BY DEF MutexSignal, SameCalls
<1>3. k' = k \/ k' = ScheduleIfNeeded(MutexActivate(k, m, msg)) BY DEF MutexSignal
<1>4. msg \in OrNone(Messages) BY DEF OrNone
<1>5. QED BY <1>1, <1>2, <1>3, <1>4, SignalledWakes

\* _irq_handler_ (machdep.c:109-155): it stays pending only if the lock is busy.
LEMMA InterruptWakes ==
    ASSUME Inv, WakeInv, NEW i \in Irqs, Interrupt(i)
    PROVE  WakeInv'
<1> DEFINE m == k.ilock[i]
           masked == [k EXCEPT !.allowed[i] = FALSE]
<1>1. DataInv(k) /\ Shaped(k) /\ KInv(k) /\ IrqInv(k) BY DEF Inv, KInv, WakeInv
<1>2. m \in Mutexes /\ k.ilock[i] # None BY <1>1 DEF Interrupt, DataInv, OrNone, Locks
<1>3. SameCalls BY DEF Interrupt, SameCalls
<1>4. m = IrqMutex[i] BY <1>1, <1>2 DEF IrqInv
<1>5. \/ k.master[m] # None /\ k' = [masked EXCEPT !.pending[i] = TRUE]
      \/ \E outcome \in Outcomes :
            LET handled == [masked EXCEPT !.allowed[i] = outcome.allow]
            IN  k' = handled \/ k' = ScheduleIfNeeded(MutexActivate(handled, m, None))
      \/ k' = ScheduleIfNeeded(MutexActivate(masked, m, None))
  BY DEF Interrupt
<1>6. Changes(k, masked, {"allowed"}) /\ masked.allowed \in [Irqs -> BOOLEAN]
  BY <1>1 DEF Shaped, Fields, Changes, DataInv
<1>7. ASSUME NEW q, Changes(k, q, {"allowed"}), q.allowed \in [Irqs -> BOOLEAN],
             k' = q \/ k' = ScheduleIfNeeded(MutexActivate(q, m, None))
      PROVE  WakeInv'
  <2>1. q.pending = k.pending /\ q.base = k.base BY <1>7 DEF Changes, Fields
  <2>2. Changes(k, q, {"pending", "allowed"}) BY <1>7 DEF Changes
  <2>3. KInv(q) BY <1>1, <1>7, <2>1, <2>2, FlagsKeep DEF DataInv
  <2>4. Stays(k, q) BY <1>7, StaysChange DEF WakeFields
  <2>5. IrqInv(q) BY <1>1, <1>7, IrqChange, IrqKept DEF IrqFields
  <2>6. None \in OrNone(Messages) BY DEF OrNone
  <2> HIDE DEF m
  <2>7. QED BY <1>2, <1>3, <1>7, <2>1, <2>3, <2>4, <2>5, <2>6, SignalledWakes
<1> HIDE DEF m, masked
<1>8. CASE k.master[m] # None /\ k' = [masked EXCEPT !.pending[i] = TRUE]
  <2>1. Changes(masked, k', {"pending"}) /\ k'.pending = [masked.pending EXCEPT ![i] = TRUE]
    BY <1>6, <1>8 DEF Shaped, Fields, Changes
  <2>2. /\ k'.pending = [k.pending EXCEPT ![i] = TRUE] /\ k'.base = k.base
        /\ k'.irq = k.irq /\ k'.ilock = k.ilock /\ k'.master = k.master
    BY <1>6, <2>1 DEF Changes, Fields
  <2>3. k.pending \in [Irqs -> BOOLEAN] BY <1>1 DEF DataInv
  <2>4. \A j \in Irqs : k'.pending[j] => k.pending[j] \/ j = i BY <2>2, <2>3
  <2>5. IrqInv(k') BY <1>1, <1>2, <1>4, <1>8, <2>2, <2>4 DEF IrqInv
  <2>6. Stays(k, masked) /\ Stays(masked, k') BY <1>6, <2>1, StaysChange DEF WakeFields
  <2>7. Stays(k, k') BY <2>6, StaysTrans
  <2>8. QED BY <1>3, <2>2, <2>5, <2>7, KeptWakes
<1>9. ASSUME NEW outcome \in Outcomes,
             LET handled == [masked EXCEPT !.allowed[i] = outcome.allow]
             IN  k' = handled \/ k' = ScheduleIfNeeded(MutexActivate(handled, m, None))
      PROVE  WakeInv'
  <2> DEFINE handled == [masked EXCEPT !.allowed[i] = outcome.allow]
  <2>1. outcome.allow \in BOOLEAN BY DEF Outcomes
  <2>2. Changes(masked, handled, {"allowed"}) /\ handled.allowed \in [Irqs -> BOOLEAN]
    BY <1>6, <2>1 DEF Shaped, Fields, Changes
  <2>3. k' = handled \/ k' = ScheduleIfNeeded(MutexActivate(handled, m, None)) BY <1>9
  <2> HIDE DEF handled
  <2>4. Changes(k, handled, {"allowed"} \cup {"allowed"}) BY <1>6, <2>2, ChangesTrans
  <2>5. Changes(k, handled, {"allowed"}) BY <2>4 DEF Changes
  <2>6. QED BY <1>7, <2>2, <2>3, <2>5
<1>10. CASE k' = ScheduleIfNeeded(MutexActivate(masked, m, None)) BY <1>6, <1>7, <1>10
<1>11. QED BY <1>5, <1>8, <1>9, <1>10

\* mutex_attach_irq, mutex_group_listen and _unlisten.
LEMMA AttachWakes ==
    ASSUME Inv, WakeInv,
           \/ \E i \in Irqs, f \in BOOLEAN : MutexAttachIrq(i, f)
           \/ \E g \in Groups : GroupListen(g) \/ GroupUnlisten(g)
    PROVE  WakeInv'
<1>1. Shaped(k) /\ KInv(k) /\ IrqInv(k) BY DEF Inv, KInv, WakeInv
<1>2. ASSUME NEW i \in Irqs, NEW f \in BOOLEAN, MutexAttachIrq(i, f) PROVE WakeInv'
  <2> DEFINE q == Attached(k, IrqMutex[i], i, f)
             r == [q EXCEPT !.allowed[i] = TRUE]
             F == {"irq", "ilock", "fast", "pending"}
  <2>1. k' = r /\ SameCalls BY <1>2 DEF MutexAttachIrq, SameCalls
  <2>2. Changes(k, q, F) BY <1>1, AttachedShape
  <2>3. IrqInv(q) BY <1>1, AttachedIrqs
  <2> HIDE DEF q
  <2>4. Changes(q, r, {"allowed"}) BY <2>2 DEF Shaped, Fields, Changes
  <2> HIDE DEF r
  <2>5. Stays(k, q) /\ Stays(q, r) BY <2>2, <2>4, StaysChange DEF WakeFields
  <2>6. Stays(k, r) BY <2>5, StaysTrans
  <2>7. IrqInv(r) BY <2>3, <2>4, IrqChange, IrqKept DEF IrqFields
  <2>8. r.base = k.base BY <2>2, <2>4 DEF Changes, Fields
  <2>9. QED BY <2>1, <2>6, <2>7, <2>8, KeptWakes
<1>3. ASSUME NEW g \in Groups, GroupListen(g) \/ GroupUnlisten(g) PROVE WakeInv'
  <2>1. Changes(k, k', {"groups", "gmessage"})
    BY <1>1, <1>3 DEF GroupListen, GroupUnlisten, Shaped, Fields, Changes
  <2>2. SameCalls BY <1>3 DEF GroupListen, GroupUnlisten, SameCalls
  <2>3. Stays(k, k') BY <2>1, StaysChange DEF WakeFields
  <2>4. IrqInv(k') BY <1>1, <2>1, IrqChange, IrqKept DEF IrqFields
  <2>5. k'.base = k.base BY <2>1 DEF Changes, Fields
  <2>6. QED BY <2>2, <2>3, <2>4, <2>5, KeptWakes
<1>4. QED BY <1>2, <1>3

-----------------------------------------------------------------------------
(***************************************************************************)
(* The actions that are about a task or a group.                           *)
(***************************************************************************)

\* main() starts the tasks; task_yield, task_set_priority, task_wait's test.
LEMMA TaskWakes ==
    ASSUME Inv, WakeInv,
           \/ StartTasks
           \/ \E t \in Tasks : TaskYield(t) \/ TaskWaitTest(t)
           \/ \E t \in Tasks, d \in Tasks, p \in SetPrios : TaskSetPriority(t, d, p)
    PROVE  WakeInv'
<1>1. /\ Shaped(k) /\ KInv(k) /\ IrqInv(k) /\ Separate(k.list) /\ Stays(k, k)
  BY DEF Inv, KInv, ListInv, WakeInv, Stays, StaysBut
<1>2. CASE StartTasks
  <2>1. frame[Idle].at \notin Special /\ User.at \notin Special
    BY FrameFields DEF Inv, CurrentInv, Special
  <2>2. SameCalls BY <1>2, <2>1, FrameCalls DEF StartTasks, AllTasks
  <2>3. k' = TaskSchedule(k) BY <1>2 DEF StartTasks
  <2>4. QED BY <1>1, <2>2, <2>3, ScheduledWakes
<1>3. ASSUME NEW t \in Tasks, TaskYield(t) PROVE WakeInv'
  <2> DEFINE r == ListAppend(k, Active, t)
  <2>1. Changes(k, r, {"list"}) BY <1>1, AppendShape
  <2>2. Stays(k, r) BY <1>1, StaysAppended DEF AllTasks, Heads
  <2>3. k' = TaskSchedule(r) /\ SameCalls BY <1>3 DEF TaskYield, SameCalls
  <2> HIDE DEF r
  <2>4. IrqInv(r) BY <1>1, <2>1, IrqChange, IrqKept DEF IrqFields
  <2>5. Shaped(r) /\ r.base = k.base BY <2>1 DEF Changes, Fields
  <2>6. QED BY <2>2, <2>3, <2>4, <2>5, ScheduledWakes
<1>4. ASSUME NEW t \in Tasks, TaskWaitTest(t) PROVE WakeInv'
  <2>1. k' = k /\ SameCalls BY <1>4 DEF TaskWaitTest, SameCalls
  <2>2. QED BY <1>1, <2>1, KeptWakes
<1>5. ASSUME NEW t \in Tasks, NEW d \in Tasks, NEW p \in SetPrios, TaskSetPriority(t, d, p)
      PROVE  WakeInv'
  <2> DEFINE q == [k EXCEPT !.base[d] = p]
             r == TaskRecalculatePrio(q, d)
  <2>1. k' = ScheduleIfNeeded(r) /\ SameCalls /\ k.base[d] # 0
    BY <1>5 DEF TaskSetPriority, SameCalls, Alive
  <2>2. Changes(k, q, {"base"}) /\ q.base = [k.base EXCEPT ![d] = p]
    BY <1>1 DEF Shaped, Fields, Changes
  <2> HIDE DEF q
  <2>3. Changes(q, r, Inherited) BY <2>2, TaskRecalculateShape DEF Changes
  <2> HIDE DEF r
  <2>4. Changes(k, r, Inherited \cup {"base"}) BY <2>2, <2>3, ChangesTrans
  <2>5. Stays(k, r) BY <2>4, StaysChange DEF WakeFields, Inherited
  <2>6. IrqInv(r) BY <1>1, <2>4, IrqChange, IrqKept DEF IrqFields, Inherited
  <2>7. r.base = [k.base EXCEPT ![d] = p] BY <2>2, <2>3 DEF Changes, Fields, Inherited
  <2>8. k.base \in [AllTasks -> Prios] BY <1>1 DEF KInv, DataInv
  <2>9. \A u \in Tasks : r.base[u] # 0 => k.base[u] # 0 BY <2>1, <2>7, <2>8 DEF AllTasks
  <2>10. Shaped(r) BY <2>3 DEF Changes
  <2>11. QED BY <2>1, <2>5, <2>6, <2>9, <2>10, ScheduledWakes
<1>6. QED BY <1>2, <1>3, <1>4, <1>5

\* task_create puts the task on the active list (tcreate.c).
LEMMA CreateWakes ==
    ASSUME Inv, WakeInv, NEW t \in Tasks, TaskCreate(t)
    PROVE  WakeInv'
<1> DEFINE f == finish[t]
           p == StartPrio[t]
           w == <<t>>
           r == [k EXCEPT !.base[t] = p, !.prio[t] = p, !.message[t] = None,
                          !.mprio[f] = 0, !.groups[f] = <<>>]
           a == TaskActivate(r, w)
           F == {"base", "prio", "message", "mprio", "groups"}
<1>1. /\ Shaped(k) /\ IrqInv(k) /\ Separate(k.list) /\ k.base \in [AllTasks -> Prios]
      /\ t \in AllTasks /\ AbsentInv
  BY DEF Inv, KInv, ListInv, DataInv, WakeInv, AllTasks
<1>2. k.base[t] = 0 /\ k' = a /\ frame' = frame BY DEF TaskCreate, Unused
<1>3. ~Linked(k, t) BY <1>1, <1>2 DEF AbsentInv, Present
<1>4. Line(w, AllTasks) /\ Range(w) = {t}
  <2>1. w = Appended(<<>>, t) BY DEF Appended
  <2>2. Line(<<>>, AllTasks) /\ Range(<<>>) = {} BY EmptyLine
  <2>3. QED BY <2>1, <2>2, <1>1, AppendLine
<1> HIDE DEF f, p, w
<1>5. Changes(k, r, F) /\ r.base = [k.base EXCEPT ![t] = p]
  <2>1. r = Created(k, t, p, f) BY DEF Created
  <2> HIDE DEF r
  <2>2. CreatedFrom(k, r, t, p, f) BY <1>1, <2>1, CreatedIs
  <2>3. QED BY <2>2 DEF CreatedFrom
<1> HIDE DEF r
<1>6. Shaped(r) /\ r.list = k.list BY <1>5 DEF Changes, Fields
<1>7. /\ Changes(r, a, {"list", "need"})
      /\ \A h \in Heads : Range(a.list[h]) = IF h = Active THEN Range(r.list[h]) \cup Range(w)
                                             ELSE Range(r.list[h])
  <2>1. \A h \in Heads : Range(r.list[h]) \cap Range(w) = {} BY <1>3, <1>4, <1>6 DEF Linked
  <2>2. QED BY <1>1, <1>4, <1>6, <2>1, ActivateLists, ActivateShape
<1> HIDE DEF a
<1>8. a.waiter = k.waiter /\ a.signalled = k.signalled /\ a.base = r.base
  BY <1>5, <1>7 DEF Changes, Fields
<1>9. (\A u \in AllTasks : Linked(k, u) => Linked(a, u)) /\ Linked(a, t)
  BY <1>4, <1>6, <1>7, HeadsDiffer DEF Linked
<1>10. Stays(k, a) BY <1>8, <1>9, StaysLists
<1>11. Changes(k, a, F \cup {"list", "need"}) BY <1>5, <1>7, ChangesTrans
<1>12. IrqInv(a) BY <1>1, <1>11, IrqChange, IrqKept DEF IrqFields
<1>13. StaysBut(k, k', None) BY <1>2, <1>10 DEF Stays
<1>14. \A u \in Tasks \ {t} : Alive(u)' => Alive(u) /\ u # None
  <2>1. \A u \in Tasks : BeingDeleted(u)' <=> BeingDeleted(u) BY <1>2, SameDeletions
  <2>2. \A u \in Tasks \ {t} : k'.base[u] = k.base[u] BY <1>1, <1>2, <1>5, <1>8 DEF AllTasks
  <2>3. \A u \in Tasks : u # None BY KernelConstants DEF AllTasks
  <2>4. QED BY <2>1, <2>2, <2>3 DEF Alive
<1>15. Present(k', t) BY <1>2, <1>9 DEF Present
<1>16. AliveInv' BY <1>13, <1>14, <1>15, AliveStays
<1>17. GroupsInv' BY <1>2, <1>13, GroupsStay DEF WakeInv
<1>18. QED BY <1>2, <1>12, <1>16, <1>17 DEF WakeInv

\* task_delete takes d out of the kernel's reach (tdelete.c:24-45).
LEMMA DeleteWakes ==
    ASSUME Inv, WakeInv, NEW t \in Tasks, NEW d \in Tasks, NEW msg, TaskDelete(t, d, msg),
           "delete_group_waiter" \notin Misuse
    PROVE  WakeInv'
<1> DEFINE r == Removed(k, d, t)
<1>1. KInv(k) /\ IrqInv(k) /\ frame \in [AllTasks -> Frames] /\ t \in AllTasks /\ d \in AllTasks
  BY DEF Inv, VarTypes, WakeInv, AllTasks
<1>2. k' = r BY DEF TaskDelete, Removed
<1>3. Departed(k, r, d, t)
  <2> HIDE DEF r
  <2>1. r = Removed(k, d, t) BY DEF r
  <2>2. QED BY <1>1, <2>1, DeleteKeeps
<1> HIDE DEF r
<1>4. /\ frame[t] = User /\ frame[d].at # "task_delete"
      /\ \A g \in Groups : k.waiter[g] # d
      /\ frame' = [frame EXCEPT ![d] = User, ![t] = Deleting(d, msg)]
  BY DEF TaskDelete, Calls, Running, MayDelete
<1>5. /\ frame'[t] = Deleting(d, msg) /\ (d # t => frame'[d] = User)
      /\ \A u \in Tasks \ {t, d} : frame'[u] = frame[u]
  BY <1>1, <1>4 DEF AllTasks
<1>6. /\ User.at = "user" /\ Deleting(d, msg).at = "task_delete" /\ Deleting(d, msg).task = d
  BY FrameFields
<1>7. /\ Changes(k, r, Inherited \cup {"list", "lock", "wait"})
      /\ \A h \in Heads : Range(r.list[h]) = Range(k.list[h]) \ {d}
  BY <1>3 DEF Departed
<1>8. /\ r.waiter = k.waiter /\ r.signalled = k.signalled /\ r.base = k.base
  BY <1>7 DEF Changes, Fields, Inherited
<1>9. StaysBut(k, k', d) BY <1>2, <1>7, <1>8 DEF StaysBut, Present, Linked
<1>10. IrqInv(k') BY <1>1, <1>2, <1>7, IrqChange, IrqKept DEF IrqFields, Inherited
<1>11. GroupsInv'
  <2>1. \A u \in Tasks :
          \/ frame'[u] = frame[u]
          \/ /\ frame'[u].at # "mutex_group_wait"
             /\ frame[u].at # "mutex_group_wait" \/ \A g \in Groups : k.waiter[g] # u
    BY <1>4, <1>5, <1>6
  <2>2. QED BY <1>9, <2>1, GroupsStay DEF WakeInv
<1>12. BeingDeleted(d)' BY <1>5, <1>6 DEF BeingDeleted
<1>13. ASSUME NEW u \in Tasks, Alive(u)' PROVE Alive(u) /\ u # d
  <2>1. u # d BY <1>12, <1>13 DEF Alive
  <2>2. k.base[u] # 0 BY <1>2, <1>8, <1>13 DEF Alive
  <2>3. ASSUME NEW w \in Tasks, frame[w].at = "task_delete", frame[w].task = u
        PROVE  BeingDeleted(u)'
    <3>1. frame'[w] = frame[w] BY <1>4, <1>5, <1>6, <2>3
    <3>2. QED BY <2>3, <3>1 DEF BeingDeleted
  <2>4. ~BeingDeleted(u) BY <1>13, <2>3 DEF Alive, BeingDeleted
  <2>5. QED BY <2>1, <2>2, <2>4 DEF Alive
<1>14. d \in Tasks /\ Alive(d)' => Present(k', d) BY <1>13
<1>15. AliveInv' BY <1>9, <1>13, <1>14, AliveStays
<1>16. QED BY <1>10, <1>11, <1>15 DEF WakeInv

\* The end of task_delete: the task is no more (tdelete.c:52-59).
LEMMA FinishWakes ==
    ASSUME Inv, WakeInv, NEW t \in Tasks, DeleteFinish(t)
    PROVE  WakeInv'
<1> DEFINE d   == frame[t].task
           f   == finish[d]
           msg == frame[t].message
           k1  == [k EXCEPT !.base[d] = 0]
           a   == MutexActivate(k1, f, msg)
<1>1. /\ d \in Tasks /\ f \in Mutexes /\ frame[t].at = "task_delete" /\ t \in AllTasks
      /\ msg \in OrNone(Messages)
  <2>1. PICK x \in Messages : frame[t] = Deleting(d, x) BY Deletion DEF DeleteFinish
  <2>2. msg = x BY <2>1, FrameFields
  <2>3. QED BY <2>2, Deletion, KernelParameters DEF DeleteFinish, Resumes, AllTasks, OrNone
<1>2. /\ KInv(k) /\ Shaped(k) /\ DataInv(k) /\ IrqInv(k) /\ k.base \in [AllTasks -> Prios]
      /\ frame \in [AllTasks -> Frames]
  BY DEF Inv, KInv, DataInv, WakeInv, VarTypes
<1>3. frame' = [frame EXCEPT ![t] = User] BY DEF DeleteFinish
<1>4. k' = ScheduleIfNeeded(k1) \/ k' = ScheduleIfNeeded(a) BY DEF DeleteFinish
<1>5. frame[t].task = d OBVIOUS
<1> HIDE DEF d, f, msg
<1>6. Changes(k, k1, {"base"}) /\ k1.base = [k.base EXCEPT ![d] = 0]
  BY <1>2 DEF Shaped, Fields, Changes
<1> HIDE DEF k1
<1>7. KInv(k1) /\ Shaped(k1)
  <2>1. 0 \in Prios BY KernelParameters DEF Prios
  <2>2. k1.base \in [AllTasks -> Prios] BY <1>2, <1>6, <2>1
  <2>3. DataInv(k1) BY <1>2, <1>6, <2>2 DEF DataInv, Changes, Fields
  <2>4. QED BY <1>2, <1>6, <2>3, KInvFrame DEF Fields, KInv
<1>8. Stays(k, k1) /\ IrqInv(k1) BY <1>2, <1>6, StaysChange, IrqChange, IrqKept DEF WakeFields, IrqFields
<1>9. Changes(k1, a, Woken) /\ Stays(k1, a) BY <1>1, <1>7, MutexActivateShape, StaysSignalled
<1> HIDE DEF a
<1>10. Shaped(a) /\ a.base = k1.base BY <1>9 DEF Changes, Fields, Woken
<1>11. IrqInv(a) /\ Stays(k, a)
  BY <1>8, <1>9, IrqChange, IrqKept, StaysTrans DEF IrqFields, Woken
<1>12. ASSUME NEW s, Shaped(s), Stays(k, s), IrqInv(s), s.base = k1.base, k' = ScheduleIfNeeded(s)
       PROVE  Stays(k, k') /\ IrqInv(k') /\ k'.base = k1.base
  <2>1. Stays(s, k') BY <1>12, StaysScheduled
  <2>2. Changes(s, k', {"current", "need"}) BY <1>12, ScheduleIfNeededShape
  <2>3. IrqInv(k') BY <1>12, <2>2, IrqChange, IrqKept DEF IrqFields
  <2>4. k'.base = k1.base BY <1>12, <2>2 DEF Changes, Fields
  <2>5. QED BY <1>12, <2>1, <2>3, <2>4, StaysTrans
<1>13. k1.base = k1.base OBVIOUS
<1>14. Stays(k, k') /\ IrqInv(k') /\ k'.base = k1.base
  BY <1>4, <1>7, <1>8, <1>10, <1>11, <1>12, <1>13
<1>15. StaysBut(k, k', None) BY <1>14 DEF Stays
<1>16. User.at = "user" BY FrameFields
<1>17. frame'[t] = User /\ \A u \in Tasks \ {t} : frame'[u] = frame[u]
  BY <1>1, <1>2, <1>3 DEF AllTasks
<1>18. GroupsInv' BY <1>1, <1>15, <1>16, <1>17, GroupsStay DEF WakeInv
<1>19. k'.base[d] = 0 /\ \A u \in Tasks \ {d} : k'.base[u] = k.base[u]
  BY <1>1, <1>2, <1>6, <1>14 DEF AllTasks
<1>20. ASSUME NEW u \in Tasks, Alive(u)' PROVE Alive(u) /\ u # None
  <2>1. u # d /\ k.base[u] # 0 /\ u # None
    BY <1>19, <1>20, KernelConstants DEF Alive, AllTasks
  <2>2. ASSUME NEW w \in Tasks, frame[w].at = "task_delete", frame[w].task = u
        PROVE  BeingDeleted(u)'
    <3>1. frame'[w] = frame[w] BY <1>5, <1>17, <2>1, <2>2
    <3>2. QED BY <2>2, <3>1 DEF BeingDeleted
  <2>3. ~BeingDeleted(u) BY <1>20, <2>2 DEF Alive, BeingDeleted
  <2>4. QED BY <2>1, <2>3 DEF Alive
<1>21. None \notin Tasks BY KernelConstants DEF AllTasks
<1>22. AliveInv' BY <1>15, <1>20, <1>21, AliveStays
<1>23. QED BY <1>14, <1>18, <1>22 DEF WakeInv

\* mutex_group_wait finds a signal, or sleeps (mgroup.c:106-137).
LEMMA GroupWakes ==
    ASSUME Inv, WakeInv, NEW t \in Tasks,
           (\E g \in Groups : GroupWait(t, g)) \/ ResumeGroupWait(t)
    PROVE  WakeInv'
<1>1. PICK g \in Groups :
        /\ GroupLoop(t, g) /\ t = k.current
        /\ frame[t] = User \/ frame[t] = WaitingGroup(g)
        /\ \A u \in Tasks : frame[u] = WaitingGroup(g) => u = t
  <2>1. CASE \E g \in Groups : GroupWait(t, g) BY <2>1 DEF GroupWait, Calls, Running
  <2>2. CASE ResumeGroupWait(t)
    <3>1. PICK g \in Groups : frame[t] = WaitingGroup(g)
      BY <2>2, ResumedAt DEF ResumeGroupWait
    <3>2. InGroupWait(t) /\ frame[t].group = g BY <3>1, FrameFields DEF InGroupWait
    <3>3. \A u \in Tasks : frame[u] = WaitingGroup(g) => u = t
      BY <3>1, <3>2 DEF WakeInv, GroupsInv
    <3>4. QED BY <2>2, <3>1, <3>2, <3>3 DEF ResumeGroupWait, Resumes
  <2>3. QED BY <2>1, <2>2
<1>2. /\ KInv(k) /\ Shaped(k) /\ IrqInv(k) /\ GroupsInv /\ WaiterInv(k) /\ Separate(k.list)
      /\ frame \in [AllTasks -> Frames] /\ t \in AllTasks
      /\ k.waiter \in [Groups -> OrNone(Tasks)] /\ k.signalled \in [Groups -> SUBSET Mutexes]
  BY DEF Inv, KInv, ListInv, WaiterInv, DataInv, VarTypes, WakeInv, AllTasks
<1>3. t \in Range(k.list[Active]) /\ t # None
  BY <1>1, FrameFields, RunnerIsReady, KernelConstants DEF AllTasks
<1>4. \A h \in Groups : k.waiter[h] # t
  BY <1>2, <1>3, HeadsDiffer DEF WaiterInv, Linked
<1>5. User.at = "user" /\ \A h : /\ WaitingGroup(h).at = "mutex_group_wait"
                                 /\ WaitingGroup(h).group = h
  BY FrameFields
<1>6. k.waiter[g] = None
  <2>1. ASSUME k.waiter[g] # None PROVE FALSE
    <3>1. k.waiter[g] \in Tasks /\ frame[k.waiter[g]] = WaitingGroup(g)
      BY <1>2, <2>1 DEF GroupsInv, OrNone
    <3>2. QED BY <1>1, <1>4, <3>1
  <2>2. QED BY <2>1
<1>7. ASSUME NEW f, frame' = [frame EXCEPT ![t] = f], f.at # "task_delete"
      PROVE  /\ frame'[t] = f /\ \A u \in Tasks \ {t} : frame'[u] = frame[u]
             /\ \A u \in Tasks : BeingDeleted(u)' <=> BeingDeleted(u)
  <2>1. frame'[t] = f /\ \A u \in Tasks \ {t} : frame'[u] = frame[u]
    BY <1>2, <1>7 DEF AllTasks
  <2>2. QED BY <1>1, <1>5, <1>7, <2>1, SameDeletions
<1>8. CASE /\ k' = [k EXCEPT !.signalled[g] = @ \ {LastSignalled(g)}]
           /\ frame' = [frame EXCEPT ![t] = User]
  <2> DEFINE x == k.signalled[g] \ {LastSignalled(g)}
  <2>1. Changes(k, k', {"signalled"}) /\ k'.signalled = [k.signalled EXCEPT ![g] = x]
    BY <1>2, <1>8 DEF Shaped, Fields, Changes
  <2> HIDE DEF x
  <2>2. k'.list = k.list /\ k'.waiter = k.waiter /\ k'.base = k.base
    BY <2>1 DEF Changes, Fields
  <2>3. IrqInv(k') BY <1>2, <2>1, IrqChange, IrqKept DEF IrqFields
  <2>4. /\ frame'[t] = User /\ \A u \in Tasks \ {t} : frame'[u] = frame[u]
        /\ \A u \in Tasks : BeingDeleted(u)' <=> BeingDeleted(u)
    BY <1>5, <1>7, <1>8
  <2>5. AliveInv' BY <2>2, <2>4 DEF WakeInv, AliveInv, Alive, Present, Linked
  <2>6. \A h \in Groups \ {g} : k'.signalled[h] = k.signalled[h] BY <1>2, <2>1
  <2>7. ASSUME NEW h \in Groups, k'.waiter[h] # None
        PROVE  k'.signalled[h] = {} /\ frame'[k'.waiter[h]] = WaitingGroup(h)
    <3>1. h # g /\ k'.waiter[h] = k.waiter[h] /\ k.waiter[h] \in Tasks \ {t}
      BY <1>2, <1>4, <1>6, <2>2, <2>7 DEF OrNone
    <3>2. QED BY <1>2, <2>4, <2>6, <2>7, <3>1 DEF GroupsInv
  <2>8. ASSUME NEW u \in Tasks, NEW h \in Groups, frame'[u] = WaitingGroup(h), k'.waiter[h] # u
        PROVE  k'.signalled[h] # {}
    <3>1. u # t /\ frame[u] = WaitingGroup(h) BY <1>5, <2>4, <2>8
    <3>2. h # g BY <1>1, <3>1
    <3>3. QED BY <1>2, <2>2, <2>6, <2>8, <3>1, <3>2 DEF GroupsInv
  <2>9. ASSUME NEW u \in Tasks, NEW v \in Tasks,
               frame'[u].at = "mutex_group_wait", frame'[u] = frame'[v]
        PROVE  u = v
    <3>1. u # t /\ v # t BY <1>5, <2>4, <2>9
    <3>2. QED BY <1>2, <2>4, <2>9, <3>1 DEF GroupsInv, InGroupWait
  <2>10. QED BY <2>3, <2>5, <2>7, <2>8, <2>9 DEF WakeInv, GroupsInv, InGroupWait
<1>9. CASE /\ k.signalled[g] = {} /\ k' = TaskSchedule([ListUnlink(k, t) EXCEPT !.waiter[g] = t])
           /\ frame' = [frame EXCEPT ![t] = WaitingGroup(g)]
  <2> DEFINE u0 == ListUnlink(k, t)
             r  == [u0 EXCEPT !.waiter[g] = t]
  <2>1. /\ Changes(k, u0, {"list"})
        /\ \A h \in Heads : Range(u0.list[h]) = Range(k.list[h]) \ {t}
    BY <1>2, UnlinkShape, UnlinkLists
  <2>2. k' = TaskSchedule(r) BY <1>9
  <2> HIDE DEF u0
  <2>3. Changes(u0, r, {"waiter"}) /\ r.waiter = [u0.waiter EXCEPT ![g] = t]
    BY <2>1 DEF Shaped, Fields, Changes
  <2> HIDE DEF r
  <2>4. Changes(k, r, {"list", "waiter"}) BY <2>1, <2>3, ChangesTrans
  <2>5. Changes(r, k', {"current", "need"}) BY <2>2, <2>3, ScheduleShape DEF Changes
  <2>6. /\ k'.list = u0.list /\ k'.waiter = [k.waiter EXCEPT ![g] = t]
        /\ k'.base = k.base /\ k'.signalled = k.signalled
    BY <2>1, <2>3, <2>5 DEF Changes, Fields
  <2>7. IrqInv(k')
    <3>1. IrqInv(r) BY <1>2, <2>4, IrqChange, IrqKept DEF IrqFields
    <3>2. QED BY <2>5, <3>1, IrqChange, IrqKept DEF IrqFields
  <2>8. /\ frame'[t] = WaitingGroup(g) /\ \A u \in Tasks \ {t} : frame'[u] = frame[u]
        /\ \A u \in Tasks : BeingDeleted(u)' <=> BeingDeleted(u)
    BY <1>5, <1>7, <1>9
  <2>9. k'.waiter[g] = t /\ \A h \in Groups \ {g} : k'.waiter[h] = k.waiter[h]
    BY <1>2, <2>6
  <2>10. ASSUME NEW u \in Tasks, Alive(u)' PROVE Present(k', u)
    <3>1. Present(k, u) BY <2>6, <2>8, <2>10 DEF WakeInv, AliveInv, Alive
    <3>2. CASE u = t BY <2>9, <3>2 DEF Present
    <3>3. CASE u # t
      <4>1. CASE Linked(k, u) BY <2>1, <2>6, <3>3, <4>1 DEF Present, Linked
      <4>2. ASSUME NEW h \in Groups, k.waiter[h] = u PROVE Present(k', u)
        <5>1. h # g BY <1>6, <4>2, KernelConstants DEF AllTasks
        <5>2. QED BY <2>9, <4>2, <5>1 DEF Present
      <4>3. QED BY <3>1, <4>1, <4>2 DEF Present
    <3>4. QED BY <3>2, <3>3
  <2>11. AliveInv' BY <2>10 DEF AliveInv, Alive, BeingDeleted
  <2>12. ASSUME NEW h \in Groups, k'.waiter[h] # None
         PROVE  k'.signalled[h] = {} /\ frame'[k'.waiter[h]] = WaitingGroup(h)
    <3>1. CASE h = g BY <1>9, <2>6, <2>8, <2>9, <3>1
    <3>2. CASE h # g
      <4>1. k'.waiter[h] = k.waiter[h] /\ k.waiter[h] \in Tasks \ {t}
        BY <1>2, <1>4, <2>9, <2>12, <3>2 DEF OrNone
      <4>2. QED BY <1>2, <2>6, <2>8, <2>12, <4>1 DEF GroupsInv
    <3>3. QED BY <3>1, <3>2
  <2>13. ASSUME NEW u \in Tasks, NEW h \in Groups, frame'[u] = WaitingGroup(h), k'.waiter[h] # u
         PROVE  k'.signalled[h] # {}
    <3>1. u # t
      <4>1. ASSUME u = t PROVE FALSE
        <5>1. h = g BY <1>5, <2>8, <2>13, <4>1
        <5>2. QED BY <2>9, <2>13, <4>1, <5>1
      <4>2. QED BY <4>1
    <3>2. frame[u] = WaitingGroup(h) BY <2>8, <2>13, <3>1
    <3>3. h # g BY <1>1, <3>1, <3>2
    <3>4. QED BY <1>2, <2>6, <2>9, <2>13, <3>2, <3>3 DEF GroupsInv
  <2>14. ASSUME NEW u \in Tasks, NEW v \in Tasks,
                frame'[u].at = "mutex_group_wait", frame'[u] = frame'[v]
         PROVE  u = v
    <3>1. CASE u # t /\ v # t BY <1>2, <2>8, <2>14, <3>1 DEF GroupsInv, InGroupWait
    <3>2. CASE u = t BY <1>1, <2>8, <2>14, <3>2
    <3>3. CASE v = t BY <1>1, <2>8, <2>14, <3>3
    <3>4. QED BY <3>1, <3>2, <3>3
  <2>15. QED BY <2>7, <2>11, <2>12, <2>13, <2>14 DEF WakeInv, GroupsInv, InGroupWait
<1>10. QED BY <1>1, <1>8, <1>9 DEF GroupLoop

-----------------------------------------------------------------------------
\* At first nobody lives, and no interrupt is attached.
LEMMA InitWakes == Init => WakeInv
<1> SUFFICES ASSUME Init PROVE WakeInv OBVIOUS
<1>1. /\ \A t \in Tasks : k.base[t] = 0
      /\ \A g \in Groups : k.waiter[g] = None
      /\ \A i \in Irqs : k.ilock[i] = None /\ k.pending[i] = FALSE
      /\ \A m \in Mutexes : k.irq[m] = None
  BY DEF Init, KernelInit, AllTasks
<1>2. \A t \in Tasks : frame[t] = User BY KernelConstants DEF Init, AllTasks
<1>3. \A t \in Tasks : frame[t].at = "user" BY <1>2, FrameFields
<1>4. \A g : WaitingGroup(g).at = "mutex_group_wait" BY FrameFields
<1>5. GroupsInv BY <1>1, <1>3, <1>4 DEF GroupsInv, InGroupWait
<1>6. AliveInv BY <1>1 DEF AliveInv, Alive
<1>7. IrqInv(k) BY <1>1 DEF IrqInv
<1>8. QED BY <1>5, <1>6, <1>7 DEF WakeInv

\* Every step keeps it.
LEMMA NextWakes ==
    ASSUME Inv, WakeInv, [Next]_vars, "delete_group_waiter" \notin Misuse
    PROVE  WakeInv'
<1>1. CASE StartTasks BY <1>1, TaskWakes
<1>2. ASSUME NEW t \in Tasks, TaskCreate(t) PROVE WakeInv' BY <1>2, CreateWakes
<1>3. ASSUME NEW t \in Tasks, Resume(t) PROVE WakeInv'
  BY <1>3, LockWakes, LockIrqWakes, ResumeWaitWakes, GroupWakes, UnlocksWake, FinishWakes
     DEF Resume
<1>4. ASSUME NEW t \in Tasks, TaskCall(t) PROVE WakeInv'
  BY <1>4, TaskWakes, DeleteWakes DEF TaskCall
<1>5. ASSUME NEW t \in Tasks, MutexCall(t) PROVE WakeInv'
  <2>1. PICK m \in Locks :
          \/ MutexLock(t, m) \/ MutexTrylock(t, m) \/ MutexUnlock(t, m) \/ MutexWait(t, m)
          \/ \E msg \in Messages : MutexSignal(t, m, msg)
    BY <1>5 DEF MutexCall
  <2>2. m \in Mutexes BY DEF Locks
  <2>3. CASE MutexLock(t, m) \/ MutexTrylock(t, m) BY <2>3, LockWakes
  <2>4. CASE MutexUnlock(t, m) BY <2>4, UnlocksWake
  <2>5. CASE MutexWait(t, m) BY <2>5, SleepWakes
  <2>6. CASE \E msg \in Messages : MutexSignal(t, m, msg) BY <2>2, <2>6, SignalWakes
  <2>7. QED BY <2>1, <2>3, <2>4, <2>5, <2>6
<1>6. ASSUME NEW t \in Tasks, JoinCall(t) PROVE WakeInv'
  <2>1. CASE \E d \in Tasks : TaskWait(t, d) BY <2>1, LockWakes
  <2>2. CASE TaskWaitTest(t) BY <2>2, TaskWakes
  <2>3. CASE TaskWaitSleep(t) BY <2>3, SleepWakes
  <2>4. CASE TaskWaitReturn(t) BY <2>4, UnlocksWake
  <2>5. QED BY <1>6, <2>1, <2>2, <2>3, <2>4 DEF JoinCall
<1>7. ASSUME NEW t \in Tasks, IrqCall(t) PROVE WakeInv'
  BY <1>7, LockIrqWakes, UnlocksWake DEF IrqCall
<1>8. ASSUME NEW t \in Tasks, NEW g \in Groups, GroupWait(t, g) PROVE WakeInv'
  BY <1>8, GroupWakes
<1>9. ASSUME NEW g \in Groups, GroupListen(g) \/ GroupUnlisten(g) PROVE WakeInv'
  BY <1>9, AttachWakes
<1>10. ASSUME NEW i \in Irqs, NEW f \in BOOLEAN, MutexAttachIrq(i, f) PROVE WakeInv'
  BY <1>10, AttachWakes
<1>11. ASSUME NEW i \in Irqs, Interrupt(i) PROVE WakeInv' BY <1>11, InterruptWakes
<1>12. CASE UNCHANGED vars
  <2>1. k' = k /\ frame' = frame BY <1>12 DEF vars
  <2>2. QED BY <2>1 DEF WakeInv, GroupsInv, InGroupWait, AliveInv, Alive, BeingDeleted
<1>13. QED
  BY <1>1, <1>2, <1>3, <1>4, <1>5, <1>6, <1>7, <1>8, <1>9, <1>10, <1>11, <1>12 DEF Next

\* It is an invariant, beside that of KernelProofs.
LEMMA WakesInvariant ==
    ASSUME "delete_group_waiter" \notin Misuse
    PROVE  Spec => [](Inv /\ WakeInv)
<1>1. Init => Inv /\ WakeInv BY InitInv, InitWakes
<1>2. Inv /\ WakeInv /\ [Next]_vars => (Inv /\ WakeInv)' BY NextInv, NextWakes
<1>3. QED BY <1>1, <1>2, PTL DEF Spec

-----------------------------------------------------------------------------
(***************************************************************************)
(* What follows.                                                           *)
(***************************************************************************)

\* One of four.
LEMMA OneOfFour ==
    ASSUME NEW a, NEW b, NEW c, NEW d, a[2] \/ b[2] \/ c[2] \/ d[2],
           a[2] => ~b[2] /\ ~c[2] /\ ~d[2], b[2] => ~c[2] /\ ~d[2], c[2] => ~d[2]
    PROVE  Cardinality({x \in {a, b, c, d} : x[2]}) = 1
<1> DEFINE S == {x \in {a, b, c, d} : x[2]}
<1>1. S = {a} \/ S = {b} \/ S = {c} \/ S = {d}
  <2>1. a[2] => S = {a} BY Zenon
  <2>2. b[2] => S = {b} BY Zenon
  <2>3. c[2] => S = {c} BY Zenon
  <2>4. d[2] => S = {d} BY Zenon
  <2>5. QED BY <2>1, <2>2, <2>3, <2>4
<1> HIDE DEF S
<1>2. Cardinality(S) = 1 BY <1>1, FS_Singleton
<1>3. QED BY <1>2 DEF S

\* A living task is present, and the lists tell its states apart.
LEMMA NobodyLost == Inv /\ WakeInv => NoTaskLost
<1> SUFFICES ASSUME Inv, WakeInv, NEW t \in Tasks, Alive(t)
             PROVE  LET ready   == t \in Range(k.list[Active])
                        grouped == \E g \in Groups : k.waiter[g] = t
                    IN  Cardinality({x \in {<<"ready", ready>>, <<"lock", k.lock[t] # None>>,
                                <<"wait", k.wait[t] # None>>, <<"group", grouped>>} : x[2]}) = 1
  BY DEF NoTaskLost
<1> DEFINE r == t \in Range(k.list[Active])
           l == k.lock[t] # None
           w == k.wait[t] # None
           g == \E h \in Groups : k.waiter[h] = t
<1>1. ListInv(k) /\ WaiterInv(k) /\ t \in AllTasks /\ t # None
  BY KernelConstants DEF Inv, KInv, AllTasks
<1>2. k.lock[t] \in OrNone(Mutexes) /\ k.wait[t] \in OrNone(Mutexes) BY <1>1 DEF ListInv
<1>3. Separate(k.list) /\ LinkedWhereBlocked(k) BY <1>1 DEF ListInv
<1>4. Present(k, t) BY DEF WakeInv, AliveInv
<1>5. l => Linked(k, t) /\ t \in Range(k.list[Slaves(k.lock[t])]) /\ k.lock[t] \in Mutexes
  BY <1>1, <1>2, <1>3, HeadsDiffer DEF OrNone, LinkedWhereBlocked, Linked
<1>6. w => Linked(k, t) /\ t \in Range(k.list[Waiters(k.wait[t])]) /\ k.wait[t] \in Mutexes
  BY <1>1, <1>2, <1>3, HeadsDiffer DEF OrNone, LinkedWhereBlocked, Linked
<1>7. r => Linked(k, t) BY HeadsDiffer DEF Linked
<1>8. g => ~Linked(k, t) BY <1>1 DEF WaiterInv
<1>9. \A h1, h2 \in Heads :
        t \in Range(k.list[h1]) /\ t \in Range(k.list[h2]) => h1 = h2
  BY <1>3 DEF Separate
<1>10. r => ~l /\ ~w BY <1>5, <1>6, <1>9, HeadsDiffer
<1>11. l => ~w BY <1>5, <1>6, <1>9, HeadsDiffer
<1>12. Linked(k, t) => r \/ l \/ w
  <2>1. ASSUME NEW m \in Mutexes, t \in Range(k.list[Slaves(m)]) PROVE l
    BY <1>1, <1>3, <2>1, KernelConstants DEF LinkedWhereBlocked
  <2>2. ASSUME NEW m \in Mutexes, t \in Range(k.list[Waiters(m)]) PROVE w
    BY <1>1, <1>3, <2>2, KernelConstants DEF LinkedWhereBlocked
  <2>3. QED BY <2>1, <2>2 DEF Linked, Heads
<1>13. r \/ l \/ w \/ g BY <1>4, <1>12 DEF Present
<1>14. r \in BOOLEAN /\ l \in BOOLEAN /\ w \in BOOLEAN /\ g \in BOOLEAN OBVIOUS
<1>15. (r => ~g) /\ (l => ~g) /\ (w => ~g) BY <1>5, <1>6, <1>7, <1>8
<1> DEFINE a == <<"ready", r>>
           b == <<"lock", l>>
           c == <<"wait", w>>
           d == <<"group", g>>
<1>16. (a[2] <=> r) /\ (b[2] <=> l) /\ (c[2] <=> w) /\ (d[2] <=> g)
  <2> HIDE DEF r, l, w, g
  <2>1. a[2] = r /\ b[2] = l /\ c[2] = w /\ d[2] = g OBVIOUS
  <2>2. QED BY <2>1
<1> HIDE DEF r, l, w, g, a, b, c, d
<1>17. Cardinality({x \in {a, b, c, d} : x[2]}) = 1
  BY <1>10, <1>11, <1>13, <1>15, <1>16, OneOfFour
<1>18. QED BY <1>17 DEF r, l, w, g, a, b, c, d

\* No sequence of locks, signals, interrupts and deletions drops a living task
\* from every list (mutex.c, msignal.c, main.c, mgroup.c, tdelete.c).
THEOREM TasksAreNotLost ==
    ASSUME "delete_group_waiter" \notin Misuse
    PROVE  Spec => []NoTaskLost
<1>1. Spec => [](Inv /\ WakeInv) BY WakesInvariant
<1>2. Inv /\ WakeInv => NoTaskLost BY NobodyLost
<1>3. QED BY <1>1, <1>2, PTL

\* Nobody sleeps on a group of which a lock was signalled (mgroup.c:119-137,
\* main.c:71-82).
THEOREM GroupSignalsAreNotLost ==
    ASSUME "delete_group_waiter" \notin Misuse
    PROVE  Spec => []GroupSignalNotLost
<1>1. Spec => [](Inv /\ WakeInv) BY WakesInvariant
<1>2. Inv /\ WakeInv => GroupSignalNotLost BY DEF WakeInv, GroupsInv, GroupSignalNotLost
<1>3. QED BY <1>1, <1>2, PTL

\* An interrupt is pending only while its lock is held, so the release serves it
\* (mutex.c:204-211, irelease.c:54-62, msignal.c:62-74).
THEOREM PendingIsServed ==
    ASSUME "delete_group_waiter" \notin Misuse
    PROVE  Spec => []PendingOnlyWhileLocked
<1>1. Spec => [](Inv /\ WakeInv) BY WakesInvariant
<1>2. Inv /\ WakeInv => PendingOnlyWhileLocked
  BY DEF WakeInv, IrqInv, PendingOnlyWhileLocked
<1>3. QED BY <1>1, <1>2, PTL

-----------------------------------------------------------------------------
(***************************************************************************)
(* A task that waits for an interrupt finds it unmasked.                   *)
(***************************************************************************)
\* No interrupt is masked, and nobody begins to wait but on m, where alone an
\* interrupt is detached.
ArmsBut(s, r, m) ==
    /\ \A i \in Irqs : s.allowed[i] => r.allowed[i]
    /\ \A u \in AllTasks, n \in Mutexes \ {m} : r.wait[u] = n => s.wait[u] = n
    /\ \A n \in Mutexes \ {m} : s.irq[n] # None => r.irq[n] = s.irq[n]

Arms(s, r) == ArmsBut(s, r, None)

ArmFields == {"allowed", "wait", "irq"}

\* One function after the other.
LEMMA ArmsTrans ==
    ASSUME NEW m, NEW s, NEW q, NEW r, ArmsBut(s, q, m), ArmsBut(q, r, m)
    PROVE  ArmsBut(s, r, m)
BY DEF ArmsBut

\* Any other field may change.
LEMMA ArmsChange ==
    ASSUME NEW s, NEW r, NEW F, Changes(s, r, F), F \cap ArmFields = {}, NEW m
    PROVE  ArmsBut(s, r, m)
<1>1. ArmFields \subseteq Fields BY DEF ArmFields, Fields
<1>2. \A f \in ArmFields : r[f] = s[f] BY <1>1 DEF Changes
<1>3. r.allowed = s.allowed /\ r.wait = s.wait /\ r.irq = s.irq BY <1>2 DEF ArmFields
<1>4. QED BY <1>3 DEF ArmsBut

\* mutex_activate leaves no task waiting on the lock (main.c:61-69).
LEMMA SignalArms ==
    ASSUME NEW s, Shaped(s), NEW n \in Mutexes, NEW msg
    PROVE  LET r == MutexActivate(s, n, msg)
           IN  /\ \A m : ArmsBut(s, r, m)
               /\ r.allowed = s.allowed
               /\ ListInv(s) => \A u \in AllTasks : r.wait[u] # n
<1> DEFINE w == s.list[Waiters(n)]
           p == [s EXCEPT !.list[Waiters(n)] = <<>>]
           q == TaskActivate([s EXCEPT !.list[Waiters(n)] = <<>>], w)
           a == WaitersActivated(s, n, msg)
           r == MutexActivate(s, n, msg)
<1>0. Changes(s, p, {"list"}) BY DEF Shaped, Changes
<1>1. Changes(p, q, {"list", "need"}) /\ Shaped(q)
  <2>1. Shaped(p) BY <1>0 DEF Changes
  <2> HIDE DEF p
  <2>2. Changes(p, TaskActivate(p, w), {"list", "need"}) BY <2>1, ActivateShape
  <2>3. q = TaskActivate(p, w) BY DEF p
  <2> HIDE DEF q
  <2>4. QED BY <2>2, <2>3 DEF Changes
<1>2. q.wait = s.wait /\ Shaped(q)
  <2> HIDE DEF p, q
  <2>1. q.wait = s.wait BY <1>0, <1>1 DEF Changes, Fields
  <2>2. QED BY <2>1, <1>1
<1>3. a = [q EXCEPT
            !.wait    = [t \in AllTasks |-> IF t \in Range(w) THEN None ELSE @[t]],
            !.message = [t \in AllTasks |-> IF t \in Range(w) THEN msg ELSE @[t]]]
  BY DEF WaitersActivated
<1>4. Changes(s, r, Woken) BY MutexActivateShape
<1>5. Changes(s, a, Woken) BY WaitersShape
<1>6. a.wait = [t \in AllTasks |-> IF t \in Range(w) THEN None ELSE s.wait[t]]
  <2> HIDE DEF q, w, a
  <2>1. a.wait = [t \in AllTasks |-> IF t \in Range(w) THEN None ELSE q.wait[t]]
    BY <1>2, <1>3 DEF Shaped, Fields
  <2>2. QED BY <1>2, <2>1
<1>7. r.wait = a.wait
  <2> HIDE DEF a
  <2> DEFINE x == TaskActivate(a, GroupsWoken(a, n))
             gs == Range(a.groups[n])
  <2>1. r = GroupsActivated(a, n, msg) BY DEF MutexActivate, a
  <2>2. Changes(a, x, {"list", "need"}) BY <1>5, ActivateShape DEF Changes
  <2>3. r = [x EXCEPT
              !.signalled = [g \in Groups |-> IF g \in gs THEN @[g] \cup {n} ELSE @[g]],
              !.gmessage  = [g \in Groups |-> IF g \in gs THEN [@[g] EXCEPT ![n] = msg]
                                              ELSE @[g]],
              !.waiter    = [g \in Groups |-> IF g \in gs THEN None ELSE @[g]]]
    BY <2>1 DEF GroupsActivated
  <2> HIDE DEF x, gs, r
  <2>4. r.wait = x.wait BY <2>2, <2>3 DEF Changes, Shaped, Fields
  <2>5. QED BY <2>2, <2>4 DEF Changes, Fields
<1>8. \A m \in Mutexes : m # None BY KernelConstants
<1> HIDE DEF r, a, q
<1>9. r.allowed = s.allowed /\ r.irq = s.irq BY <1>4 DEF Changes, Fields, Woken
<1>10. \A m : ArmsBut(s, r, m) BY <1>6, <1>7, <1>8, <1>9 DEF ArmsBut
<1>11. ListInv(s) => \A u \in AllTasks : r.wait[u] # n
  BY <1>6, <1>7, <1>8 DEF ListInv, LinkedWhereBlocked
<1>12. QED BY <1>9, <1>10, <1>11 DEF r

\* The reschedule, due or not.
LEMMA ScheduleArms ==
    ASSUME NEW s, Shaped(s), NEW r, r = s \/ r = TaskSchedule(s) \/ r = ScheduleIfNeeded(s)
    PROVE  \A m : ArmsBut(s, r, m)
<1>1. \A m : ArmsBut(s, s, m) BY DEF ArmsBut
<1>2. r = s \/ Changes(s, r, {"current", "need"}) BY ScheduleShape, ScheduleIfNeededShape
<1>3. QED BY <1>1, <1>2, ArmsChange DEF ArmFields

\* A pending interrupt is a signal, or nothing (mutex.c:204-211).
LEMMA HandlerArms ==
    ASSUME NEW s, KInv(s), NEW i \in Irqs, NEW outcome \in Outcomes
    PROVE  LET r == HandlerCalled(s, i, outcome) IN \A m : ArmsBut(s, r, m)
<1> DEFINE r == HandlerCalled(s, i, outcome)
<1>1. Shaped(s) /\ s.allowed \in [Irqs -> BOOLEAN] BY DEF KInv, DataInv
<1>2. /\ r.wait = s.wait /\ r.irq = s.irq
      /\ r.allowed = [s.allowed EXCEPT ![i] = s.allowed[i] \/ outcome.allow]
  BY <1>1 DEF HandlerCalled, Shaped, Fields
<1> HIDE DEF r
<1>3. QED BY <1>1, <1>2 DEF ArmsBut, r

\* The interrupt that is served when the lock is released.
LEMMA ServedArms ==
    ASSUME NEW s, KInv(s), NEW n \in Mutexes, NEW outcome \in Outcomes
    PROVE  Arms(s, PendingServed(s, n, outcome))
<1> DEFINE i == s.irq[n]
           q == HandlerCalled(s, i, outcome)
           a == MutexActivate(q, n, None)
<1>1. Arms(s, s) BY DEF Arms, ArmsBut
<1>2. ASSUME i # None PROVE Arms(s, q) /\ Arms(s, a)
  <2>1. i \in Irqs BY <1>2 DEF KInv, DataInv, OrNone
  <2> HIDE DEF i
  <2>2. Shaped(q) /\ Arms(s, q) BY <2>1, HandlerShape, HandlerArms DEF Changes, KInv, Arms
  <2> HIDE DEF q
  <2>3. Arms(q, a) BY <2>2, SignalArms DEF Arms
  <2>4. QED BY <2>2, <2>3, ArmsTrans DEF Arms
<1>3. PendingServed(s, n, outcome) = s \/ (i # None /\ PendingServed(s, n, outcome) \in {q, a})
  BY DEF PendingServed
<1>4. QED BY <1>1, <1>2, <1>3

\* The release of a lock, its interrupt detached or not.
LEMMA ReleaseArms ==
    ASSUME NEW s, KInv(s), NEW m \in Mutexes, s.master[m] # None,
           NEW outcome \in Outcomes, NEW d,
           LET p == PendingServed(DisownMutex(s, m), m, outcome)
           IN  d \in {p, Detached(p, m)}
    PROVE  LET p == PendingServed(DisownMutex(s, m), m, outcome)
               r == SlavesReleased(d, m)
           IN  /\ d = p => Arms(s, r)
               /\ d = Detached(p, m) => ArmsBut(s, r, m) /\ r.irq[m] = None
               /\ Shaped(r)
<1> DEFINE q == DisownMutex(s, m)
           p == PendingServed(q, m, outcome)
           r == SlavesReleased(d, m)
<1>1. KInv(q) /\ Changes(s, q, Inherited \cup {"deep", "owned", "master"}) BY DisownKeeps
<1>2. d \in {p, Detached(p, m)} OBVIOUS
<1> HIDE DEF q
<1>3. KInv(p) /\ Arms(q, p) BY <1>1, PendingKeeps, ServedArms
<1> HIDE DEF p
<1>4. Arms(s, q) BY <1>1, ArmsChange DEF ArmFields, Inherited, Arms
<1>5. Arms(s, p) BY <1>3, <1>4, ArmsTrans DEF Arms
<1>6. ArmsBut(s, Detached(p, m), m) /\ Detached(p, m).irq[m] = None
  <2>1. ArmsBut(s, p, m) /\ Shaped(p) /\ p.irq \in [Mutexes -> OrNone(Irqs)]
    BY <1>3, <1>5, KernelConstants DEF Arms, ArmsBut, KInv, DataInv
  <2>2. CASE p.irq[m] = None BY <2>1, <2>2 DEF Detached
  <2>3. CASE p.irq[m] # None
    <3> DEFINE x == Detached(p, m)
    <3>1. /\ x.irq = [p.irq EXCEPT ![m] = None]
          /\ x.allowed = p.allowed /\ x.wait = p.wait
      BY <2>1, <2>3 DEF Detached, Shaped, Fields
    <3> HIDE DEF x
    <3>2. QED BY <2>1, <3>1 DEF ArmsBut, x
  <2>4. QED BY <2>2, <2>3
<1>7. Shaped(d)
  <2>1. Shaped(p) BY <1>3 DEF KInv
  <2>2. Changes(p, Detached(p, m), {"irq", "ilock"}) BY <1>3, DetachedKeeps
  <2>3. QED BY <1>2, <2>1, <2>2 DEF Changes
<1>8. Changes(d, r, {"list", "need", "lock", "mprio"}) BY <1>7, SlavesReleasedShape
<1> HIDE DEF r
<1>9. Arms(d, r) /\ ArmsBut(d, r, m) /\ r.irq = d.irq
  <2>1. r.irq = d.irq BY <1>8 DEF Changes, Fields
  <2>2. QED BY <1>8, <2>1, ArmsChange DEF ArmFields, Arms
<1>10. d = p => Arms(s, r) BY <1>5, <1>9, ArmsTrans DEF Arms
<1>11. d = Detached(p, m) => ArmsBut(s, r, m) /\ r.irq[m] = None BY <1>6, <1>9, ArmsTrans
<1>12. QED BY <1>8, <1>10, <1>11 DEF p, q, r, Changes

\* The calls that are not about a lock or an interrupt.
LEMMA TaskArms ==
    ASSUME Inv,
           \/ StartTasks
           \/ \E t \in Tasks : \/ TaskCreate(t) \/ TaskYield(t) \/ TaskWaitTest(t)
                               \/ \E d \in Tasks, p \in SetPrios : TaskSetPriority(t, d, p)
           \/ \E g \in Groups : GroupListen(g) \/ GroupUnlisten(g)
           \/ \E t \in Tasks : ResumeGroupWait(t) \/ \E g \in Groups : GroupWait(t, g)
    PROVE  Arms(k, k')
<1>1. Shaped(k) /\ Arms(k, k) BY DEF Inv, KInv, Arms, ArmsBut
<1>2. CASE StartTasks BY <1>1, <1>2, ScheduleArms DEF StartTasks, Arms
<1>3. ASSUME NEW t \in Tasks, TaskCreate(t) PROVE Arms(k, k')
  <2> DEFINE f == finish[t]
             p == StartPrio[t]
             r == [k EXCEPT !.base[t] = p, !.prio[t] = p, !.message[t] = None,
                            !.mprio[f] = 0, !.groups[f] = <<>>]
  <2> HIDE DEF f, p
  <2>1. Changes(k, r, {"base", "prio", "message", "mprio", "groups"})
    <3>1. r = Created(k, t, p, f) BY DEF Created
    <3> HIDE DEF r
    <3>2. CreatedFrom(k, r, t, p, f) BY <1>1, <3>1, CreatedIs
    <3>3. QED BY <3>2 DEF CreatedFrom
  <2>2. k' = TaskActivate(r, <<t>>) BY <1>3 DEF TaskCreate, f, p
  <2> HIDE DEF r
  <2>3. Changes(r, k', {"list", "need"}) BY <2>1, <2>2, ActivateShape DEF Changes
  <2>4. QED BY <2>1, <2>3, ArmsChange, ArmsTrans DEF ArmFields, Arms
<1>4. ASSUME NEW t \in Tasks, TaskYield(t) PROVE Arms(k, k')
  <2> DEFINE r == ListAppend(k, Active, t)
  <2>1. Changes(k, r, {"list"}) BY <1>1, AppendShape
  <2>2. k' = TaskSchedule(r) BY <1>4 DEF TaskYield
  <2> HIDE DEF r
  <2>3. Arms(k, r) BY <2>1, ArmsChange DEF ArmFields, Arms
  <2>4. Arms(r, k') BY <2>1, <2>2, ScheduleArms DEF Changes, Arms
  <2>5. QED BY <2>3, <2>4, ArmsTrans DEF Arms
<1>5. ASSUME NEW t \in Tasks, TaskWaitTest(t) PROVE Arms(k, k')
  BY <1>1, <1>5 DEF TaskWaitTest
<1>6. ASSUME NEW t \in Tasks, NEW d \in Tasks, NEW p \in SetPrios, TaskSetPriority(t, d, p)
      PROVE  Arms(k, k')
  <2> DEFINE q == [k EXCEPT !.base[d] = p]
             r == TaskRecalculatePrio(q, d)
  <2>1. Changes(k, q, {"base"}) BY <1>1 DEF Shaped, Fields, Changes
  <2>2. k' = ScheduleIfNeeded(r) BY <1>6 DEF TaskSetPriority
  <2> HIDE DEF q
  <2>3. Changes(q, r, Inherited) BY <2>1, TaskRecalculateShape DEF Changes
  <2> HIDE DEF r
  <2>4. Arms(k, q) /\ Arms(q, r)
    BY <2>1, <2>3, ArmsChange DEF ArmFields, Arms, Inherited
  <2>5. Arms(r, k') BY <2>2, <2>3, ScheduleArms DEF Changes, Arms
  <2>6. QED BY <2>4, <2>5, ArmsTrans DEF Arms
<1>7. ASSUME NEW g \in Groups, GroupListen(g) \/ GroupUnlisten(g) PROVE Arms(k, k')
  <2>1. Changes(k, k', {"groups", "gmessage"})
    BY <1>1, <1>7 DEF GroupListen, GroupUnlisten, Shaped, Fields, Changes
  <2>2. QED BY <2>1, ArmsChange DEF ArmFields, Arms
<1>8. ASSUME NEW t, NEW g, GroupLoop(t, g) PROVE Arms(k, k')
  <2>1. CASE k' = [k EXCEPT !.signalled[g] = @ \ {LastSignalled(g)}]
    <3> DEFINE x == LastSignalled(g)
    <3>1. k' = [k EXCEPT !.signalled[g] = @ \ {x}] BY <2>1
    <3> HIDE DEF x
    <3>2. Changes(k, k', {"signalled"}) BY <1>1, <3>1 DEF Shaped, Fields, Changes
    <3>3. QED BY <3>2, ArmsChange DEF ArmFields, Arms
  <2>2. CASE k' = TaskSchedule([ListUnlink(k, t) EXCEPT !.waiter[g] = t])
    <3> DEFINE q == ListUnlink(k, t)
               r == [q EXCEPT !.waiter[g] = t]
    <3>1. Changes(k, q, {"list"}) BY <1>1, UnlinkShape
    <3>2. k' = TaskSchedule(r) BY <2>2
    <3> HIDE DEF q
    <3>3. Changes(q, r, {"waiter"}) BY <3>1 DEF Shaped, Fields, Changes
    <3> HIDE DEF r
    <3>4. Arms(k, q) /\ Arms(q, r) BY <3>1, <3>3, ArmsChange DEF ArmFields, Arms
    <3>5. Arms(r, k') BY <3>2, <3>3, ScheduleArms DEF Changes, Arms
    <3>6. QED BY <3>4, <3>5, ArmsTrans DEF Arms
  <2>3. QED BY <1>8, <2>1, <2>2 DEF GroupLoop
<1>9. QED BY <1>2, <1>3, <1>4, <1>5, <1>6, <1>7, <1>8 DEF GroupWait, ResumeGroupWait

\* An interrupt is attached to its lock, which has no other.
LEMMA AttachedArms ==
    ASSUME Inv, IrqInv(k), NEW q, Shaped(q), q.irq = k.irq, NEW i \in Irqs, NEW b
    PROVE  Arms(q, Attached(q, IrqMutex[i], i, b))
<1> DEFINE m == IrqMutex[i]
           r == Attached(q, m, i, b)
<1>1. Changes(q, r, {"irq", "ilock", "fast", "pending"}) BY AttachedShape
<1>2. m \in Mutexes /\ \A j \in Irqs : IrqMutex[j] = m => j = i BY KernelParameters
<1>3. k.irq \in [Mutexes -> OrNone(Irqs)] BY DEF Inv, KInv, DataInv
<1> HIDE DEF m
<1>4. r.irq = [q.irq EXCEPT ![m] = i] BY DEF Attached, Shaped, Fields
<1> HIDE DEF r
<1>5. ASSUME NEW n \in Mutexes, q.irq[n] # None PROVE r.irq[n] = q.irq[n]
  <2>1. CASE n # m BY <1>3, <1>4, <2>1
  <2>2. CASE n = m
    <3> DEFINE j == k.irq[m]
    <3>1. j \in Irqs /\ k.ilock[j] = m BY <1>2, <1>3, <1>5, <2>2 DEF IrqInv, OrNone
    <3>2. IrqMutex[j] = m BY <1>2, <3>1, KernelConstants DEF IrqInv
    <3>3. k.irq[m] = i BY <1>2, <3>1, <3>2
    <3>4. QED BY <1>3, <1>4, <2>2, <3>3
  <2>3. QED BY <2>1, <2>2
<1>6. r.allowed = q.allowed /\ r.wait = q.wait BY <1>1 DEF Changes, Fields
<1>7. QED BY <1>5, <1>6 DEF Arms, ArmsBut, m, r

\* The locks are taken, their interrupts attached or not.
LEMMA LockArms ==
    ASSUME Inv, IrqInv(k), NEW t \in Tasks,
           \/ \E m \in Locks : MutexLock(t, m) \/ MutexTrylock(t, m)
           \/ \E d \in Tasks : TaskWait(t, d)
           \/ \E i \in Irqs, b \in BOOLEAN : MutexLockIrq(t, i, b)
           \/ ResumeLock(t) \/ ResumeLockIrq(t) \/ ResumeWait(t)
    PROVE  Arms(k, k')
<1>1. Shaped(k) BY DEF Inv, KInv
<1>2. ASSUME NEW m PROVE Arms(k, BlockOnMutex(k, m)) /\ Arms(k, LockMutex(k, m))
  BY <1>1, BlockShape, LockShape, ArmsChange DEF ArmFields, Arms
<1>3. ASSUME NEW i \in Irqs, NEW b
      PROVE  Arms(k, Attached(LockMutex(k, IrqMutex[i]), IrqMutex[i], i, b))
  <2> DEFINE q == LockMutex(k, IrqMutex[i])
  <2>1. Arms(k, q) /\ Changes(k, q, Locked)
    BY <1>1, <1>2, LockShape DEF Locked
  <2> HIDE DEF q
  <2>2. Shaped(q) /\ q.irq = k.irq /\ q.ilock = k.ilock /\ q.pending = k.pending
    BY <2>1 DEF Changes, Fields, Locked
  <2>3. Arms(q, Attached(q, IrqMutex[i], i, b)) BY <2>2, AttachedArms
  <2>4. QED BY <2>1, <2>3, ArmsTrans DEF Arms, q
<1>4. ASSUME NEW m, NEW n PROVE Arms(k, [AcquireMutex(k, m) EXCEPT !.deep[m] = n])
  <2> DEFINE q == AcquireMutex(k, m)
             r == [q EXCEPT !.deep[m] = n]
  <2>1. Changes(k, q, {"master", "owned", "prio"}) BY <1>1, AcquireShape
  <2> HIDE DEF q
  <2>2. Changes(q, r, {"deep"}) BY <2>1 DEF Shaped, Fields, Changes
  <2> HIDE DEF r
  <2>3. Arms(k, q) /\ Arms(q, r) BY <2>1, <2>2, ArmsChange DEF ArmFields, Arms
  <2>4. QED BY <2>3, ArmsTrans DEF Arms, q, r
<1>5. ASSUME NEW m, NEW f, NEW done, Arms(k, done), LockLoop(t, m, f, done) PROVE Arms(k, k')
  BY <1>2, <1>5 DEF LockLoop
<1>6. CASE \E m \in Locks : MutexLock(t, m) \/ MutexTrylock(t, m)
  BY <1>2, <1>5, <1>6 DEF MutexLock, MutexTrylock
<1>7. CASE (\E d \in Tasks : TaskWait(t, d)) \/ ResumeLock(t)
  BY <1>2, <1>5, <1>7 DEF TaskWait, ResumeLock
<1>8. ASSUME NEW i \in Irqs, NEW b \in BOOLEAN, MutexLockIrq(t, i, b) PROVE Arms(k, k')
  BY <1>3, <1>5, <1>8 DEF MutexLockIrq
<1>9. CASE ResumeLockIrq(t)
  <2>1. PICK i \in Irqs, b \in BOOLEAN : frame[t] = LockingIrq(i, b)
    BY <1>9, ResumedAt DEF ResumeLockIrq
  <2>2. LockLoop(t, IrqMutex[i], frame[t],
                 Attached(LockMutex(k, IrqMutex[i]), IrqMutex[i], i, b))
    BY <1>9, <2>1, FrameFields DEF ResumeLockIrq
  <2>3. QED BY <1>3, <1>5, <2>2
<1>10. CASE ResumeWait(t)
  <2> DEFINE m == frame[t].mutex
             n == frame[t].deep
             r == [AcquireMutex(k, m) EXCEPT !.deep[m] = n]
  <2>1. k' = BlockOnMutex(k, m) \/ k' = r BY <1>10 DEF ResumeWait
  <2>2. Arms(k, r)
    <3> HIDE DEF m, n
    <3>1. QED BY <1>4
  <2> HIDE DEF m, r
  <2>3. QED BY <1>2, <2>1, <2>2
<1>11. QED BY <1>6, <1>7, <1>8, <1>9, <1>10

\* mutex_attach_irq unmasks the interrupt (iattach.c:25-46).
LEMMA AttachArms ==
    ASSUME Inv, IrqInv(k), NEW i \in Irqs, NEW f \in BOOLEAN, MutexAttachIrq(i, f)
    PROVE  Arms(k, k')
<1> DEFINE q == Attached(k, IrqMutex[i], i, f)
<1>1. Shaped(k) /\ k.allowed \in [Irqs -> BOOLEAN] BY DEF Inv, KInv, DataInv
<1>2. Changes(k, q, {"irq", "ilock", "fast", "pending"}) BY <1>1, AttachedShape
<1>3. k' = [q EXCEPT !.allowed[i] = TRUE] BY DEF MutexAttachIrq
<1>4. Arms(k, q) BY <1>1, AttachedArms
<1> HIDE DEF q
<1>5. q.allowed = k.allowed /\ q.wait = k.wait BY <1>2 DEF Changes, Fields
<1>6. k'.allowed = [q.allowed EXCEPT ![i] = TRUE] /\ k'.wait = q.wait /\ k'.irq = q.irq
  BY <1>2, <1>3 DEF Changes, Shaped, Fields
<1>7. Arms(q, k') BY <1>1, <1>5, <1>6 DEF Arms, ArmsBut
<1>8. QED BY <1>4, <1>7, ArmsTrans DEF Arms

\* mutex_unlock and mutex_unlock_irq, whoever calls them: only the second detaches
\* the interrupt.
LEMMA UnlockArms ==
    ASSUME Inv, NEW m \in Mutexes, k.master[m] # None
    PROVE  /\ \/ k' = [k EXCEPT !.deep[m] = @ - 1]
              \/ \E outcome \in Outcomes : k' = Unlocked(m, outcome)
              => Arms(k, k')
           /\ (\E outcome \in Outcomes :
                  k' = ScheduleIfNeeded(SlavesReleased(
                           Detached(PendingServed(DisownMutex(k, m), m, outcome), m), m)))
              => ArmsBut(k, k', m) /\ k'.irq[m] = None
<1>1. KInv(k) /\ Shaped(k) BY DEF Inv, KInv
<1>2. ASSUME k' = [k EXCEPT !.deep[m] = @ - 1] PROVE Arms(k, k')
  <2>1. Changes(k, k', {"deep"}) BY <1>1, <1>2 DEF Shaped, Fields, Changes
  <2>2. QED BY <2>1, ArmsChange DEF ArmFields, Arms
<1>3. ASSUME NEW outcome \in Outcomes, k' = Unlocked(m, outcome) PROVE Arms(k, k')
  <2> DEFINE p == PendingServed(DisownMutex(k, m), m, outcome)
             r == SlavesReleased(p, m)
  <2>1. k' = [k EXCEPT !.deep[m] = @ - 1] \/ k' = ScheduleIfNeeded(r)
    BY <1>3 DEF Unlocked, ReleaseMutex
  <2>2. p \in {p, Detached(p, m)} OBVIOUS
  <2>3. Arms(k, r) /\ Shaped(r) BY <1>1, <2>2, ReleaseArms
  <2> HIDE DEF r
  <2>4. ASSUME k' = ScheduleIfNeeded(r) PROVE Arms(k, k')
    <3>1. Arms(r, k') BY <2>3, <2>4, ScheduleArms DEF Arms
    <3>2. QED BY <2>3, <3>1, ArmsTrans DEF Arms
  <2>5. QED BY <1>2, <2>1, <2>4
<1>4. ASSUME NEW outcome \in Outcomes,
             k' = ScheduleIfNeeded(SlavesReleased(
                      Detached(PendingServed(DisownMutex(k, m), m, outcome), m), m))
      PROVE  ArmsBut(k, k', m) /\ k'.irq[m] = None
  <2> DEFINE p == PendingServed(DisownMutex(k, m), m, outcome)
             r == SlavesReleased(Detached(p, m), m)
  <2>1. Detached(p, m) \in {p, Detached(p, m)} OBVIOUS
  <2>2. ArmsBut(k, r, m) /\ r.irq[m] = None /\ Shaped(r) BY <1>1, <2>1, ReleaseArms
  <2>3. k' = ScheduleIfNeeded(r) BY <1>4
  <2> HIDE DEF r
  <2>4. k' = r \/ Changes(r, k', {"current", "need"})
    BY <2>2, <2>3, ScheduleIfNeededShape
  <2>5. k'.irq = r.irq BY <2>4 DEF Changes, Fields
  <2>6. ArmsBut(r, k', m) BY <2>2, <2>3, ScheduleArms
  <2>7. QED BY <2>2, <2>5, <2>6, ArmsTrans
<1>5. QED BY <1>2, <1>3, <1>4

\* The callers of mutex_unlock.
LEMMA UnlocksArm ==
    ASSUME Inv, NEW t \in Tasks,
           \/ \E m \in Locks : MutexUnlock(t, m)
           \/ TaskWaitReturn(t)
           \/ DeleteUnlock(t)
    PROVE  Arms(k, k')
<1>1. t # None BY KernelConstants DEF AllTasks
<1>2. ASSUME NEW m \in Locks, MutexUnlock(t, m) PROVE Arms(k, k')
  <2>1. m \in Mutexes /\ k.master[m] # None BY <1>1, <1>2 DEF Locks, MutexUnlock
  <2>2. \E outcome \in Outcomes : k' = Unlocked(m, outcome) BY <1>2 DEF MutexUnlock
  <2>3. QED BY <2>1, <2>2, UnlockArms
<1>3. CASE TaskWaitReturn(t)
  <2> DEFINE m == finish[joining[t].task]
  <2>1. Joins(t) BY <1>3 DEF TaskWaitReturn
  <2>2. m \in Mutexes /\ k.master[m] # None BY <1>1, <2>1, JoinerHas
  <2>3. \E outcome \in Outcomes : k' = Unlocked(m, outcome) BY <1>3 DEF TaskWaitReturn
  <2> HIDE DEF m
  <2>4. QED BY <2>2, <2>3, UnlockArms
<1>4. CASE DeleteUnlock(t)
  <2> DEFINE d == frame[t].task
             s == k.owned[d]
             m == Head(s)
  <2>1. d \in Tasks BY <1>4, Deletion DEF DeleteUnlock
  <2>2. s # <<>> /\ \E outcome \in Outcomes : k' = Unlocked(m, outcome)
    BY <1>4 DEF DeleteUnlock
  <2>3. OwnerInv(k) /\ d \in AllTasks BY <2>1 DEF Inv, KInv, AllTasks
  <2>4. s \in Seq(Mutexes) BY <2>3 DEF OwnerInv, OwnerType
  <2>5. m \in Mutexes /\ m \in Range(s)
    <3> HIDE DEF s
    <3>1. 1 \in 1 .. Len(s) BY <2>2, <2>4, EmptySeq
    <3>2. s[1] \in Range(s) /\ s[1] \in Mutexes BY <2>4, <3>1, LineElement
    <3>3. m = s[1] BY <2>2, <2>4
    <3>4. QED BY <3>2, <3>3
  <2> HIDE DEF m, d
  <2>6. k.master[m] # None
    <3>1. k.master[m] = d BY <2>3, <2>5 DEF OwnerInv, OwnedByMaster
    <3>2. QED BY <2>1, <3>1, KernelConstants DEF AllTasks
  <2>7. QED BY <2>2, <2>5, <2>6, UnlockArms
<1>5. QED BY <1>2, <1>3, <1>4

\* mutex_signal, and the two halves of task_delete.
LEMMA SignalsArm ==
    ASSUME Inv, NEW t \in Tasks,
           \/ \E m \in Mutexes, msg \in Messages : MutexSignal(t, m, msg)
           \/ \E d \in Tasks, msg \in Messages : TaskDelete(t, d, msg)
           \/ DeleteFinish(t)
    PROVE  Arms(k, k')
<1>1. KInv(k) /\ Shaped(k) /\ Arms(k, k) BY DEF Inv, KInv, Arms, ArmsBut
<1>2. ASSUME NEW q, Shaped(q), Arms(k, q), NEW m \in Mutexes, NEW msg,
             k' = ScheduleIfNeeded(q) \/ k' = ScheduleIfNeeded(MutexActivate(q, m, msg))
      PROVE  Arms(k, k')
  <2> DEFINE a == MutexActivate(q, m, msg)
  <2>1. Shaped(a) BY <1>2, MutexActivateShape DEF Changes
  <2>2. Arms(q, a) BY <1>2, SignalArms DEF Arms
  <2>3. k' = ScheduleIfNeeded(q) \/ k' = ScheduleIfNeeded(a) BY <1>2
  <2> HIDE DEF a
  <2>4. Arms(q, k') \/ Arms(a, k') BY <1>2, <2>1, <2>3, ScheduleArms DEF Arms
  <2>5. QED BY <1>2, <2>2, <2>4, ArmsTrans DEF Arms
<1>3. ASSUME NEW m \in Mutexes, NEW msg \in Messages, MutexSignal(t, m, msg)
      PROVE  Arms(k, k')
  <2>1. k' = k \/ k' = ScheduleIfNeeded(MutexActivate(k, m, msg)) BY <1>3 DEF MutexSignal
  <2>2. QED BY <1>1, <1>2, <2>1
<1>4. ASSUME NEW d \in Tasks, NEW msg \in Messages, TaskDelete(t, d, msg) PROVE Arms(k, k')
  <2> DEFINE m  == k.lock[d]
             u  == ListUnlink(k, d)
             k1 == [u EXCEPT !.need = @ \/ d = t]
             k2 == IF m # None /\ k1.mprio[m] <= k1.prio[d]
                   THEN MutexRecalculatePrio(k1, m) ELSE k1
  <2>1. k' = [k2 EXCEPT !.lock[d] = None, !.wait[d] = None] BY <1>4 DEF TaskDelete
  <2>2. Changes(k, u, {"list"}) BY <1>1, UnlinkShape
  <2> HIDE DEF u
  <2>3. Changes(u, k1, {"need"}) BY <2>2 DEF Shaped, Fields, Changes
  <2> HIDE DEF k1
  <2>4. Changes(k1, k2, Inherited) BY <2>3, MutexRecalculateShape DEF Changes
  <2> HIDE DEF k2
  <2>5. Arms(k, u) /\ Arms(u, k1) /\ Arms(k1, k2)
    BY <2>2, <2>3, <2>4, ArmsChange DEF ArmFields, Arms, Inherited
  <2>6. /\ k'.wait = [k2.wait EXCEPT ![d] = None]
        /\ k'.allowed = k2.allowed /\ k'.irq = k2.irq
    BY <2>1, <2>4 DEF Changes, Shaped, Fields
  <2>7. k2.wait = k.wait
    BY <2>2, <2>3, <2>4 DEF Changes, Fields, Inherited
  <2>8. k.wait \in [AllTasks -> OrNone(Mutexes)] BY <1>1 DEF KInv, ListInv
  <2>9. \A n \in Mutexes : n # None BY KernelConstants
  <2>10. Arms(k2, k') BY <2>6, <2>7, <2>8, <2>9 DEF Arms, ArmsBut
  <2>11. QED BY <2>5, <2>10, ArmsTrans DEF Arms
<1>5. CASE DeleteFinish(t)
  <2> DEFINE d   == frame[t].task
             f   == finish[d]
             k1  == [k EXCEPT !.base[d] = 0]
  <2>1. f \in Mutexes BY <1>5, Deletion, KernelParameters DEF DeleteFinish
  <2>2. \/ k' = ScheduleIfNeeded(k1)
        \/ k' = ScheduleIfNeeded(MutexActivate(k1, f, frame[t].message))
    BY <1>5 DEF DeleteFinish
  <2>3. Changes(k, k1, {"base"}) BY <1>1 DEF Shaped, Fields, Changes
  <2> HIDE DEF k1, f
  <2>4. Arms(k, k1) /\ Shaped(k1) BY <2>3, ArmsChange DEF ArmFields, Arms, Changes
  <2>5. QED BY <1>2, <2>1, <2>2, <2>4
<1>6. QED BY <1>3, <1>4, <1>5

\* A waiter is linked where it waits.
LEMMA NoWaiters ==
    ASSUME NEW s, KInv(s), NEW n \in Mutexes
    PROVE  s.list[Waiters(n)] = <<>> <=> \A u \in AllTasks : s.wait[u] # n
<1>1. Separate(s.list) /\ LinkedWhereBlocked(s) BY DEF KInv, ListInv
<1>2. s.list[Waiters(n)] \in Seq(AllTasks) BY <1>1, HeadsDiffer DEF Separate
<1>3. Range(<<>>) = {} BY EmptyLine
<1>4. s.list[Waiters(n)] = <<>> => \A u \in AllTasks : u \notin Range(s.list[Waiters(n)])
  BY <1>3
<1>5. (\A u \in AllTasks : u \notin Range(s.list[Waiters(n)])) => s.list[Waiters(n)] = <<>>
  BY <1>2, NoElement, RangeOfLine
<1>6. QED BY <1>1, <1>4, <1>5 DEF LinkedWhereBlocked

ArmedStep ==
    \A m \in Mutexes :
        k.irq[m] # None /\ ~k.fast[k.irq[m]] /\ Armed(k, m) =>
            \/ k'.irq[m] = k.irq[m] /\ Armed(k', m)
            \/ k'.irq[m] = None /\ k.master[m] = k.current

\* Who begins to wait has unmasked the interrupt, who detaches it has the lock.
LEMMA StillArmed ==
    ASSUME Inv, Inv', NEW m, ArmsBut(k, k', m),
           m \in Mutexes /\ k.irq[m] # None =>
              \/ k'.irq[m] = k.irq[m] /\ k'.allowed[k'.irq[m]]
              \/ k'.irq[m] = None /\ k.master[m] = k.current
    PROVE  ArmedStep
<1> SUFFICES ASSUME NEW n \in Mutexes, k.irq[n] # None, Armed(k, n)
             PROVE  \/ k'.irq[n] = k.irq[n] /\ Armed(k', n)
                    \/ k'.irq[n] = None /\ k.master[n] = k.current
  BY DEF ArmedStep
<1>1. KInv(k) /\ KInv(k') BY DEF Inv
<1>2. k.irq[n] \in Irqs BY <1>1 DEF KInv, DataInv, OrNone
<1>3. CASE n = m BY <1>3 DEF Armed
<1>4. n # m => k'.irq[n] = k.irq[n] BY DEF ArmsBut
<1>5. CASE n # m /\ k.allowed[k.irq[n]] BY <1>2, <1>4, <1>5 DEF Armed, ArmsBut
<1>6. CASE n # m /\ k.list[Waiters(n)] = <<>>
  <2>1. \A u \in AllTasks : k.wait[u] # n BY <1>1, <1>6, NoWaiters
  <2>2. \A u \in AllTasks : k'.wait[u] # n BY <1>6, <2>1 DEF ArmsBut
  <2>3. k'.list[Waiters(n)] = <<>> BY <1>1, <2>2, NoWaiters
  <2>4. QED BY <1>4, <1>6, <2>3 DEF Armed
<1>7. QED BY <1>3, <1>5, <1>6 DEF Armed

\* mutex_unlock_irq (irelease.c:40-76).
LEMMA UnlockIrqArms ==
    ASSUME Inv, Inv', NEW t \in Tasks, NEW m \in Locks, MutexUnlockIrq(t, m)
    PROVE  ArmedStep
<1>1. m \in Mutexes /\ k.master[m] = t /\ t = k.current /\ t # None
  BY KernelConstants DEF Locks, MutexUnlockIrq, Calls, Running, AllTasks
<1>2. CASE k' = [k EXCEPT !.deep[m] = @ - 1]
  <2>1. Arms(k, k') BY <1>1, <1>2, UnlockArms
  <2>2. None \notin Mutexes BY KernelConstants
  <2>3. QED BY <2>1, <2>2, StillArmed DEF Arms
<1>3. CASE \E outcome \in Outcomes :
             k' = ScheduleIfNeeded(SlavesReleased(
                      Detached(PendingServed(DisownMutex(k, m), m, outcome), m), m))
  <2>1. ArmsBut(k, k', m) /\ k'.irq[m] = None BY <1>1, <1>3, UnlockArms
  <2>2. QED BY <1>1, <2>1, StillArmed
<1>4. QED BY <1>2, <1>3 DEF MutexUnlockIrq

\* mutex_wait unmasks the interrupt of the lock on which the task goes to sleep
\* (msignal.c:75-109).
LEMMA SuspendArms ==
    ASSUME Inv, NEW t \in Tasks, NEW m \in Mutexes, NEW q, KInv(q), Arms(k, q),
           SuspendOnMutex(t, m, q)
    PROVE  /\ ArmsBut(k, k', m)
           /\ k.irq[m] # None => k'.irq[m] = k.irq[m] /\ k'.allowed[k'.irq[m]]
<1> DEFINE i == q.irq[m]
           u == Unmasked(q, m)
           v == [u EXCEPT !.wait[t] = m]
           r == ListAppend(v, Waiters(m), t)
           d == DisownMutex(r, m)
           a == SlavesActivated(d, m)
           z == [a EXCEPT !.mprio[m] = 0]
<1>1. /\ Shaped(q) /\ q.allowed \in [Irqs -> BOOLEAN] /\ q.irq \in [Mutexes -> OrNone(Irqs)]
      /\ q.wait \in [AllTasks -> OrNone(Mutexes)]
  BY DEF KInv, DataInv, ListInv
<1>2. /\ Changes(q, u, {"allowed"}) /\ \A j \in Irqs : q.allowed[j] => u.allowed[j]
      /\ i # None => u.allowed[i]
  <2>1. CASE i = None BY <1>1, <2>1 DEF Unmasked, Changes
  <2>2. CASE i # None
    <3>1. u = [q EXCEPT !.allowed[i] = TRUE] BY <2>2 DEF Unmasked
    <3>2. i \in Irqs BY <1>1, <2>2 DEF OrNone
    <3> HIDE DEF i, u
    <3>3. Changes(q, u, {"allowed"}) /\ u.allowed = [q.allowed EXCEPT ![i] = TRUE]
      BY <1>1, <3>1 DEF Shaped, Fields, Changes
    <3>4. QED BY <1>1, <3>2, <3>3
  <2>3. QED BY <2>1, <2>2
<1>3. i = q.irq[m] /\ q.irq[m] = i OBVIOUS
<1> HIDE DEF i, u
<1>4. Changes(u, v, {"wait"}) /\ v.wait = [u.wait EXCEPT ![t] = m]
  BY <1>2 DEF Shaped, Fields, Changes
<1> HIDE DEF v
<1>5. Changes(v, r, {"list"}) BY <1>4, AppendShape DEF Changes
<1> HIDE DEF r
<1>6. /\ r.wait = [q.wait EXCEPT ![t] = m] /\ r.allowed = u.allowed /\ r.irq = q.irq
  BY <1>2, <1>4, <1>5 DEF Changes, Fields
<1>7. ArmsBut(q, r, m) BY <1>1, <1>2, <1>6 DEF ArmsBut
<1>8. Shaped(r) /\ (r.irq[m] # None => r.allowed[r.irq[m]])
  BY <1>2, <1>3, <1>5, <1>6 DEF Changes
<1>9. Changes(r, d, Inherited \cup {"deep", "owned", "master"}) BY <1>8, DisownShape
<1> HIDE DEF d
<1>10. Changes(d, a, {"list", "need", "lock"}) BY <1>9, SlavesShape DEF Changes
<1> HIDE DEF a
<1>11. Changes(a, z, {"mprio"}) BY <1>10 DEF Shaped, Fields, Changes
<1>12. k' = TaskSchedule(r) \/ k' = TaskSchedule(z) BY DEF SuspendOnMutex, r, v, u, d, a
<1> HIDE DEF z
<1>13. Changes(r, k', {"current", "need"}) \/ Changes(z, k', {"current", "need"})
  BY <1>8, <1>11, <1>12, ScheduleShape DEF Changes
<1>14. k'.wait = r.wait /\ k'.allowed = r.allowed /\ k'.irq = r.irq
  BY <1>9, <1>10, <1>11, <1>13 DEF Changes, Fields, Inherited
<1>15. ArmsBut(r, k', m) BY <1>14 DEF ArmsBut
<1>16. None \notin Mutexes BY KernelConstants
<1>17. ArmsBut(k, q, m) /\ (k.irq[m] # None => q.irq[m] = k.irq[m])
  BY <1>16 DEF Arms, ArmsBut
<1>18. ArmsBut(k, k', m) BY <1>7, <1>15, <1>17, ArmsTrans
<1>19. QED BY <1>6, <1>8, <1>14, <1>17, <1>18

\* mutex_wait, called by a task or by task_wait.
LEMMA WaitArms ==
    ASSUME Inv, Inv', NEW t \in Tasks, NEW m \in Mutexes, WaitOn(t, m)
    PROVE  ArmedStep
<1>1. KInv(k) /\ Arms(k, k) BY DEF Inv, Arms, ArmsBut
<1>2. ASSUME NEW q, KInv(q), Arms(k, q), SuspendOnMutex(t, m, q) PROVE ArmedStep
  <2>1. /\ ArmsBut(k, k', m)
        /\ k.irq[m] # None => k'.irq[m] = k.irq[m] /\ k'.allowed[k'.irq[m]]
    BY <1>2, SuspendArms
  <2>2. QED BY <2>1, StillArmed
<1>3. ASSUME NEW outcome \in Outcomes, k.irq[m] # None,
             SuspendOnMutex(t, m, HandlerCalled(k, k.irq[m], outcome))
      PROVE  ArmedStep
  <2> DEFINE i == k.irq[m]
             q == HandlerCalled(k, i, outcome)
  <2>1. i \in Irqs BY <1>1, <1>3 DEF KInv, DataInv, OrNone
  <2>2. SuspendOnMutex(t, m, q) BY <1>3
  <2> HIDE DEF i
  <2>3. KInv(q) /\ Arms(k, q) BY <1>1, <2>1, HandlerKeeps, HandlerArms DEF Arms
  <2> HIDE DEF q
  <2>4. QED BY <1>2, <2>2, <2>3
<1>4. ASSUME NEW outcome \in Outcomes, k' = ScheduleIfNeeded(PendingServed(k, m, outcome))
      PROVE  ArmedStep
  <2> DEFINE r == PendingServed(k, m, outcome)
  <2>1. Arms(k, r) /\ Shaped(r)
    BY <1>1, ServedArms, PendingShape DEF KInv, Changes
  <2>2. k' = ScheduleIfNeeded(r) BY <1>4
  <2> HIDE DEF r
  <2>3. Arms(r, k') BY <2>1, <2>2, ScheduleArms DEF Arms
  <2>4. ArmsBut(k, k', None) BY <2>1, <2>3, ArmsTrans DEF Arms
  <2>5. None \notin Mutexes BY KernelConstants
  <2>6. QED BY <2>4, <2>5, StillArmed
<1>5. QED BY <1>1, <1>2, <1>3, <1>4 DEF WaitOn

\* The interrupt masks itself, and wakes who waits for it unless it is fast
\* (machdep.c:109-155).
LEMMA InterruptArms ==
    ASSUME Inv, Inv', IrqInv(k), NEW i \in Irqs, Interrupt(i)
    PROVE  ArmedStep
<1> DEFINE m == k.ilock[i]
           masked == [k EXCEPT !.allowed[i] = FALSE]
<1>1. /\ KInv(k) /\ KInv(k') /\ ListInv(k) /\ Shaped(k)
      /\ k.allowed \in [Irqs -> BOOLEAN] /\ k.irq \in [Mutexes -> OrNone(Irqs)]
  BY DEF Inv, KInv, DataInv
<1>2. m \in Mutexes BY <1>1 DEF Interrupt, KInv, DataInv, OrNone, Locks
<1>3. \A n \in Mutexes : k.irq[n] = i => n = m
  BY KernelConstants DEF IrqInv
<1>4. SUFFICES /\ k'.irq = k.irq
               /\ \A j \in Irqs \ {i} : k.allowed[j] => k'.allowed[j]
               /\ \A u \in AllTasks, n \in Mutexes : k'.wait[u] = n => k.wait[u] = n
               /\ k.fast[i] \/ \A u \in AllTasks : k'.wait[u] # m
  <2>1. SUFFICES ASSUME NEW n \in Mutexes, k.irq[n] # None, ~k.fast[k.irq[n]], Armed(k, n)
                 PROVE  Armed(k', n)
    BY <1>4 DEF ArmedStep
  <2>2. k.irq[n] \in Irqs BY <1>1, <2>1 DEF OrNone
  <2>3. CASE k.irq[n] = i
    <3>1. n = m /\ ~k.fast[i] BY <1>3, <2>1, <2>3
    <3>2. k'.list[Waiters(n)] = <<>> BY <1>1, <1>4, <3>1, NoWaiters
    <3>3. QED BY <3>2 DEF Armed
  <2>4. CASE k.irq[n] # i /\ k.allowed[k.irq[n]] BY <1>4, <2>2, <2>4 DEF Armed
  <2>5. CASE k.list[Waiters(n)] = <<>>
    <3>1. \A u \in AllTasks : k.wait[u] # n BY <1>1, <2>5, NoWaiters
    <3>2. k'.list[Waiters(n)] = <<>> BY <1>1, <1>4, <3>1, NoWaiters
    <3>3. QED BY <3>2 DEF Armed
  <2>6. QED BY <2>1, <2>3, <2>4, <2>5 DEF Armed
<1>5. \/ k.fast[i] /\ k' = [masked EXCEPT !.pending[i] = TRUE]
      \/ /\ k.fast[i]
         /\ \E outcome \in Outcomes :
               LET handled == [masked EXCEPT !.allowed[i] = outcome.allow]
               IN  k' = handled \/ k' = ScheduleIfNeeded(MutexActivate(handled, m, None))
      \/ k' = ScheduleIfNeeded(MutexActivate(masked, m, None))
  BY DEF Interrupt
<1> DEFINE Handled(q) ==
              /\ Changes(k, q, {"allowed", "pending"})
              /\ \A j \in Irqs \ {i} : k.allowed[j] => q.allowed[j]
<1>6. Handled(masked) BY <1>1 DEF Shaped, Fields, Changes
<1>7. Handled([masked EXCEPT !.pending[i] = TRUE]) BY <1>1 DEF Shaped, Fields, Changes
<1>8. \A outcome : Handled([masked EXCEPT !.allowed[i] = outcome.allow])
  BY <1>1 DEF Shaped, Fields, Changes
<1> HIDE DEF masked, m
<1>9. ASSUME NEW q, Handled(q), k' = q
      PROVE  /\ k'.irq = k.irq
             /\ \A j \in Irqs \ {i} : k.allowed[j] => k'.allowed[j]
             /\ \A u \in AllTasks, n \in Mutexes : k'.wait[u] = n => k.wait[u] = n
  BY <1>9 DEF Changes, Fields
<1>10. ASSUME NEW q, Handled(q), k' = ScheduleIfNeeded(MutexActivate(q, m, None))
       PROVE  /\ k'.irq = k.irq
              /\ \A j \in Irqs \ {i} : k.allowed[j] => k'.allowed[j]
              /\ \A u \in AllTasks, n \in Mutexes : k'.wait[u] = n => k.wait[u] = n
              /\ \A u \in AllTasks : k'.wait[u] # m
  <2> DEFINE a == MutexActivate(q, m, None)
  <2>1. /\ Shaped(q) /\ q.wait = k.wait /\ q.list = k.list /\ q.lock = k.lock
        /\ q.irq = k.irq
    BY <1>10 DEF Changes, Fields
  <2>2. ListInv(q) BY <1>1, <2>1, ListFrame
  <2>3. /\ Arms(q, a) /\ a.allowed = q.allowed /\ Changes(q, a, Woken)
        /\ \A u \in AllTasks : a.wait[u] # m
    BY <1>2, <2>1, <2>2, SignalArms, MutexActivateShape DEF Arms
  <2>4. k' = ScheduleIfNeeded(a) BY <1>10
  <2> HIDE DEF a
  <2>5. Changes(a, k', {"current", "need"}) BY <2>3, <2>4, ScheduleIfNeededShape DEF Changes
  <2>6. k'.wait = a.wait /\ k'.allowed = a.allowed /\ k'.irq = k.irq
    BY <2>1, <2>3, <2>5 DEF Changes, Fields, Woken
  <2>7. \A n \in Mutexes : n # None BY KernelConstants
  <2>8. QED BY <1>10, <2>1, <2>3, <2>6, <2>7 DEF Arms, ArmsBut
<1> HIDE DEF Handled
<1>11. QED BY <1>5, <1>6, <1>7, <1>8, <1>9, <1>10

\* Every step.
LEMMA NextArms ==
    ASSUME Inv, Inv', WakeInv, [Next]_vars
    PROVE  ArmedStep
<1> IrqInv(k) BY DEF WakeInv
<1>1. ASSUME Arms(k, k') PROVE ArmedStep
  <2>1. None \notin Mutexes BY KernelConstants
  <2>2. QED BY <1>1, <2>1, StillArmed DEF Arms
<1>2. CASE StartTasks BY <1>1, <1>2, TaskArms
<1>3. ASSUME NEW t \in Tasks, TaskCreate(t) PROVE ArmedStep BY <1>1, <1>3, TaskArms
<1>4. ASSUME NEW t \in Tasks, Resume(t) PROVE ArmedStep
  BY <1>1, <1>4, LockArms, TaskArms, UnlocksArm, SignalsArm DEF Resume
<1>5. ASSUME NEW t \in Tasks, TaskCall(t) PROVE ArmedStep
  BY <1>1, <1>5, TaskArms, SignalsArm DEF TaskCall
<1>6. ASSUME NEW t \in Tasks, MutexCall(t) PROVE ArmedStep
  <2>1. PICK m \in Locks :
          \/ MutexLock(t, m) \/ MutexTrylock(t, m) \/ MutexUnlock(t, m) \/ MutexWait(t, m)
          \/ \E msg \in Messages : MutexSignal(t, m, msg)
    BY <1>6 DEF MutexCall
  <2>2. m \in Mutexes BY DEF Locks
  <2>3. CASE MutexLock(t, m) \/ MutexTrylock(t, m) BY <1>1, <2>3, LockArms
  <2>4. CASE MutexUnlock(t, m) BY <1>1, <2>4, UnlocksArm
  <2>5. CASE MutexWait(t, m) BY <2>2, <2>5, WaitArms DEF MutexWait
  <2>6. CASE \E msg \in Messages : MutexSignal(t, m, msg) BY <1>1, <2>2, <2>6, SignalsArm
  <2>7. QED BY <2>1, <2>3, <2>4, <2>5, <2>6
<1>7. ASSUME NEW t \in Tasks, JoinCall(t) PROVE ArmedStep
  <2>1. CASE \E d \in Tasks : TaskWait(t, d) BY <1>1, <2>1, LockArms
  <2>2. CASE TaskWaitTest(t) BY <1>1, <2>2, TaskArms
  <2>3. CASE TaskWaitSleep(t)
    <3> DEFINE m == finish[joining[t].task]
    <3>1. Joins(t) /\ WaitOn(t, m) BY <2>3 DEF TaskWaitSleep
    <3>2. m \in Mutexes BY <3>1, JoinerHas
    <3> HIDE DEF m
    <3>3. QED BY <3>1, <3>2, WaitArms
  <2>4. CASE TaskWaitReturn(t) BY <1>1, <2>4, UnlocksArm
  <2>5. QED BY <1>7, <2>1, <2>2, <2>3, <2>4 DEF JoinCall
<1>8. ASSUME NEW t \in Tasks, IrqCall(t) PROVE ArmedStep
  BY <1>1, <1>8, LockArms, UnlockIrqArms DEF IrqCall
<1>9. ASSUME NEW t \in Tasks, NEW g \in Groups, GroupWait(t, g) PROVE ArmedStep
  BY <1>1, <1>9, TaskArms
<1>10. ASSUME NEW g \in Groups, GroupListen(g) \/ GroupUnlisten(g) PROVE ArmedStep
  BY <1>1, <1>10, TaskArms
<1>11. ASSUME NEW i \in Irqs, NEW f \in BOOLEAN, MutexAttachIrq(i, f) PROVE ArmedStep
  BY <1>1, <1>11, AttachArms
<1>12. ASSUME NEW i \in Irqs, Interrupt(i) PROVE ArmedStep
  BY <1>12, InterruptArms DEF WakeInv
<1>13. CASE UNCHANGED vars BY <1>1, <1>13 DEF vars, Arms, ArmsBut
<1>14. QED
  BY <1>2, <1>3, <1>4, <1>5, <1>6, <1>7, <1>8, <1>9, <1>10, <1>11, <1>12, <1>13 DEF Next

\* A task that waits for an interrupt without a fast handler finds it attached and
\* unmasked until it comes, or until the master of the lock detaches it with
\* mutex_unlock_irq (msignal.c:43-47, irelease.c:63-65, machdep.c:136-137).
THEOREM WaitersStayArmed ==
    ASSUME "delete_group_waiter" \notin Misuse
    PROVE  Spec => WaiterStaysArmed
<1>1. Spec => [](Inv /\ WakeInv) BY WakesInvariant
<1>2. Inv /\ WakeInv /\ (Inv /\ WakeInv)' /\ [Next]_vars => [ArmedStep]_vars
  BY NextArms
<1>3. WaiterStaysArmed <=> [][ArmedStep]_vars BY DEF WaiterStaysArmed, ArmedStep
<1>4. QED BY <1>1, <1>2, <1>3, PTL DEF Spec

-----------------------------------------------------------------------------
(***************************************************************************)
(* Monitors.  Each function of the kernel is reduced to what it does to    *)
(* the owner, the depth and the tasks kept out or waiting of each mutex;   *)
(* each action then maps to a step of the monitor of the mutex it is       *)
(* about, and leaves the other monitors alone.                             *)
(***************************************************************************)
MonitorStep(m) == UNCHANGED AMonitor(m)!vars \/ AMonitor(m)!Next

Implemented == \A m \in Mutexes : MonitorStep(m)

Debt(t, m) == IF WaitsOn(t, m) THEN frame[t].deep ELSE 0

\* Nobody enters or leaves mutex_wait.
SameDebts ==
    \A u \in Tasks : \/ frame'[u] = frame[u]
                     \/ frame[u].at # "mutex_wait" /\ frame'[u].at # "mutex_wait"

\* Between s and r the monitors stay as they are.
Calm(s, r) ==
    /\ r.master = s.master /\ r.deep = s.deep
    /\ r.lock = s.lock /\ r.wait = s.wait

\* Who waits on m is woken.
Woke(s, r, m) ==
    /\ r.master = s.master /\ r.deep = s.deep /\ r.lock = s.lock
    /\ \A u \in AllTasks : r.wait[u] = IF s.wait[u] = m THEN None ELSE s.wait[u]

\* Who waits on m is woken, or nobody is.
Wakes(s, r, m) ==
    \/ r.wait = s.wait
    \/ \A u \in AllTasks : r.wait[u] = IF s.wait[u] = m THEN None ELSE s.wait[u]

-----------------------------------------------------------------------------
(***************************************************************************)
(* Steps of a monitor, by what happens to the kernel's data.               *)
(***************************************************************************)
LEMMA SameOwed ==
    ASSUME SameDebts
    PROVE  \A u \in Tasks, m \in Mutexes : Debt(u, m)' = Debt(u, m)
BY DEF SameDebts, Debt, WaitsOn

\* Nothing that a monitor is made of.
LEMMA Unmoved ==
    ASSUME NEW m \in Mutexes, k'.master[m] = k.master[m], k'.deep[m] = k.deep[m],
           \A u \in Tasks : /\ k'.lock[u] = m <=> k.lock[u] = m
                            /\ k'.wait[u] = m <=> k.wait[u] = m
                            /\ Debt(u, m)' = Debt(u, m)
    PROVE  MonitorStep(m)
BY DEF MonitorStep, AMonitor!vars, Debt

\* A call or an interrupt that concerns no monitor.
LEMMA CalmSteps ==
    ASSUME Calm(k, k'), SameDebts
    PROVE  Implemented
BY SameOwed, Unmoved DEF Calm, Implemented

\* A signal.
LEMMA WokeSteps ==
    ASSUME NEW m \in Mutexes, Woke(k, k', m), SameDebts
    PROVE  Implemented
<1> SUFFICES ASSUME NEW n \in Mutexes PROVE MonitorStep(n) BY DEF Implemented
<1>1. /\ k'.master = k.master /\ k'.deep = k.deep /\ k'.lock = k.lock
      /\ \A u \in Tasks : k'.wait[u] = IF k.wait[u] = m THEN None ELSE k.wait[u]
  BY DEF Woke, AllTasks
<1>2. \A u \in Tasks : Debt(u, n)' = Debt(u, n) BY SameOwed
<1>3. n # None BY KernelConstants
<1>4. CASE n = m
  <2>1. {u \in Tasks : k'.wait[u] = n} = {} BY <1>1, <1>3, <1>4
  <2>2. AMonitor(n)!Signal BY <1>1, <1>2, <2>1 DEF AMonitor!Signal, Debt
  <2>3. QED BY <2>2 DEF MonitorStep, AMonitor!Next
<1>5. CASE n # m BY <1>1, <1>2, <1>3, <1>5, Unmoved
<1>6. QED BY <1>4, <1>5

\* The lock is busy: t is kept out.
LEMMA KeptOutSteps ==
    ASSUME NEW m \in Mutexes, NEW t \in Tasks, k.master[m] \notin {None, t},
           \A n \in Mutexes : k.lock[t] # n /\ k.wait[t] # n,
           k'.master = k.master, k'.deep = k.deep, k'.wait = k.wait,
           \A u \in Tasks : k'.lock[u] = IF u = t THEN m ELSE k.lock[u],
           SameDebts
    PROVE  Implemented
<1> SUFFICES ASSUME NEW n \in Mutexes PROVE MonitorStep(n) BY DEF Implemented
<1>1. \A u \in Tasks : Debt(u, n)' = Debt(u, n) BY SameOwed
<1>2. CASE n = m
  <2>1. {u \in Tasks : k'.lock[u] = n} = {u \in Tasks : k.lock[u] = n} \cup {t} BY <1>2
  <2>2. AMonitor(n)!KeptOut(t)
    BY <1>1, <1>2, <2>1 DEF AMonitor!KeptOut, AMonitor!Awake, Debt
  <2>3. QED BY <2>2 DEF MonitorStep, AMonitor!Next
<1>3. CASE n # m BY <1>1, <1>3, Unmoved
<1>4. QED BY <1>2, <1>3

\* The lock is free, or t has it: t takes it.
LEMMA LockSteps ==
    ASSUME NEW m \in Mutexes, NEW t \in Tasks, k.master[m] \in {None, t},
           k.master \in [Mutexes -> OrNone(Tasks)], k.deep \in [Mutexes -> Nat],
           k.master[m] = None => k.deep[m] = 0,
           \A n \in Mutexes : k.lock[t] # n /\ k.wait[t] # n,
           k'.lock = k.lock, k'.wait = k.wait,
           k'.master = [k.master EXCEPT ![m] = t],
           k'.deep = [k.deep EXCEPT ![m] = k.deep[m] + 1],
           frame[t].at # "mutex_wait", SameDebts
    PROVE  Implemented
<1> SUFFICES ASSUME NEW n \in Mutexes PROVE MonitorStep(n) BY DEF Implemented
<1>1. \A u \in Tasks : Debt(u, n)' = Debt(u, n) BY SameOwed
<1>2. CASE n = m /\ k.master[m] = None
  <2>1. k'.master[n] = t /\ k'.deep[n] = 1 BY <1>2
  <2>2. ~WaitsOn(t, n) BY DEF WaitsOn
  <2>3. AMonitor(n)!Lock(t)
    BY <1>1, <1>2, <2>1, <2>2 DEF AMonitor!Lock, AMonitor!Awake, Debt
  <2>4. QED BY <2>3 DEF MonitorStep, AMonitor!Next
<1>3. CASE n = m /\ k.master[m] # None
  <2>1. k'.master[n] = k.master[n] /\ k'.deep[n] = k.deep[n] + 1 BY <1>3
  <2>2. AMonitor(n)!LockAgain(t) BY <1>1, <1>3, <2>1 DEF AMonitor!LockAgain, Debt
  <2>3. QED BY <2>2 DEF MonitorStep, AMonitor!Next
<1>4. CASE n # m
  <2>1. k'.master[n] = k.master[n] /\ k'.deep[n] = k.deep[n] BY <1>4
  <2>2. QED BY <1>1, <2>1, Unmoved
<1>5. QED BY <1>2, <1>3, <1>4

\* The master gives one level back.
LEMMA UnnestSteps ==
    ASSUME NEW m \in Mutexes, NEW t \in Tasks, k.master[m] = t, k.deep[m] > 1,
           k.deep \in [Mutexes -> Nat],
           k'.master = k.master, k'.lock = k.lock, k'.wait = k.wait,
           k'.deep = [k.deep EXCEPT ![m] = k.deep[m] - 1], SameDebts
    PROVE  Implemented
<1> SUFFICES ASSUME NEW n \in Mutexes PROVE MonitorStep(n) BY DEF Implemented
<1>1. \A u \in Tasks : Debt(u, n)' = Debt(u, n) BY SameOwed
<1>2. CASE n = m
  <2>1. k'.deep[n] = k.deep[n] - 1 BY <1>2
  <2>2. AMonitor(n)!Unlock(t) BY <1>1, <1>2, <2>1 DEF AMonitor!Unlock, Debt
  <2>3. QED BY <2>2 DEF MonitorStep, AMonitor!Next
<1>3. CASE n # m
  <2>1. k'.deep[n] = k.deep[n] BY <1>3
  <2>2. QED BY <1>1, <2>1, Unmoved
<1>4. QED BY <1>2, <1>3

\* The master gives the lock up; an interrupt that was pending is a signal.
LEMMA FreedSteps ==
    ASSUME NEW m \in Mutexes, NEW t \in Tasks, k.master[m] = t, k.deep[m] = 1,
           k.master \in [Mutexes -> OrNone(Tasks)], k.deep \in [Mutexes -> Nat],
           Freed(k, k', m), Wakes(k, k', m), SameDebts
    PROVE  Implemented
<1> SUFFICES ASSUME NEW n \in Mutexes PROVE MonitorStep(n) BY DEF Implemented
<1>1. \A u \in Tasks : Debt(u, n)' = Debt(u, n) BY SameOwed
<1>2. /\ \A u \in Tasks : k'.lock[u] = IF k.lock[u] = m THEN None ELSE k.lock[u]
      /\ k'.master = [k.master EXCEPT ![m] = None]
      /\ k'.deep = [k.deep EXCEPT ![m] = 0]
      /\ \/ \A u \in Tasks : k'.wait[u] = k.wait[u]
         \/ \A u \in Tasks : k'.wait[u] = IF k.wait[u] = m THEN None ELSE k.wait[u]
  BY DEF Freed, Disowned, Wakes, AllTasks
<1>3. m # None /\ n # None BY KernelConstants
<1>4. CASE n = m
  <2>1. k'.master[n] = None /\ k'.deep[n] = 0 BY <1>2, <1>4
  <2>2. {u \in Tasks : k'.lock[u] = n} = {} BY <1>2, <1>3, <1>4
  <2>3. {u \in Tasks : k'.wait[u] = n} \in {{u \in Tasks : k.wait[u] = n}, {}}
    BY <1>2, <1>3, <1>4
  <2>4. AMonitor(n)!Unlock(t)
    BY <1>1, <1>4, <2>1, <2>2, <2>3 DEF AMonitor!Unlock, AMonitor!GivenUp, Debt
  <2>5. QED BY <2>4 DEF MonitorStep, AMonitor!Next
<1>5. CASE n # m
  <2>1. k'.master[n] = k.master[n] /\ k'.deep[n] = k.deep[n] BY <1>2, <1>5
  <2>2. QED BY <1>1, <1>2, <1>3, <1>5, <2>1, Unmoved
<1>6. QED BY <1>4, <1>5

\* A task that does not have the lock waits.
LEMMA WaitSteps ==
    ASSUME NEW m \in Mutexes, NEW t \in Tasks, k.master[m] # t,
           \A n \in Mutexes : k.lock[t] # n /\ k.wait[t] # n,
           k'.master = k.master, k'.deep = k.deep, k'.lock = k.lock,
           \A u \in Tasks : k'.wait[u] = IF u = t THEN m ELSE k.wait[u],
           frame[t].at # "mutex_wait", SameDebts
    PROVE  Implemented
<1> SUFFICES ASSUME NEW n \in Mutexes PROVE MonitorStep(n) BY DEF Implemented
<1>1. \A u \in Tasks : Debt(u, n)' = Debt(u, n) BY SameOwed
<1>2. CASE n = m
  <2>1. {u \in Tasks : k'.wait[u] = n} = {u \in Tasks : k.wait[u] = n} \cup {t} BY <1>2
  <2>2. ~WaitsOn(t, n) BY DEF WaitsOn
  <2>3. AMonitor(n)!Wait(t)
    BY <1>1, <1>2, <2>1, <2>2 DEF AMonitor!Wait, AMonitor!Awake, Debt
  <2>4. QED BY <2>3 DEF MonitorStep, AMonitor!Next
<1>3. CASE n # m BY <1>1, <1>3, Unmoved
<1>4. QED BY <1>2, <1>3

\* The master waits: it gives the lock up, and is owed it.
LEMMA GiveUpSteps ==
    ASSUME NEW m \in Mutexes, NEW t \in Tasks, k.master[m] = t,
           k.master \in [Mutexes -> OrNone(Tasks)], k.deep \in [Mutexes -> Nat],
           frame \in [AllTasks -> Frames],
           \A n \in Mutexes : k.lock[t] # n /\ k.wait[t] # n,
           Freed(k, k', m),
           \A u \in Tasks : k'.wait[u] = IF u = t THEN m ELSE k.wait[u],
           frame[t].at # "mutex_wait", frame' = [frame EXCEPT ![t] = Waiting(m, k.deep[m])]
    PROVE  Implemented
<1> SUFFICES ASSUME NEW n \in Mutexes PROVE MonitorStep(n) BY DEF Implemented
<1>1. /\ \A u \in Tasks : k'.lock[u] = IF k.lock[u] = m THEN None ELSE k.lock[u]
      /\ k'.master = [k.master EXCEPT ![m] = None]
      /\ k'.deep = [k.deep EXCEPT ![m] = 0]
  BY DEF Freed, Disowned, AllTasks
<1>2. m # None /\ n # None BY KernelConstants
<1>3. \A u \in Tasks : Debt(u, n)' = IF u = t /\ n = m THEN k.deep[m] ELSE Debt(u, n)
  <2> SUFFICES ASSUME NEW u \in Tasks
               PROVE  Debt(u, n)' = IF u = t /\ n = m THEN k.deep[m] ELSE Debt(u, n)
    OBVIOUS
  <2>1. frame'[u] = IF u = t THEN Waiting(m, k.deep[m]) ELSE frame[u] BY DEF AllTasks
  <2>2. CASE u = t BY <2>1, <2>2, FrameFields DEF Debt, WaitsOn
  <2>3. CASE u # t BY <2>1, <2>3 DEF Debt, WaitsOn
  <2>4. QED BY <2>2, <2>3
<1>4. CASE n = m
  <2>1. k'.master[n] = None /\ k'.deep[n] = 0 BY <1>1, <1>4
  <2>2. {u \in Tasks : k'.lock[u] = n} = {} BY <1>1, <1>2, <1>4
  <2>3. {u \in Tasks : k'.wait[u] = n} = {u \in Tasks : k.wait[u] = n} \cup {t} BY <1>4
  <2>4. [u \in Tasks |-> Debt(u, n)]' = [[u \in Tasks |-> Debt(u, n)] EXCEPT ![t] = k.deep[n]]
    BY <1>3, <1>4
  <2>5. AMonitor(n)!Wait(t)
    BY <1>4, <2>1, <2>2, <2>3, <2>4
    DEF AMonitor!Wait, AMonitor!Awake, AMonitor!GivenUp, Debt
  <2>6. QED BY <2>5 DEF MonitorStep, AMonitor!Next
<1>5. CASE n # m
  <2>1. k'.master[n] = k.master[n] /\ k'.deep[n] = k.deep[n] BY <1>1, <1>5
  <2>2. QED BY <1>1, <1>2, <1>3, <1>5, <2>1, Unmoved
<1>6. QED BY <1>4, <1>5

\* A task that has been signalled gets the lock back.
LEMMA RelockSteps ==
    ASSUME NEW m \in Mutexes, NEW t \in Tasks, k.master[m] = None, WaitsOn(t, m),
           k.master \in [Mutexes -> OrNone(Tasks)], k.deep \in [Mutexes -> Nat],
           frame \in [AllTasks -> Frames], frame[t].deep \in Nat \ {0},
           \A n \in Mutexes : k.lock[t] # n /\ k.wait[t] # n,
           k'.lock = k.lock, k'.wait = k.wait,
           k'.master = [k.master EXCEPT ![m] = t],
           k'.deep = [k.deep EXCEPT ![m] = frame[t].deep],
           frame' = [frame EXCEPT ![t] = User]
    PROVE  Implemented
<1> SUFFICES ASSUME NEW n \in Mutexes PROVE MonitorStep(n) BY DEF Implemented
<1>1. \A u \in Tasks : Debt(u, n)' = IF u = t THEN 0 ELSE Debt(u, n)
  <2> SUFFICES ASSUME NEW u \in Tasks
               PROVE  Debt(u, n)' = IF u = t THEN 0 ELSE Debt(u, n)
    OBVIOUS
  <2>1. frame'[u] = IF u = t THEN User ELSE frame[u] BY DEF AllTasks
  <2>2. CASE u = t BY <2>1, <2>2, FrameFields DEF Debt, WaitsOn
  <2>3. CASE u # t BY <2>1, <2>3 DEF Debt, WaitsOn
  <2>4. QED BY <2>2, <2>3
<1>2. CASE n = m
  <2>1. k'.master[n] = t /\ k'.deep[n] = frame[t].deep BY <1>2
  <2>2. Debt(t, n) = frame[t].deep BY <1>2 DEF Debt
  <2>3. [u \in Tasks |-> Debt(u, n)]' = [[u \in Tasks |-> Debt(u, n)] EXCEPT ![t] = 0] BY <1>1
  <2>4. AMonitor(n)!Relock(t)
    BY <1>2, <2>1, <2>2, <2>3 DEF AMonitor!Relock, AMonitor!Awake, Debt
  <2>5. QED BY <2>4 DEF MonitorStep, AMonitor!Next
<1>3. CASE n # m
  <2>1. k'.master[n] = k.master[n] /\ k'.deep[n] = k.deep[n] BY <1>3
  <2>2. Debt(t, n) = 0 BY <1>3 DEF Debt, WaitsOn
  <2>3. QED BY <1>1, <2>1, <2>2, Unmoved
<1>4. QED BY <1>2, <1>3

\* d is deleted: no monitor keeps it, and it is owed nothing.
LEMMA DeletedSteps ==
    ASSUME NEW d \in Tasks, k'.master = k.master, k'.deep = k.deep,
           \A u \in Tasks : /\ k'.lock[u] = IF u = d THEN None ELSE k.lock[u]
                            /\ k'.wait[u] = IF u = d THEN None ELSE k.wait[u],
           frame'[d].at # "mutex_wait",
           \A u \in Tasks \ {d} :
              \/ frame'[u] = frame[u]
              \/ frame[u].at # "mutex_wait" /\ frame'[u].at # "mutex_wait"
    PROVE  Implemented
<1> SUFFICES ASSUME NEW n \in Mutexes PROVE MonitorStep(n) BY DEF Implemented
<1>1. n # None BY KernelConstants
<1>2. \A u \in Tasks : Debt(u, n)' = IF u = d THEN 0 ELSE Debt(u, n) BY DEF Debt, WaitsOn
<1>3. /\ {u \in Tasks : k'.lock[u] = n} = {u \in Tasks : k.lock[u] = n} \ {d}
      /\ {u \in Tasks : k'.wait[u] = n} = {u \in Tasks : k.wait[u] = n} \ {d}
  BY <1>1
<1>4. [u \in Tasks |-> Debt(u, n)]' = [[u \in Tasks |-> Debt(u, n)] EXCEPT ![d] = 0] BY <1>2
<1>5. AMonitor(n)!Deleted(d) BY <1>3, <1>4 DEF AMonitor!Deleted, Debt
<1>6. QED BY <1>5 DEF MonitorStep, AMonitor!Next

-----------------------------------------------------------------------------
(***************************************************************************)
(* What the kernel's functions do to the monitors.                         *)
(***************************************************************************)
MonitorFields == {"master", "deep", "lock", "wait"}

\* Any other field may change.
LEMMA CalmChange ==
    ASSUME NEW s, NEW r, NEW F, Changes(s, r, F), F \cap MonitorFields = {}
    PROVE  Calm(s, r)
<1>1. MonitorFields \subseteq Fields BY DEF MonitorFields, Fields
<1>2. \A f \in MonitorFields : r[f] = s[f] BY <1>1 DEF Changes
<1>3. QED BY <1>2 DEF MonitorFields, Calm

\* The scheduler switches, or not.
LEMMA ScheduleCalm ==
    ASSUME NEW s, Shaped(s)
    PROVE  Calm(s, TaskSchedule(s)) /\ Calm(s, ScheduleIfNeeded(s))
BY ScheduleShape, ScheduleIfNeededShape, CalmChange DEF MonitorFields

\* One function after the other.
LEMMA CalmTrans ==
    ASSUME NEW s, NEW q, NEW r, NEW m
    PROVE  /\ Calm(s, q) /\ Calm(q, r) => Calm(s, r)
           /\ Calm(s, q) /\ Woke(q, r, m) => Woke(s, r, m)
           /\ Woke(s, q, m) /\ Calm(q, r) => Woke(s, r, m)
BY DEF Calm, Woke

\* mutex_activate is the signal (main.c:50-83).
LEMMA ActivateWakes ==
    ASSUME NEW s, KInv(s), NEW m \in Mutexes, NEW msg
    PROVE  Woke(s, MutexActivate(s, m, msg), m)
<1> DEFINE w  == s.list[Waiters(m)]
           e  == [s EXCEPT !.list[Waiters(m)] = <<>>]
           q  == TaskActivate(e, w)
           r  == WaitersActivated(s, m, msg)
           a  == TaskActivate(r, GroupsWoken(r, m))
           gs == Range(r.groups[m])
           z  == GroupsActivated(r, m, msg)
<1>1. Shaped(s) /\ ListInv(s) BY DEF KInv
<1>2. Changes(s, q, {"list", "need"})
  <2>1. Changes(s, e, {"list"}) BY <1>1 DEF Shaped, Fields, Changes
  <2> HIDE DEF e, w
  <2>2. Changes(e, q, {"list", "need"}) BY <2>1, ActivateShape DEF Changes
  <2>3. QED BY <2>1, <2>2, ChangesTrans
<1>3. r = [q EXCEPT
             !.wait    = [t \in AllTasks |-> IF t \in Range(w) THEN None ELSE @[t]],
             !.message = [t \in AllTasks |-> IF t \in Range(w) THEN msg ELSE @[t]]]
  BY DEF WaitersActivated
<1> HIDE DEF e, q, r, w
<1>4. /\ Changes(q, r, {"wait", "message"})
      /\ r.wait = [t \in AllTasks |-> IF t \in Range(w) THEN None ELSE q.wait[t]]
  BY <1>2, <1>3 DEF Shaped, Fields, Changes
<1>5. \A t \in AllTasks : s.wait[t] = m <=> t \in Range(w)
  BY <1>1 DEF ListInv, LinkedWhereBlocked, w
<1>6. Woke(s, r, m) BY <1>2, <1>4, <1>5 DEF Woke, Changes, Fields
<1>7. Changes(r, a, {"list", "need"}) BY <1>4, ActivateShape DEF Changes
<1>8. z = [a EXCEPT
             !.signalled = [g \in Groups |-> IF g \in gs THEN @[g] \cup {m} ELSE @[g]],
             !.gmessage  = [g \in Groups |-> IF g \in gs THEN [@[g] EXCEPT ![m] = msg]
                                             ELSE @[g]],
             !.waiter    = [g \in Groups |-> IF g \in gs THEN None ELSE @[g]]]
  BY DEF GroupsActivated
<1> HIDE DEF a, gs, z
<1>9. Changes(a, z, {"signalled", "gmessage", "waiter"})
  BY <1>7, <1>8 DEF Shaped, Fields, Changes
<1>10. Calm(r, a) /\ Calm(a, z) BY <1>7, <1>9, CalmChange DEF MonitorFields
<1>11. MutexActivate(s, m, msg) = z BY DEF MutexActivate, z, r
<1>12. QED BY <1>6, <1>10, <1>11, CalmTrans

\* A pending interrupt is a signal, or nothing (mutex.c:204-211).
LEMMA PendingWakes ==
    ASSUME NEW s, KInv(s), NEW m \in Mutexes, NEW outcome \in Outcomes
    PROVE  LET r == PendingServed(s, m, outcome) IN Calm(s, r) \/ Woke(s, r, m)
<1> DEFINE q == HandlerCalled(s, s.irq[m], outcome)
           a == MutexActivate(q, m, None)
<1>1. CASE s.irq[m] = None \/ ~s.pending[s.irq[m]] BY <1>1 DEF PendingServed, Calm
<1>2. CASE s.irq[m] # None /\ s.pending[s.irq[m]]
  <2>1. s.irq[m] \in Irqs BY <1>2 DEF KInv, DataInv, OrNone
  <2>2. KInv(q) BY <2>1, HandlerKeeps
  <2>3. Changes(s, q, {"pending", "allowed"}) BY HandlerShape DEF KInv
  <2>4. PendingServed(s, m, outcome) \in {q, a} BY <1>2 DEF PendingServed
  <2> HIDE DEF q
  <2>5. Calm(s, q) BY <2>3, CalmChange DEF MonitorFields
  <2>6. Woke(q, a, m) BY <2>2, ActivateWakes
  <2> HIDE DEF a
  <2>7. QED BY <2>4, <2>5, <2>6, CalmTrans
<1>3. QED BY <1>1, <1>2

\* The release of a lock wakes its waiters only for an interrupt.
LEMMA ReleaseFrees ==
    ASSUME NEW s, KInv(s), NEW m \in Mutexes, s.master[m] # None, NEW outcome \in Outcomes,
           NEW r, NEW d,
           LET p == PendingServed(DisownMutex(s, m), m, outcome)
           IN  d \in {p, Detached(p, m)} /\ r = SlavesReleased(d, m)
    PROVE  Wakes(s, r, m)
<1> DEFINE q == DisownMutex(s, m)
           p == PendingServed(q, m, outcome)
<1>1. KInv(q) /\ Changes(s, q, Inherited \cup {"deep", "owned", "master"}) BY DisownKeeps
<1>2. d \in {p, Detached(p, m)} /\ r = SlavesReleased(d, m) OBVIOUS
<1> HIDE DEF q
<1>3. KInv(p) BY <1>1, PendingKeeps
<1>4. Calm(q, p) \/ Woke(q, p, m) BY <1>1, PendingWakes
<1> HIDE DEF p
<1>5. Shaped(d) /\ d.wait = p.wait BY <1>2, <1>3, DetachedKeeps DEF KInv, Changes, Fields
<1>6. r.wait = d.wait BY <1>2, <1>5, SlavesReleasedShape DEF Changes, Fields
<1>7. q.wait = s.wait BY <1>1 DEF Changes, Fields, Inherited
<1>8. QED BY <1>4, <1>5, <1>6, <1>7 DEF Calm, Woke, Wakes

-----------------------------------------------------------------------------
(***************************************************************************)
(* The actions that are about a lock.                                      *)
(***************************************************************************)

\* Of the task that runs.
Ready(t) == t = k.current /\ t \in Range(k.list[Active]) /\ frame[t].at # "mutex_wait"

\* The task that runs its own code is ready.
LEMMA RunnerReady ==
    ASSUME Inv, NEW t \in Tasks, Running(t)
    PROVE  Ready(t) /\ frame[t] = User
BY RunnerIsReady, FrameFields DEF Running, Ready

\* A ready task is neither kept out nor waits.
LEMMA ReadyIsAwake ==
    ASSUME Inv, NEW t \in Tasks, t \in Range(k.list[Active])
    PROVE  \A n \in Mutexes : k.lock[t] # n /\ k.wait[t] # n
BY ReadyIsFree DEF Inv, KInv, AllTasks

\* Of a lock: its master and its depth.
LEMMA OwnerFacts ==
    ASSUME Inv
    PROVE  /\ k.master \in [Mutexes -> OrNone(Tasks)] /\ k.deep \in [Mutexes -> Nat]
           /\ \A m \in Mutexes : k.master[m] = None <=> k.deep[m] = 0
<1>1. OwnerInv(k) BY DEF Inv, KInv
<1>2. 0 .. MaxDeep \subseteq Nat BY KernelParameters
<1>3. k.deep \in [Mutexes -> Nat] BY <1>1, <1>2 DEF OwnerInv, OwnerType
<1>4. QED BY <1>1, <1>3 DEF OwnerInv, OwnerType

\* The frame of one task changes, outside mutex_wait.
LEMMA FrameDebts ==
    ASSUME Inv, NEW t \in AllTasks, NEW f, f.at # "mutex_wait", frame[t].at # "mutex_wait",
           frame' = [frame EXCEPT ![t] = f]
    PROVE  SameDebts
BY DEF SameDebts, Inv, VarTypes, AllTasks

\* mutex_lock puts the task on the lock's slaves (mutex.c:52-76).
LEMMA BlockMonitors ==
    ASSUME Inv, NEW t \in Tasks, t = k.current, t \in Range(k.list[Active]), NEW m \in Mutexes,
           k.master[m] \notin {None, t}, k' = BlockOnMutex(k, m), SameDebts
    PROVE  Implemented
<1> DEFINE r == BlockOnMutex(k, m)
<1>1. Shaped(k) /\ k.lock \in [AllTasks -> OrNone(Mutexes)] BY DEF Inv, KInv, ListInv
<1>2. Changes(k, r, {"lock", "mprio", "prio", "list", "current", "need"}) BY <1>1, BlockShape
<1>3. r.lock = [k.lock EXCEPT ![t] = m]
  <2> DEFINE master == k.master[m]
             p      == k.prio[t]
             raise  == k.mprio[m] < p
             q == [k EXCEPT !.lock[t] = m,
                            !.mprio[m] = IF raise THEN p ELSE @,
                            !.prio[master] = IF raise /\ @ < p THEN p ELSE @]
             a == ListAppend(q, Slaves(m), t)
  <2>1. Shaped(q) /\ q.lock = [k.lock EXCEPT ![t] = m] BY <1>1 DEF Shaped, Fields
  <2>2. r = TaskSchedule(a) BY DEF BlockOnMutex
  <2> HIDE DEF q
  <2>3. Changes(q, a, {"list"}) BY <2>1, AppendShape
  <2> HIDE DEF a
  <2>4. Changes(a, TaskSchedule(a), {"current", "need"}) BY <2>3, ScheduleShape DEF Changes
  <2>5. QED BY <2>1, <2>2, <2>3, <2>4 DEF Changes, Fields
<1>4. k' = r OBVIOUS
<1> HIDE DEF r
<1>5. k'.master = k.master /\ k'.deep = k.deep /\ k'.wait = k.wait
  BY <1>2, <1>4 DEF Changes, Fields
<1>6. \A u \in Tasks : k'.lock[u] = IF u = t THEN m ELSE k.lock[u]
  BY <1>1, <1>3, <1>4 DEF AllTasks
<1>7. \A n \in Mutexes : k.lock[t] # n /\ k.wait[t] # n BY ReadyIsAwake
<1>8. QED BY <1>5, <1>6, <1>7, KeptOutSteps

\* The lock is free, or the task has it (mutex.c:78-97).
LEMMA TakeMonitors ==
    ASSUME Inv, NEW t \in Tasks, Ready(t), NEW m \in Mutexes,
           k.master[m] \in {None, t}, SameDebts,
           Changes(k, k', AttachedFields), Taken(k, k', m, k.deep[m] + 1)
    PROVE  Implemented
<1>1. k'.lock = k.lock /\ k'.wait = k.wait BY DEF Changes, Fields, AttachedFields, Locked
<1>2. /\ k'.master = [k.master EXCEPT ![m] = t]
      /\ k'.deep = [k.deep EXCEPT ![m] = k.deep[m] + 1]
  BY DEF Taken, Ready
<1>3. \A n \in Mutexes : k.lock[t] # n /\ k.wait[t] # n BY ReadyIsAwake DEF Ready
<1>4. frame[t].at # "mutex_wait" BY DEF Ready
<1>5. QED BY <1>1, <1>2, <1>3, <1>4, OwnerFacts, LockSteps

\* One turn of the loop of mutex_lock, whoever calls it.
LEMMA LoopMonitors ==
    ASSUME Inv, NEW t \in Tasks, Ready(t), NEW m \in Mutexes, NEW f, f.at # "mutex_wait",
           NEW done,
           k.master[m] \in {None, t} =>
             Changes(k, done, AttachedFields) /\ Taken(k, done, m, k.deep[m] + 1),
           LockLoop(t, m, f, done)
    PROVE  Implemented
<1>1. t \in AllTasks /\ frame[t].at # "mutex_wait" BY DEF AllTasks, Ready
<1>2. frame' = [frame EXCEPT ![t] = f] \/ frame' = [frame EXCEPT ![t] = User] BY DEF LockLoop
<1>3. User.at # "mutex_wait" BY FrameFields
<1>4. SameDebts BY <1>1, <1>2, <1>3, FrameDebts
<1>5. CASE k.master[m] \notin {None, t}
  BY <1>4, <1>5, BlockMonitors DEF LockLoop, Ready
<1>6. CASE k.master[m] \in {None, t} BY <1>4, <1>6, TakeMonitors DEF LockLoop
<1>7. QED BY <1>5, <1>6

\* mutex_lock, mutex_trylock, mutex_lock_irq and the lock of task_wait.
LEMMA LockMonitors ==
    ASSUME Inv, NEW t \in Tasks,
           \/ \E m \in Locks : MutexLock(t, m) \/ MutexTrylock(t, m)
           \/ \E d \in Tasks : TaskWait(t, d)
           \/ ResumeLock(t)
    PROVE  Implemented
<1>1. \A m : Locking(m).at # "mutex_wait" BY FrameFields
<1>2. ASSUME NEW m \in Mutexes, t = k.current, k.master[m] = t => k.deep[m] < MaxDeep,
             k.master[m] \in {None, t}
      PROVE  /\ Changes(k, LockMutex(k, m), AttachedFields)
             /\ Taken(k, LockMutex(k, m), m, k.deep[m] + 1)
  BY <1>2, LockDone DEF Changes, AttachedFields
<1>3. ASSUME NEW m \in Locks, MutexLock(t, m) PROVE Implemented
  <2>1. m \in Mutexes /\ Running(t) /\ k.master[m] # t BY <1>3 DEF Locks, MutexLock, Calls
  <2>2. Ready(t) BY <2>1, RunnerReady
  <2>3. LockLoop(t, m, Locking(m), LockMutex(k, m)) BY <1>3 DEF MutexLock
  <2>4. t = k.current BY <2>2 DEF Ready
  <2>5. QED BY <1>1, <1>2, <2>1, <2>2, <2>3, <2>4, LoopMonitors
<1>4. ASSUME NEW m \in Locks, MutexTrylock(t, m) PROVE Implemented
  <2>1. /\ m \in Mutexes /\ Running(t) /\ k.master[m] \in {None, t} /\ k.deep[m] < MaxDeep
        /\ k' = LockMutex(k, m) /\ frame' = frame
    BY <1>4 DEF Locks, MutexTrylock, Calls
  <2>2. Ready(t) BY <2>1, RunnerReady
  <2>3. SameDebts BY <2>1 DEF SameDebts
  <2>4. t = k.current BY <2>2 DEF Ready
  <2>5. QED BY <1>2, <2>1, <2>2, <2>3, <2>4, TakeMonitors
<1>5. ASSUME NEW d \in Tasks, TaskWait(t, d) PROVE Implemented
  <2> DEFINE m == finish[d]
  <2>1. m \in Mutexes /\ m \in Range(finish) BY KernelParameters DEF Range
  <2>2. Running(t) /\ joining[t] = None BY <1>5 DEF TaskWait, Calls
  <2>3. Ready(t) /\ frame[t] = User BY <2>2, RunnerReady
  <2>4. t \in Range(k.list[Active]) /\ ~Absent(t)
    BY <2>2, <2>3, FrameFields, RunnerIsReady DEF Ready
  <2>5. k.master[m] # t BY <2>1, <2>2, <2>4 DEF Inv, TaskInv, Joined1, Uses, Absent
  <2>6. LockLoop(t, m, Locking(m), LockMutex(k, m)) BY <1>5 DEF TaskWait
  <2> HIDE DEF m
  <2>7. t = k.current BY <2>3 DEF Ready
  <2>8. QED BY <1>1, <1>2, <2>1, <2>3, <2>5, <2>6, <2>7, LoopMonitors
<1>6. CASE ResumeLock(t)
  <2>1. PICK m \in Mutexes : frame[t] = Locking(m)
    BY <1>6, ResumedAt DEF ResumeLock
  <2>2. t = k.current /\ LockLoop(t, m, Locking(m), LockMutex(k, m))
    BY <1>6, <2>1, FrameFields DEF ResumeLock, Resumes
  <2>3. Ready(t) BY <2>1, <2>2, FrameFields, RunnerIsReady DEF Ready
  <2>4. k.master[m] # t BY <2>1 DEF Inv, TaskInv, Blocked
  <2>5. QED BY <1>1, <1>2, <2>2, <2>3, <2>4, LoopMonitors
<1>7. QED BY <1>3, <1>4, <1>5, <1>6

\* mutex_lock_irq (itake.c:27-90).
LEMMA LockIrqMonitors ==
    ASSUME Inv, NEW t \in Tasks,
           \/ \E i \in Irqs, b \in BOOLEAN : MutexLockIrq(t, i, b)
           \/ ResumeLockIrq(t)
    PROVE  Implemented
<1>1. ASSUME NEW i \in Irqs, NEW b \in BOOLEAN, Ready(t),
             LET m == IrqMutex[i]
             IN  /\ k.master[m] = t => k.deep[m] < MaxDeep
                 /\ LockLoop(t, m, LockingIrq(i, b), Attached(LockMutex(k, m), m, i, b))
      PROVE  Implemented
  <2> DEFINE m == IrqMutex[i]
             done == Attached(LockMutex(k, m), m, i, b)
  <2>1. m \in Mutexes BY KernelParameters
  <2>2. t = k.current BY <1>1 DEF Ready
  <2>3. k.master[m] \in {None, t} =>
          Changes(k, done, AttachedFields) /\ Taken(k, done, m, k.deep[m] + 1)
    BY <1>1, <2>2, LockIrqDone
  <2>4. LockLoop(t, m, LockingIrq(i, b), done) BY <1>1
  <2>5. LockingIrq(i, b).at # "mutex_wait" BY FrameFields
  <2> HIDE DEF m, done
  <2>6. QED BY <1>1, <2>1, <2>3, <2>4, <2>5, LoopMonitors
<1>2. ASSUME NEW i \in Irqs, NEW b \in BOOLEAN, MutexLockIrq(t, i, b) PROVE Implemented
  <2>1. Running(t) BY <1>2 DEF MutexLockIrq, Calls
  <2>2. Ready(t) BY <2>1, RunnerReady
  <2>3. QED BY <1>1, <1>2, <2>2 DEF MutexLockIrq
<1>3. CASE ResumeLockIrq(t)
  <2>1. PICK i \in Irqs, b \in BOOLEAN : frame[t] = LockingIrq(i, b)
    BY <1>3, ResumedAt DEF ResumeLockIrq
  <2>2. /\ t = k.current
        /\ LET m == IrqMutex[i]
           IN  LockLoop(t, m, LockingIrq(i, b), Attached(LockMutex(k, m), m, i, b))
    BY <1>3, <2>1, FrameFields DEF ResumeLockIrq, Resumes
  <2>3. Ready(t) BY <2>1, <2>2, FrameFields, RunnerIsReady DEF Ready
  <2>4. k.master[IrqMutex[i]] # t BY <2>1 DEF Inv, TaskInv, Blocked
  <2>5. QED BY <1>1, <2>2, <2>3, <2>4
<1>4. QED BY <1>2, <1>3

\* A lock given back: one level, or entirely (mutex.c:178-226, irelease.c:27-81).
LEMMA GiveBackMonitors ==
    ASSUME Inv, NEW m \in Mutexes, k.master[m] # None, frame' = frame,
           \/ k.deep[m] > 1 /\ k' = [k EXCEPT !.deep[m] = @ - 1]
           \/ /\ ~(k.deep[m] > 1)
              /\ \E outcome \in Outcomes :
                    LET p == PendingServed(DisownMutex(k, m), m, outcome)
                    IN  \E d \in {p, Detached(p, m)} :
                           k' = ScheduleIfNeeded(SlavesReleased(d, m))
    PROVE  Implemented
<1>1. KInv(k) /\ Shaped(k) BY DEF Inv, KInv
<1>2. SameDebts BY DEF SameDebts
<1>3. k.master[m] \in Tasks BY OwnerFacts DEF OrNone
<1>4. CASE k.deep[m] > 1 /\ k' = [k EXCEPT !.deep[m] = @ - 1]
  <2>1. /\ k'.master = k.master /\ k'.lock = k.lock /\ k'.wait = k.wait
        /\ k'.deep = [k.deep EXCEPT ![m] = k.deep[m] - 1]
    BY <1>1, <1>4 DEF Shaped, Fields
  <2>2. QED BY <1>2, <1>3, <1>4, <2>1, OwnerFacts, UnnestSteps
<1>5. CASE ~(k.deep[m] > 1)
  <2>1. PICK outcome \in Outcomes :
          LET p == PendingServed(DisownMutex(k, m), m, outcome)
          IN  \E d \in {p, Detached(p, m)} : k' = ScheduleIfNeeded(SlavesReleased(d, m))
    BY <1>4, <1>5
  <2> DEFINE q == DisownMutex(k, m)
             p == PendingServed(q, m, outcome)
  <2>2. PICK d \in {p, Detached(p, m)} : k' = ScheduleIfNeeded(SlavesReleased(d, m)) BY <2>1
  <2> DEFINE r == SlavesReleased(d, m)
  <2>3. Wakes(k, r, m)
    <3>1. LET p1 == PendingServed(DisownMutex(k, m), m, outcome)
          IN  d \in {p1, Detached(p1, m)} /\ r = SlavesReleased(d, m)
      OBVIOUS
    <3> HIDE DEF r
    <3>2. QED BY <1>1, <3>1, ReleaseFrees
  <2>4. /\ KInv(q) /\ Changes(k, q, Inherited \cup {"deep", "owned", "master"})
        /\ Disowned(k, q, m)
    BY <1>1, DisownKeeps
  <2>5. d \in {p, Detached(p, m)} /\ k' = ScheduleIfNeeded(r) BY <2>2
  <2> HIDE DEF q
  <2>6. KInv(p) /\ Changes(q, p, Served) BY <2>4, PendingKeeps, PendingShape DEF KInv
  <2> HIDE DEF p
  <2>7. KInv(d) /\ Changes(p, d, {"irq", "ilock"})
    <3>1. Changes(p, p, {"irq", "ilock"}) BY <2>6 DEF Changes, KInv
    <3>2. QED BY <2>5, <2>6, <3>1, DetachedKeeps
  <2>8. /\ KInv(r)
        /\ \A t \in AllTasks : r.lock[t] = IF d.lock[t] = m THEN None ELSE d.lock[t]
        /\ Changes(d, r, {"list", "need", "lock", "mprio"})
    BY <2>7, SlavesReleasedKeeps, SlavesReleasedShape DEF KInv
  <2> HIDE DEF r
  <2>9. /\ d.lock = k.lock
        /\ r.master = q.master /\ r.deep = q.deep /\ r.owned = q.owned
    BY <2>4, <2>6, <2>7, <2>8 DEF Changes, Fields, Served, Woken, Inherited
  <2>10. Freed(k, r, m) BY <2>4, <2>8, <2>9 DEF Freed, Disowned
  <2>11. Calm(r, k') BY <2>5, <2>8, ScheduleCalm DEF KInv
  <2>12. \A u \in Tasks : u # None BY KernelConstants DEF AllTasks
  <2>13. k'.master = r.master /\ k'.deep = r.deep /\ k'.lock = r.lock /\ k'.wait = r.wait
    BY <2>11 DEF Calm
  <2>14. Freed(k, k', m)
    <3>1. \A u \in AllTasks : k.owned[u] = <<>> => k'.owned[u] = <<>>
      <4>1. Changes(r, k', {"current", "need"})
        BY <2>5, <2>8, ScheduleIfNeededShape DEF KInv
      <4>2. k'.owned = r.owned BY <4>1 DEF Changes, Fields
      <4>3. QED BY <2>10, <4>2 DEF Freed, Disowned
    <3>2. QED BY <2>10, <2>13, <3>1 DEF Freed, Disowned
  <2>15. Wakes(k, k', m) BY <2>3, <2>13 DEF Wakes
  <2>16. k.deep[m] = 1
    <3>1. k.deep[m] \in Nat /\ k.deep[m] # 0 BY OwnerFacts
    <3>2. QED BY <1>5, <3>1
  <2>17. QED BY <1>2, <1>3, <2>14, <2>15, <2>16, OwnerFacts, FreedSteps
<1>6. QED BY <1>4, <1>5

\* mutex_unlock, whoever calls it.
LEMMA UnlockMonitors ==
    ASSUME Inv, NEW m \in Mutexes, k.master[m] # None, frame' = frame,
           NEW outcome \in Outcomes, k' = Unlocked(m, outcome)
    PROVE  Implemented
<1>1. CASE k.deep[m] > 1 BY <1>1, GiveBackMonitors DEF Unlocked
<1>2. CASE ~(k.deep[m] > 1)
  <2> DEFINE p == PendingServed(DisownMutex(k, m), m, outcome)
  <2>1. k' = ScheduleIfNeeded(SlavesReleased(p, m)) BY <1>2 DEF Unlocked, ReleaseMutex
  <2>2. p \in {p, Detached(p, m)} OBVIOUS
  <2>3. \E o \in Outcomes :
          LET q == PendingServed(DisownMutex(k, m), m, o)
          IN  \E d \in {q, Detached(q, m)} : k' = ScheduleIfNeeded(SlavesReleased(d, m))
    BY <2>1, <2>2
  <2>4. QED BY <1>2, <2>3, GiveBackMonitors
<1>3. QED BY <1>1, <1>2

\* The calls of mutex_unlock, in task_wait and task_delete too, and of
\* mutex_unlock_irq.
LEMMA ReleaseMonitors ==
    ASSUME Inv, NEW t \in Tasks,
           \/ \E m \in Locks : MutexUnlock(t, m) \/ MutexUnlockIrq(t, m)
           \/ TaskWaitReturn(t)
           \/ DeleteUnlock(t)
    PROVE  Implemented
<1>1. t # None BY KernelConstants DEF AllTasks
<1>2. ASSUME NEW m \in Locks, MutexUnlock(t, m) PROVE Implemented
  <2>1. m \in Mutexes /\ k.master[m] # None BY <1>1, <1>2 DEF Locks, MutexUnlock
  <2>2. QED BY <1>2, <2>1, UnlockMonitors DEF MutexUnlock
<1>3. ASSUME NEW m \in Locks, MutexUnlockIrq(t, m) PROVE Implemented
  <2>1. m \in Mutexes /\ k.master[m] # None /\ frame' = frame
    BY <1>1, <1>3 DEF Locks, MutexUnlockIrq
  <2>2. CASE k.deep[m] > 1 BY <1>3, <2>1, <2>2, GiveBackMonitors DEF MutexUnlockIrq
  <2>3. CASE ~(k.deep[m] > 1)
    <3>1. PICK outcome \in Outcomes :
            k' = ScheduleIfNeeded(SlavesReleased(
                     Detached(PendingServed(DisownMutex(k, m), m, outcome), m), m))
      BY <1>3, <2>3 DEF MutexUnlockIrq
    <3> DEFINE p == PendingServed(DisownMutex(k, m), m, outcome)
    <3>2. Detached(p, m) \in {p, Detached(p, m)} OBVIOUS
    <3>3. QED BY <2>1, <2>3, <3>1, <3>2, GiveBackMonitors
  <2>4. QED BY <2>2, <2>3
<1>4. CASE TaskWaitReturn(t)
  <2>1. Joins(t) /\ frame' = frame BY <1>4 DEF TaskWaitReturn
  <2> DEFINE m == finish[joining[t].task]
  <2>2. m \in Mutexes /\ k.master[m] # None BY <1>1, <2>1, JoinerHas
  <2>3. \E outcome \in Outcomes : k' = Unlocked(m, outcome) BY <1>4 DEF TaskWaitReturn
  <2> HIDE DEF m
  <2>4. QED BY <2>1, <2>2, <2>3, UnlockMonitors
<1>5. CASE DeleteUnlock(t)
  <2> DEFINE d == frame[t].task
             s == k.owned[d]
             m == Head(s)
  <2>1. d \in Tasks BY <1>5, Deletion DEF DeleteUnlock
  <2>2. s # <<>> /\ frame' = frame /\ \E outcome \in Outcomes : k' = Unlocked(m, outcome)
    BY <1>5 DEF DeleteUnlock
  <2>3. OwnerInv(k) /\ d \in AllTasks BY <2>1 DEF Inv, KInv, AllTasks
  <2>4. s \in Seq(Mutexes) BY <2>3 DEF OwnerInv, OwnerType
  <2>5. m \in Mutexes /\ m \in Range(s)
    <3> HIDE DEF s
    <3>1. 1 \in 1 .. Len(s) BY <2>2, <2>4, EmptySeq
    <3>2. s[1] \in Range(s) /\ s[1] \in Mutexes BY <2>4, <3>1, LineElement
    <3>3. m = s[1] BY <2>2, <2>4
    <3>4. QED BY <3>2, <3>3
  <2> HIDE DEF m, d
  <2>6. k.master[m] # None
    <3>1. k.master[m] = d BY <2>3, <2>5 DEF OwnerInv, OwnedByMaster
    <3>2. QED BY <2>1, <3>1, KernelConstants DEF AllTasks
  <2>7. QED BY <2>2, <2>5, <2>6, UnlockMonitors
<1>6. QED BY <1>2, <1>3, <1>4, <1>5

\* mutex_wait resumes (msignal.c:111-134).
LEMMA ResumeWaitMonitors ==
    ASSUME Inv, NEW t \in Tasks, ResumeWait(t)
    PROVE  Implemented
<1>1. PICK m \in Mutexes, n \in 1 .. MaxDeep : frame[t] = Waiting(m, n)
  BY ResumedAt DEF ResumeWait
<1>2. frame[t].at = "mutex_wait" /\ frame[t].mutex = m /\ frame[t].deep = n
  BY <1>1, FrameFields
<1>3. t = k.current /\ t \in Range(k.list[Active]) BY <1>2, RunnerIsReady DEF ResumeWait, Resumes
<1>4. WaitsOn(t, m) BY <1>2 DEF WaitsOn
<1>5. CASE k.master[m] # None
  <2>1. k' = BlockOnMutex(k, m) /\ SameDebts BY <1>2, <1>5 DEF ResumeWait, SameDebts
  <2>2. k.master[m] # t BY <1>4 DEF Inv, TaskInv, Blocked
  <2>3. QED BY <1>3, <1>5, <2>1, <2>2, BlockMonitors
<1>6. CASE k.master[m] = None
  <2> DEFINE r == [AcquireMutex(k, m) EXCEPT !.deep[m] = n]
  <2>1. k' = r /\ frame' = [frame EXCEPT ![t] = User] BY <1>2, <1>6 DEF ResumeWait
  <2>2. Changes(k, r, {"master", "owned", "prio", "deep"}) /\ Taken(k, r, m, n)
    BY <1>3, <1>6, AcquireKeeps DEF Inv
  <2> HIDE DEF r
  <2>3. /\ k'.lock = k.lock /\ k'.wait = k.wait
        /\ k'.master = [k.master EXCEPT ![m] = t]
        /\ k'.deep = [k.deep EXCEPT ![m] = frame[t].deep]
    BY <1>2, <1>3, <2>1, <2>2 DEF Changes, Fields, Taken
  <2>4. frame[t].deep \in Nat \ {0} BY <1>2, KernelParameters
  <2>5. frame \in [AllTasks -> Frames] BY DEF Inv, VarTypes
  <2>6. QED BY <1>3, <1>4, <1>6, <2>1, <2>3, <2>4, <2>5, OwnerFacts, ReadyIsAwake, RelockSteps
<1>7. QED BY <1>5, <1>6

\* mutex_wait puts the task to sleep (msignal.c:75-109).
LEMMA SuspendMonitors ==
    ASSUME Inv, NEW t \in Tasks, Ready(t), NEW m \in Mutexes, NEW q, KInv(q),
           Changes(k, q, {"pending", "allowed"}), SuspendOnMutex(t, m, q)
    PROVE  Implemented
<1> DEFINE r == ListAppend([Unmasked(q, m) EXCEPT !.wait[t] = m], Waiters(m), t)
           d == DisownMutex(r, m)
           a == SlavesActivated(d, m)
           z == [a EXCEPT !.mprio[m] = 0]
<1>1. \A f \in Fields \ {"pending", "allowed"} : q[f] = k[f] BY DEF Changes
<1>2. /\ q.list = k.list /\ q.wait = k.wait /\ q.lock = k.lock
      /\ q.master = k.master /\ q.deep = k.deep /\ q.owned = k.owned
  BY <1>1 DEF Fields
<1>3. t \in AllTasks /\ t \in Range(q.list[Active]) BY <1>2 DEF Ready, AllTasks
<1>4. KInv(r) /\ Changes(q, r, {"wait", "allowed", "list"}) BY <1>3, SuspendLists
<1>5. r.wait = [k.wait EXCEPT ![t] = m]
  <2> DEFINE u == Unmasked(q, m)
             v == [u EXCEPT !.wait[t] = m]
  <2>1. Changes(q, u, {"allowed"})
    <3> DEFINE i == q.irq[m]
    <3>1. Shaped(q) BY DEF KInv
    <3>2. CASE i = None BY <3>1, <3>2 DEF Unmasked, Changes
    <3>3. CASE i # None
      <4>1. u = [q EXCEPT !.allowed[i] = TRUE] BY <3>3 DEF Unmasked
      <4> HIDE DEF i, u
      <4>2. QED BY <3>1, <4>1 DEF Shaped, Fields, Changes
    <3>4. QED BY <3>2, <3>3
  <2> HIDE DEF u
  <2>2. Shaped(v) /\ v.wait = [u.wait EXCEPT ![t] = m] BY <2>1 DEF Shaped, Fields, Changes
  <2> HIDE DEF v
  <2>3. Changes(v, ListAppend(v, Waiters(m), t), {"list"}) BY <2>2, AppendShape
  <2>4. r = ListAppend(v, Waiters(m), t) BY DEF u, v
  <2> HIDE DEF r
  <2>5. QED BY <1>2, <2>1, <2>2, <2>3, <2>4 DEF Changes, Fields
<1>6. \/ k.master[m] # t /\ k' = TaskSchedule(r) /\ frame' = frame
      \/ /\ k.master[m] = t /\ k' = TaskSchedule(z)
         /\ frame' = [frame EXCEPT ![t] = Waiting(m, k.deep[m])]
  BY DEF SuspendOnMutex
<1> HIDE DEF r
<1>7. r.master = k.master /\ r.deep = k.deep /\ r.lock = k.lock /\ r.owned = k.owned
  BY <1>2, <1>4 DEF Changes, Fields
<1>8. \A u \in Tasks : r.wait[u] = IF u = t THEN m ELSE k.wait[u]
  <2>1. k.wait \in [AllTasks -> OrNone(Mutexes)] BY DEF Inv, KInv, ListInv
  <2>2. QED BY <1>5, <2>1 DEF AllTasks
<1>9. \A n \in Mutexes : k.lock[t] # n /\ k.wait[t] # n BY ReadyIsAwake DEF Ready
<1>10. frame[t].at # "mutex_wait" BY DEF Ready
<1>11. CASE k.master[m] # t /\ k' = TaskSchedule(r) /\ frame' = frame
  <2>1. Calm(r, k') BY <1>4, <1>11, ScheduleCalm DEF KInv
  <2>2. /\ k'.master = k.master /\ k'.deep = k.deep /\ k'.lock = k.lock
        /\ \A u \in Tasks : k'.wait[u] = IF u = t THEN m ELSE k.wait[u]
    BY <1>7, <1>8, <2>1 DEF Calm
  <2>3. SameDebts BY <1>11 DEF SameDebts
  <2>4. QED BY <1>9, <1>10, <1>11, <2>2, <2>3, WaitSteps
<1>12. CASE /\ k.master[m] = t /\ k' = TaskSchedule(z)
            /\ frame' = [frame EXCEPT ![t] = Waiting(m, k.deep[m])]
  <2>1. r.master[m] # None BY <1>7, <1>12, KernelConstants DEF AllTasks
  <2>2. /\ KInv(d) /\ Changes(r, d, Inherited \cup {"deep", "owned", "master"})
        /\ Disowned(r, d, m)
    BY <1>4, <2>1, DisownKeeps
  <2> HIDE DEF d
  <2>3. /\ \A u \in AllTasks : a.lock[u] = IF d.lock[u] = m THEN None ELSE d.lock[u]
        /\ Changes(d, a, {"list", "need", "lock"})
    BY <2>2, SlavesActivatedKeeps, SlavesShape DEF KInv
  <2> HIDE DEF a
  <2>4. Changes(a, z, {"mprio"}) BY <2>3 DEF Shaped, Fields, Changes
  <2> HIDE DEF z
  <2>5. Changes(z, k', {"current", "need"}) BY <1>12, <2>4, ScheduleShape DEF Changes
  <2>6. /\ k'.lock = a.lock /\ k'.wait = r.wait /\ d.lock = k.lock
        /\ k'.master = d.master /\ k'.deep = d.deep /\ k'.owned = d.owned
    BY <1>7, <2>2, <2>3, <2>4, <2>5 DEF Changes, Fields, Inherited
  <2>7. Freed(k, k', m) BY <1>7, <2>2, <2>3, <2>6 DEF Freed, Disowned
  <2>8. \A u \in Tasks : k'.wait[u] = IF u = t THEN m ELSE k.wait[u] BY <1>8, <2>6
  <2>9. frame \in [AllTasks -> Frames] BY DEF Inv, VarTypes
  <2>10. QED BY <1>9, <1>10, <1>12, <2>7, <2>8, <2>9, OwnerFacts, GiveUpSteps
<1>13. QED BY <1>6, <1>11, <1>12

\* A pending interrupt is the signal, or the task sleeps (msignal.c:62-109).
LEMMA WaitMonitors ==
    ASSUME Inv, NEW t \in Tasks, Ready(t), NEW m \in Mutexes, WaitOn(t, m)
    PROVE  Implemented
<1>1. KInv(k) /\ Shaped(k) BY DEF Inv, KInv
<1>2. CASE SuspendOnMutex(t, m, k)
  <2>1. Changes(k, k, {"pending", "allowed"}) BY <1>1 DEF Changes
  <2>2. QED BY <1>1, <1>2, <2>1, SuspendMonitors
<1>3. ASSUME k.irq[m] # None, NEW outcome \in Outcomes,
             SuspendOnMutex(t, m, HandlerCalled(k, k.irq[m], outcome))
      PROVE  Implemented
  <2> DEFINE q == HandlerCalled(k, k.irq[m], outcome)
  <2>1. k.irq[m] \in Irqs BY <1>1, <1>3 DEF KInv, DataInv, OrNone
  <2>2. KInv(q) /\ Changes(k, q, {"pending", "allowed"})
    BY <1>1, <2>1, HandlerKeeps, HandlerShape
  <2>3. SuspendOnMutex(t, m, q) BY <1>3
  <2> HIDE DEF q
  <2>4. QED BY <2>2, <2>3, SuspendMonitors
<1>4. ASSUME NEW outcome \in Outcomes,
             k' = ScheduleIfNeeded(PendingServed(k, m, outcome)), frame' = frame
      PROVE  Implemented
  <2> DEFINE r == PendingServed(k, m, outcome)
  <2>1. Calm(k, r) \/ Woke(k, r, m) BY <1>1, PendingWakes
  <2>2. Shaped(r) BY <1>1, PendingShape DEF Changes
  <2>3. k' = ScheduleIfNeeded(r) BY <1>4
  <2> HIDE DEF r
  <2>4. Calm(r, k') BY <2>2, <2>3, ScheduleCalm
  <2>5. Calm(k, k') \/ Woke(k, k', m) BY <2>1, <2>4, CalmTrans
  <2>6. SameDebts BY <1>4 DEF SameDebts
  <2>7. QED BY <2>5, <2>6, CalmSteps, WokeSteps
<1>5. QED BY <1>2, <1>3, <1>4 DEF WaitOn

\* mutex_wait, called by a task or by task_wait.
LEMMA SleepMonitors ==
    ASSUME Inv, NEW t \in Tasks, (\E m \in Locks : MutexWait(t, m)) \/ TaskWaitSleep(t)
    PROVE  Implemented
<1>1. ASSUME NEW m \in Locks, MutexWait(t, m) PROVE Implemented
  <2>1. m \in Mutexes /\ Running(t) /\ WaitOn(t, m) BY <1>1 DEF Locks, MutexWait, Calls
  <2>2. QED BY <2>1, RunnerReady, WaitMonitors
<1>2. CASE TaskWaitSleep(t)
  <2> DEFINE m == finish[joining[t].task]
  <2>1. Joins(t) /\ WaitOn(t, m) BY <1>2 DEF TaskWaitSleep
  <2>2. m \in Mutexes /\ Running(t) BY <2>1, JoinerHas DEF Joins
  <2> HIDE DEF m
  <2>3. QED BY <2>1, <2>2, RunnerReady, WaitMonitors
<1>3. QED BY <1>1, <1>2

\* mutex_activate on a state that has the same monitors, and the reschedule.
LEMMA ActivateMonitors ==
    ASSUME Inv, NEW q, KInv(q), Calm(k, q), NEW m \in Mutexes, NEW msg, SameDebts,
           \/ k' = q \/ k' = ScheduleIfNeeded(q)
           \/ k' = ScheduleIfNeeded(MutexActivate(q, m, msg))
    PROVE  Implemented
<1> DEFINE a == MutexActivate(q, m, msg)
<1>1. Woke(q, a, m) /\ Shaped(a) /\ Shaped(q)
  BY ActivateWakes, MutexActivateShape DEF KInv, Changes
<1>2. k' = q \/ k' = ScheduleIfNeeded(q) \/ k' = ScheduleIfNeeded(a) OBVIOUS
<1> HIDE DEF a
<1>3. Calm(q, ScheduleIfNeeded(q)) /\ Calm(a, ScheduleIfNeeded(a)) BY <1>1, ScheduleCalm
<1>4. CASE k' = q BY <1>4, CalmSteps
<1>5. CASE k' = ScheduleIfNeeded(q) BY <1>3, <1>5, CalmTrans, CalmSteps
<1>6. CASE k' = ScheduleIfNeeded(a)
  <2>1. Woke(k, a, m) BY <1>1, CalmTrans
  <2>2. Woke(k, k', m) BY <1>3, <1>6, <2>1, CalmTrans
  <2>3. QED BY <2>2, WokeSteps
<1>7. QED BY <1>2, <1>4, <1>5, <1>6

\* mutex_signal (msignal.c:25-41).
LEMMA SignalMonitors ==
    ASSUME Inv, NEW t \in Tasks, NEW m \in Mutexes, NEW msg, MutexSignal(t, m, msg)
    PROVE  Implemented
<1>1. KInv(k) /\ Calm(k, k) BY DEF Inv, Calm
<1>2. SameDebts BY DEF MutexSignal, SameDebts
<1>3. k' = k \/ k' = ScheduleIfNeeded(MutexActivate(k, m, msg)) BY DEF MutexSignal
<1>4. QED BY <1>1, <1>2, <1>3, ActivateMonitors

\* _irq_handler_ (machdep.c:109-155).
LEMMA InterruptMonitors ==
    ASSUME Inv, NEW i \in Irqs, Interrupt(i)
    PROVE  Implemented
<1> DEFINE m == k.ilock[i]
<1>1. DataInv(k) /\ Shaped(k) /\ KInv(k) BY DEF Inv, KInv
<1>2. m \in Mutexes BY <1>1 DEF Interrupt, DataInv, OrNone, Locks
<1>3. SameDebts BY DEF Interrupt, SameDebts
<1>4. \E q : /\ Changes(k, q, {"pending", "allowed"})
             /\ q.pending \in [Irqs -> BOOLEAN] /\ q.allowed \in [Irqs -> BOOLEAN]
             /\ k' = q \/ k' = ScheduleIfNeeded(MutexActivate(q, m, None))
  <2> DEFINE masked == [k EXCEPT !.allowed[i] = FALSE]
  <2>1. /\ Changes(k, masked, {"allowed"})
        /\ masked.pending \in [Irqs -> BOOLEAN] /\ masked.allowed \in [Irqs -> BOOLEAN]
    BY <1>1 DEF Shaped, Fields, Changes, DataInv
  <2>2. \/ k' = [masked EXCEPT !.pending[i] = TRUE]
        \/ \E outcome \in Outcomes :
              LET handled == [masked EXCEPT !.allowed[i] = outcome.allow]
              IN  k' = handled \/ k' = ScheduleIfNeeded(MutexActivate(handled, m, None))
        \/ k' = ScheduleIfNeeded(MutexActivate(masked, m, None))
    BY DEF Interrupt
  <2> HIDE DEF masked, m
  <2>3. CASE k' = [masked EXCEPT !.pending[i] = TRUE]
    <3>1. /\ Changes(k, k', {"pending", "allowed"})
          /\ k'.pending \in [Irqs -> BOOLEAN] /\ k'.allowed \in [Irqs -> BOOLEAN]
      BY <2>1, <2>3 DEF Shaped, Fields, Changes
    <3>2. QED BY <3>1
  <2>4. ASSUME NEW outcome \in Outcomes,
               LET handled == [masked EXCEPT !.allowed[i] = outcome.allow]
               IN  k' = handled \/ k' = ScheduleIfNeeded(MutexActivate(handled, m, None))
        PROVE  \E q : /\ Changes(k, q, {"pending", "allowed"})
                      /\ q.pending \in [Irqs -> BOOLEAN] /\ q.allowed \in [Irqs -> BOOLEAN]
                      /\ k' = q \/ k' = ScheduleIfNeeded(MutexActivate(q, m, None))
    <3> DEFINE handled == [masked EXCEPT !.allowed[i] = outcome.allow]
    <3>1. outcome.allow \in BOOLEAN BY DEF Outcomes
    <3>2. /\ Changes(k, handled, {"pending", "allowed"})
          /\ handled.pending \in [Irqs -> BOOLEAN] /\ handled.allowed \in [Irqs -> BOOLEAN]
      BY <2>1, <3>1 DEF Shaped, Fields, Changes
    <3>3. k' = handled \/ k' = ScheduleIfNeeded(MutexActivate(handled, m, None)) BY <2>4
    <3> HIDE DEF handled
    <3>4. QED BY <3>2, <3>3
  <2>5. CASE k' = ScheduleIfNeeded(MutexActivate(masked, m, None))
    BY <2>1, <2>5 DEF Changes
  <2>6. QED BY <2>2, <2>3, <2>4, <2>5
<1> HIDE DEF m
<1>5. PICK q : /\ Changes(k, q, {"pending", "allowed"})
               /\ q.pending \in [Irqs -> BOOLEAN] /\ q.allowed \in [Irqs -> BOOLEAN]
               /\ k' = q \/ k' = ScheduleIfNeeded(MutexActivate(q, m, None))
  BY <1>4
<1>6. KInv(q) BY <1>1, <1>5, FlagsKeep
<1>7. Calm(k, q) BY <1>5, CalmChange DEF MonitorFields
<1>8. QED BY <1>2, <1>3, <1>5, <1>6, <1>7, ActivateMonitors

\* The end of task_delete: finish is signalled (tdelete.c:52-59).
LEMMA FinishMonitors ==
    ASSUME Inv, NEW t \in Tasks, DeleteFinish(t)
    PROVE  Implemented
<1> DEFINE d   == frame[t].task
           f   == finish[d]
           msg == frame[t].message
           k1  == [k EXCEPT !.base[d] = 0]
<1>1. d \in Tasks /\ f \in Mutexes /\ frame[t].at = "task_delete" /\ t \in AllTasks
  BY Deletion, KernelParameters DEF DeleteFinish, Resumes, AllTasks
<1>2. KInv(k) /\ Shaped(k) /\ DataInv(k) BY DEF Inv, KInv
<1>3. frame' = [frame EXCEPT ![t] = User] BY DEF DeleteFinish
<1>4. k' = ScheduleIfNeeded(k1) \/ k' = ScheduleIfNeeded(MutexActivate(k1, f, msg))
  BY DEF DeleteFinish
<1>5. SameDebts BY <1>1, <1>3, FrameFields, FrameDebts
<1> HIDE DEF d, f, msg
<1>6. Changes(k, k1, {"base"}) /\ k1.base = [k.base EXCEPT ![d] = 0]
  BY <1>2 DEF Shaped, Fields, Changes
<1> HIDE DEF k1
<1>7. KInv(k1)
  <2>1. 0 \in Prios /\ k.base \in [AllTasks -> Prios]
    BY <1>2, KernelParameters DEF DataInv, Prios
  <2>2. k1.base \in [AllTasks -> Prios] BY <1>6, <2>1
  <2>3. DataInv(k1) BY <1>2, <1>6, <2>2 DEF DataInv, Changes, Fields
  <2>4. QED BY <1>2, <1>6, <2>3, KInvFrame DEF Fields
<1>8. Calm(k, k1) BY <1>6, CalmChange DEF MonitorFields
<1>9. QED BY <1>1, <1>4, <1>5, <1>7, <1>8, ActivateMonitors

\* task_delete takes d out of the monitors (tdelete.c:24-45).
LEMMA DeleteMonitors ==
    ASSUME Inv, NEW t \in Tasks, NEW d \in Tasks, NEW msg, TaskDelete(t, d, msg)
    PROVE  Implemented
<1> DEFINE r  == Removed(k, d, t)
           m  == k.lock[d]
           k0 == ListUnlink(k, d)
           k1 == [k0 EXCEPT !.need = @ \/ d = t]
           k2 == IF m # None /\ k1.mprio[m] <= k1.prio[d]
                 THEN MutexRecalculatePrio(k1, m) ELSE k1
<1>1. /\ KInv(k) /\ Shaped(k) /\ k.lock \in [AllTasks -> OrNone(Mutexes)]
      /\ k.wait \in [AllTasks -> OrNone(Mutexes)]
      /\ frame \in [AllTasks -> Frames] /\ t \in AllTasks /\ d \in AllTasks
  BY DEF Inv, KInv, ListInv, VarTypes, AllTasks
<1>2. k' = r BY DEF TaskDelete, Removed
<1>3. r = [k2 EXCEPT !.lock[d] = None, !.wait[d] = None] BY DEF Removed
<1>4. Departed(k, r, d, t)
  <2> HIDE DEF r
  <2>1. r = Removed(k, d, t) BY DEF r
  <2>2. QED BY <1>1, <2>1, DeleteKeeps
<1>5. Changes(k, k0, {"list"}) BY <1>1, UnlinkShape
<1> HIDE DEF k0, m
<1>6. Changes(k0, k1, {"need"}) BY <1>5 DEF Shaped, Fields, Changes
<1> HIDE DEF k1
<1>7. Changes(k1, k2, Inherited)
  <2>1. Changes(k1, MutexRecalculatePrio(k1, m), Inherited)
    BY <1>6, MutexRecalculateShape DEF Changes
  <2>2. Changes(k1, k1, Inherited) BY <1>6 DEF Changes
  <2>3. QED BY <2>1, <2>2
<1> HIDE DEF k2, r
<1>8. k2.wait = k.wait BY <1>5, <1>6, <1>7 DEF Changes, Fields, Inherited
<1>9. r.wait = [k.wait EXCEPT ![d] = None]
  BY <1>3, <1>7, <1>8 DEF Shaped, Fields, Changes
<1>10. /\ r.lock = [k.lock EXCEPT ![d] = None]
       /\ r.master = k.master /\ r.deep = k.deep
  BY <1>4 DEF Departed, Changes, Fields, Inherited
<1>11. \A u \in Tasks : /\ k'.lock[u] = IF u = d THEN None ELSE k.lock[u]
                        /\ k'.wait[u] = IF u = d THEN None ELSE k.wait[u]
  BY <1>1, <1>2, <1>9, <1>10 DEF AllTasks
<1>12. /\ frame' = [frame EXCEPT ![d] = User, ![t] = Deleting(d, msg)]
       /\ frame[t] = User
  BY DEF TaskDelete, Calls, Running
<1>13. User.at # "mutex_wait" /\ Deleting(d, msg).at # "mutex_wait" BY FrameFields
<1>14. frame'[d].at # "mutex_wait" BY <1>1, <1>12, <1>13
<1>15. \A u \in Tasks \ {d} :
          \/ frame'[u] = frame[u]
          \/ frame[u].at # "mutex_wait" /\ frame'[u].at # "mutex_wait"
  BY <1>1, <1>12, <1>13 DEF AllTasks
<1>16. QED BY <1>2, <1>10, <1>11, <1>14, <1>15, DeletedSteps

-----------------------------------------------------------------------------
(***************************************************************************)
(* The actions that are about no lock.                                     *)
(***************************************************************************)

\* The frames stay, and the fields that change are not the monitors'.
LEMMA OtherMonitors ==
    ASSUME Inv, NEW r, NEW F, Changes(k, r, F), F \cap MonitorFields = {},
           k' = r \/ k' = ScheduleIfNeeded(r) \/ k' = TaskSchedule(r), SameDebts
    PROVE  Implemented
<1>1. Calm(k, r) BY CalmChange
<1>2. Shaped(r) BY DEF Changes
<1>3. Calm(k, k') BY <1>1, <1>2, ScheduleCalm, CalmTrans
<1>4. QED BY <1>3, CalmSteps

\* main() starts the tasks; task_create, task_yield, task_set_priority.
LEMMA TaskMonitors ==
    ASSUME Inv,
           \/ StartTasks
           \/ \E t \in Tasks : TaskCreate(t) \/ TaskYield(t)
           \/ \E t \in Tasks, d \in Tasks, p \in SetPrios : TaskSetPriority(t, d, p)
    PROVE  Implemented
<1>1. Shaped(k) BY DEF Inv, KInv
<1>2. CASE StartTasks
  <2>1. Changes(k, k, {}) BY <1>1 DEF Changes
  <2>2. frame[Idle].at # "mutex_wait" BY FrameFields DEF Inv, CurrentInv
  <2>3. SameDebts BY <1>2, <2>2, FrameFields, FrameDebts DEF StartTasks, AllTasks
  <2>4. k' = TaskSchedule(k) BY <1>2 DEF StartTasks
  <2>5. QED BY <2>1, <2>3, <2>4, OtherMonitors
<1>3. ASSUME NEW t \in Tasks, TaskCreate(t) PROVE Implemented
  <2> DEFINE f == finish[t]
             p == StartPrio[t]
             r == [k EXCEPT !.base[t] = p, !.prio[t] = p, !.message[t] = None,
                            !.mprio[f] = 0, !.groups[f] = <<>>]
             a == TaskActivate(r, <<t>>)
             F == {"base", "prio", "message", "mprio", "groups"}
  <2>1. k' = a /\ SameDebts BY <1>3 DEF TaskCreate, SameDebts
  <2> HIDE DEF f, p
  <2>2. Changes(k, r, F)
    <3>1. r = Created(k, t, p, f) BY DEF Created
    <3> HIDE DEF r
    <3>2. CreatedFrom(k, r, t, p, f) BY <1>1, <3>1, CreatedIs
    <3>3. QED BY <3>2 DEF CreatedFrom
  <2> HIDE DEF r
  <2>3. Changes(r, a, {"list", "need"}) BY <2>2, ActivateShape DEF Changes
  <2> HIDE DEF a
  <2>4. Changes(k, a, F \cup {"list", "need"}) BY <2>2, <2>3, ChangesTrans
  <2>5. (F \cup {"list", "need"}) \cap MonitorFields = {} BY DEF MonitorFields
  <2>6. QED BY <2>1, <2>4, <2>5, OtherMonitors
<1>4. ASSUME NEW t \in Tasks, TaskYield(t) PROVE Implemented
  <2> DEFINE r == ListAppend(k, Active, t)
  <2>1. Changes(k, r, {"list"}) BY <1>1, AppendShape
  <2>2. k' = TaskSchedule(r) /\ SameDebts BY <1>4 DEF TaskYield, SameDebts
  <2> HIDE DEF r
  <2>3. QED BY <2>1, <2>2, OtherMonitors DEF MonitorFields
<1>5. ASSUME NEW t \in Tasks, NEW d \in Tasks, NEW p \in SetPrios, TaskSetPriority(t, d, p)
      PROVE  Implemented
  <2> DEFINE q == [k EXCEPT !.base[d] = p]
             r == TaskRecalculatePrio(q, d)
  <2>1. k' = ScheduleIfNeeded(r) /\ SameDebts BY <1>5 DEF TaskSetPriority, SameDebts
  <2>2. Changes(k, q, {"base"}) BY <1>1 DEF Shaped, Fields, Changes
  <2> HIDE DEF q
  <2>3. Changes(q, r, Inherited) BY <2>2, TaskRecalculateShape DEF Changes
  <2> HIDE DEF r
  <2>4. Changes(k, r, Inherited \cup {"base"}) BY <2>2, <2>3, ChangesTrans
  <2>5. (Inherited \cup {"base"}) \cap MonitorFields = {} BY DEF MonitorFields, Inherited
  <2>6. QED BY <2>1, <2>4, <2>5, OtherMonitors
<1>6. QED BY <1>2, <1>3, <1>4, <1>5

\* mutex_attach_irq, and the groups: their tasks are kept out of no lock.
LEMMA GroupMonitors ==
    ASSUME Inv,
           \/ \E i \in Irqs, f \in BOOLEAN : MutexAttachIrq(i, f)
           \/ \E g \in Groups : GroupListen(g) \/ GroupUnlisten(g)
           \/ \E t \in Tasks : ResumeGroupWait(t) \/ \E g \in Groups : GroupWait(t, g)
    PROVE  Implemented
<1>1. Shaped(k) BY DEF Inv, KInv
<1>2. ASSUME NEW i \in Irqs, NEW f \in BOOLEAN, MutexAttachIrq(i, f) PROVE Implemented
  <2> DEFINE q == Attached(k, IrqMutex[i], i, f)
             r == [q EXCEPT !.allowed[i] = TRUE]
             F == {"irq", "ilock", "fast", "pending"}
  <2>1. k' = r /\ SameDebts BY <1>2 DEF MutexAttachIrq, SameDebts
  <2>2. Changes(k, q, F) BY <1>1, AttachedShape
  <2> HIDE DEF q
  <2>3. Changes(q, r, {"allowed"}) BY <2>2 DEF Shaped, Fields, Changes
  <2> HIDE DEF r
  <2>4. Changes(k, r, F \cup {"allowed"}) BY <2>2, <2>3, ChangesTrans
  <2>5. (F \cup {"allowed"}) \cap MonitorFields = {} BY DEF MonitorFields
  <2>6. QED BY <2>1, <2>4, <2>5, OtherMonitors
<1>3. ASSUME NEW g \in Groups, GroupListen(g) \/ GroupUnlisten(g) PROVE Implemented
  <2>1. Changes(k, k', {"groups", "gmessage"})
    BY <1>1, <1>3 DEF GroupListen, GroupUnlisten, Shaped, Fields, Changes
  <2>2. SameDebts BY <1>3 DEF GroupListen, GroupUnlisten, SameDebts
  <2>3. QED BY <2>1, <2>2, OtherMonitors DEF MonitorFields
<1>4. ASSUME NEW t \in Tasks, NEW g, GroupLoop(t, g), frame[t].at # "mutex_wait"
      PROVE  Implemented
  <2>1. User.at # "mutex_wait" /\ WaitingGroup(g).at # "mutex_wait" BY FrameFields
  <2>2. SameDebts BY <1>4, <2>1, FrameDebts DEF GroupLoop, AllTasks
  <2>3. CASE k' = [k EXCEPT !.signalled[g] = @ \ {LastSignalled(g)}]
    <3>1. Changes(k, k', {"signalled"}) BY <1>1, <2>3 DEF Shaped, Fields, Changes
    <3>2. QED BY <2>2, <3>1, OtherMonitors DEF MonitorFields
  <2>4. CASE k' = TaskSchedule([ListUnlink(k, t) EXCEPT !.waiter[g] = t])
    <3> DEFINE u == ListUnlink(k, t)
               r == [u EXCEPT !.waiter[g] = t]
    <3>1. Changes(k, u, {"list"}) BY <1>1, UnlinkShape
    <3>2. k' = TaskSchedule(r) BY <2>4
    <3> HIDE DEF u
    <3>3. Changes(u, r, {"waiter"}) BY <3>1 DEF Shaped, Fields, Changes
    <3> HIDE DEF r
    <3>4. Changes(k, r, {"list", "waiter"}) BY <3>1, <3>3, ChangesTrans
    <3>5. QED BY <2>2, <3>2, <3>4, OtherMonitors DEF MonitorFields
  <2>5. QED BY <1>4, <2>3, <2>4 DEF GroupLoop
<1>5. ASSUME NEW t \in Tasks, ResumeGroupWait(t) \/ \E g \in Groups : GroupWait(t, g)
      PROVE  Implemented
  <2>1. CASE ResumeGroupWait(t)
    BY <1>4, <2>1 DEF ResumeGroupWait, Resumes
  <2>2. CASE \E g \in Groups : GroupWait(t, g)
    BY <1>4, <2>2, FrameFields DEF GroupWait, Calls, Running
  <2>3. QED BY <1>5, <2>1, <2>2
<1>6. QED BY <1>2, <1>3, <1>5

-----------------------------------------------------------------------------
\* Every step of the kernel is one of each monitor, or leaves it alone.
LEMMA NextMonitors ==
    ASSUME Inv, [Next]_vars
    PROVE  Implemented
<1>1. CASE StartTasks BY <1>1, TaskMonitors
<1>2. ASSUME NEW t \in Tasks, TaskCreate(t) PROVE Implemented BY <1>2, TaskMonitors
<1>3. ASSUME NEW t \in Tasks, Resume(t) PROVE Implemented
  BY <1>3, LockMonitors, LockIrqMonitors, ResumeWaitMonitors, GroupMonitors,
     ReleaseMonitors, FinishMonitors DEF Resume
<1>4. ASSUME NEW t \in Tasks, TaskCall(t) PROVE Implemented
  BY <1>4, TaskMonitors, DeleteMonitors DEF TaskCall
<1>5. ASSUME NEW t \in Tasks, MutexCall(t) PROVE Implemented
  <2>1. PICK m \in Locks :
          \/ MutexLock(t, m) \/ MutexTrylock(t, m) \/ MutexUnlock(t, m) \/ MutexWait(t, m)
          \/ \E msg \in Messages : MutexSignal(t, m, msg)
    BY <1>5 DEF MutexCall
  <2>2. m \in Mutexes BY DEF Locks
  <2>3. CASE MutexLock(t, m) \/ MutexTrylock(t, m) BY <2>3, LockMonitors
  <2>4. CASE MutexUnlock(t, m) BY <2>4, ReleaseMonitors
  <2>5. CASE MutexWait(t, m) BY <2>5, SleepMonitors
  <2>6. CASE \E msg \in Messages : MutexSignal(t, m, msg) BY <2>2, <2>6, SignalMonitors
  <2>7. QED BY <2>1, <2>3, <2>4, <2>5, <2>6
<1>6. ASSUME NEW t \in Tasks, JoinCall(t) PROVE Implemented
  <2>1. CASE \E d \in Tasks : TaskWait(t, d) BY <2>1, LockMonitors
  <2>2. CASE TaskWaitTest(t)
    <3>1. Calm(k, k') /\ SameDebts BY <2>2 DEF TaskWaitTest, Calm, SameDebts
    <3>2. QED BY <3>1, CalmSteps
  <2>3. CASE TaskWaitSleep(t) BY <2>3, SleepMonitors
  <2>4. CASE TaskWaitReturn(t) BY <2>4, ReleaseMonitors
  <2>5. QED BY <1>6, <2>1, <2>2, <2>3, <2>4 DEF JoinCall
<1>7. ASSUME NEW t \in Tasks, IrqCall(t) PROVE Implemented
  BY <1>7, LockIrqMonitors, ReleaseMonitors DEF IrqCall
<1>8. ASSUME NEW t \in Tasks, NEW g \in Groups, GroupWait(t, g) PROVE Implemented
  BY <1>8, GroupMonitors
<1>9. ASSUME NEW g \in Groups, GroupListen(g) \/ GroupUnlisten(g) PROVE Implemented
  BY <1>9, GroupMonitors
<1>10. ASSUME NEW i \in Irqs, NEW f \in BOOLEAN, MutexAttachIrq(i, f) PROVE Implemented
  BY <1>10, GroupMonitors
<1>11. ASSUME NEW i \in Irqs, Interrupt(i) PROVE Implemented BY <1>11, InterruptMonitors
<1>12. CASE UNCHANGED vars
  <2>1. Calm(k, k') /\ SameDebts BY <1>12 DEF vars, Calm, SameDebts
  <2>2. QED BY <2>1, CalmSteps
<1>13. QED
  BY <1>1, <1>2, <1>3, <1>4, <1>5, <1>6, <1>7, <1>8, <1>9, <1>10, <1>11, <1>12 DEF Next

\* At first every lock is free, and nobody waits.
LEMMA InitMonitors == Init => \A m \in Mutexes : AMonitor(m)!Init
<1> SUFFICES ASSUME Init, NEW m \in Mutexes PROVE AMonitor(m)!Init OBVIOUS
<1>1. m # None BY KernelConstants
<1>2. /\ k.master[m] = None /\ k.deep[m] = 0
      /\ \A t \in Tasks : k.lock[t] = None /\ k.wait[t] = None
  BY DEF Init, KernelInit, AllTasks
<1>3. \A t \in Tasks : ~WaitsOn(t, m)
  BY FrameFields, KernelConstants DEF Init, WaitsOn, AllTasks
<1>4. QED BY <1>1, <1>2, <1>3 DEF AMonitor!Init

\* Every mutex is a monitor (mutex.c, mtry.c, msignal.c, itake.c, irelease.c,
\* tdelete.c, twait.c): one owner, a wait that gives the lock up and takes it
\* again as deep, a signal that wakes all who wait and nobody else.
THEOREM KernelImplementsMonitors ==
    ASSUME "delete_group_waiter" \notin Misuse
    PROVE  Spec => ImplementsMonitors
<1>1. Init => Inv BY InitInv
<1>2. Inv /\ [Next]_vars => Inv' BY NextInv
<1>3. Inv /\ [Next]_vars => Implemented BY NextMonitors
<1>4. Implemented => \A m \in Mutexes : UNCHANGED AMonitor(m)!vars \/ AMonitor(m)!Next
  BY DEF Implemented, MonitorStep
<1>5. Init => \A m \in Mutexes : AMonitor(m)!Init BY InitMonitors
<1>6. QED BY <1>1, <1>2, <1>3, <1>4, <1>5, PTL DEF Spec, ImplementsMonitors
=============================================================================
