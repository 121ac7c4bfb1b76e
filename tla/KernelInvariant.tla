-------------------------- MODULE KernelInvariant --------------------------
(***************************************************************************)
(* An inductive invariant of the kernel, from which its type, the          *)
(* consistency of its lists, the fate of a deleted task and the ownership  *)
(* of the locks follow.  None of these is inductive by itself: a signal    *)
(* appends the right tasks to the active list only if the lists are        *)
(* separate; they stay so only if no deleted task runs; that it does not   *)
(* run follows from its being on no list; and what a task holds can be     *)
(* read off the lock only if the task that runs is the one the kernel      *)
(* thinks.  The parts are predicates of the kernel's data alone, then of   *)
(* all variables.                                                          *)
(***************************************************************************)
EXTENDS KernelProperties

\* No task is on two lists, or on one of them twice.
Separate(l) ==
    /\ l \in [Heads -> Seq(AllTasks)]
    /\ \A h \in Heads : IsInjective(l[h])
    /\ \A h1, h2 \in Heads : h1 # h2 => Range(l[h1]) \cap Range(l[h2]) = {}

ListInv(s) ==
    /\ Separate(s.list)
    /\ s.lock \in [AllTasks -> OrNone(Mutexes)]
    /\ s.wait \in [AllTasks -> OrNone(Mutexes)]
    /\ LinkedWhereBlocked(s)

\* A task that waits for a group is on no list, and waits for no other.
WaiterInv(s) ==
    /\ s.waiter \in [Groups -> OrNone(Tasks)]
    /\ s.groups \in [Mutexes -> Seq(Groups)]
    /\ \A m \in Mutexes : IsInjective(s.groups[m])
    /\ \A g \in Groups : s.waiter[g] # None => ~Linked(s, s.waiter[g])
    /\ \A g1, g2 \in Groups :
          s.waiter[g1] = s.waiter[g2] /\ s.waiter[g1] # None => g1 = g2

OwnerType(s) ==
    /\ s.master \in [Mutexes -> OrNone(Tasks)]
    /\ s.owned \in [AllTasks -> Seq(Mutexes)]
    /\ s.deep \in [Mutexes -> 0 .. MaxDeep]

OwnerInv(s) ==
    /\ OwnerType(s)
    /\ OwnedByMaster(s)
    /\ \A m \in Mutexes : s.master[m] = None <=> s.deep[m] = 0

\* The types of the other fields.
DataInv(s) ==
    /\ s.current \in AllTasks /\ s.need \in BOOLEAN
    /\ s.base \in [AllTasks -> Prios] /\ s.prio \in [AllTasks -> Prios]
    /\ s.message \in [AllTasks -> OrNone(Messages)]
    /\ s.mprio \in [Mutexes -> Prios]
    /\ s.irq \in [Mutexes -> OrNone(Irqs)]
    /\ s.ilock \in [Irqs -> OrNone(Locks)] /\ s.fast \in [Irqs -> BOOLEAN]
    /\ s.pending \in [Irqs -> BOOLEAN] /\ s.allowed \in [Irqs -> BOOLEAN]
    /\ s.signalled \in [Groups -> SUBSET Mutexes]
    /\ s.gmessage \in [Groups -> [Mutexes -> OrNone(Messages)]]

\* A free lock blocks nobody.
FreeInv(s) == \A m \in Mutexes, t \in AllTasks : s.master[m] = None => s.lock[t] # m

\* The kernel has t somewhere, and may make it run.
Present(s, t) == Linked(s, t) \/ \E g \in Groups : s.waiter[g] = t

-----------------------------------------------------------------------------
\* The current task is ready, but for one that deletes itself: it will not
\* come back from the reschedule that is due.
CurrentInv ==
    /\ Idle \in Range(k.list[Active])
    /\ frame[Idle] \in {User, Boot}
    /\ \/ k.current \in Range(k.list[Active])
       \/ /\ frame[k.current].at = "task_delete"
          /\ frame[k.current].task = k.current
          /\ k.need

\* A task that is dead, or being deleted, is out of the kernel's reach.
AbsentInv ==
    \A t \in Tasks : k.base[t] = 0 \/ BeingDeleted(t) =>
        /\ ~Present(k, t)
        /\ frame[t].at \in {"user", "task_delete"}
        /\ joining[t] = None
        /\ k.base[t] = 0 => k.owned[t] = <<>>

\* A task that is to acquire a lock does not have it.
BlockedInv ==
    \A t \in Tasks :
        /\ \A m \in Mutexes : frame[t] = Locking(m) => k.master[m] # t
        /\ \A i \in Irqs, f \in BOOLEAN : frame[t] = LockingIrq(i, f) => k.master[IrqMutex[i]] # t
        /\ \A m \in Mutexes : WaitsOn(t, m) => k.master[m] # t

\* t takes the lock f, waits on it or has it.
Uses(t, f) ==
    \/ frame[t] = Locking(f)
    \/ WaitsOn(t, f)
    \/ k.master[f] = t /\ ~BeingDeleted(t)

\* The lock finish of a task is used by task_wait alone, and taken once.
FinishInv ==
    /\ \A f \in Range(finish) :
        /\ k.deep[f] <= 1
        /\ \A t \in Tasks :
            /\ WaitsOn(t, f) => frame[t].deep = 1
            /\ Uses(t, f) => joining[t] # None /\ finish[joining[t].task] = f
    /\ \A t \in Tasks : joining[t] # None =>
        LET f == finish[joining[t].task]
        IN  \/ frame[t] = Locking(f)
            \/ WaitsOn(t, f)
            \/ frame[t] = User /\ k.master[f] = t

\* Between two steps of the kernel: the lists and the owners agree (mutex.c,
\* msignal.c, main.c), the task that runs is ready or ends itself (tdelete.c), a
\* dead one is out of reach, a task that resumes in a lock loop does not have
\* the lock, task_wait has its finish lock once, and locks are as deep as taken.
IInv ==
    /\ TypeOK
    /\ ListInv(k) /\ WaiterInv(k) /\ OwnerInv(k) /\ FreeInv(k)
    /\ CurrentInv /\ AbsentInv /\ BlockedInv /\ FinishInv /\ HeldIsOwned

-----------------------------------------------------------------------------
(***************************************************************************)
(* Priority inheritance.  A task that exists has what it is owed, its own  *)
(* priority and those of its locks; a lock has its priority from a task    *)
(* that is blocked on it; unless task_set_priority is called, no task is   *)
(* blocked on a lock of a priority below its own.                          *)
(***************************************************************************)
\* p is the maximum of b and of what the locks of O have.
Owed(p, b, mp, O) ==
    /\ p >= b
    /\ \A n \in O : p >= mp[n]
    /\ p = b \/ \E n \in O : p = mp[n]

OwedBut(s, X) ==
    \A t \in AllTasks \ X : s.base[t] # 0 =>
        Owed(s.prio[t], s.base[t], s.mprio, Range(s.owned[t]))

LocksBacked(s) ==
    \A m \in Mutexes : s.mprio[m] = 0 \/
        \E t \in AllTasks : s.lock[t] = m /\ s.prio[t] >= s.mprio[m]

OwnPriosServed(s) ==
    SetPrios = {} =>
        \A t \in AllTasks, m \in Mutexes : s.lock[t] = m => s.base[t] <= s.mprio[m]

InheritInv(s) == OwedBut(s, {}) /\ LocksBacked(s) /\ OwnPriosServed(s)
=============================================================================
