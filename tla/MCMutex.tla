------------------------------ MODULE MCMutex -------------------------------
(***************************************************************************)
(* The kernel without interrupts and groups, in two instances that are     *)
(* behaviours of one run: tasks that signal, join and delete each other    *)
(* over one lock, and tasks that block on two locks, while priorities are  *)
(* raised and lowered.                                                     *)
(***************************************************************************)
EXTENDS MCKernel

VARIABLE instance   \* the one that this behaviour is of

\* b is not used, and no priority is raised above all others.
OneLock ==
    /\ k'.master[b] = None /\ k'.list[Waiters(b)] = <<>>
    /\ \A t \in Tasks : k'.base[t] # MaxPrio

\* No lock is taken recursively, no waiting task is signalled, and none ends.
TwoLocks ==
    /\ \A m \in Mutexes : k'.deep[m] <= 1
    /\ \A t \in Tasks : /\ k'.message[t] = None
                        /\ k.base[t] # 0 => k'.base[t] # 0

MutexInit == Init /\ instance \in {"one lock", "two locks"}

MutexNext ==
    /\ Next
    /\ UNCHANGED instance
    /\ IF instance = "one lock" THEN OneLock ELSE TwoLocks

MutexSpec == MutexInit /\ [][MutexNext]_<<vars, instance>>
=============================================================================
