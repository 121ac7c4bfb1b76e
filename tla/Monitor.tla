------------------------------- MODULE Monitor -------------------------------
(***************************************************************************)
(* A mutex of uOS as the drivers and libraries see it: a recursive lock    *)
(* with one condition to wait for.  One task at a time owns it.  A task    *)
(* that waits gives it up entirely and gets it back as deep as it had it,  *)
(* after a signal; a signal wakes all who wait; and whoever gives it up    *)
(* lets everyone who is kept out try again.                                *)
(***************************************************************************)
EXTENDS Naturals

CONSTANTS
    Tasks,
    None

VARIABLES
    owner,      \* the task that has the lock, or None
    depth,      \* how often it has taken it
    kept,       \* the tasks kept out, until the owner gives it up
    waiting,    \* the tasks that wait for a signal
    owed        \* how deep each task that waited is to have the lock again

vars == <<owner, depth, kept, waiting, owed>>

Init ==
    /\ owner = None /\ depth = 0
    /\ kept = {} /\ waiting = {}
    /\ owed = [t \in Tasks |-> 0]

Awake(t) == t \notin kept \cup waiting

GivenUp ==
    /\ owner' = None /\ depth' = 0
    /\ kept' = {}

Lock(t) ==
    /\ owner = None /\ Awake(t) /\ owed[t] = 0
    /\ owner' = t /\ depth' = 1
    /\ UNCHANGED <<kept, waiting, owed>>

LockAgain(t) ==
    /\ owner = t
    /\ depth' = depth + 1
    /\ UNCHANGED <<owner, kept, waiting, owed>>

KeptOut(t) ==
    /\ owner \notin {None, t} /\ Awake(t)
    /\ kept' = kept \cup {t}
    /\ UNCHANGED <<owner, depth, waiting, owed>>

\* Giving the lock up is a signal too when an interrupt came meanwhile.
Unlock(t) ==
    /\ owner = t
    /\ \/ /\ depth > 1
          /\ depth' = depth - 1
          /\ UNCHANGED <<owner, kept, waiting>>
       \/ /\ depth = 1
          /\ GivenUp
          /\ waiting' \in {waiting, {}}
    /\ UNCHANGED owed

\* A task that does not have the lock may wait too, and then gets none.
Wait(t) ==
    /\ Awake(t)
    /\ waiting' = waiting \cup {t}
    /\ \/ /\ owner = t
          /\ GivenUp
          /\ owed' = [owed EXCEPT ![t] = depth]
       \/ /\ owner # t /\ owed[t] = 0
          /\ UNCHANGED <<owner, depth, kept, owed>>

Signal ==
    /\ waiting' = {}
    /\ UNCHANGED <<owner, depth, kept, owed>>

Relock(t) ==
    /\ owner = None /\ Awake(t) /\ owed[t] > 0
    /\ owner' = t /\ depth' = owed[t]
    /\ owed' = [owed EXCEPT ![t] = 0]
    /\ UNCHANGED <<kept, waiting>>

\* A task is deleted; a lock that it owns is unlocked.
Deleted(t) ==
    /\ kept' = kept \ {t} /\ waiting' = waiting \ {t}
    /\ owed' = [owed EXCEPT ![t] = 0]
    /\ UNCHANGED <<owner, depth>>

Next ==
    \/ \E t \in Tasks :
          \/ Lock(t) \/ LockAgain(t) \/ KeptOut(t) \/ Unlock(t)
          \/ Wait(t) \/ Relock(t) \/ Deleted(t)
    \/ Signal

Spec == Init /\ [][Next]_vars
=============================================================================
