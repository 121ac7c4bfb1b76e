----------------------------- MODULE Allocator -----------------------------
(***************************************************************************)
(* What a memory pool promises: every block handed out is free memory at   *)
(* least as long as was asked for and stays its owner's until it is freed, *)
(* and an allocation fails only when no stretch of free memory, however it *)
(* came to be free, is long enough.  An answer names the request that it   *)
(* answers, so that none passes for the answer to another.                 *)
(***************************************************************************)
EXTENDS Integers, FiniteSets

CONSTANTS
    Requests,   \* the sizes that are asked for
    Need(_)     \* how much memory a request takes

VARIABLES
    memory,     \* the addresses that the pool was given
    used,       \* the blocks handed out: records [at, len]
    answer      \* of the last call

vars == <<memory, used, answer>>

Extent(b) == b.at .. b.at + b.len - 1
Occupied  == UNION {Extent(b) : b \in used}
Free      == memory \ Occupied

NoAnswer       == [is |-> "none"]
Granted(n, a)  == [is |-> "block", asked |-> n, at |-> a]
Refusal(n)     == [is |-> "no_memory", asked |-> n]
Kept(n, a)     == [is |-> "cut", asked |-> n, at |-> a]

\* Some n consecutive addresses are free.
RoomFor(n) == \E a \in Free : a .. a + n - 1 \subseteq Free

Init == memory = {} /\ used = {} /\ answer = NoAnswer

Grow ==
    /\ memory \subseteq memory'
    /\ answer' = NoAnswer
    /\ UNCHANGED used

Allocate(n) ==
    /\ \E b \in used' \ used :
          /\ b.len >= Need(n)
          /\ Extent(b) \subseteq Free
          /\ used' = used \cup {b}
          /\ answer' = Granted(n, b.at)
    /\ UNCHANGED memory

Refuse(n) ==
    /\ ~ RoomFor(Need(n))
    /\ answer' = Refusal(n)
    /\ UNCHANGED <<memory, used>>

Release(b) ==
    /\ used' = used \ {b}
    /\ answer' = NoAnswer
    /\ UNCHANGED memory

\* A block may be cut, never moved, and never below what its owner keeps.
Shorten(b, n) ==
    /\ \E c \in used' \ used :
          /\ c.at = b.at /\ c.len \in Need(n) .. b.len - 1
          /\ used' = (used \ {b}) \cup {c}
    /\ answer' = Kept(n, b.at)
    /\ UNCHANGED memory

CallIdle ==
    /\ answer' = NoAnswer
    /\ UNCHANGED <<memory, used>>

Next ==
    \/ Grow
    \/ \E n \in Requests : Allocate(n) \/ Refuse(n)
    \/ \E b \in used : Release(b) \/ \E n \in Requests : Shorten(b, n)
    \/ CallIdle

Spec == Init /\ [][Next]_vars
=============================================================================
