------------------------------- MODULE Stream -------------------------------
(***************************************************************************)
(* A stream of bytes that one side writes and the other reads, until the   *)
(* connection is given up: what has not arrived by then is lost.           *)
(***************************************************************************)
EXTENDS Naturals, Sequences

CONSTANT Bytes

VARIABLES
    stream,     \* what has been written and not been read
    got,        \* what has been read
    open        \* the connection has not been given up

vars == <<stream, got, open>>

Init == stream = <<>> /\ got = <<>> /\ open = TRUE

Write ==
    /\ open
    /\ Len(stream') > Len(stream)
    /\ SubSeq(stream', 1, Len(stream)) = stream
    /\ stream' \in Seq(Bytes)
    /\ UNCHANGED <<got, open>>

Read ==
    /\ \E n \in 1 .. Len(stream) :
          /\ got' = got \o SubSeq(stream, 1, n)
          /\ stream' = SubSeq(stream, n + 1, Len(stream))
    /\ UNCHANGED open

GiveUp ==
    /\ open
    /\ \E n \in 0 .. Len(stream) : stream' = SubSeq(stream, 1, n)
    /\ open' = FALSE
    /\ UNCHANGED got

Next == Write \/ Read \/ GiveUp

Spec == Init /\ [][Next]_vars
=============================================================================
