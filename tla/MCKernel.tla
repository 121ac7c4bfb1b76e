------------------------------ MODULE MCKernel ------------------------------
(***************************************************************************)
(* Instances of the kernel for TLC.  Tasks t1, t2, t3 with the mutexes f1, *)
(* f2, f3 for their ends; locks a and b; an interrupt i1 on a; a group g1 of*)
(* a and b; a message x.                                                   *)
(***************************************************************************)
EXTENDS KernelInvariant, TLC

CONSTANTS t1, t2, t3, f1, f2, f3, a, b, i1, g1, x

MCFinish    == [t \in Tasks |-> CASE t = t1 -> f1 [] t = t2 -> f2 [] t = t3 -> f3]
MCPrios     == [t \in Tasks |-> CASE t = t1 -> 1 [] t = t2 -> 2 [] t = t3 -> 3]
MCEqual     == [t \in Tasks |-> 1]
MCIrqMutex  == [n \in Irqs |-> a]
MCMembers   == [n \in Groups |-> <<a, b>>]
=============================================================================
