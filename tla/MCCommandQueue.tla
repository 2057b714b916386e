--------------------------- MODULE MCCommandQueue ---------------------------
(* Small instances of CommandQueue: lane "a" gets all tasks but one.       *)
EXTENDS CommandQueue, TLC

CONSTANTS t1, t2, t3, t4

MCLaneOf == [t \in Task |-> IF t = t4 THEN "b" ELSE "a"]
MCSymmetry == Permutations({t1, t2, t3})
=============================================================================
