-------------------------- MODULE MCGatewayRunLoop --------------------------
(* Small instances of GatewayRunLoop: one session lane of concurrency 1.   *)
EXTENDS GatewayRunLoop

CONSTANTS t1, t2, t3

MCLaneOf == [t \in Task |-> "session"]
MCWaiter == 1 .. MaxRestarts
=============================================================================
