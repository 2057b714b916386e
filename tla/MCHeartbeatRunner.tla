------------------------- MODULE MCHeartbeatRunner -------------------------
(* Small instances of HeartbeatRunner: all agents, and one agent's session.*)
EXTENDS HeartbeatRunner
=============================================================================
