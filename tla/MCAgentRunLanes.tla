-------------------------- MODULE MCAgentRunLanes --------------------------
(* A chat session with two runs, a manual cron job, and the run its          *)
(* sessions_send starts in the chat session.                                 *)
EXTENDS AgentRunLanes

MCSessionKey == [r \in Run |-> IF r = "job" THEN "session:cron" ELSE "session:chat"]
MCLaneParam == [r \in Run |-> CASE r = "job" -> "cron" [] r = "ask" -> "nested" [] OTHER -> ""]
MCLimits == {[cron |-> 0, main |-> 2, subagent |-> 1]}
MCLane == LaneName
MCTask == RunTask
MCLaneOf == TaskLane
MCSendsTo == [r \in {"job"} |-> "ask"]
=============================================================================
