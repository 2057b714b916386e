--------------------------- MODULE MCCronService ---------------------------
(* Small instances of CronService, with one job of every kind.             *)
EXTENDS CronService, TLC

CONSTANTS once, every, daily

MCKind == [j \in Job |-> IF j = once THEN "at" ELSE IF j = every THEN "every" ELSE "cron"]
MCPeriod == [j \in Job |-> IF j = every THEN 2 ELSE 1]
MCBackoff == <<1, 2>>

(* Crashes, and no service beside the one the gateway holds.               *)
MCCrashSpec == CronInit /\ [][CronNext /\ ~Reload]_cronVars
=============================================================================
