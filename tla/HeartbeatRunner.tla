-------------------------- MODULE HeartbeatRunner --------------------------
(***************************************************************************)
(* The heartbeat runner of the gateway (startHeartbeatRunner in            *)
(* src/infra/heartbeat-runner) on top of the wake layer.  A runner keeps   *)
(* an interval timer that requests a wake of all agents; the wake reaches  *)
(* the runner's handler, which arms the interval timer again when it has   *)
(* run.  A Handler stands for the runner that registers it: an in-process  *)
(* restart stops one runner and starts the next.                           *)
(* An agent's heartbeat (runHeartbeatOnce) is what the handler waits for:  *)
(* it ends, or it reports that the main lane is busy.                      *)
(***************************************************************************)
EXTENDS HeartbeatWake

CONSTANTS
  All,             \* the wake target of an untargeted request
  Requested,       \* the priorities requested from outside the runner
  MaxRequests,     \* bound: requests from outside the runner
  MaxUpdates       \* bound: calls of updateConfig and set-heartbeats

ASSUME AllAssumption == All \in Target /\ Requested \subseteq Priority
ASSUME RequestAssumption == MaxRequests \in Nat /\ MaxUpdates \in Nat

VARIABLES
  heartbeatsEnabled, \* the switch of the set-heartbeats method
  runner,            \* off, on or stopped, by handler
  agents,            \* whether state.agents holds an agent
  interval,          \* state.timer # null
  lapsed,            \* a wake was turned away by the switch and nothing armed since
  requests,          \* requests so far
  updates            \* updates so far

runnerVars == <<heartbeatsEnabled, runner, agents, interval, lapsed, requests, updates>>
heartbeatVars == <<wakeVars, runnerVars>>

RunnerTypeOK ==
  /\ WakeTypeOK
  /\ heartbeatsEnabled \in BOOLEAN
  /\ runner \in [Handler -> {"off", "on", "stopped"}]
  /\ agents \in [Handler -> BOOLEAN]
  /\ interval \in [Handler -> BOOLEAN]
  /\ lapsed \in [Handler -> BOOLEAN]
  /\ requests \in 0 .. MaxRequests
  /\ updates \in 0 .. MaxUpdates

HeartbeatInit ==
  /\ WakeInit
  /\ heartbeatsEnabled = TRUE
  /\ runner = [h \in Handler |-> "off"]
  /\ agents = [h \in Handler |-> FALSE]
  /\ interval = [h \in Handler |-> FALSE]
  /\ lapsed = [h \in Handler |-> FALSE]
  /\ requests = 0
  /\ updates = 0

(* scheduleNext.                                                           *)
ScheduleNext(h) ==
  /\ interval' = IF runner'[h] = "on" THEN [interval EXCEPT ![h] = agents'[h]] ELSE interval
  /\ lapsed' = [lapsed EXCEPT ![h] = FALSE]

(* startHeartbeatRunner: register the handler, then updateConfig with a    *)
(* configuration that has an agent.                                        *)
StartHeartbeatRunner(h) ==
  /\ runner[h] = "off"
  /\ \A g \in Handler : g < h => runner[g] # "off"
  /\ runner' = [runner EXCEPT ![h] = "on"]
  /\ agents' = [agents EXCEPT ![h] = TRUE]
  /\ ScheduleNext(h)
  /\ SetHeartbeatWakeHandler(h)
  /\ UNCHANGED <<heartbeatsEnabled, requests, updates>>

(* updateConfig.                                                           *)
UpdateConfig(h, some) ==
  /\ updates < MaxUpdates
  /\ updates' = updates + 1
  /\ runner[h] = "on"
  /\ agents' = [agents EXCEPT ![h] = some]
  /\ UNCHANGED <<runner, heartbeatsEnabled, requests>>
  /\ ScheduleNext(h)
  /\ UNCHANGED wakeVars

(* stop(): dispose of the handler, clear the interval timer.               *)
StopRunner(h) ==
  /\ runner[h] = "on"
  /\ runner' = [runner EXCEPT ![h] = "stopped"]
  /\ interval' = [interval EXCEPT ![h] = FALSE]
  /\ lapsed' = [lapsed EXCEPT ![h] = FALSE]
  /\ Dispose(h)
  /\ UNCHANGED <<heartbeatsEnabled, agents, requests, updates>>

(* The interval timer fires.                                               *)
IntervalFires(h) ==
  /\ interval[h]
  /\ interval' = [interval EXCEPT ![h] = FALSE]
  /\ RequestHeartbeatNow(All, Interval, 0)
  /\ UNCHANGED <<heartbeatsEnabled, runner, agents, lapsed, requests, updates>>

(* requestHeartbeatNow from cron, hooks, exec events and the CLI.          *)
Request(t, p, delay) ==
  /\ requests < MaxRequests
  /\ requests' = requests + 1
  /\ RequestHeartbeatNow(t, p, delay)
  /\ UNCHANGED <<heartbeatsEnabled, runner, agents, interval, lapsed, updates>>

(* The set-heartbeats method.                                              *)
SetHeartbeatsEnabled(on) ==
  /\ updates < MaxUpdates
  /\ updates' = updates + 1
  /\ heartbeatsEnabled' = on
  /\ UNCHANGED <<runner, agents, interval, lapsed, requests>>
  /\ UNCHANGED wakeVars

(* The checks at the entry of run().                                       *)
Enters(h) == runner[h] = "on" /\ heartbeatsEnabled /\ agents[h]
TurnedAway(h) == runner[h] = "on" /\ agents[h] /\ ~heartbeatsEnabled

(* The timer of the wake layer.                                            *)
WakeTimerTakesBatch(b, w) ==
  /\ \A c \in Slot : c < b => c \in InFlight
  /\ TimerTakesBatch(b, w, Enters(handler))
  /\ lapsed' = [lapsed EXCEPT ![handler] = @ \/ TurnedAway(handler)]
  /\ UNCHANGED <<heartbeatsEnabled, runner, agents, interval, requests, updates>>
WakeTimerOther ==
  /\ TimerWithoutHandler \/ TimerWhileRunning \/ TimerFindsNothing
  /\ UNCHANGED runnerVars
WakeTimerCountsDown == TimerCountsDown /\ UNCHANGED runnerVars

(* Mutant: the finally block of run() arms nothing.                        *)
RunReturnsNoArm(b, outcome, again) ==
  LET h == batch[b].handler
  IN  /\ batch[b].entered \/ outcome = "done"
      /\ interval' = interval
      /\ lapsed' = [lapsed EXCEPT ![h] = @ \/ (again /\ TurnedAway(h))]

(* Whether run() calls scheduleNext in its finally block: not when it was   *)
(* turned away at its entry, and not when it ran for all agents and found  *)
(* the main lane busy.  An exception comes from inside the try block or    *)
(* from before it.                                                         *)
FinallyArms(b, outcome) ==
  {armed \in BOOLEAN :
     /\ armed => batch[b].entered
     /\ batch[b].entered /\ outcome = "done" => armed
     /\ batch[b].entered /\ outcome = "busy" => (armed <=> batch[b].current.target # All)}

(* run() returns: at its entry, or after the heartbeat of the agents.      *)
(* `again' says that the batch goes on with another call.                  *)
RunReturns(b, outcome, again) ==
  \E armed \in FinallyArms(b, outcome) :
    LET h == batch[b].handler
    IN  /\ batch[b].entered \/ outcome = "done"
        /\ interval' = IF armed /\ runner[h] = "on"
                       THEN [interval EXCEPT ![h] = agents[h]] ELSE interval
        /\ lapsed' = [lapsed EXCEPT ![h] = (@ /\ ~armed) \/ (again /\ TurnedAway(h))]

WakeReturns(b, outcome, w) ==
  /\ b \in InFlight
  /\ HandlerGoesOn(b, outcome, w, Enters(batch[b].handler))
  /\ RunReturns(b, outcome, TRUE)
  /\ UNCHANGED <<heartbeatsEnabled, runner, agents, requests, updates>>
LastWakeReturns(b, outcome) ==
  /\ b \in InFlight
  /\ BatchEnds(b, outcome)
  /\ RunReturns(b, outcome, FALSE)
  /\ UNCHANGED <<heartbeatsEnabled, runner, agents, requests, updates>>

Outcomes == {"done", "busy", "throws"}
BatchStep(b) ==
  \/ \E o \in Outcomes, w \in Wake : WakeReturns(b, o, w)
  \/ \E o \in Outcomes : LastWakeReturns(b, o)
TimerStep ==
  \/ WakeTimerCountsDown
  \/ WakeTimerOther
  \/ \E b \in Slot, w \in Wake : WakeTimerTakesBatch(b, w)

HeartbeatNext ==
  \/ \E h \in Handler : StartHeartbeatRunner(h)
  \/ \E h \in Handler, some \in BOOLEAN : UpdateConfig(h, some)
  \/ \E h \in Handler : StopRunner(h)
  \/ \E h \in Handler : IntervalFires(h)
  \/ \E t \in Target, p \in Requested, d \in Delay : Request(t, p, d)
  \/ \E on \in BOOLEAN : SetHeartbeatsEnabled(on)
  \/ TimerStep
  \/ \E b \in InFlight : BatchStep(b)

HeartbeatSpec == HeartbeatInit /\ [][HeartbeatNext]_heartbeatVars

(* Timers fire, and the handler answers: an agent run has a timeout.       *)
HeartbeatFairSpec ==
  /\ HeartbeatSpec
  /\ WF_heartbeatVars(TimerStep)
  /\ \A b \in Slot : WF_heartbeatVars(BatchStep(b))

-----------------------------------------------------------------------------
(* The registered runner will be woken again as long as it has an agent:   *)
(* its interval timer is armed, or a wake of all agents is pending or in a *)
(* batch; but not after a wake was turned away by the switch.              *)
WakeOfAllComing(h) ==
  \/ interval[h]
  \/ pending[All] # NoWake
  \/ \E b \in InFlight : \E w \in batch[b].todo \cup {batch[b].current} : w.target = All

(* The interval heartbeat does not die out: not by busy answers, for which *)
(* run() relies on the retry of the wake layer, not by exceptions, new     *)
(* configurations, or the batch of an earlier runner.                      *)
IntervalGoesOn ==
  \A h \in Handler :
    /\ handler = h /\ runner[h] = "on" /\ agents[h] /\ heartbeatsEnabled
    /\ ~lapsed[h]
    => WakeOfAllComing(h)

(* docs/cli/system.md on `enable': turn heartbeats back on.                *)
EnableTurnsHeartbeatsOn ==
  \A h \in Handler :
    handler = h /\ runner[h] = "on" /\ agents[h] /\ heartbeatsEnabled => WakeOfAllComing(h)
=============================================================================
