--------------------------- MODULE AgentRunLanes ---------------------------
(***************************************************************************)
(* How agent runs use the command queue.  runEmbeddedPiAgent enqueues a    *)
(* task on the lane of its session whose body enqueues the work on a       *)
(* global lane and awaits it; a manual cron run does so from inside a task *)
(* of the cron lane; and a working run may send a message to another       *)
(* session (sessions_send), which starts a run on the nested lane and      *)
(* waits for it.  Tasks that hold a slot thus wait for tasks that need     *)
(* one, on lanes of one slot each.                                         *)
(*                                                                         *)
(* A task of the queue is <<run, level>>: the cron task, the session task  *)
(* and the work of a run, each the body of the one before.                 *)
(***************************************************************************)
EXTENDS CommandQueue

CONSTANTS
  Run,             \* calls of runEmbeddedPiAgent
  SessionKey,      \* the session of each run
  LaneParam,       \* params.lane of each run, "" when not given
  Manual,          \* runs of jobs started by enqueueRun of the cron service
  SendsTo,         \* sessions_send: the run each sending run starts
  Limits           \* configurations: the concurrency of the configured lanes

ASSUME RunAssumption ==
  /\ IsFiniteSet(Run)
  /\ Manual \subseteq Run
  /\ DOMAIN SendsTo \subseteq Run
  /\ \A r \in DOMAIN SendsTo : SendsTo[r] \in Run \ {r}
  /\ Limits \subseteq [{"cron", "main", "subagent"} -> Nat]

VARIABLE send      \* the sessions_send of each run: "no", "waiting", "done"

-----------------------------------------------------------------------------
\* resolveSessionLane: the key names the lane ("session:" and the key).
ResolveSessionLane(r) == SessionKey[r]

\* Mutant: the inner work of a cron job stays on the cron lane.
ResolveGlobalLaneKeepsCron(lane) == IF lane = "" THEN "main" ELSE lane

\* resolveGlobalLane.
ResolveGlobalLane(lane) ==
  IF lane = "cron" THEN "nested" ELSE IF lane = "" THEN "main" ELSE lane

Level == {"cron", "session", "work"}
RunTask == {t \in Run \X Level : t[2] = "cron" => t[1] \in Manual}
LaneName == {ResolveSessionLane(r) : r \in Run} \cup {"main", "cron", "subagent", "nested"}

TaskLane ==
  [t \in RunTask |->
     CASE t[2] = "cron" -> "cron"
       [] t[2] = "session" -> ResolveSessionLane(t[1])
       [] t[2] = "work" -> ResolveGlobalLane(LaneParam[t[1]])]

\* The lanes and the tasks of the command queue; nobody waits for a drain here.
\* The prefix "session:" keeps the lane of a session apart from the others.
ASSUME LanesAssumption ==
  /\ Lane = LaneName /\ Task = RunTask /\ LaneOf = TaskLane /\ Waiter = {}
  /\ \A r \in Run : ResolveSessionLane(r) \notin {"main", "cron", "subagent", "nested"}

laneVars == <<queueVars, send>>

Outermost(r) == IF r \in Manual THEN <<r, "cron">> ELSE <<r, "session">>
Inner(t) == IF t[2] = "cron" THEN <<t[1], "session">> ELSE <<t[1], "work">>
IsSettled(t) == status[t] \in Settled

LanesInit == Init /\ send = [r \in Run |-> "no"]

Enqueue(t) == EnqueueCommandInLane(t) \/ RefuseEnqueue(t)

\* A message, a job or a client starts the run.
Dispatch(r) ==
  /\ \A s \in DOMAIN SendsTo : SendsTo[s] # r
  /\ Enqueue(Outermost(r))
  /\ UNCHANGED send

\* The body of a cron or session task is called: it enqueues the next level.
StartInner(t) ==
  /\ t[2] # "work"
  /\ status[t] = "running"
  /\ Enqueue(Inner(t))
  /\ UNCHANGED send

\* Mutant: the body does not await what it enqueued.
OuterEndsEarly(t) ==
  /\ t[2] # "work"
  /\ status[Inner(t)] # "idle"
  /\ CompleteTask(t, "resolved")
  /\ UNCHANGED send

\* The awaited inner promise has settled, and the body ends with it.
OuterEnds(t) ==
  /\ t[2] # "work"
  /\ IsSettled(Inner(t))
  /\ CompleteTask(t, IF status[Inner(t)] = "resolved" THEN "resolved" ELSE "rejected")
  /\ UNCHANGED send

\* The agent run ends.  A run that waits for its sessions_send ends only when
\* it is aborted.
WorkEnds(r) ==
  /\ send[r] # "waiting"
  /\ \E outcome \in {"resolved", "rejected"} : CompleteTask(<<r, "work">>, outcome)
  /\ UNCHANGED send

WorkAborted(r) ==
  /\ send[r] = "waiting"
  /\ CompleteTask(<<r, "work">>, "rejected")
  /\ UNCHANGED send

\* sessions_send of a working run: agent, then agent.wait.
SessionsSend(r) ==
  /\ r \in DOMAIN SendsTo
  /\ send[r] = "no"
  /\ status[<<r, "work">>] = "running"
  /\ Enqueue(Outermost(SendsTo[r]))
  /\ send' = [send EXCEPT ![r] = "waiting"]

SendAnswered(r) ==
  /\ send[r] = "waiting"
  /\ IsSettled(Outermost(SendsTo[r]))
  /\ send' = [send EXCEPT ![r] = "done"]
  /\ UNCHANGED queueVars

\* agent.wait gives up after timeoutMs; the run it waited for stays queued.
SendTimesOut(r) ==
  /\ send[r] = "waiting"
  /\ send' = [send EXCEPT ![r] = "done"]
  /\ UNCHANGED queueVars

\* Queue mode "interrupt": what waits on the session's lane is dropped.
InterruptSession(r) ==
  /\ ClearCommandLane(ResolveSessionLane(r))
  /\ UNCHANGED send

\* applyGatewayLaneConcurrency, at start and on a configuration reload.
ApplyGatewayLaneConcurrency(cfg) ==
  /\ maxConcurrent' = [lane \in LaneName |->
       IF lane \notin DOMAIN cfg THEN maxConcurrent[lane]
       ELSE IF cfg[lane] < 1 THEN 1 ELSE cfg[lane]]
  /\ DrainLanes(DOMAIN cfg, queue, active, status)
  /\ UNCHANGED <<generation, gatewayDraining, enqueuedAt, waiter, send>>

\* The restart of the gateway in its process.
Drain == MarkGatewayDraining /\ UNCHANGED send
Reset == ResetAllLanes /\ UNCHANGED send

RunStep(r) ==
  \/ \E level \in {"cron", "session"} :
       /\ <<r, level>> \in RunTask
       /\ StartInner(<<r, level>>) \/ OuterEnds(<<r, level>>)
  \/ WorkEnds(r)

SendEnds(r) == SendAnswered(r) \/ SendTimesOut(r)

LanesNext ==
  \/ \E r \in Run :
       \/ Dispatch(r)
       \/ RunStep(r)
       \/ WorkAborted(r)
       \/ SessionsSend(r)
       \/ SendAnswered(r)
       \/ SendTimesOut(r)
       \/ InterruptSession(r)
  \/ \E cfg \in Limits : ApplyGatewayLaneConcurrency(cfg)
  \/ Drain
  \/ Reset

LanesSpec == LanesInit /\ [][LanesNext]_laneVars

\* Bodies go on, runs end (each has a timeout), and so does every wait.
LanesFairSpec ==
  /\ LanesSpec
  /\ \A r \in Run : WF_laneVars(RunStep(r)) /\ WF_laneVars(SendEnds(r))

-----------------------------------------------------------------------------
\* The shape of the state: that of the queue, and the sends.
LanesTypeOK == TypeOK /\ send \in [Run -> {"no", "waiting", "done"}]

\* Two runs of one session work at the same time only when an in-process restart
\* has written the older one off: resolveSessionLane and a lane of one slot
\* serialise the runs of a session otherwise.
OneRunPerSession ==
  \A r, s \in Run :
    /\ r # s
    /\ SessionKey[r] = SessionKey[s]
    /\ status[<<r, "work">>] = "running"
    /\ status[<<s, "work">>] = "running"
    => genOf[<<r, "session">>] # genOf[<<s, "session">>]

\* Nobody waits for ever: whatever lanes a run's tasks are queued on, and whatever
\* the runs ahead of it wait for, a dispatched run settles (resolveGlobalLane:
\* "inner operations must use nested to avoid deadlock").
EveryRunSettles ==
  \A r \in Run : status[Outermost(r)] # "idle" ~> IsSettled(Outermost(r))
=============================================================================
