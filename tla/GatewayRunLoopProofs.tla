------------------------ MODULE GatewayRunLoopProofs ------------------------
(***************************************************************************)
(* Proofs about GatewayRunLoop: the run loop composed with the command     *)
(* queue, for every set of lanes and tasks, any tasks that hang and any    *)
(* number of restarts.                                                     *)
(*                                                                         *)
(* The queue's own invariants (IndInv and WaiterInv of CommandQueueProofs) *)
(* also hold inside the loop, because each of its steps is a step of the   *)
(* queue, two steps of the queue taken at once, or none.  On top of them:  *)
(* a waiter waits only while the shutdown that registered it is in its     *)
(* drain, and the lanes are reset only when no shutdown is under way, so   *)
(* that no snapshot ever spans a reset.                                    *)
(***************************************************************************)
EXTENDS GatewayRunLoop, CommandQueueProofs

(* Only the drain of the shutdown under way has a waiter that waits.       *)
WaitsInDrain ==
  \A w \in Waiter : waiter[w].state = "waiting" =>
    w = restarts /\ isRestart /\ shutdown = "drain"

(* A loop that is about to reset the lanes has no shutdown under way.      *)
ResolvedIsIdle == loop = "serving" /\ resolver = "resolved" => shutdown = "idle"

(* What a waiter still waits for belongs to the current generation.        *)
SnapshotIsCurrent ==
  \A w \in Waiter : waiter[w].state = "waiting" =>
    \A t \in waiter[w].ids : status[t] \in Settled \/ genOf[t] = generation[LaneOf[t]]

QueuePart == IndInv /\ WaiterInv
DrainPart == WaitsInDrain /\ SnapshotIsCurrent /\ DrainReportsEnd
LoopPart == LoopTypes /\ ResolvedIsIdle
LoopInv == QueuePart /\ DrainPart /\ LoopPart

-----------------------------------------------------------------------------
(* The loop starts in the invariant.                                       *)
LEMMA InitLoopInv == LoopInit => LoopInv
<1> SUFFICES ASSUME LoopInit PROVE LoopInv
  OBVIOUS
<1>1. QueuePart
  BY InitIndInv, InitWaiterInv DEF LoopInit, QueuePart
<1>2. DrainPart
  BY DEF LoopInit, Init, DrainPart, WaitsInDrain, SnapshotIsCurrent, DrainReportsEnd
<1>3. restarts \in 0 .. MaxRestarts
  BY MaxRestartsAssumption DEF LoopInit
<1>4. LoopPart
  BY <1>3 DEF LoopInit, LoopPart, LoopTypes, ResolvedIsIdle
<1> QED BY <1>1, <1>2, <1>4 DEF LoopInv

(* A step of the loop alone leaves the queue as it is, and the drain over  *)
(* once it has left it.                                                    *)
LEMMA LoopStepKeepsDrain ==
  ASSUME LoopInv, UNCHANGED queueVars,
         \/ UNCHANGED <<shutdown, isRestart, restarts>>
         \/ \A w \in Waiter : waiter[w].state # "waiting"
  PROVE  QueuePart' /\ DrainPart'
<1>1. QueuePart'
  <2>1. IndInv'
    BY NextKeepsInv DEF LoopInv, QueuePart
  <2> QED BY <2>1, NextKeepsWaiterInv DEF LoopInv, QueuePart
<1>2. DrainPart'
  BY DEF LoopInv, DrainPart, WaitsInDrain, SnapshotIsCurrent, DrainReportsEnd, queueVars
<1> QED BY <1>1, <1>2

(* Once the drain is over, or while there is none, nobody waits.           *)
LEMMA NobodyWaits ==
  ASSUME LoopInv, shutdown # "drain" \/ Drained
  PROVE  \A w \in Waiter : waiter[w].state # "waiting"
  BY DEF LoopInv, DrainPart, WaitsInDrain, Drained

(* The steps that leave the queue alone.                                   *)
LEMMA LoopStepsKeepInv ==
  ASSUME LoopInv,
         \/ StartSucceeds \/ FirstStartFails \/ RestartFails \/ FailedStartReleased
         \/ RequestStop \/ (\E r \in {"drained", "timeout"} : RunsDrainEnds(r))
         \/ BeginClose \/ CloseDone \/ ForceExit \/ ReleaseAndExit \/ ReleaseAndReacquire
         \/ ReacquireLock \/ ReacquireFails \/ RestartWithoutLock
  PROVE  LoopInv'
<1>0. LoopPart
  BY DEF LoopInv
<1>1. CASE StartSucceeds
  <2>1. LoopPart'
    BY <1>0, <1>1 DEF StartSucceeds, LoopPart, LoopTypes, ResolvedIsIdle
  <2> QED BY <1>1, <2>1, LoopStepKeepsDrain DEF StartSucceeds, LoopInv
<1>2. CASE FirstStartFails
  <2>1. LoopPart'
    BY <1>0, <1>2 DEF FirstStartFails, LoopPart, LoopTypes, ResolvedIsIdle
  <2> QED BY <1>2, <2>1, LoopStepKeepsDrain DEF FirstStartFails, LoopInv
<1>3. CASE RestartFails
  <2>1. LoopPart'
    BY <1>0, <1>3 DEF RestartFails, LoopPart, LoopTypes, ResolvedIsIdle
  <2> QED BY <1>3, <2>1, LoopStepKeepsDrain DEF RestartFails, LoopInv
<1>4. CASE FailedStartReleased
  <2>1. LoopPart'
    BY <1>0, <1>4 DEF FailedStartReleased, LoopPart, LoopTypes, ResolvedIsIdle
  <2> QED BY <1>4, <2>1, LoopStepKeepsDrain DEF FailedStartReleased, LoopInv
<1>5. CASE RequestStop
  <2>1. LoopPart' /\ shutdown = "idle"
    BY <1>0, <1>5 DEF RequestStop, MaySignal, Running, LoopPart, LoopTypes, ResolvedIsIdle
  <2> QED BY <1>5, <2>1, NobodyWaits, LoopStepKeepsDrain DEF RequestStop, LoopInv
<1>6. ASSUME NEW r \in {"drained", "timeout"}, RunsDrainEnds(r) PROVE LoopInv'
  <2>1. LoopPart'
    BY <1>0, <1>6 DEF RunsDrainEnds, LoopPart, LoopTypes, ResolvedIsIdle
  <2> QED BY <1>6, <2>1, LoopStepKeepsDrain DEF RunsDrainEnds, LoopInv
<1>7. CASE BeginClose
  <2>1. LoopPart'
    BY <1>0, <1>7 DEF BeginClose, LoopPart, LoopTypes, ResolvedIsIdle
  <2> QED BY <1>7, <2>1, NobodyWaits, LoopStepKeepsDrain DEF BeginClose, LoopInv
<1>8. CASE CloseDone
  <2>1. LoopPart'
    BY <1>0, <1>8 DEF CloseDone, LoopPart, LoopTypes, ResolvedIsIdle
  <2> QED BY <1>8, <2>1, NobodyWaits, LoopStepKeepsDrain DEF CloseDone, LoopInv
<1>9. CASE ForceExit
  <2>1. LoopPart'
    BY <1>0, <1>9 DEF ForceExit, LoopPart, LoopTypes, ResolvedIsIdle
  <2> QED BY <1>9, <2>1, LoopStepKeepsDrain DEF ForceExit, LoopInv
<1>10. CASE ReleaseAndExit
  <2>1. LoopPart'
    BY <1>0, <1>10 DEF ReleaseAndExit, ReleaseLock, LoopPart, LoopTypes, ResolvedIsIdle
  <2> QED BY <1>10, <2>1, LoopStepKeepsDrain DEF ReleaseAndExit, LoopInv
<1>11. CASE ReleaseAndReacquire
  <2>1. LoopPart'
    BY <1>0, <1>11 DEF ReleaseAndReacquire, ReleaseLock, LoopPart, LoopTypes, ResolvedIsIdle
  <2> QED BY <1>11, <2>1, NobodyWaits, LoopStepKeepsDrain DEF ReleaseAndReacquire, LoopInv
<1>12. CASE ReacquireLock
  <2>1. LoopPart'
    BY <1>0, <1>12 DEF ReacquireLock, FinishRestart, LoopPart, LoopTypes, ResolvedIsIdle
  <2> QED BY <1>12, <2>1, NobodyWaits, LoopStepKeepsDrain
          DEF ReacquireLock, FinishRestart, LoopInv
<1>13. CASE ReacquireFails
  <2>1. LoopPart'
    BY <1>0, <1>13 DEF ReacquireFails, LoopPart, LoopTypes, ResolvedIsIdle
  <2> QED BY <1>13, <2>1, LoopStepKeepsDrain DEF ReacquireFails, LoopInv
<1>14. CASE RestartWithoutLock
  <2>1. LoopPart'
    BY <1>0, <1>14 DEF RestartWithoutLock, FinishRestart, LoopPart, LoopTypes, ResolvedIsIdle
  <2> QED BY <1>14, <2>1, NobodyWaits, LoopStepKeepsDrain
          DEF RestartWithoutLock, FinishRestart, LoopInv
<1> QED BY <1>1, <1>2, <1>3, <1>4, <1>5, <1>6, <1>7, <1>8, <1>9, <1>10, <1>11,
           <1>12, <1>13, <1>14

-----------------------------------------------------------------------------
(* What one step of the queue does to the tasks of a snapshot: it settles  *)
(* them or leaves them alone, and only a reset changes generations.        *)
TasksGoOn ==
  \A t \in Task : status[t] \in {"running", "resolved", "rejected"} =>
    /\ genOf'[t] = genOf[t]
    /\ status[t] \in Settled => status'[t] = status[t]
    /\ status'[t] = status[t] \/ status'[t] \in Settled

(* A step that ends in drainLane only starts tasks that were queued.       *)
LEMMA DrainGoesOn ==
  ASSUME NEW act, NEW st, DrainPost(act, st),
         \A t \in Task : status[t] \in {"running", "resolved", "rejected"} =>
           /\ st[t] # "queued"
           /\ status[t] \in Settled => st[t] = status[t]
           /\ st[t] = status[t] \/ st[t] \in Settled
  PROVE  TasksGoOn
  BY DEF DrainPost, TasksGoOn

(* So do the queue's steps inside the loop.                                *)
LEMMA QueueStepGoesOn ==
  ASSUME IndInv, QueueStep
  PROVE  TasksGoOn /\ generation' = generation
<1>0. status \in [Task -> Status]
  BY DEF IndInv, TypeOK
<1>1. ASSUME NEW t \in Task, RefuseEnqueue(t) PROVE TasksGoOn /\ generation' = generation
  BY <1>0, <1>1 DEF RefuseEnqueue, TasksGoOn
<1>2. ASSUME NEW t \in Task, EnqueueCommandInLane(t)
      PROVE  TasksGoOn /\ generation' = generation
  <2> DEFINE st == [status EXCEPT ![t] = "queued"]
  <2>1. DrainPost(active, st) /\ status[t] = "idle" /\ generation' = generation
    BY <1>2, EnqueueKeepsInv DEF EnqueueCommandInLane
  <2>2. \A u \in Task : status[u] \in {"running", "resolved", "rejected"} =>
          st[u] = status[u] /\ st[u] # "queued"
    BY <1>0, <2>1
  <2> HIDE DEF st
  <2> QED BY <2>1, <2>2, DrainGoesOn
<1>3. ASSUME NEW t \in Task, NEW o \in {"resolved", "rejected"}, CompleteCurrent(t, o)
      PROVE  TasksGoOn /\ generation' = generation
  <2> DEFINE st == [status EXCEPT ![t] = o]
             freed == [active EXCEPT ![LaneOf[t]] = @ \ {t}]
  <2>1. DrainPost(freed, st) /\ status[t] = "running" /\ generation' = generation
    BY <1>3, CompleteCurrentKeepsInv DEF CompleteCurrent
  <2>2. \A u \in Task : status[u] \in {"running", "resolved", "rejected"} =>
          /\ st[u] # "queued"
          /\ status[u] \in Settled => st[u] = status[u]
          /\ st[u] = status[u] \/ st[u] \in Settled
    BY <1>0, <2>1 DEF Settled
  <2> HIDE DEF st, freed
  <2> QED BY <2>1, <2>2, DrainGoesOn
<1>4. ASSUME NEW t \in Task, NEW o \in {"resolved", "rejected"}, CompleteStale(t, o)
      PROVE  TasksGoOn /\ generation' = generation
  BY <1>0, <1>4 DEF CompleteStale, TasksGoOn, Settled
<1>5. ASSUME NEW w \in Waiter, WaiterTimeout(w) PROVE TasksGoOn /\ generation' = generation
  BY <1>0, <1>5 DEF WaiterTimeout, TasksGoOn
<1> QED BY <1>1, <1>2, <1>3, <1>4, <1>5 DEF QueueStep, CompleteTask

(* Waiters inside a queue step: one may end, none begins.                  *)
LEMMA QueueStepWaiters ==
  ASSUME IndInv, QueueStep
  PROVE  \A w \in Waiter :
           /\ waiter'[w].ids = waiter[w].ids
           /\ \/ waiter'[w] = waiter[w]
              \/ waiter[w].state = "waiting" /\ waiter'[w].state \in {"drained", "timeout"}
<1> SUFFICES ASSUME NEW w \in Waiter
             PROVE  /\ waiter'[w].ids = waiter[w].ids
                    /\ \/ waiter'[w] = waiter[w]
                       \/ /\ waiter[w].state = "waiting"
                          /\ waiter'[w].state \in {"drained", "timeout"}
  OBVIOUS
<1>1. waiter \in [Waiter -> [state : WaiterState, ids : SUBSET Task]]
  BY DEF IndInv, TypeOK
<1>2. ASSUME NEW act, waiter' = Notified(act)
      PROVE  /\ waiter'[w].ids = waiter[w].ids
             /\ \/ waiter'[w] = waiter[w]
                \/ waiter[w].state = "waiting" /\ waiter'[w].state = "drained"
  BY <1>1, <1>2 DEF Notified
<1>3. ASSUME NEW v \in Waiter, WaiterTimeout(v)
      PROVE  /\ waiter'[w].ids = waiter[w].ids
             /\ \/ waiter'[w] = waiter[w]
                \/ waiter[w].state = "waiting" /\ waiter'[w].state = "timeout"
  BY <1>1, <1>3 DEF WaiterTimeout
<1>4. \/ waiter' = waiter
      \/ \E act : waiter' = Notified(act)
      \/ \E v \in Waiter : WaiterTimeout(v)
  BY DEF QueueStep, RefuseEnqueue, EnqueueCommandInLane, CompleteTask, CompleteCurrent,
         CompleteStale
<1> QED BY <1>2, <1>3, <1>4

(* Tasks and their callers keep the invariant: a snapshot that drains has  *)
(* no task of an older generation, so DrainedIsTrue says that all ended.   *)
LEMMA QueueStepKeepsInv == ASSUME LoopInv, QueueStep PROVE LoopInv'
<1>0. IndInv /\ WaiterInv /\ DrainPart /\ LoopPart
  BY DEF LoopInv, QueuePart
<1>1. [Next]_queueVars /\ UNCHANGED loopVars
  BY DEF QueueStep, Next, CompleteTask
<1>2. QueuePart'
  <2>1. IndInv'
    BY <1>0, <1>1, NextKeepsInv
  <2> QED BY <1>0, <1>1, <2>1, NextKeepsWaiterInv DEF QueuePart
<1>3. TasksGoOn /\ generation' = generation
  BY <1>0, QueueStepGoesOn
<1>4. \A w \in Waiter :
        /\ waiter'[w].ids = waiter[w].ids
        /\ \/ waiter'[w] = waiter[w]
           \/ waiter[w].state = "waiting" /\ waiter'[w].state \in {"drained", "timeout"}
  BY <1>0, QueueStepWaiters
<1>5. WaitsInDrain'
  BY <1>0, <1>1, <1>4 DEF DrainPart, WaitsInDrain, loopVars
<1>6. \A w \in Waiter : waiter[w].state \in {"waiting", "drained"} =>
        \A t \in waiter[w].ids :
          /\ t \in Task
          /\ status[t] \in {"running", "resolved", "rejected"}
          /\ status[t] \in Settled \/ genOf[t] = generation[LaneOf[t]]
  <2>1. \A w \in Waiter : waiter[w].ids \subseteq Task
    BY <1>0 DEF IndInv, TypeOK
  <2> QED BY <1>0, <2>1 DEF WaiterInv, SnapshotInv, DrainPart, SnapshotIsCurrent,
                            DrainReportsEnd
<1>7. \A w \in Waiter : waiter[w].state \in {"waiting", "drained"} =>
        \A t \in waiter[w].ids :
          status'[t] \in Settled \/ genOf'[t] = generation'[LaneOf[t]]
  BY <1>3, <1>6 DEF TasksGoOn
<1>8. SnapshotIsCurrent'
  BY <1>4, <1>7 DEF SnapshotIsCurrent
<1>9. DrainReportsEnd'
  <2> SUFFICES ASSUME NEW w \in Waiter, waiter'[w].state = "drained",
                      NEW t \in waiter'[w].ids
               PROVE  status'[t] \in Settled
    BY DEF DrainReportsEnd
  <2>1. t \in waiter[w].ids /\ waiter[w].state \in {"waiting", "drained"}
    BY <1>4
  <2>2. status'[t] \in Settled \/ genOf'[t] # generation'[LaneOf[t]]
    BY <1>2 DEF QueuePart, WaiterInv, DrainedIsTrue
  <2> QED BY <1>7, <2>1, <2>2
<1>10. LoopPart'
  BY <1>0, <1>1 DEF LoopPart, LoopTypes, ResolvedIsIdle, loopVars
<1> QED BY <1>2, <1>5, <1>8, <1>9, <1>10 DEF LoopInv, DrainPart

-----------------------------------------------------------------------------
(* The waiter a restart request registers.                                 *)
LEMMA RegisteredWaiter ==
  ASSUME LoopInv, NEW b \in BOOLEAN, RequestRestart(b)
  PROVE  /\ restarts + 1 \in Waiter
         /\ waiter' \in [Waiter -> [state : WaiterState, ids : SUBSET Task]]
         /\ \A w \in Waiter : w # restarts + 1 => waiter'[w] = waiter[w]
         /\ waiter'[restarts + 1].ids = ActiveAtStart
         /\ waiter'[restarts + 1].state = IF ActiveAtStart = {} THEN "drained" ELSE "waiting"
<1>1. restarts + 1 \in Waiter
  BY WaiterAssumption, MaxRestartsAssumption
  DEF LoopInv, LoopPart, LoopTypes, RequestRestart
<1>2. /\ waiter \in [Waiter -> [state : WaiterState, ids : SUBSET Task]]
      /\ ActiveAtStart \subseteq Task
  BY DEF LoopInv, QueuePart, IndInv, TypeOK, ActiveAtStart
<1>3. waiter' = [waiter EXCEPT ![restarts + 1] =
                   [state |-> WaiterResult(TRUE), ids |-> ActiveAtStart]]
  BY DEF RequestRestart
<1>4. WaiterResult(TRUE) = IF ActiveAtStart = {} THEN "drained" ELSE "waiting"
  BY DEF WaiterResult
<1>5. [state |-> WaiterResult(TRUE), ids |-> ActiveAtStart]
        \in [state : WaiterState, ids : SUBSET Task]
  BY <1>2, <1>4 DEF WaiterState
<1>6. waiter' \in [Waiter -> [state : WaiterState, ids : SUBSET Task]]
  BY <1>2, <1>3, <1>5
<1> QED BY <1>1, <1>2, <1>3, <1>4, <1>6

(* A restart request: the snapshot is what runs now, all of it of the      *)
(* current generation, and nobody else waits.                              *)
LEMMA RequestRestartKeepsInv ==
  ASSUME LoopInv, NEW b \in BOOLEAN, RequestRestart(b)
  PROVE  LoopInv'
<1> DEFINE r == restarts + 1
<1>0. IndInv /\ WaiterInv /\ DrainPart /\ LoopPart
  BY DEF LoopInv, QueuePart
<1>1. /\ UNCHANGED <<queue, active, maxConcurrent, generation, status, genOf, enqueuedAt,
                     starts, loop, isFirstStart, server, lock, lockFile, hadLock,
                     loopHadLock, lockLost, resolver>>
      /\ gatewayDraining' = TRUE /\ restarts' = r
      /\ shuttingDown' = TRUE /\ isRestart' = TRUE /\ shutdown' = "drain"
      /\ ~shuttingDown /\ restarts < MaxRestarts
      /\ runsDrain' \in {"waiting", "drained", "timeout"}
      /\ loop = "serving" => resolver = "pending"
  BY DEF RequestRestart, MaySignal
<1>2. /\ waiter' \in [Waiter -> [state : WaiterState, ids : SUBSET Task]]
      /\ \A w \in Waiter : w # r => waiter'[w] = waiter[w]
      /\ waiter'[r].ids = ActiveAtStart
      /\ waiter'[r].state = IF ActiveAtStart = {} THEN "drained" ELSE "waiting"
  BY RegisteredWaiter
<1>3. IndInv'
  <2>1. gatewayDraining' \in BOOLEAN
    BY <1>1
  <2> QED BY <1>0, <1>1, <1>2, <2>1, WaiterStepKeepsInv
<1>4. \A w \in Waiter : waiter[w].state # "waiting"
  <2>1. shutdown = "idle"
    BY <1>0, <1>1 DEF LoopPart, LoopTypes
  <2> QED BY <2>1, NobodyWaits
<1>5. \A t \in ActiveAtStart :
        \E l \in Lane : /\ t \in active[l] /\ t \in Task /\ LaneOf[t] = l
                        /\ status[t] = "running" /\ genOf[t] = generation[l]
  BY <1>0 DEF ActiveAtStart, IndInv, ActiveInv
<1>6. WaiterInv'
  <2>1. SnapshotInv'
    BY <1>0, <1>1, <1>2, <1>5 DEF WaiterInv, SnapshotInv
  <2>2. NoMissedNotification'
    <3> SUFFICES ASSUME NEW w \in Waiter, waiter'[w].state = "waiting"
                 PROVE  \E l \in Lane : active'[l] \cap waiter'[w].ids # {}
      BY DEF NoMissedNotification, HasPendingActiveTasks
    <3>1. w = r /\ ActiveAtStart # {}
      BY <1>2, <1>4
    <3>2. PICK t \in ActiveAtStart : TRUE
      BY <3>1
    <3>3. PICK l \in Lane : t \in active[l]
      BY <1>5, <3>2
    <3> QED BY <1>1, <1>2, <3>1, <3>2, <3>3
  <2>3. DrainedIsTrue'
    <3> SUFFICES ASSUME NEW w \in Waiter, waiter'[w].state = "drained",
                        NEW t \in waiter'[w].ids
                 PROVE  status'[t] \in Settled \/ genOf'[t] # generation'[LaneOf[t]]
      BY DEF DrainedIsTrue
    <3>1. CASE w = r
      BY <1>2, <3>1
    <3>2. CASE w # r
      BY <1>0, <1>1, <1>2, <3>2 DEF WaiterInv, DrainedIsTrue
    <3> QED BY <3>1, <3>2
  <2> QED BY <2>1, <2>2, <2>3 DEF WaiterInv
<1>7. WaitsInDrain'
  BY <1>1, <1>2, <1>4 DEF WaitsInDrain
<1>8. SnapshotIsCurrent'
  <2> SUFFICES ASSUME NEW w \in Waiter, waiter'[w].state = "waiting", NEW t \in waiter'[w].ids
               PROVE  genOf'[t] = generation'[LaneOf[t]]
    BY DEF SnapshotIsCurrent
  <2>1. t \in ActiveAtStart
    BY <1>2, <1>4
  <2> QED BY <1>1, <1>5, <2>1
<1>9. DrainReportsEnd'
  <2> SUFFICES ASSUME NEW w \in Waiter, waiter'[w].state = "drained", NEW t \in waiter'[w].ids
               PROVE  status'[t] \in Settled
    BY DEF DrainReportsEnd
  <2>1. CASE w = r
    BY <1>2, <2>1
  <2>2. CASE w # r
    BY <1>0, <1>1, <1>2, <2>2 DEF DrainPart, DrainReportsEnd
  <2> QED BY <2>1, <2>2
<1>10. LoopPart'
  <2>1. restarts' \in 0 .. MaxRestarts
    BY <1>0, <1>1, MaxRestartsAssumption DEF LoopPart, LoopTypes
  <2> QED BY <1>0, <1>1, <2>1 DEF LoopPart, LoopTypes, ResolvedIsIdle
<1> QED BY <1>3, <1>6, <1>7, <1>8, <1>9, <1>10 DEF LoopInv, QueuePart, DrainPart

(* Going round the loop: nobody waits, so nothing a waiter was told is     *)
(* touched by the reset.                                                   *)
LEMMA NextIterationKeepsInv == ASSUME LoopInv, NextIteration PROVE LoopInv'
<1>0. IndInv /\ WaiterInv /\ DrainPart /\ LoopPart
  BY DEF LoopInv, QueuePart
<1>1. /\ loop = "serving" /\ resolver = "resolved" /\ loop' = "starting" /\ ResetAllLanes
      /\ UNCHANGED <<isFirstStart, server, lock, lockFile, shuttingDown, shutdown,
                     isRestart, hadLock, loopHadLock, lockLost, resolver, restarts,
                     runsDrain>>
  BY DEF NextIteration
<1>2. QueuePart'
  <2>1. IndInv'
    BY <1>0, <1>1, ResetKeepsInv
  <2>2. [Next]_queueVars
    BY <1>1 DEF Next
  <2> QED BY <1>0, <2>1, <2>2, NextKeepsWaiterInv DEF QueuePart
<1>3. \A w \in Waiter : waiter[w].state # "waiting"
  <2>1. shutdown = "idle"
    BY <1>0, <1>1 DEF LoopPart, ResolvedIsIdle
  <2> QED BY <2>1, NobodyWaits
<1>4. \A w \in Waiter : waiter'[w] = waiter[w]
  BY <1>1, <1>3 DEF ResetAllLanes, Notified
<1>5. TasksGoOn
  <2>1. DrainPost([l \in Lane |-> {}], status)
    BY <1>0, <1>1, ResetKeepsInv
  <2> QED BY <2>1, DrainGoesOn
<1>6. DrainReportsEnd'
  <2> SUFFICES ASSUME NEW w \in Waiter, waiter'[w].state = "drained", NEW t \in waiter'[w].ids
               PROVE  status'[t] \in Settled
    BY DEF DrainReportsEnd
  <2>1. t \in Task /\ status[t] \in {"running", "resolved", "rejected"} /\ status[t] \in Settled
    <3>1. waiter[w].ids \subseteq Task
      BY <1>0 DEF IndInv, TypeOK
    <3> QED BY <1>0, <1>4, <3>1 DEF WaiterInv, SnapshotInv, DrainPart, DrainReportsEnd
  <2> QED BY <1>5, <2>1 DEF TasksGoOn
<1>7. WaitsInDrain' /\ SnapshotIsCurrent'
  BY <1>3, <1>4 DEF WaitsInDrain, SnapshotIsCurrent
<1>8. LoopPart'
  BY <1>0, <1>1 DEF LoopPart, LoopTypes, ResolvedIsIdle
<1> QED BY <1>2, <1>6, <1>7, <1>8 DEF LoopInv, DrainPart

(* Every step of the loop keeps the invariant.                             *)
LEMMA LoopNextKeepsInv == LoopInv /\ [LoopNext]_vars => LoopInv'
<1> SUFFICES ASSUME LoopInv, [LoopNext]_vars PROVE LoopInv'
  OBVIOUS
<1>1. CASE UNCHANGED vars
  <2>1. LoopPart'
    BY <1>1 DEF LoopInv, LoopPart, LoopTypes, ResolvedIsIdle, vars, loopVars
  <2>2. UNCHANGED queueVars /\ UNCHANGED <<shutdown, isRestart, restarts>>
    BY <1>1 DEF vars, loopVars
  <2> QED BY <2>1, <2>2, LoopStepKeepsDrain DEF LoopInv
<1>2. CASE NextIteration
  BY <1>2, NextIterationKeepsInv
<1>3. ASSUME NEW b \in BOOLEAN, RequestRestart(b) PROVE LoopInv'
  BY <1>3, RequestRestartKeepsInv
<1>4. CASE QueueStep
  BY <1>4, QueueStepKeepsInv
<1> QED BY <1>1, <1>2, <1>3, <1>4, LoopStepsKeepInv DEF LoopNext

(* The invariant of the loop holds of every behaviour.                     *)
LEMMA LoopInvariant == LoopSpec => []LoopInv
  BY InitLoopInv, LoopNextKeepsInv, PTL DEF LoopSpec

-----------------------------------------------------------------------------
(* Every reachable state of the run loop and its queue is well typed, and  *)
(* shuttingDown mirrors the shutdown, signals during a start included.     *)
THEOREM LoopTypeCorrect == LoopSpec => []LoopTypeOK
<1>1. LoopInv => LoopTypeOK
  BY DEF LoopInv, QueuePart, IndInv, LoopPart, LoopTypeOK
<1> QED BY <1>1, LoopInvariant, PTL

(* "all active work drained" (run-loop.ts) is true: every task that was    *)
(* active when the restart was requested has ended, however many restarts  *)
(* came before and whatever tasks hang.                                    *)
THEOREM DrainReportsAreTrue == LoopSpec => []DrainReportsEnd
<1>1. LoopInv => DrainReportsEnd
  BY DEF LoopInv, DrainPart
<1> QED BY <1>1, LoopInvariant, PTL

-----------------------------------------------------------------------------
(* The server and its lock, as long as no signal arrives while a start is  *)
(* pending: a shutdown then has the server to itself.                      *)
LockInv ==
  /\ shutdown # "idle" => loop \in {"serving", "exited"}
  /\ shutdown \in {"release", "reacquire"} => ~server
  /\ loop = "serving" /\ resolver = "resolved" => ~server
  /\ Running /\ shutdown # "reacquire" => lockFile \/ lockLost

(* Every step keeps what is known about the server and the lock.           *)
LEMMA NextKeepsLockInv ==
  ASSUME ~SignalInStartup, LoopInv, LockInv, [LoopNext]_vars
  PROVE  LockInv'
<1> USE DEF LockInv, Running
<1>0. LoopTypes /\ ResolvedIsIdle
  BY DEF LoopInv, LoopPart
<1>1. CASE StartSucceeds
  BY <1>0, <1>1 DEF StartSucceeds, LoopTypes
<1>2. CASE FirstStartFails
  BY <1>0, <1>2 DEF FirstStartFails, LoopTypes
<1>3. CASE RestartFails
  BY <1>0, <1>3 DEF RestartFails, LoopTypes
<1>4. CASE FailedStartReleased
  BY <1>0, <1>4 DEF FailedStartReleased, LoopTypes
<1>5. CASE NextIteration
  BY <1>0, <1>5 DEF NextIteration, LoopTypes, ResolvedIsIdle
<1>6. ASSUME NEW b \in BOOLEAN, RequestRestart(b) PROVE LockInv'
  BY <1>0, <1>6 DEF RequestRestart, MaySignal, LoopTypes
<1>7. CASE RequestStop
  BY <1>0, <1>7 DEF RequestStop, MaySignal, LoopTypes
<1>8. ASSUME NEW r \in {"drained", "timeout"}, RunsDrainEnds(r) PROVE LockInv'
  BY <1>0, <1>8 DEF RunsDrainEnds, LoopTypes
<1>9. CASE BeginClose
  BY <1>0, <1>9 DEF BeginClose, LoopTypes
<1>10. CASE CloseDone
  BY <1>0, <1>10 DEF CloseDone, LoopTypes, ResolvedIsIdle
<1>11. CASE ForceExit
  BY <1>0, <1>11 DEF ForceExit, LoopTypes
<1>12. CASE ReleaseAndExit
  BY <1>0, <1>12 DEF ReleaseAndExit, ReleaseLock, LoopTypes
<1>13. CASE ReleaseAndReacquire
  BY <1>0, <1>13 DEF ReleaseAndReacquire, ReleaseLock, LoopTypes
<1>14. CASE ReacquireLock
  BY <1>0, <1>14 DEF ReacquireLock, FinishRestart, LoopTypes
<1>15. CASE ReacquireFails
  BY <1>0, <1>15 DEF ReacquireFails, LoopTypes
<1>16. CASE RestartWithoutLock
  BY <1>0, <1>16 DEF RestartWithoutLock, FinishRestart, LoopTypes
<1>17. CASE QueueStep
  BY <1>0, <1>17 DEF QueueStep, loopVars
<1>18. CASE UNCHANGED vars
  BY <1>0, <1>18 DEF vars, loopVars
<1> QED BY <1>1, <1>2, <1>3, <1>4, <1>5, <1>6, <1>7, <1>8, <1>9, <1>10, <1>11, <1>12,
           <1>13, <1>14, <1>15, <1>16, <1>17, <1>18 DEF LoopNext

(* What is known about the server and the lock holds of every behaviour.   *)
LEMMA LockInvariant == ASSUME ~SignalInStartup PROVE LoopSpec => []LockInv
<1>1. LoopInit => LockInv
  BY DEF LoopInit, LockInv
<1>2. LoopInv /\ LockInv /\ [LoopNext]_vars => LockInv'
  BY NextKeepsLockInv
<1> QED BY <1>1, <1>2, LoopInvariant, PTL DEF LoopSpec

(* A gateway that listens owns the lock file, after any number of          *)
(* in-process restarts, unless a failed start has given it away.           *)
THEOREM LockSurvivesRestarts ==
  ASSUME ~SignalInStartup
  PROVE  LoopSpec => []LockKeptAcrossRestarts
<1>1. LockInv => LockKeptAcrossRestarts
  BY DEF LockInv, LockKeptAcrossRestarts, Running
<1> QED BY <1>1, LockInvariant, PTL

(* resetAllLanes runs only between two servers and after the drain.        *)
THEOREM LanesAreResetBetweenServers ==
  ASSUME ~SignalInStartup
  PROVE  LoopSpec => ResetBetweenServers
<1> DEFINE Reset == generation' # generation =>
                      ~server /\ \A w \in Waiter : waiter[w].state # "waiting"
<1>1. LoopInv /\ LockInv /\ [LoopNext]_vars => [Reset]_vars
  <2> SUFFICES ASSUME LoopInv, LockInv, LoopNext PROVE Reset
    OBVIOUS
  <2>1. CASE NextIteration
    <3>1. shutdown = "idle" /\ ~server
      BY <2>1 DEF NextIteration, LoopInv, LoopPart, ResolvedIsIdle, LockInv
    <3> QED BY <3>1, NobodyWaits
  <2>2. CASE QueueStep
    <3>1. generation' = generation
      BY <2>2, QueueStepGoesOn DEF LoopInv, QueuePart
    <3> QED BY <3>1
  <2>3. ASSUME UNCHANGED queueVars \/ UNCHANGED generation PROVE Reset
    BY <2>3 DEF queueVars
  <2> HIDE DEF Reset
  <2> QED BY <2>1, <2>2, <2>3
          DEF LoopNext, StartSucceeds, FirstStartFails, RestartFails, FailedStartReleased,
              RequestRestart, RequestStop, RunsDrainEnds, BeginClose, CloseDone, ForceExit,
              ReleaseAndExit, ReleaseAndReacquire, ReacquireLock, ReacquireFails,
              RestartWithoutLock, FinishRestart
<1> QED BY <1>1, LoopInvariant, LockInvariant, PTL DEF LoopSpec, ResetBetweenServers
=============================================================================
