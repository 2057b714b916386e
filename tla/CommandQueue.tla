---------------------------- MODULE CommandQueue ----------------------------
(***************************************************************************)
(* The in-process command queue of the gateway (src/process/command-queue) *)
(* Work is enqueued on named lanes; every lane starts its entries in       *)
(* arrival order, at most maxConcurrent of them at a time.  An in-process  *)
(* restart bumps the generation of every lane, so that tasks of the old    *)
(* lifecycle that are still running no longer occupy a slot.               *)
(*                                                                         *)
(* JavaScript runs every handler to completion, so one handler is one      *)
(* action.  The loop of pump() is taken in one step: a task body that      *)
(* enqueues synchronously from inside the loop pushes behind the entries   *)
(* the loop has not shifted yet, which is the order of a later enqueue.    *)
(* The numeric ids of nextTaskId are identified with the entries: an entry *)
(* gets one id per start, and `starts' counts the starts.                  *)
(***************************************************************************)
EXTENDS Naturals, Sequences, FiniteSets

CONSTANTS
  Lane,            \* lane names, already trimmed
  Task,            \* one per call of enqueueCommandInLane
  LaneOf,          \* the lane that call names
  Waiter,          \* one per call of waitForActiveTasks
  Concurrency,     \* the raw arguments of setCommandLaneConcurrency
  MaxGeneration    \* bound: in-process restarts explored

ASSUME TaskAssumption == IsFiniteSet(Task)
ASSUME LaneOfAssumption == LaneOf \in [Task -> Lane]
ASSUME ConcurrencyAssumption == Concurrency \subseteq Nat
ASSUME MaxGenerationAssumption == MaxGeneration \in Nat

VARIABLES
  queue,           \* LaneState.queue
  active,          \* LaneState.activeTaskIds
  maxConcurrent,   \* LaneState.maxConcurrent
  generation,      \* LaneState.generation
  gatewayDraining, \* refuse new enqueues
  status,          \* where an entry is, and how its promise settled
  genOf,           \* taskGeneration, captured when the task starts
  enqueuedAt,      \* the entry's place in the arrival order of its lane
  starts,          \* how often the task was started
  waiter           \* ActiveTaskWaiter: the snapshot and the result

queueVars == <<queue, active, maxConcurrent, generation, gatewayDraining,
               status, genOf, enqueuedAt, starts, waiter>>

Status == {"idle", "queued", "running",
           "resolved", "rejected", "cleared", "refused"}
Settled == {"resolved", "rejected", "cleared", "refused"}
WaiterState == {"idle", "waiting", "drained", "timeout"}

TypeOK ==
  /\ queue \in [Lane -> Seq(Task)]
  /\ active \in [Lane -> SUBSET Task]
  /\ maxConcurrent \in [Lane -> Nat \ {0}]
  /\ generation \in [Lane -> Nat]
  /\ gatewayDraining \in BOOLEAN
  /\ status \in [Task -> Status]
  /\ genOf \in [Task -> Nat]
  /\ enqueuedAt \in [Task -> Nat]
  /\ starts \in [Task -> Nat]
  /\ waiter \in [Waiter -> [state : WaiterState, ids : SUBSET Task]]

Init ==
  /\ queue = [l \in Lane |-> <<>>]
  /\ active = [l \in Lane |-> {}]
  /\ maxConcurrent = [l \in Lane |-> 1]
  /\ generation = [l \in Lane |-> 0]
  /\ gatewayDraining = FALSE
  /\ status = [t \in Task |-> "idle"]
  /\ genOf = [t \in Task |-> 0]
  /\ enqueuedAt = [t \in Task |-> 0]
  /\ starts = [t \in Task |-> 0]
  /\ waiter = [w \in Waiter |-> [state |-> "idle", ids |-> {}]]

-----------------------------------------------------------------------------
(* How many entries the loop of pump() shifts off a lane.                  *)
PumpCount(q, running, cap) ==
  LET room == IF cap > Cardinality(running) THEN cap - Cardinality(running) ELSE 0
  IN  IF Len(q) < room THEN Len(q) ELSE room

(* drainLane for the lanes in L, from the queues q, the active sets act and *)
(* the entry states st that the caller leaves behind: shift while there is  *)
(* room, record the generation, mark active, call the task.                 *)
DrainLanes(L, q, act, st) ==
  LET count == [l \in Lane |->
                  IF l \in L THEN PumpCount(q[l], act[l], maxConcurrent'[l]) ELSE 0]
      shifted == [l \in Lane |-> {q[l][i] : i \in 1 .. count[l]}]
      started(t) == \E l \in Lane : t \in shifted[l]
  IN  /\ queue' = [l \in Lane |-> SubSeq(q[l], count[l] + 1, Len(q[l]))]
      /\ active' = [l \in Lane |-> act[l] \cup shifted[l]]
      /\ status' = [t \in Task |-> IF started(t) THEN "running" ELSE st[t]]
      /\ genOf' = [t \in Task |->
                     IF started(t) THEN generation'[LaneOf[t]] ELSE genOf[t]]
      /\ starts' = [t \in Task |-> IF started(t) THEN starts[t] + 1 ELSE starts[t]]

(* Mutant: a task counts as pending only if every lane has one.            *)
HasPendingActiveTasksInAll(ids, act) == \A l \in Lane : act[l] \cap ids # {}

(* notifyActiveTaskWaiters: no task of the snapshot is active any more.    *)
HasPendingActiveTasks(ids, act) == \E l \in Lane : act[l] \cap ids # {}
Notified(act) ==
  [w \in Waiter |->
     IF waiter[w].state = "waiting" /\ ~HasPendingActiveTasks(waiter[w].ids, act)
     THEN [waiter[w] EXCEPT !.state = "drained"]
     ELSE waiter[w]]

-----------------------------------------------------------------------------
(* enqueueCommandInLane while the gateway drains: the promise is rejected. *)
RefuseEnqueue(t) ==
  /\ status[t] = "idle"
  /\ gatewayDraining
  /\ status' = [status EXCEPT ![t] = "refused"]
  /\ UNCHANGED <<queue, active, maxConcurrent, generation, gatewayDraining,
                 genOf, enqueuedAt, starts, waiter>>

(* Mutant: the entry jumps the queue.                                      *)
EnqueueCommandInLaneFront(t) ==
  LET l == LaneOf[t]
      arrived == {u \in Task : LaneOf[u] = l /\ enqueuedAt[u] > 0}
  IN  /\ status[t] = "idle"
      /\ ~gatewayDraining
      /\ enqueuedAt' = [enqueuedAt EXCEPT ![t] = 1 + Cardinality(arrived)]
      /\ UNCHANGED <<maxConcurrent, generation, gatewayDraining, waiter>>
      /\ DrainLanes({l}, [queue EXCEPT ![l] = <<t>> \o @], active,
                    [status EXCEPT ![t] = "queued"])

(* enqueueCommandInLane: push the entry and drain the lane.                *)
EnqueueCommandInLane(t) ==
  LET l == LaneOf[t]
      arrived == {u \in Task : LaneOf[u] = l /\ enqueuedAt[u] > 0}
  IN  /\ status[t] = "idle"
      /\ ~gatewayDraining
      /\ enqueuedAt' = [enqueuedAt EXCEPT ![t] = 1 + Cardinality(arrived)]
      /\ UNCHANGED <<maxConcurrent, generation, gatewayDraining, waiter>>
      /\ DrainLanes({l}, [queue EXCEPT ![l] = Append(@, t)], active,
                    [status EXCEPT ![t] = "queued"])

(* Mutants: the completion forgets to pump, or to notify.                  *)
CompleteCurrentWithoutPump(t, outcome) ==
  /\ status[t] = "running"
  /\ genOf[t] = generation[LaneOf[t]]
  /\ active' = [active EXCEPT ![LaneOf[t]] = @ \ {t}]
  /\ waiter' = Notified(active')
  /\ status' = [status EXCEPT ![t] = outcome]
  /\ UNCHANGED <<queue, maxConcurrent, generation, gatewayDraining,
                 genOf, enqueuedAt, starts>>

CompleteCurrentWithoutNotify(t, outcome) ==
  LET l == LaneOf[t]
  IN  /\ status[t] = "running"
      /\ genOf[t] = generation[l]
      /\ UNCHANGED <<maxConcurrent, generation, gatewayDraining, enqueuedAt, waiter>>
      /\ DrainLanes({l}, queue, [active EXCEPT ![l] = @ \ {t}],
                    [status EXCEPT ![t] = outcome])

(* The task of the current generation ends: free its slot, notify the      *)
(* waiters, pump, settle the caller's promise.                             *)
CompleteCurrent(t, outcome) ==
  LET l == LaneOf[t]
      freed == [active EXCEPT ![l] = @ \ {t}]
  IN  /\ status[t] = "running"
      /\ genOf[t] = generation[l]
      /\ waiter' = Notified(freed)
      /\ UNCHANGED <<maxConcurrent, generation, gatewayDraining, enqueuedAt>>
      /\ DrainLanes({l}, queue, freed, [status EXCEPT ![t] = outcome])

(* A task of an older generation ends: only the promise settles.           *)
CompleteStale(t, outcome) ==
  /\ status[t] = "running"
  /\ genOf[t] # generation[LaneOf[t]]
  /\ status' = [status EXCEPT ![t] = outcome]
  /\ UNCHANGED <<queue, active, maxConcurrent, generation, gatewayDraining,
                 genOf, enqueuedAt, starts, waiter>>

CompleteTask(t, outcome) == CompleteCurrent(t, outcome) \/ CompleteStale(t, outcome)

(* Mutant: no lower bound on the argument.                                 *)
SetCommandLaneConcurrencyUnclamped(l, n) ==
  /\ maxConcurrent' = [maxConcurrent EXCEPT ![l] = n]
  /\ UNCHANGED <<generation, gatewayDraining, enqueuedAt, waiter>>
  /\ DrainLanes({l}, queue, active, status)

(* setCommandLaneConcurrency: at least 1, and drain for a raised cap.      *)
SetCommandLaneConcurrency(l, n) ==
  /\ maxConcurrent' = [maxConcurrent EXCEPT ![l] = IF n < 1 THEN 1 ELSE n]
  /\ UNCHANGED <<generation, gatewayDraining, enqueuedAt, waiter>>
  /\ DrainLanes({l}, queue, active, status)

(* Mutant: the entries are rejected and stay on the queue.                 *)
ClearCommandLaneKeepsQueue(l) ==
  /\ queue[l] # <<>>
  /\ status' = [t \in Task |->
                  IF \E i \in 1 .. Len(queue[l]) : queue[l][i] = t
                  THEN "cleared" ELSE status[t]]
  /\ UNCHANGED <<queue, active, maxConcurrent, generation, gatewayDraining,
                 genOf, enqueuedAt, starts, waiter>>

(* clearCommandLane rejects what is queued; it does not pump.              *)
ClearCommandLane(l) ==
  /\ queue[l] # <<>>
  /\ queue' = [queue EXCEPT ![l] = <<>>]
  /\ status' = [t \in Task |->
                  IF \E i \in 1 .. Len(queue[l]) : queue[l][i] = t
                  THEN "cleared" ELSE status[t]]
  /\ UNCHANGED <<active, maxConcurrent, generation, gatewayDraining,
                 genOf, enqueuedAt, starts, waiter>>

MarkGatewayDraining ==
  /\ gatewayDraining' = TRUE
  /\ UNCHANGED <<queue, active, maxConcurrent, generation, status,
                 genOf, enqueuedAt, starts, waiter>>

(* resetAllLanes: a fresh generation with no active task on every lane,    *)
(* then drain the lanes that kept queued entries, then notify.  A lane the *)
(* map does not hold yet is an idle one of generation 0; bumping it too    *)
(* changes nothing, since generations are only compared within a lane.     *)
ResetAllLanes ==
  LET idle == [l \in Lane |-> {}]
  IN  /\ \A l \in Lane : generation[l] < MaxGeneration
      /\ gatewayDraining' = FALSE
      /\ generation' = [l \in Lane |-> generation[l] + 1]
      /\ UNCHANGED <<maxConcurrent, enqueuedAt>>
      /\ DrainLanes({l \in Lane : queue[l] # <<>>}, queue, idle, status)
      /\ waiter' = Notified(active')

(* waitForActiveTasks(timeoutMs): a snapshot of what is active now.        *)
ActiveAtStart == UNION {active[l] : l \in Lane}
WaiterResult(positiveTimeout) ==
  IF ActiveAtStart = {} THEN "drained" ELSE IF positiveTimeout THEN "waiting" ELSE "timeout"

WaitForActiveTasks(w, positiveTimeout) ==
  /\ waiter[w].state = "idle"
  /\ waiter' = [waiter EXCEPT ![w] =
       [state |-> WaiterResult(positiveTimeout), ids |-> ActiveAtStart]]
  /\ UNCHANGED <<queue, active, maxConcurrent, generation, gatewayDraining,
                 status, genOf, enqueuedAt, starts>>

WaiterTimeout(w) ==
  /\ waiter[w].state = "waiting"
  /\ waiter' = [waiter EXCEPT ![w].state = "timeout"]
  /\ UNCHANGED <<queue, active, maxConcurrent, generation, gatewayDraining,
                 status, genOf, enqueuedAt, starts>>

Next ==
  \/ \E t \in Task : RefuseEnqueue(t)
  \/ \E t \in Task : EnqueueCommandInLane(t)
  \/ \E t \in Task, o \in {"resolved", "rejected"} : CompleteCurrent(t, o)
  \/ \E t \in Task, o \in {"resolved", "rejected"} : CompleteStale(t, o)
  \/ \E l \in Lane, n \in Concurrency : SetCommandLaneConcurrency(l, n)
  \/ \E l \in Lane : ClearCommandLane(l)
  \/ MarkGatewayDraining
  \/ ResetAllLanes
  \/ \E w \in Waiter, b \in BOOLEAN : WaitForActiveTasks(w, b)
  \/ \E w \in Waiter : WaiterTimeout(w)

Spec == Init /\ [][Next]_queueVars

(* Tasks end: an agent run, a cron job and a probe all carry a timeout.    *)
FairSpec ==
  Spec /\ \A t \in Task : WF_queueVars(\E o \in {"resolved", "rejected"} : CompleteTask(t, o))

-----------------------------------------------------------------------------
(* The active set of a lane is exactly what runs in its current            *)
(* generation: a stale completion after resetAllLanes neither frees a slot *)
(* of the new generation nor is a stale task left occupying one.           *)
ActiveIsCurrentGeneration ==
  \A l \in Lane :
    active[l] = {t \in Task : /\ LaneOf[t] = l
                             /\ status[t] = "running"
                             /\ genOf[t] = generation[l]}

(* drainLane never leaves a lane idle while an entry waits: whatever the   *)
(* order of completions, clears, resets and concurrency changes, queued    *)
(* work on a lane implies that all its slots are taken.                    *)
NoIdleLane ==
  \A l \in Lane : queue[l] # <<>> => Cardinality(active[l]) >= maxConcurrent[l]

(* Lanes are FIFO: no task leaves its queue for execution while one that   *)
(* enqueueCommandInLane accepted earlier on the same lane is still queued. *)
ArrivalOrder ==
  \A t, u \in Task :
    /\ LaneOf[t] = LaneOf[u]
    /\ status[t] = "queued"
    /\ starts[u] > 0
    => enqueuedAt[u] < enqueuedAt[t]

(* No entry is executed twice, across any number of in-process restarts,   *)
(* and one that clearCommandLane or the draining gateway rejected never is.*)
ExecutedAtMostOnce ==
  \A t \in Task : /\ starts[t] <= 1
                  /\ status[t] \in {"cleared", "refused"} => starts[t] = 0

(* A waiter registered by waitForActiveTasks is waiting for something: the *)
(* notification that would resolve it has not been missed.                 *)
NoMissedNotification ==
  \A w \in Waiter :
    waiter[w].state = "waiting" => HasPendingActiveTasks(waiter[w].ids, active)

(* { drained: true } is only ever reported when every task of the snapshot *)
(* has ended or has been abandoned by resetAllLanes.                       *)
DrainedIsTrue ==
  \A w \in Waiter : waiter[w].state = "drained" =>
    \A t \in waiter[w].ids :
      status[t] \in Settled \/ genOf[t] # generation[LaneOf[t]]

(* pump() only starts a task while the lane is below its cap, also when    *)
(* setCommandLaneConcurrency has just lowered it below what is running.    *)
StartsWithinCap ==
  [][\A l \in Lane :
       active'[l] \ active[l] # {} => Cardinality(active'[l]) <= maxConcurrent'[l]]_queueVars

(* The promise returned by enqueueCommandInLane settles once and for all:  *)
(* a completion, a clear and a restart never settle it a second time.      *)
SettlesOnce ==
  [][\A t \in Task : status[t] \in Settled => status'[t] = status[t]]_queueVars

(* Every accepted entry is eventually settled: no sequence of restarts,    *)
(* clears and concurrency changes strands it in a queue.                   *)
AcceptedSettles ==
  \A t \in Task : status[t] = "queued" ~> status[t] \in Settled
=============================================================================
