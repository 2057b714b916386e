--------------------------- MODULE HeartbeatWake ---------------------------
(***************************************************************************)
(* The wake layer of the heartbeats (src/infra/heartbeat-wake): requests   *)
(* are merged per target, a timer takes everything that is pending as one  *)
(* batch, and the registered handler is called for one wake after the      *)
(* other.  A handler that is busy, or that throws, is asked again after a  *)
(* cooldown; a new handler starts from a clean execution state, also while *)
(* a batch of the previous one is still under way.                         *)
(*                                                                         *)
(* A timer counts down in abstract time units.  Wall-clock time does not   *)
(* run backwards, so of two requests of equal priority the later replaces  *)
(* the earlier, and a pending wake is the highest priority requested.  The *)
(* order of the wakes within a batch is left open.                         *)
(***************************************************************************)
EXTENDS Naturals, FiniteSets

CONSTANTS
  Target,          \* wake targets, an agent and session; one stands for all agents
  Delay,           \* the values of coalesceMs that are explored
  CoalesceDelay,   \* DEFAULT_COALESCE_MS
  RetryDelay,      \* DEFAULT_RETRY_MS
  MaxHandler,      \* bound: handlers registered
  MaxBatch         \* bound: batches under way at the same time

ASSUME DelayAssumption == Delay \subseteq Nat /\ {CoalesceDelay, RetryDelay} \subseteq Nat
ASSUME HandlerAssumption == MaxHandler \in Nat /\ MaxBatch \in Nat

Handler == 1 .. MaxHandler
NoHandler == 0
(* REASON_PRIORITY, and 0 for no wake.                                     *)
Retry == 1
Interval == 2
Default == 3
Action == 4
Priority == 1 .. 4
NoWake == 0
Slot == 1 .. MaxBatch

VARIABLES
  handler,         \* the handler, by the number of its registration
  generation,      \* handlerGeneration
  generationOf,    \* the generation the disposer of a registration captured
  pending,         \* pendingWakes
  scheduled,
  running,
  timer,           \* timer, timerKind and what is left of the delay
  batch,           \* the callbacks of the timer that wait for a handler
  replaced         \* a handler was registered while a batch was under way

wakeVars == <<handler, generation, generationOf, pending, scheduled, running,
              timer, batch, replaced>>

Wake == [target : Target, priority : Priority]
NoTimer == [kind |-> "none", left |-> 0, delay |-> 0]
Batch == [handler : Handler, current : Wake, todo : SUBSET Wake, all : SUBSET Wake,
          delay : Nat, entered : BOOLEAN]
(* The slots in use.                                                       *)
InFlight == DOMAIN batch

WakeTypeOK ==
  /\ handler \in Handler \cup {NoHandler}
  /\ generation \in Nat
  /\ generationOf \in [Handler -> Nat]
  /\ pending \in [Target -> Priority \cup {NoWake}]
  /\ scheduled \in BOOLEAN
  /\ running \in BOOLEAN
  /\ timer \in [kind : {"none", "normal", "retry"}, left : Nat, delay : Nat]
  /\ InFlight \subseteq Slot
  /\ \A b \in InFlight : batch[b] \in Batch
  /\ replaced \in BOOLEAN

WakeInit ==
  /\ handler = NoHandler
  /\ generation = 0
  /\ generationOf = [h \in Handler |-> 0]
  /\ pending = [t \in Target |-> NoWake]
  /\ scheduled = FALSE
  /\ running = FALSE
  /\ timer = NoTimer
  /\ batch = <<>>
  /\ replaced = FALSE

-----------------------------------------------------------------------------
(* queuePendingWakeReason, for a set of wakes.                             *)
Highest(S) == CHOOSE p \in S : \A q \in S : q <= p
QueuePendingWakeReasons(pend, wakes) ==
  [t \in Target |->
     Highest({pend[t]} \cup {w.priority : w \in {v \in wakes : v.target = t}})]

(* schedule(): a retry timer stays, and so does one that fires no later.   *)
Schedule(tm, delay, kind) ==
  IF tm.kind = "retry" \/ (tm.kind = "normal" /\ tm.left <= delay) THEN tm
  ELSE [kind |-> kind, left |-> delay, delay |-> delay]

(* requestHeartbeatNow.                                                    *)
RequestHeartbeatNow(t, p, delay) ==
  /\ pending' = QueuePendingWakeReasons(pending, {[target |-> t, priority |-> p]})
  /\ timer' = Schedule(timer, delay, "normal")
  /\ UNCHANGED <<handler, generation, generationOf, scheduled, running, batch, replaced>>

(* Time passes for the timer.                                              *)
TimerCountsDown ==
  /\ timer.left > 0
  /\ timer' = [timer EXCEPT !.left = @ - 1]
  /\ UNCHANGED <<handler, generation, generationOf, pending, scheduled, running,
                 batch, replaced>>

TimerDue == timer.kind # "none" /\ timer.left = 0

(* The callback without a handler: the wakes stay pending.                 *)
TimerWithoutHandler ==
  /\ TimerDue
  /\ handler = NoHandler
  /\ timer' = NoTimer
  /\ scheduled' = FALSE
  /\ UNCHANGED <<handler, generation, generationOf, pending, running, batch, replaced>>

(* The callback during a batch: the same delay again.                      *)
TimerWhileRunning ==
  /\ TimerDue
  /\ handler # NoHandler
  /\ running
  /\ scheduled' = TRUE
  /\ timer' = Schedule(NoTimer, timer.delay, timer.kind)
  /\ UNCHANGED <<handler, generation, generationOf, pending, running, batch, replaced>>

(* Mutant: running is not looked at.                                       *)
TimerTakesBatchAnyway(b, w, enters) ==
  LET all == {[target |-> t, priority |-> pending[t]] :
                t \in {u \in Target : pending[u] # NoWake}}
  IN  /\ TimerDue
      /\ handler # NoHandler
      /\ b \in Slot \ InFlight
      /\ w \in all
      /\ scheduled' = FALSE
      /\ timer' = NoTimer
      /\ pending' = [t \in Target |-> NoWake]
      /\ running' = TRUE
      /\ batch' = [c \in InFlight \cup {b} |->
           IF c = b THEN [handler |-> handler, current |-> w, todo |-> all \ {w},
                          all |-> all, delay |-> timer.delay, entered |-> enters]
           ELSE batch[c]]
      /\ UNCHANGED <<handler, generation, generationOf, replaced>>

(* The callback takes all pending wakes and calls the handler for a first  *)
(* one; `enters' is what the handler finds at that moment.                 *)
TimerTakesBatch(b, w, enters) ==
  LET all == {[target |-> t, priority |-> pending[t]] :
                t \in {u \in Target : pending[u] # NoWake}}
  IN  /\ TimerDue
      /\ handler # NoHandler
      /\ ~running
      /\ b \in Slot \ InFlight
      /\ w \in all
      /\ scheduled' = FALSE
      /\ timer' = NoTimer
      /\ pending' = [t \in Target |-> NoWake]
      /\ running' = TRUE
      /\ batch' = [c \in InFlight \cup {b} |->
           IF c = b THEN [handler |-> handler, current |-> w, todo |-> all \ {w},
                          all |-> all, delay |-> timer.delay, entered |-> enters]
           ELSE batch[c]]
      /\ UNCHANGED <<handler, generation, generationOf, replaced>>

(* The callback with nothing to do.                                        *)
TimerFindsNothing ==
  /\ TimerDue
  /\ handler # NoHandler
  /\ ~running
  /\ \A t \in Target : pending[t] = NoWake
  /\ scheduled' = FALSE
  /\ timer' = NoTimer
  /\ UNCHANGED <<handler, generation, generationOf, pending, running, batch, replaced>>

(* What a settled call leaves pending and scheduled: a busy wake is queued *)
(* again, and all wakes of the batch are if the handler throws.            *)
PendingAfter(b, outcome) ==
  QueuePendingWakeReasons(pending,
    CASE outcome = "done" -> {}
      [] outcome = "busy" -> {batch[b].current}
      [] outcome = "throws" -> batch[b].all)
TimerAfter(outcome) ==
  IF outcome = "done" THEN timer ELSE Schedule(timer, RetryDelay, "retry")

(* The call settles and the next wake of the batch is taken up.            *)
HandlerGoesOn(b, outcome, w, enters) ==
  /\ b \in InFlight
  /\ outcome # "throws"
  /\ w \in batch[b].todo
  /\ batch' = [batch EXCEPT ![b].current = w, ![b].todo = @ \ {w}, ![b].entered = enters]
  /\ pending' = PendingAfter(b, outcome)
  /\ timer' = TimerAfter(outcome)
  /\ UNCHANGED <<handler, generation, generationOf, scheduled, running, replaced>>

(* Mutant: nothing is scheduled for what arrived during the batch.         *)
BatchEndsSilently(b, outcome) ==
  /\ b \in InFlight
  /\ outcome = "throws" \/ batch[b].todo = {}
  /\ batch' = [c \in InFlight \ {b} |-> batch[c]]
  /\ pending' = PendingAfter(b, outcome)
  /\ running' = FALSE
  /\ timer' = IF outcome = "done" THEN NoTimer ELSE TimerAfter(outcome)
  /\ replaced' = (replaced /\ InFlight # {b})
  /\ UNCHANGED <<handler, generation, generationOf, scheduled>>

(* The last call settles, or one throws: the finally block.                *)
BatchEnds(b, outcome) ==
  /\ b \in InFlight
  /\ outcome = "throws" \/ batch[b].todo = {}
  /\ batch' = [c \in InFlight \ {b} |-> batch[c]]
  /\ pending' = PendingAfter(b, outcome)
  /\ running' = FALSE
  /\ timer' = IF scheduled \/ \E t \in Target : pending'[t] # NoWake
              THEN Schedule(TimerAfter(outcome), batch[b].delay, "normal")
              ELSE TimerAfter(outcome)
  /\ replaced' = (replaced /\ InFlight # {b})
  /\ UNCHANGED <<handler, generation, generationOf, scheduled>>

(* setHeartbeatWakeHandler(next): a new lifecycle.                         *)
SetHeartbeatWakeHandler(h) ==
  /\ generation' = generation + 1
  /\ generationOf' = [generationOf EXCEPT ![h] = generation']
  /\ handler' = h
  /\ running' = FALSE
  /\ scheduled' = FALSE
  /\ timer' = IF \E t \in Target : pending[t] # NoWake
              THEN Schedule(NoTimer, CoalesceDelay, "normal") ELSE NoTimer
  /\ replaced' = (InFlight # {})
  /\ UNCHANGED <<pending, batch>>

(* The disposer of a registration: a stale one does nothing.               *)
Dispose(h) ==
  LET mine == generation = generationOf[h] /\ handler = h
  IN  /\ generation' = IF mine THEN generation + 1 ELSE generation
      /\ handler' = IF mine THEN NoHandler ELSE handler
      /\ UNCHANGED <<generationOf, pending, scheduled, running, timer, batch, replaced>>

-----------------------------------------------------------------------------
(* A pending wake is never forgotten: while there is a handler, a timer is *)
(* armed or a batch is under way whose finally block will arm one, through *)
(* every order of requests, busy answers, exceptions and new handlers.     *)
PendingWakeIsScheduled ==
  handler # NoHandler /\ (\E t \in Target : pending[t] # NoWake) =>
    timer.kind # "none" \/ InFlight # {}

(* Heartbeats do not overlap: two batches are under way at a time only     *)
(* after a handler was registered in the middle of one, whose finally      *)
(* block then also resets `running' for the batches of the new handler.    *)
OneBatchUnlessReplaced == Cardinality(InFlight) > 1 => replaced

(* Every wake reaches a batch of the handler, unless there is none.  (A    *)
(* handler that keeps throwing on one wake of the batch keeps the others   *)
(* from being called: the whole batch is queued again.)                    *)
WakeReachesHandler ==
  \A t \in Target :
    pending[t] # NoWake ~>
      \/ handler = NoHandler
      \/ \E b \in InFlight : \E w \in batch[b].all : w.target = t
=============================================================================
