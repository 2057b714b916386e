-------------------------- MODULE HeartbeatProofs --------------------------
(***************************************************************************)
(* Proofs about the wake layer and the heartbeat runner, for every set of  *)
(* wake targets, any delays and any number of runners, batches, requests   *)
(* and updates.                                                            *)
(*                                                                         *)
(* What carries the interval of a runner is followed through its hands:    *)
(* the interval timer, the pending wake of all agents, a batch of this     *)
(* very runner that has yet to call run() for it, and a call that got past *)
(* the checks at the entry of run().  A wake in a batch of another runner, *)
(* or in a call that was turned away, carries nothing.                     *)
(***************************************************************************)
EXTENDS HeartbeatRunner, FiniteSetTheorems, TLAPS

(* A batch keeps the wakes it has not settled, in case run() throws.       *)
BatchKeepsWakes ==
  \A b \in InFlight : batch[b].todo \cup {batch[b].current} \subseteq batch[b].all

(* Unless a handler was replaced, `running' guards a single batch.         *)
RunningGuards ==
  ~replaced => /\ InFlight # {} => running
               /\ \A b, c \in InFlight : b = c

(* The interval of runner h is in the hands of batch b.                    *)
CarriedBy(b, h) ==
  /\ batch[b].handler = h
  /\ \/ \E w \in batch[b].todo : w.target = All
     \/ batch[b].entered /\ batch[b].current.target = All

Carried(h) ==
  \/ interval[h]
  \/ pending[All] # NoWake
  \/ \E b \in InFlight : CarriedBy(b, h)

(* The switch is not looked at: a runner that is disabled and was not      *)
(* turned away yet still has its interval.                                 *)
IntervalCarried ==
  \A h \in Handler :
    handler = h /\ runner[h] = "on" /\ agents[h] /\ ~lapsed[h] => Carried(h)

(* What the wake layer keeps by itself, and what the runner adds.          *)
WakeInv == WakeTypeOK /\ BatchKeepsWakes /\ RunningGuards /\ PendingWakeIsScheduled

IndInv == RunnerTypeOK /\ WakeInv /\ IntervalCarried

-----------------------------------------------------------------------------
(* The merge of wake requests, and the timer.                              *)

(* A set of priorities that is not empty has a highest one.                *)
LEMMA HighestIsMax ==
  ASSUME NEW S \in SUBSET (Priority \cup {NoWake}), S # {}
  PROVE  Highest(S) \in S /\ \A q \in S : q <= Highest(S)
<1>1. \E p \in S : \A q \in S : q <= p
  <2>1. S \subseteq {0, 1, 2, 3, 4}
    BY DEF Priority, NoWake
  <2>2. CASE 4 \in S
    BY <2>1, <2>2
  <2>3. CASE 4 \notin S /\ 3 \in S
    BY <2>1, <2>3
  <2>4. CASE 4 \notin S /\ 3 \notin S /\ 2 \in S
    BY <2>1, <2>4
  <2>5. CASE 4 \notin S /\ 3 \notin S /\ 2 \notin S /\ 1 \in S
    BY <2>1, <2>5
  <2>6. CASE S = {0}
    BY <2>6
  <2> QED
    BY <2>1, <2>2, <2>3, <2>4, <2>5, <2>6
<1> QED
  BY <1>1 DEF Highest

(* Queueing wakes keeps what was pending and makes their targets pending.  *)
LEMMA QueueFacts ==
  ASSUME NEW pend \in [Target -> Priority \cup {NoWake}], NEW wakes \in SUBSET Wake
  PROVE  /\ QueuePendingWakeReasons(pend, wakes) \in [Target -> Priority \cup {NoWake}]
         /\ \A t \in Target :
              pend[t] # NoWake => QueuePendingWakeReasons(pend, wakes)[t] # NoWake
         /\ \A w \in wakes : QueuePendingWakeReasons(pend, wakes)[w.target] # NoWake
<1> DEFINE P(t) == {pend[t]} \cup {w.priority : w \in {v \in wakes : v.target = t}}
<1>1. ASSUME NEW t \in Target
      PROVE  P(t) \in SUBSET (Priority \cup {NoWake}) /\ P(t) # {}
  BY DEF Wake
<1>2. ASSUME NEW t \in Target
      PROVE  Highest(P(t)) \in Priority \cup {NoWake} /\ \A q \in P(t) : q <= Highest(P(t))
  <2> HIDE DEF P
  <2> QED
    BY <1>1, HighestIsMax
<1>3. ASSUME NEW t \in Target
      PROVE  /\ QueuePendingWakeReasons(pend, wakes)[t] = Highest(P(t))
             /\ pend[t] \in P(t)
             /\ \A w \in wakes : w.target = t => w.priority \in P(t)
  BY DEF QueuePendingWakeReasons
<1>4. QueuePendingWakeReasons(pend, wakes) \in [Target -> Priority \cup {NoWake}]
  <2>1. QueuePendingWakeReasons(pend, wakes) = [t \in Target |-> Highest(P(t))]
    BY DEF QueuePendingWakeReasons
  <2> HIDE DEF P
  <2> QED
    BY <1>2, <2>1
<1> HIDE DEF P
<1>5. \A t \in Target :
        pend[t] # NoWake => QueuePendingWakeReasons(pend, wakes)[t] # NoWake
  BY <1>2, <1>3 DEF Priority, NoWake
<1>6. \A w \in wakes : QueuePendingWakeReasons(pend, wakes)[w.target] # NoWake
  <2> TAKE w \in wakes
  <2>1. w.target \in Target /\ w.priority \in Priority
    BY DEF Wake
  <2> QED
    BY <1>2, <1>3, <2>1 DEF Priority, NoWake
<1> QED
  BY <1>4, <1>5, <1>6

TimerType == [kind : {"none", "normal", "retry"}, left : Nat, delay : Nat]

(* After schedule() a timer is armed.                                      *)
LEMMA ScheduleArms ==
  ASSUME NEW tm \in TimerType, NEW delay \in Nat, NEW kind \in {"normal", "retry"}
  PROVE  Schedule(tm, delay, kind) \in TimerType /\ Schedule(tm, delay, kind).kind # "none"
  BY DEF Schedule, TimerType

LEMMA NoTimerType == NoTimer \in TimerType
  BY DEF NoTimer, TimerType

-----------------------------------------------------------------------------
(* The wake layer.                                                         *)

LEMMA WakeInitially == WakeInit => WakeInv
<1> SUFFICES ASSUME WakeInit PROVE WakeInv
  OBVIOUS
<1>1. InFlight = {}
  BY DEF WakeInit, InFlight
<1>2. WakeTypeOK
  BY <1>1, NoTimerType
     DEF WakeInit, WakeTypeOK, TimerType, Handler, NoHandler, NoWake
<1> QED
  BY <1>1, <1>2
     DEF WakeInit, WakeInv, BatchKeepsWakes, RunningGuards, PendingWakeIsScheduled, NoHandler

LEMMA RequestKeeps ==
  ASSUME WakeInv, NEW t \in Target, NEW p \in Priority, NEW delay \in Nat,
         RequestHeartbeatNow(t, p, delay)
  PROVE  WakeInv' /\ pending'[t] # NoWake /\ \A u \in Target : pending[u] # NoWake => pending'[u] # NoWake
<1> DEFINE W == {[target |-> t, priority |-> p]}
<1>1. pending' = QueuePendingWakeReasons(pending, W) /\ timer' = Schedule(timer, delay, "normal")
  BY DEF RequestHeartbeatNow
<1>2. W \in SUBSET Wake /\ pending \in [Target -> Priority \cup {NoWake}] /\ timer \in TimerType
  BY DEF Wake, WakeInv, WakeTypeOK, TimerType
<1>3. /\ pending' \in [Target -> Priority \cup {NoWake}]
      /\ \A u \in Target : pending[u] # NoWake => pending'[u] # NoWake
      /\ \A w \in W : pending'[w.target] # NoWake
  <2> HIDE DEF W
  <2> QED
    BY <1>1, <1>2, QueueFacts
<1>4. timer' \in TimerType /\ timer'.kind # "none"
  BY <1>1, <1>2, ScheduleArms
<1>5. UNCHANGED <<handler, generation, generationOf, scheduled, running, batch, replaced>>
  BY DEF RequestHeartbeatNow
<1>6. WakeTypeOK'
  BY <1>3, <1>4, <1>5 DEF WakeInv, WakeTypeOK, TimerType, InFlight
<1>7. WakeInv'
  BY <1>4, <1>5, <1>6
     DEF WakeInv, BatchKeepsWakes, RunningGuards, PendingWakeIsScheduled, InFlight
<1> QED
  BY <1>3, <1>7

LEMMA TimerKeeps ==
  ASSUME WakeInv,
         TimerCountsDown \/ TimerWithoutHandler \/ TimerWhileRunning \/ TimerFindsNothing
  PROVE  WakeInv' /\ UNCHANGED <<handler, pending, batch>>
<1>1. timer \in TimerType
  BY DEF WakeInv, WakeTypeOK, TimerType
<1>2. UNCHANGED <<handler, generation, generationOf, pending, running, batch, replaced>>
  BY DEF TimerCountsDown, TimerWithoutHandler, TimerWhileRunning, TimerFindsNothing
<1>3. timer' \in TimerType /\ scheduled' \in BOOLEAN
  <2>1. CASE TimerCountsDown
    BY <1>1, <2>1 DEF TimerCountsDown, TimerType, WakeInv, WakeTypeOK
  <2>2. CASE TimerWithoutHandler \/ TimerFindsNothing
    BY <2>2, NoTimerType DEF TimerWithoutHandler, TimerFindsNothing
  <2>3. CASE TimerWhileRunning
    BY <1>1, <2>3, NoTimerType, ScheduleArms DEF TimerWhileRunning, TimerDue, TimerType
  <2> QED
    BY <2>1, <2>2, <2>3
<1>4. PendingWakeIsScheduled'
  <2>1. CASE TimerCountsDown
    BY <1>1, <1>2, <2>1
       DEF TimerCountsDown, TimerType, WakeInv, PendingWakeIsScheduled, InFlight
  <2>2. CASE TimerWithoutHandler \/ TimerFindsNothing
    BY <1>2, <2>2 DEF TimerWithoutHandler, TimerFindsNothing, PendingWakeIsScheduled
  <2>3. CASE TimerWhileRunning
    <3>1. timer.delay \in Nat /\ timer.kind \in {"normal", "retry"}
      BY <1>1, <2>3 DEF TimerWhileRunning, TimerDue, TimerType
    <3>2. timer'.kind # "none"
      BY <2>3, <3>1, NoTimerType, ScheduleArms DEF TimerWhileRunning
    <3> QED
      BY <3>2 DEF PendingWakeIsScheduled
  <2> QED
    BY <2>1, <2>2, <2>3
<1>5. WakeTypeOK'
  BY <1>2, <1>3 DEF WakeInv, WakeTypeOK, TimerType, InFlight
<1> QED
  BY <1>2, <1>4, <1>5 DEF WakeInv, BatchKeepsWakes, RunningGuards, InFlight

(* The wakes a timer callback finds.                                       *)
PendingBatch == {[target |-> t, priority |-> pending[t]] :
                   t \in {u \in Target : pending[u] # NoWake}}

LEMMA PendingBatchFacts ==
  ASSUME WakeTypeOK
  PROVE  /\ PendingBatch \in SUBSET Wake
         /\ \A t \in Target : pending[t] # NoWake => \E w \in PendingBatch : w.target = t
<1>1. \A t \in Target : pending[t] # NoWake => pending[t] \in Priority
  BY DEF WakeTypeOK
<1>2. PendingBatch \in SUBSET Wake
  BY <1>1 DEF PendingBatch, Wake
<1>3. ASSUME NEW t \in Target, pending[t] # NoWake
      PROVE  \E w \in PendingBatch : w.target = t
  <2>1. [target |-> t, priority |-> pending[t]] \in PendingBatch
    BY <1>3 DEF PendingBatch
  <2> QED
    BY <2>1
<1> QED
  BY <1>2, <1>3

LEMMA TakesBatchKeeps ==
  ASSUME WakeInv, NEW b \in Slot, NEW w \in Wake, NEW enters \in BOOLEAN,
         TimerTakesBatch(b, w, enters)
  PROVE  /\ WakeInv'
         /\ UNCHANGED handler /\ handler \in Handler
         /\ b \notin InFlight /\ InFlight' = InFlight \cup {b}
         /\ \A c \in InFlight : batch'[c] = batch[c]
         /\ batch'[b].handler = handler /\ batch'[b].entered = enters
         /\ batch'[b].current = w /\ w \in PendingBatch
         /\ batch'[b].todo = PendingBatch \ {w}
<1> DEFINE new == [handler |-> handler, current |-> w, todo |-> PendingBatch \ {w},
                   all |-> PendingBatch, delay |-> timer.delay, entered |-> enters]
<1>1. /\ handler \in Handler
      /\ ~running /\ running' = TRUE
      /\ scheduled' = FALSE
      /\ timer' = NoTimer
      /\ pending' = [t \in Target |-> NoWake]
      /\ b \notin InFlight
      /\ w \in PendingBatch
      /\ UNCHANGED <<handler, generation, generationOf, replaced>>
  BY DEF TimerTakesBatch, PendingBatch, WakeInv, WakeTypeOK
<1>2. batch' = [c \in InFlight \cup {b} |-> IF c = b THEN new ELSE batch[c]]
  BY DEF TimerTakesBatch, PendingBatch
<1>3. InFlight' = InFlight \cup {b} /\ batch'[b] = new /\ \A c \in InFlight : batch'[c] = batch[c]
  BY <1>1, <1>2 DEF InFlight
<1>4. timer.delay \in Nat
  BY DEF WakeInv, WakeTypeOK
<1>5. new \in Batch
  BY <1>1, <1>4, PendingBatchFacts DEF Batch, WakeInv
<1>6. WakeTypeOK'
  <2>1. InFlight' \subseteq Slot /\ \A c \in InFlight' : batch'[c] \in Batch
    BY <1>3, <1>5 DEF WakeInv, WakeTypeOK
  <2>2. pending' \in [Target -> Priority \cup {NoWake}]
    BY <1>1
  <2> QED
    BY <1>1, <2>1, <2>2, NoTimerType DEF WakeInv, WakeTypeOK, TimerType
<1>7. BatchKeepsWakes'
  BY <1>1, <1>3 DEF BatchKeepsWakes, WakeInv
<1>8. RunningGuards'
  BY <1>1, <1>3 DEF RunningGuards, WakeInv
<1>9. PendingWakeIsScheduled'
  BY <1>1 DEF PendingWakeIsScheduled
<1> QED
  BY <1>1, <1>3, <1>6, <1>7, <1>8, <1>9 DEF WakeInv

(* What a settled call leaves behind.                                      *)
LEMMA SettledFacts ==
  ASSUME WakeInv, NEW b \in InFlight, NEW o \in Outcomes
  PROVE  /\ PendingAfter(b, o) \in [Target -> Priority \cup {NoWake}]
         /\ \A u \in Target : pending[u] # NoWake => PendingAfter(b, o)[u] # NoWake
         /\ o = "busy" => PendingAfter(b, o)[batch[b].current.target] # NoWake
         /\ o = "throws" => \A w \in batch[b].all : PendingAfter(b, o)[w.target] # NoWake
         /\ TimerAfter(o) \in TimerType
<1>1. /\ batch[b] \in Batch
      /\ pending \in [Target -> Priority \cup {NoWake}]
      /\ timer \in TimerType
  BY DEF WakeInv, WakeTypeOK, TimerType
<1>2. batch[b].current \in Wake /\ batch[b].all \in SUBSET Wake
  BY <1>1 DEF Batch
<1>3. TimerAfter(o) \in TimerType
  <2>1. RetryDelay \in Nat
    BY DelayAssumption
  <2> QED
    BY <1>1, <2>1, ScheduleArms DEF TimerAfter
<1>4. CASE o = "done"
  <2>1. PendingAfter(b, o) = QueuePendingWakeReasons(pending, {})
    BY <1>4 DEF PendingAfter
  <2> QED
    BY <1>1, <1>3, <1>4, <2>1, QueueFacts
<1>5. CASE o = "busy"
  <2>1. PendingAfter(b, o) = QueuePendingWakeReasons(pending, {batch[b].current})
    BY <1>5 DEF PendingAfter
  <2> QED
    BY <1>1, <1>2, <1>3, <1>5, <2>1, QueueFacts
<1>6. CASE o = "throws"
  <2>1. PendingAfter(b, o) = QueuePendingWakeReasons(pending, batch[b].all)
    BY <1>6 DEF PendingAfter
  <2> QED
    BY <1>1, <1>2, <1>3, <1>6, <2>1, QueueFacts
<1> QED
  BY <1>4, <1>5, <1>6 DEF Outcomes

LEMMA GoesOnKeeps ==
  ASSUME WakeInv, NEW b \in InFlight, NEW o \in Outcomes, NEW w \in Wake,
         NEW enters \in BOOLEAN, HandlerGoesOn(b, o, w, enters)
  PROVE  /\ WakeInv'
         /\ UNCHANGED handler
         /\ o # "throws" /\ pending' = PendingAfter(b, o)
         /\ InFlight' = InFlight /\ \A c \in InFlight \ {b} : batch'[c] = batch[c]
         /\ batch'[b].handler = batch[b].handler /\ batch'[b].entered = enters
         /\ batch'[b].current = w /\ batch'[b].todo = batch[b].todo \ {w}
         /\ w \in batch[b].todo
<1>1. /\ o # "throws" /\ w \in batch[b].todo
      /\ pending' = PendingAfter(b, o) /\ timer' = TimerAfter(o)
      /\ batch' = [batch EXCEPT ![b].current = w, ![b].todo = @ \ {w}, ![b].entered = enters]
      /\ UNCHANGED <<handler, generation, generationOf, scheduled, running, replaced>>
  BY DEF HandlerGoesOn
<1>2. batch[b] \in Batch /\ b \in DOMAIN batch
  BY DEF WakeInv, WakeTypeOK, InFlight
<1>3. /\ InFlight' = InFlight
      /\ \A c \in InFlight \ {b} : batch'[c] = batch[c]
  BY <1>1, <1>2 DEF InFlight
<1>4. /\ batch'[b] \in Batch
      /\ batch'[b].handler = batch[b].handler /\ batch'[b].entered = enters
      /\ batch'[b].current = w /\ batch'[b].todo = batch[b].todo \ {w}
      /\ batch'[b].all = batch[b].all
  BY <1>1, <1>2 DEF Batch
<1>5. WakeTypeOK'
  <2>1. InFlight' \subseteq Slot /\ \A c \in InFlight' : batch'[c] \in Batch
    BY <1>3, <1>4 DEF WakeInv, WakeTypeOK
  <2>2. pending' \in [Target -> Priority \cup {NoWake}] /\ timer' \in TimerType
    BY <1>1, SettledFacts
  <2> QED
    BY <1>1, <2>1, <2>2 DEF WakeInv, WakeTypeOK, TimerType
<1>6. BatchKeepsWakes'
  <2>1. batch'[b].todo \cup {batch'[b].current} \subseteq batch'[b].all
    <3>1. batch[b].todo \subseteq batch[b].all
      BY DEF BatchKeepsWakes, WakeInv
    <3> QED
      BY <1>1, <1>4, <3>1
  <2>2. \A c \in InFlight \ {b} : batch'[c].todo \cup {batch'[c].current} \subseteq batch'[c].all
    BY <1>3 DEF BatchKeepsWakes, WakeInv
  <2> QED
    BY <1>3, <2>1, <2>2 DEF BatchKeepsWakes
<1>7. RunningGuards' /\ PendingWakeIsScheduled'
  BY <1>1, <1>3 DEF RunningGuards, PendingWakeIsScheduled, WakeInv
<1> QED
  BY <1>1, <1>3, <1>4, <1>5, <1>6, <1>7 DEF WakeInv

LEMMA BatchEndsKeeps ==
  ASSUME WakeInv, NEW b \in InFlight, NEW o \in Outcomes, BatchEnds(b, o)
  PROVE  /\ WakeInv'
         /\ UNCHANGED handler
         /\ pending' = PendingAfter(b, o)
         /\ InFlight' = InFlight \ {b} /\ \A c \in InFlight' : batch'[c] = batch[c]
         /\ o = "throws" \/ batch[b].todo = {}
<1>1. /\ o = "throws" \/ batch[b].todo = {}
      /\ pending' = PendingAfter(b, o)
      /\ batch' = [c \in InFlight \ {b} |-> batch[c]]
      /\ running' = FALSE
      /\ replaced' = (replaced /\ InFlight # {b})
      /\ timer' = IF scheduled \/ \E t \in Target : pending'[t] # NoWake
                  THEN Schedule(TimerAfter(o), batch[b].delay, "normal")
                  ELSE TimerAfter(o)
      /\ UNCHANGED <<handler, generation, generationOf, scheduled>>
  BY DEF BatchEnds
<1>2. InFlight' = InFlight \ {b} /\ \A c \in InFlight' : batch'[c] = batch[c]
  BY <1>1 DEF InFlight
<1>3. batch[b].delay \in Nat
  BY DEF WakeInv, WakeTypeOK, Batch
<1>4. /\ timer' \in TimerType
      /\ (\E t \in Target : pending'[t] # NoWake) => timer'.kind # "none"
  BY <1>1, <1>3, SettledFacts, ScheduleArms
<1>5. WakeTypeOK'
  <2>1. InFlight' \subseteq Slot /\ \A c \in InFlight' : batch'[c] \in Batch
    BY <1>2 DEF WakeInv, WakeTypeOK
  <2>2. pending' \in [Target -> Priority \cup {NoWake}]
    BY <1>1, SettledFacts
  <2>3. replaced' \in BOOLEAN
    BY <1>1
  <2> QED
    BY <1>1, <1>4, <2>1, <2>2, <2>3 DEF WakeInv, WakeTypeOK, TimerType
<1>6. BatchKeepsWakes'
  BY <1>2 DEF BatchKeepsWakes, WakeInv
<1>7. RunningGuards'
  BY <1>1, <1>2 DEF RunningGuards, WakeInv
<1>8. PendingWakeIsScheduled'
  BY <1>4 DEF PendingWakeIsScheduled
<1> QED
  BY <1>1, <1>2, <1>5, <1>6, <1>7, <1>8 DEF WakeInv

LEMMA SetHandlerKeeps ==
  ASSUME WakeInv, NEW h \in Handler, SetHeartbeatWakeHandler(h)
  PROVE  WakeInv' /\ handler' = h /\ UNCHANGED <<pending, batch>>
<1>1. /\ handler' = h /\ UNCHANGED <<pending, batch>>
      /\ running' = FALSE /\ scheduled' = FALSE
      /\ generation' = generation + 1
      /\ generationOf' = [generationOf EXCEPT ![h] = generation']
      /\ replaced' = (InFlight # {})
  BY DEF SetHeartbeatWakeHandler
<1>2. /\ timer' \in TimerType
      /\ (\E t \in Target : pending[t] # NoWake) => timer'.kind # "none"
  <2>1. CoalesceDelay \in Nat
    BY DelayAssumption
  <2> QED
    BY <2>1, NoTimerType, ScheduleArms DEF SetHeartbeatWakeHandler
<1>3. WakeTypeOK'
  <2>1. generation' \in Nat /\ generationOf' \in [Handler -> Nat] /\ replaced' \in BOOLEAN
    BY <1>1 DEF WakeInv, WakeTypeOK
  <2> QED
    BY <1>1, <1>2, <2>1 DEF WakeInv, WakeTypeOK, TimerType, InFlight
<1> QED
  BY <1>1, <1>2, <1>3
     DEF WakeInv, BatchKeepsWakes, RunningGuards, PendingWakeIsScheduled, InFlight

LEMMA DisposeKeeps ==
  ASSUME WakeInv, NEW h \in Handler, Dispose(h)
  PROVE  WakeInv' /\ handler' \in {handler, NoHandler} /\ UNCHANGED <<pending, batch>>
<1>1. /\ handler' \in {handler, NoHandler} /\ generation' \in Nat
      /\ UNCHANGED <<generationOf, pending, scheduled, running, timer, batch, replaced>>
  BY DEF Dispose, WakeInv, WakeTypeOK
<1>2. WakeTypeOK'
  BY <1>1 DEF WakeInv, WakeTypeOK, InFlight
<1> QED
  BY <1>1, <1>2 DEF WakeInv, BatchKeepsWakes, RunningGuards, PendingWakeIsScheduled, InFlight

-----------------------------------------------------------------------------
(* The runner.                                                             *)

(* The part of the type invariant that is the runner's own.                *)
OwnTypeOK ==
  /\ heartbeatsEnabled \in BOOLEAN
  /\ runner \in [Handler -> {"off", "on", "stopped"}]
  /\ agents \in [Handler -> BOOLEAN]
  /\ interval \in [Handler -> BOOLEAN]
  /\ lapsed \in [Handler -> BOOLEAN]
  /\ requests \in 0 .. MaxRequests
  /\ updates \in 0 .. MaxUpdates

LEMMA TypeParts == RunnerTypeOK <=> WakeTypeOK /\ OwnTypeOK
  BY DEF RunnerTypeOK, OwnTypeOK

(* The same after a step.                                                  *)
LEMMA TypePartsNext == WakeInv' /\ OwnTypeOK' => RunnerTypeOK'
  BY DEF RunnerTypeOK, OwnTypeOK, WakeInv

LEMMA Initially == HeartbeatInit => IndInv
<1> SUFFICES ASSUME HeartbeatInit PROVE IndInv
  OBVIOUS
<1>1. WakeInv
  BY WakeInitially DEF HeartbeatInit
<1>2. OwnTypeOK
  BY RequestAssumption DEF HeartbeatInit, OwnTypeOK
<1>3. RunnerTypeOK
  BY <1>1, <1>2, TypeParts DEF WakeInv
<1>4. IntervalCarried
  BY DEF HeartbeatInit, IntervalCarried
<1> QED
  BY <1>1, <1>3, <1>4 DEF IndInv

LEMMA StartKeeps ==
  ASSUME IndInv, NEW h \in Handler, StartHeartbeatRunner(h)
  PROVE  IndInv'
<1>1. WakeInv' /\ handler' = h
  BY SetHandlerKeeps DEF IndInv, StartHeartbeatRunner
<1>2. OwnTypeOK
  BY TypeParts DEF IndInv
<1>3. runner'[h] = "on" /\ agents'[h] /\ OwnTypeOK'
  BY <1>2 DEF OwnTypeOK, StartHeartbeatRunner, ScheduleNext
<1>4. interval'[h]
  BY <1>2, <1>3 DEF OwnTypeOK, StartHeartbeatRunner, ScheduleNext
<1>5. IntervalCarried'
  BY <1>1, <1>4 DEF IntervalCarried, Carried
<1> QED
  BY <1>1, <1>3, <1>5, TypePartsNext DEF IndInv

LEMMA WakeUnchanged ==
  ASSUME WakeInv, UNCHANGED wakeVars
  PROVE  WakeInv'
  BY DEF wakeVars, WakeInv, WakeTypeOK, BatchKeepsWakes, RunningGuards,
         PendingWakeIsScheduled, InFlight

LEMMA UpdateKeeps ==
  ASSUME IndInv, NEW h \in Handler, NEW some \in BOOLEAN, UpdateConfig(h, some)
  PROVE  IndInv'
<1>1. WakeInv' /\ UNCHANGED <<handler, pending, batch>>
  BY WakeUnchanged DEF IndInv, UpdateConfig, wakeVars
<1>2. OwnTypeOK
  BY TypeParts DEF IndInv
<1>3. OwnTypeOK'
  BY <1>2, RequestAssumption DEF OwnTypeOK, UpdateConfig, ScheduleNext
<1>4. IntervalCarried'
  <2> SUFFICES ASSUME NEW g \in Handler,
                      handler' = g /\ runner'[g] = "on" /\ agents'[g] /\ ~lapsed'[g]
               PROVE  Carried(g)'
    BY DEF IntervalCarried
  <2>1. CASE g = h
    <3>1. interval'[h] = agents'[h]
      BY <1>2 DEF OwnTypeOK, UpdateConfig, ScheduleNext
    <3> QED
      BY <2>1, <3>1 DEF Carried
  <2>2. CASE g # h
    <3>1. /\ runner'[g] = runner[g] /\ agents'[g] = agents[g]
          /\ lapsed'[g] = lapsed[g] /\ interval'[g] = interval[g]
      BY <1>2, <2>2 DEF OwnTypeOK, UpdateConfig, ScheduleNext
    <3> QED
      BY <1>1, <3>1 DEF IndInv, IntervalCarried, Carried, CarriedBy, InFlight
  <2> QED
    BY <2>1, <2>2
<1> QED
  BY <1>1, <1>3, <1>4, TypePartsNext DEF IndInv

LEMMA StopKeeps ==
  ASSUME IndInv, NEW h \in Handler, StopRunner(h)
  PROVE  IndInv'
<1>1. WakeInv' /\ handler' \in {handler, NoHandler} /\ UNCHANGED <<pending, batch>>
  BY DisposeKeeps DEF IndInv, StopRunner
<1>2. OwnTypeOK
  BY TypeParts DEF IndInv
<1>3. OwnTypeOK' /\ runner'[h] = "stopped"
  BY <1>2 DEF OwnTypeOK, StopRunner
<1>4. IntervalCarried'
  <2> SUFFICES ASSUME NEW g \in Handler,
                      handler' = g /\ runner'[g] = "on" /\ agents'[g] /\ ~lapsed'[g]
               PROVE  Carried(g)'
    BY DEF IntervalCarried
  <2>1. g # h /\ handler = g
    BY <1>1, <1>3 DEF Handler, NoHandler
  <2>2. /\ runner'[g] = runner[g] /\ agents'[g] = agents[g]
        /\ lapsed'[g] = lapsed[g] /\ interval'[g] = interval[g]
    BY <1>2, <2>1 DEF OwnTypeOK, StopRunner
  <2> QED
    BY <1>1, <2>1, <2>2 DEF IndInv, IntervalCarried, Carried, CarriedBy, InFlight
<1> QED
  BY <1>1, <1>3, <1>4, TypePartsNext DEF IndInv

LEMMA IntervalFiresKeeps ==
  ASSUME IndInv, NEW h \in Handler, IntervalFires(h)
  PROVE  IndInv'
<1>1. WakeInv' /\ pending'[All] # NoWake
  <2>1. All \in Target /\ Interval \in Priority /\ 0 \in Nat
    BY AllAssumption DEF Interval, Priority
  <2> QED
    BY <2>1, RequestKeeps DEF IndInv, IntervalFires
<1>2. OwnTypeOK'
  <2>1. OwnTypeOK
    BY TypeParts DEF IndInv
  <2> QED
    BY <2>1 DEF OwnTypeOK, IntervalFires
<1>3. IntervalCarried'
  BY <1>1 DEF IntervalCarried, Carried
<1> QED
  BY <1>1, <1>2, <1>3, TypePartsNext DEF IndInv

(* A step that keeps the batches and the runner, and no pending wake of    *)
(* all agents is taken.                                                    *)
LEMMA StillCarried ==
  ASSUME IntervalCarried, UNCHANGED <<handler, batch, runner, agents, interval, lapsed>>,
         pending[All] # NoWake => pending'[All] # NoWake
  PROVE  IntervalCarried'
  BY DEF IntervalCarried, Carried, CarriedBy, InFlight

LEMMA OutsideRequestKeeps ==
  ASSUME IndInv, NEW t \in Target, NEW p \in Requested, NEW d \in Delay, Request(t, p, d)
  PROVE  IndInv'
<1>1. p \in Priority /\ d \in Nat /\ All \in Target
  BY AllAssumption, DelayAssumption
<1>2. WakeInv' /\ (pending[All] # NoWake => pending'[All] # NoWake)
  BY <1>1, RequestKeeps DEF IndInv, Request
<1>3. OwnTypeOK'
  <2>1. OwnTypeOK
    BY TypeParts DEF IndInv
  <2> QED
    BY <2>1, RequestAssumption DEF OwnTypeOK, Request
<1>4. IntervalCarried'
  BY <1>2, StillCarried DEF IndInv, Request, RequestHeartbeatNow
<1> QED
  BY <1>2, <1>3, <1>4, TypePartsNext DEF IndInv

LEMMA SwitchKeeps ==
  ASSUME IndInv, NEW on \in BOOLEAN, SetHeartbeatsEnabled(on)
  PROVE  IndInv'
<1>1. WakeInv'
  BY WakeUnchanged DEF IndInv, SetHeartbeatsEnabled
<1>2. OwnTypeOK'
  <2>1. OwnTypeOK
    BY TypeParts DEF IndInv
  <2> QED
    BY <2>1, RequestAssumption DEF OwnTypeOK, SetHeartbeatsEnabled
<1>3. IntervalCarried'
  BY StillCarried DEF IndInv, SetHeartbeatsEnabled, wakeVars
<1> QED
  BY <1>1, <1>2, <1>3, TypePartsNext DEF IndInv

LEMMA OtherTimerKeeps ==
  ASSUME IndInv, WakeTimerCountsDown \/ WakeTimerOther
  PROVE  IndInv'
<1>1. WakeInv' /\ UNCHANGED <<handler, pending, batch>>
  BY TimerKeeps DEF IndInv, WakeTimerCountsDown, WakeTimerOther
<1>2. UNCHANGED runnerVars
  BY DEF WakeTimerCountsDown, WakeTimerOther
<1>3. OwnTypeOK'
  <2>1. OwnTypeOK
    BY TypeParts DEF IndInv
  <2> QED
    BY <1>2, <2>1 DEF OwnTypeOK, runnerVars
<1>4. IntervalCarried'
  BY <1>1, <1>2, StillCarried DEF IndInv, runnerVars
<1> QED
  BY <1>1, <1>3, <1>4, TypePartsNext DEF IndInv

(* A batch takes the wake of all agents over: the call for it gets past    *)
(* the entry of run(), or the switch turned it away.                       *)
LEMMA TakesWakesKeeps ==
  ASSUME IndInv, NEW b \in Slot, NEW w \in Wake, WakeTimerTakesBatch(b, w)
  PROVE  IndInv'
<1> DEFINE e == Enters(handler)
<1>1. e \in BOOLEAN /\ TimerTakesBatch(b, w, e)
  BY DEF WakeTimerTakesBatch, Enters
<1>2. /\ WakeInv'
      /\ UNCHANGED handler /\ handler \in Handler
      /\ b \notin InFlight /\ InFlight' = InFlight \cup {b}
      /\ \A c \in InFlight : batch'[c] = batch[c]
      /\ batch'[b].handler = handler /\ batch'[b].entered = e
      /\ batch'[b].current = w /\ w \in PendingBatch
      /\ batch'[b].todo = PendingBatch \ {w}
  <2> HIDE DEF e
  <2> QED
    BY <1>1, TakesBatchKeeps DEF IndInv
<1>3. OwnTypeOK
  BY TypeParts DEF IndInv
<1>4. /\ OwnTypeOK'
      /\ UNCHANGED <<runner, agents, interval>>
      /\ lapsed' = [lapsed EXCEPT ![handler] = @ \/ TurnedAway(handler)]
  BY <1>2, <1>3 DEF OwnTypeOK, WakeTimerTakesBatch, TurnedAway
<1>5. IntervalCarried'
  <2> SUFFICES ASSUME NEW g \in Handler,
                      handler' = g /\ runner'[g] = "on" /\ agents'[g] /\ ~lapsed'[g]
               PROVE  Carried(g)'
    BY DEF IntervalCarried
  <2>1. g = handler /\ ~lapsed[g] /\ ~TurnedAway(g) /\ runner[g] = "on" /\ agents[g]
    BY <1>2, <1>3, <1>4 DEF OwnTypeOK
  <2>2. e
    BY <1>3, <2>1 DEF TurnedAway, Enters, OwnTypeOK
  <2>3. Carried(g)
    BY <2>1 DEF IndInv, IntervalCarried
  <2>4. CASE interval[g]
    BY <1>4, <2>4 DEF Carried
  <2>5. CASE pending[All] # NoWake
    <3>1. PICK v \in PendingBatch : v.target = All
      BY <2>5, PendingBatchFacts, AllAssumption DEF IndInv, WakeInv
    <3>2. CarriedBy(b, g)'
      BY <1>2, <2>1, <2>2, <3>1 DEF CarriedBy
    <3> QED
      BY <1>2, <3>2 DEF Carried
  <2>6. CASE \E c \in InFlight : CarriedBy(c, g)
    <3>1. PICK c \in InFlight : CarriedBy(c, g)
      BY <2>6
    <3>2. CarriedBy(c, g)'
      BY <1>2, <3>1 DEF CarriedBy
    <3> QED
      BY <1>2, <3>2 DEF Carried
  <2> QED
    BY <2>3, <2>4, <2>5, <2>6 DEF Carried
<1> QED
  BY <1>2, <1>4, <1>5, TypePartsNext DEF IndInv

(* What run() returning does to the runners: a runner that is not the one  *)
(* of the batch sees nothing, and an armed one has its interval again.     *)
LEMMA RunReturnsFacts ==
  ASSUME IndInv, NEW b \in InFlight, NEW o \in Outcomes, NEW again \in BOOLEAN,
         RunReturns(b, o, again),
         UNCHANGED <<heartbeatsEnabled, runner, agents, requests, updates>>
  PROVE  /\ OwnTypeOK'
         /\ \A g \in Handler : g # batch[b].handler =>
              interval'[g] = interval[g] /\ lapsed'[g] = lapsed[g]
         /\ batch[b].entered \/ o = "done"
         /\ LET h == batch[b].handler
            IN  \/ runner[h] = "on" /\ agents[h] => interval'[h]
                \/ /\ ~(batch[b].entered /\ o = "done")
                   /\ interval'[h] = interval[h]
                   /\ ~lapsed'[h] => ~lapsed[h] /\ ~(again /\ TurnedAway(h))
<1>1. OwnTypeOK
  BY TypeParts DEF IndInv
<1>2. batch[b].handler \in Handler /\ batch[b].entered \in BOOLEAN
  BY DEF IndInv, WakeInv, WakeTypeOK, Batch
<1>3. PICK armed \in BOOLEAN :
        LET h == batch[b].handler
        IN  /\ batch[b].entered /\ o = "done" => armed
            /\ batch[b].entered \/ o = "done"
            /\ interval' = IF armed /\ runner[h] = "on"
                           THEN [interval EXCEPT ![h] = agents[h]] ELSE interval
            /\ lapsed' = [lapsed EXCEPT ![h] = (@ /\ ~armed) \/ (again /\ TurnedAway(h))]
  BY DEF RunReturns, FinallyArms
<1>4. OwnTypeOK'
  BY <1>1, <1>2, <1>3 DEF OwnTypeOK, TurnedAway
<1> QED
  BY <1>1, <1>2, <1>3, <1>4 DEF OwnTypeOK

(* A step of batch b loses none of the other batches, and none of the      *)
(* pending wakes; what b carried for the runner g has to be carried on.    *)
LEMMA BatchStepCarries ==
  ASSUME IndInv, NEW b \in InFlight, NEW g \in Handler,
         Carried(g),
         interval[g] => interval'[g],
         pending[All] # NoWake => pending'[All] # NoWake,
         InFlight \ {b} \subseteq InFlight',
         \A c \in InFlight \ {b} : batch'[c] = batch[c],
         CarriedBy(b, g) => Carried(g)'
  PROVE  Carried(g)'
<1>1. CASE interval[g] \/ pending[All] # NoWake
  BY <1>1 DEF Carried
<1>2. CASE \E c \in InFlight : CarriedBy(c, g)
  <2>1. PICK c \in InFlight : CarriedBy(c, g)
    BY <1>2
  <2>2. CASE c = b
    BY <2>1, <2>2
  <2>3. CASE c # b
    <3>1. CarriedBy(c, g)'
      BY <2>1, <2>3 DEF CarriedBy
    <3> QED
      BY <2>3, <3>1 DEF Carried
  <2> QED
    BY <2>2, <2>3
<1> QED
  BY <1>1, <1>2 DEF Carried

LEMMA WakeReturnsKeeps ==
  ASSUME IndInv, NEW b \in InFlight, NEW o \in Outcomes, NEW w \in Wake,
         WakeReturns(b, o, w)
  PROVE  IndInv'
<1> DEFINE h == batch[b].handler
<1> DEFINE e == Enters(h)
<1>1. e \in BOOLEAN /\ HandlerGoesOn(b, o, w, e) /\ RunReturns(b, o, TRUE)
      /\ UNCHANGED <<heartbeatsEnabled, runner, agents, requests, updates>>
  BY DEF WakeReturns, Enters
<1>2. /\ WakeInv'
      /\ UNCHANGED handler
      /\ o # "throws" /\ pending' = PendingAfter(b, o)
      /\ InFlight' = InFlight /\ \A c \in InFlight \ {b} : batch'[c] = batch[c]
      /\ batch'[b].handler = batch[b].handler /\ batch'[b].entered = e
      /\ batch'[b].current = w /\ batch'[b].todo = batch[b].todo \ {w}
      /\ w \in batch[b].todo
  <2> HIDE DEF e
  <2> QED
    BY <1>1, GoesOnKeeps DEF IndInv
<1>3. /\ OwnTypeOK'
      /\ \A g \in Handler : g # h => interval'[g] = interval[g] /\ lapsed'[g] = lapsed[g]
      /\ batch[b].entered \/ o = "done"
      /\ \/ runner[h] = "on" /\ agents[h] => interval'[h]
         \/ /\ ~(batch[b].entered /\ o = "done") /\ interval'[h] = interval[h]
            /\ ~lapsed'[h] => ~lapsed[h] /\ ~TurnedAway(h)
  <2>1. TRUE \in BOOLEAN
    OBVIOUS
  <2> QED
    BY <1>1, <2>1, RunReturnsFacts
<1>4. /\ pending[All] # NoWake => pending'[All] # NoWake
      /\ o = "busy" => pending'[batch[b].current.target] # NoWake
  BY <1>2, SettledFacts, AllAssumption DEF IndInv
<1>5. IntervalCarried'
  <2> SUFFICES ASSUME NEW g \in Handler,
                      handler' = g /\ runner'[g] = "on" /\ agents'[g] /\ ~lapsed'[g]
               PROVE  Carried(g)'
    BY DEF IntervalCarried
  <2>1. handler = g /\ runner[g] = "on" /\ agents[g]
    BY <1>1, <1>2
  <2>2. CASE interval'[g]
    BY <2>2 DEF Carried
  <2>3. CASE ~interval'[g]
    <3>1. /\ interval'[g] = interval[g] /\ ~lapsed[g] /\ (g = h => ~TurnedAway(g))
          /\ g = h => ~(batch[b].entered /\ o = "done")
      BY <1>3, <2>1, <2>3
    <3>2. Carried(g)
      BY <2>1, <3>1 DEF IndInv, IntervalCarried
    <3>3. ASSUME CarriedBy(b, g) PROVE Carried(g)'
      <4>1. g = h /\ e
        <5>1. g = h
          BY <3>3 DEF CarriedBy
        <5>2. heartbeatsEnabled \in BOOLEAN
          BY DEF IndInv, RunnerTypeOK
        <5> QED
          BY <2>1, <3>1, <5>1, <5>2 DEF Enters, TurnedAway
      <4>2. CASE \E v \in batch[b].todo : v.target = All
        <5>1. CarriedBy(b, g)'
          BY <1>2, <4>1, <4>2 DEF CarriedBy
        <5> QED
          BY <1>2, <5>1 DEF Carried
      <4>3. CASE batch[b].entered /\ batch[b].current.target = All
        <5>1. o = "busy"
          BY <1>2, <3>1, <4>1, <4>3 DEF Outcomes
        <5> QED
          BY <1>4, <4>3, <5>1 DEF Carried
      <4> QED
        BY <3>3, <4>2, <4>3 DEF CarriedBy
    <3> QED
      BY <1>2, <1>4, <3>1, <3>2, <3>3, BatchStepCarries
  <2> QED
    BY <2>2, <2>3
<1> QED
  BY <1>2, <1>3, <1>5, TypePartsNext DEF IndInv

LEMMA LastWakeReturnsKeeps ==
  ASSUME IndInv, NEW b \in InFlight, NEW o \in Outcomes, LastWakeReturns(b, o)
  PROVE  IndInv'
<1> DEFINE h == batch[b].handler
<1>1. BatchEnds(b, o) /\ RunReturns(b, o, FALSE)
      /\ UNCHANGED <<heartbeatsEnabled, runner, agents, requests, updates>>
  BY DEF LastWakeReturns
<1>2. /\ WakeInv'
      /\ UNCHANGED handler
      /\ pending' = PendingAfter(b, o)
      /\ InFlight' = InFlight \ {b} /\ \A c \in InFlight' : batch'[c] = batch[c]
      /\ o = "throws" \/ batch[b].todo = {}
  BY <1>1, BatchEndsKeeps DEF IndInv
<1>3. /\ OwnTypeOK'
      /\ \A g \in Handler : g # h => interval'[g] = interval[g] /\ lapsed'[g] = lapsed[g]
      /\ \/ runner[h] = "on" /\ agents[h] => interval'[h]
         \/ /\ ~(batch[b].entered /\ o = "done") /\ interval'[h] = interval[h]
            /\ ~lapsed'[h] => ~lapsed[h]
  <2>1. FALSE \in BOOLEAN
    OBVIOUS
  <2> QED
    BY <1>1, <2>1, RunReturnsFacts
<1>4. /\ pending[All] # NoWake => pending'[All] # NoWake
      /\ o = "busy" => pending'[batch[b].current.target] # NoWake
      /\ o = "throws" => \A w \in batch[b].all : pending'[w.target] # NoWake
  BY <1>2, SettledFacts, AllAssumption DEF IndInv
<1>5. IntervalCarried'
  <2> SUFFICES ASSUME NEW g \in Handler,
                      handler' = g /\ runner'[g] = "on" /\ agents'[g] /\ ~lapsed'[g]
               PROVE  Carried(g)'
    BY DEF IntervalCarried
  <2>1. handler = g /\ runner[g] = "on" /\ agents[g]
    BY <1>1, <1>2
  <2>2. CASE interval'[g]
    BY <2>2 DEF Carried
  <2>3. CASE ~interval'[g]
    <3>1. /\ interval'[g] = interval[g] /\ ~lapsed[g]
          /\ g = h => ~(batch[b].entered /\ o = "done")
      BY <1>3, <2>1, <2>3
    <3>2. Carried(g)
      BY <2>1, <3>1 DEF IndInv, IntervalCarried
    <3>3. ASSUME CarriedBy(b, g) PROVE Carried(g)'
      <4>1. CASE o = "throws"
        <5>1. batch[b].todo \cup {batch[b].current} \subseteq batch[b].all
          BY DEF IndInv, WakeInv, BatchKeepsWakes
        <5>2. pending'[All] # NoWake
          BY <1>4, <3>3, <4>1, <5>1 DEF CarriedBy
        <5> QED
          BY <5>2 DEF Carried
      <4>2. CASE o # "throws"
        <5>1. o = "busy" /\ batch[b].current.target = All
          BY <1>2, <3>1, <3>3, <4>2 DEF CarriedBy, Outcomes
        <5> QED
          BY <1>4, <5>1 DEF Carried
      <4> QED
        BY <4>1, <4>2
    <3> QED
      BY <1>2, <1>4, <3>1, <3>2, <3>3, BatchStepCarries
  <2> QED
    BY <2>2, <2>3
<1> QED
  BY <1>2, <1>3, <1>5, TypePartsNext DEF IndInv

LEMMA StutterKeeps ==
  ASSUME IndInv, UNCHANGED heartbeatVars
  PROVE  IndInv'
<1>1. WakeInv'
  BY WakeUnchanged DEF IndInv, heartbeatVars
<1>2. OwnTypeOK'
  <2>1. OwnTypeOK
    BY TypeParts DEF IndInv
  <2> QED
    BY <2>1 DEF OwnTypeOK, heartbeatVars, runnerVars
<1>3. IntervalCarried'
  BY StillCarried DEF IndInv, heartbeatVars, wakeVars, runnerVars
<1> QED
  BY <1>1, <1>2, <1>3, TypePartsNext DEF IndInv

(* IndInv is inductive.                                                    *)
LEMMA Invariant == HeartbeatSpec => []IndInv
<1>1. IndInv /\ [HeartbeatNext]_heartbeatVars => IndInv'
  <2> SUFFICES ASSUME IndInv, [HeartbeatNext]_heartbeatVars PROVE IndInv'
    OBVIOUS
  <2>1. ASSUME NEW h \in Handler, StartHeartbeatRunner(h) PROVE IndInv'
    BY <2>1, StartKeeps
  <2>2. ASSUME NEW h \in Handler, NEW some \in BOOLEAN, UpdateConfig(h, some) PROVE IndInv'
    BY <2>2, UpdateKeeps
  <2>3. ASSUME NEW h \in Handler, StopRunner(h) PROVE IndInv'
    BY <2>3, StopKeeps
  <2>4. ASSUME NEW h \in Handler, IntervalFires(h) PROVE IndInv'
    BY <2>4, IntervalFiresKeeps
  <2>5. ASSUME NEW t \in Target, NEW p \in Requested, NEW d \in Delay, Request(t, p, d)
        PROVE  IndInv'
    BY <2>5, OutsideRequestKeeps
  <2>6. ASSUME NEW on \in BOOLEAN, SetHeartbeatsEnabled(on) PROVE IndInv'
    BY <2>6, SwitchKeeps
  <2>7. ASSUME TimerStep PROVE IndInv'
    BY <2>7, OtherTimerKeeps, TakesWakesKeeps DEF TimerStep
  <2>8. ASSUME NEW b \in InFlight, BatchStep(b) PROVE IndInv'
    BY <2>8, WakeReturnsKeeps, LastWakeReturnsKeeps DEF BatchStep
  <2>9. CASE UNCHANGED heartbeatVars
    BY <2>9, StutterKeeps
  <2> QED
    BY <2>1, <2>2, <2>3, <2>4, <2>5, <2>6, <2>7, <2>8, <2>9 DEF HeartbeatNext
<1> QED
  BY <1>1, Initially, PTL DEF HeartbeatSpec

-----------------------------------------------------------------------------
(* The state of the wake layer and of the runner stays within its types;   *)
(* in particular the merge of requests (queuePendingWakeReason) yields a   *)
(* priority for every target.                                              *)
THEOREM HeartbeatTypeCorrect == HeartbeatSpec => []RunnerTypeOK
<1>1. IndInv => RunnerTypeOK
  BY DEF IndInv
<1> QED
  BY <1>1, Invariant, PTL

(* A pending wake has an armed timer or a batch whose finally block arms   *)
(* one, whatever the handler answers and whenever it is replaced.          *)
THEOREM WakesAreNotForgotten == HeartbeatSpec => []PendingWakeIsScheduled
<1>1. IndInv => PendingWakeIsScheduled
  BY DEF IndInv, WakeInv
<1> QED
  BY <1>1, Invariant, PTL

(* Two batches of the wake layer overlap only after a handler was replaced *)
(* in the middle of one: `running' guards all others.                      *)
THEOREM BatchesDoNotOverlap == HeartbeatSpec => []OneBatchUnlessReplaced
<1>1. IndInv => OneBatchUnlessReplaced
  <2> SUFFICES ASSUME IndInv, ~replaced PROVE ~(Cardinality(InFlight) > 1)
    BY DEF OneBatchUnlessReplaced
  <2>1. \A b, c \in InFlight : b = c
    BY DEF IndInv, WakeInv, RunningGuards
  <2>2. CASE InFlight = {}
    BY <2>2, FS_EmptySet
  <2>3. CASE InFlight # {}
    <3>1. PICK b \in InFlight : InFlight = {b}
      BY <2>1, <2>3
    <3> QED
      BY <3>1, FS_Singleton
  <2> QED
    BY <2>2, <2>3
<1> QED
  BY <1>1, Invariant, PTL

(* The interval of the registered runner is never lost between its timer,  *)
(* the pending wake, the batch and run(), unless the switch turned a wake  *)
(* away.                                                                   *)
THEOREM IntervalIsNotLost == HeartbeatSpec => []IntervalGoesOn
<1>1. IndInv => IntervalGoesOn
  <2> SUFFICES ASSUME IndInv, NEW h \in Handler, Carried(h) PROVE WakeOfAllComing(h)
    BY DEF IntervalGoesOn, IndInv, IntervalCarried
  <2> QED
    BY DEF Carried, CarriedBy, WakeOfAllComing
<1> QED
  BY <1>1, Invariant, PTL
=============================================================================
