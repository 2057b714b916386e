---------------------------- MODULE FollowupQueue ----------------------------
(***************************************************************************)
(* The followup queue of one session (src/auto-reply/reply/queue/*.ts with *)
(* src/utils/queue-helpers.ts): messages that arrive while an agent run is *)
(* active wait here and are drained into further runs.                     *)
(*                                                                         *)
(* FOLLOWUP_QUEUES maps the session key to a queue object.  A drain keeps  *)
(* its object by reference while the map may lose or replace it, so the    *)
(* model has several objects and the map entry is a variable of its own.   *)
(* One turn of the event loop is one action: the code between two awaits   *)
(* that really suspend (the debounce timer and the agent run).             *)
(***************************************************************************)
EXTENDS Naturals, Sequences, FiniteSets, SequencesExt

CONSTANTS
  Message,       \* inbound messages, told apart by message id
  Route,         \* resolveCrossChannelKey: a key, "none" or "cross"
  Setting,       \* QueueSettings: the mode, cap and drop policy of an enqueue
  MaxQueue,      \* bound: queue objects created
  MaxArrivals,   \* bound: deliveries of one message by its channel
  MaxFailures,   \* bound: followup runs that throw
  MaxClears,     \* bound: calls of clearSessionQueues
  MaxExpiries    \* bound: message ids that leave the dedupe cache

Queue == 1 .. MaxQueue

ASSUME FollowupAssumption ==
  /\ IsFiniteSet(Message)
  /\ Setting # {}
  /\ Setting \subseteq [mode : {"collect", "followup"}, cap : Nat \ {0},
                        dropPolicy : {"summarize", "old", "new"}]
  /\ MaxQueue \in Nat

VARIABLES
  registered,    \* FOLLOWUP_QUEUES.get(key), 0 for undefined
  callback,      \* FOLLOWUP_RUN_CALLBACKS.has(key)
  created,       \* queue objects created so far
  queue,         \* FollowupQueueState
  drain,         \* the asynchronous function of scheduleFollowupDrain
  recent,        \* RECENT_QUEUE_MESSAGE_IDS
  runActive,     \* an agent run of the session outside the drains
  arrivals, failures, clears, expiries,
  acceptedAt,    \* history: the place of a message in the order of acceptance
  delivered,     \* history: how often a message was the prompt of a successful run
  dropped,       \* history: messages discarded by a drop policy
  cleared        \* history: messages discarded by clearSessionQueues

registry == <<registered, callback, created, queue, drain>>
history == <<acceptedAt, delivered, dropped, cleared>>
bounds == <<arrivals, failures, clears, expiries>>
vars == <<registry, recent, runActive, bounds, history>>

NewQueue(s) ==
  [items |-> <<>>, draining |-> FALSE, mode |-> s.mode, cap |-> s.cap,
   dropPolicy |-> s.dropPolicy, overflow |-> {}, lastRun |-> FALSE]
IdleDrain == [at |-> "idle", force |-> FALSE, kind |-> "item",
              batch |-> <<>>, summary |-> {}]

FollowupTypeOK ==
  /\ registered \in 0 .. created
  /\ callback \in BOOLEAN /\ runActive \in BOOLEAN
  /\ \A q \in Queue :
       /\ queue[q].items \in Seq(Message)
       /\ queue[q].overflow \subseteq Message
       /\ drain[q].at \in {"idle", "debounce", "run"}
       /\ drain[q].at # "idle" <=> queue[q].draining
  /\ recent \subseteq Message

Init ==
  /\ registered = 0 /\ callback = FALSE /\ created = 0
  /\ queue = [q \in Queue |-> NewQueue(CHOOSE s \in Setting : TRUE)]
  /\ drain = [q \in Queue |-> IdleDrain]
  /\ recent = {} /\ runActive = TRUE
  /\ arrivals = [m \in Message |-> 0]
  /\ failures = 0 /\ clears = 0 /\ expiries = 0
  /\ acceptedAt = [m \in Message |-> 0]
  /\ delivered = [m \in Message |-> 0]
  /\ dropped = {} /\ cleared = {}

-----------------------------------------------------------------------------
(* The registry as a value, so that the code's calls compose.              *)
Now == [registered |-> registered, callback |-> callback, queue |-> queue, drain |-> drain]
Becomes(r) ==
  /\ registered' = r.registered /\ callback' = r.callback
  /\ queue' = r.queue /\ drain' = r.drain

IsEmpty(q) == q.items = <<>> /\ q.overflow = {}

(* scheduleFollowupDrain: take the registered object unless it is being    *)
(* drained; an empty one goes straight through the finally block.          *)
ScheduleFollowupDrain(r) ==
  LET q == r.registered IN
  IF q = 0 THEN r
  ELSE IF r.queue[q].draining THEN r
  ELSE IF IsEmpty(r.queue[q]) THEN [r EXCEPT !.registered = 0, !.callback = FALSE]
  ELSE [r EXCEPT !.queue[q].draining = TRUE, !.callback = TRUE,
                 !.drain[q] = [IdleDrain EXCEPT !.at = "debounce"]]

(* Mutant: the finally block does not look at the queue again.             *)
EndDrainUnchecked(r, q) ==
  [r EXCEPT !.queue[q].draining = FALSE, !.drain[q] = IdleDrain,
            !.registered = 0, !.callback = FALSE]

(* The finally block: forget the key's queue if this one is empty, else    *)
(* schedule again.  Both look the key up, not this object.                 *)
EndDrain(r, q) ==
  LET ended == [r EXCEPT !.queue[q].draining = FALSE, !.drain[q] = IdleDrain]
  IN  IF IsEmpty(ended.queue[q])
      THEN [ended EXCEPT !.registered = 0, !.callback = FALSE]
      ELSE ScheduleFollowupDrain(ended)

(* The head of the while loop.                                             *)
LoopDrain(r, q) ==
  IF IsEmpty(r.queue[q]) THEN EndDrain(r, q)
  ELSE [r EXCEPT !.drain[q].at = "debounce", !.drain[q].batch = <<>>,
                 !.drain[q].summary = {}]

(* Mutant: messages without a route are taken to go anywhere.              *)
HasCrossChannelItemsLoose(items) ==
  LET keys == {Route[items[i]] : i \in 1 .. Len(items)}
  IN  "cross" \in keys \/ Cardinality(keys \ {"none"}) > 1

HasCrossChannelItems(items) ==
  LET keys == {Route[items[i]] : i \in 1 .. Len(items)}
      keyed == keys \ {"none"}
  IN  \/ "cross" \in keys
      \/ keyed # {} /\ (keyed # keys \/ Cardinality(keyed) > 1)

-----------------------------------------------------------------------------
(* Mutant: a full queue makes room for one message.                        *)
DropCountOne(q) == IF Len(q.items) < q.cap THEN 0 ELSE 1

(* applyQueueDropPolicy: what leaves the front of a full queue.            *)
DropCount(q) == IF Len(q.items) < q.cap THEN 0 ELSE Len(q.items) - q.cap + 1

(* droppedCount and summaryLines stand for the set of messages that the    *)
(* next summary will count.                                                *)
WithDrop(q) ==
  LET n == DropCount(q)
      kept == [q EXCEPT !.items = SubSeq(@, n + 1, Len(@))]
  IN  IF q.dropPolicy # "summarize" THEN kept
      ELSE [kept EXCEPT !.overflow = @ \cup ToSet(SubSeq(q.items, 1, n))]

(* getFollowupQueue: the registered object under the new settings, or a    *)
(* new one, which is registered at once.                                   *)
GetFollowupQueue(s) ==
  IF registered = 0
  THEN [Now EXCEPT !.registered = created + 1, !.queue[created + 1] = NewQueue(s)]
  ELSE [Now EXCEPT !.queue[registered].mode = s.mode, !.queue[registered].cap = s.cap,
                   !.queue[registered].dropPolicy = s.dropPolicy]

MayArrive(m) ==
  /\ arrivals[m] < MaxArrivals
  /\ registered = 0 => created < MaxQueue
  /\ arrivals' = [arrivals EXCEPT ![m] = @ + 1]
  /\ created' = IF registered = 0 THEN created + 1 ELSE created

(* isRunActive() after the enqueue: the run that was active, or the one a  *)
(* drain has started.                                                      *)
RunIsActive(isActive) ==
  /\ runActive => isActive
  /\ isActive => runActive \/ \E q \in Queue : drain[q].at = "run"

Recheck(r, isActive) == IF isActive THEN r ELSE ScheduleFollowupDrain(r)

(* Mutant: only the dedupe cache is asked.                                 *)
AlreadyQueuedCacheOnly(m, items) == m \in recent

(* The two dedupe checks of enqueueFollowupRun.                            *)
AlreadyQueued(m, items) == m \in recent \/ Contains(items, m)

(* enqueueFollowupRun returns false: a duplicate, or a full queue under    *)
(* the policy "new".  The object exists afterwards all the same.           *)
SkipMessage(m, s, isActive) ==
  LET r == GetFollowupQueue(s)
      q == r.queue[r.registered]
      duplicate == AlreadyQueued(m, q.items)
  IN  /\ MayArrive(m)
      /\ RunIsActive(isActive)
      /\ duplicate \/ (q.dropPolicy = "new" /\ Len(q.items) >= q.cap)
      /\ Becomes(Recheck(IF duplicate THEN r
                         ELSE [r EXCEPT !.queue[r.registered].lastRun = TRUE], isActive))
      /\ UNCHANGED <<recent, runActive, failures, clears, expiries, history>>

(* enqueueFollowupRun accepts the message, then agent-runner re-checks     *)
(* whether the run that made it wait is still active.                      *)
EnqueueFollowupRun(m, s, isActive) ==
  LET r == GetFollowupQueue(s)
      q == r.queue[r.registered]
      fresh == [WithDrop(q) EXCEPT !.items = Append(@, m), !.lastRun = TRUE]
  IN  /\ MayArrive(m)
      /\ RunIsActive(isActive)
      /\ ~AlreadyQueued(m, q.items)
      /\ Len(q.items) < q.cap \/ q.dropPolicy # "new"
      /\ Becomes(Recheck([r EXCEPT !.queue[r.registered] = fresh, !.callback = TRUE],
                         isActive))
      /\ recent' = recent \cup {m}
      /\ acceptedAt' = [acceptedAt EXCEPT ![m] =
                          1 + Cardinality({n \in Message : acceptedAt[n] > 0})]
      /\ dropped' = (dropped \cup ToSet(SubSeq(q.items, 1, DropCount(q)))) \ {m}
      /\ UNCHANGED <<runActive, failures, clears, expiries, delivered, cleared>>

(* A message runs at once because no run is active, or agentCommand does.  *)
RunStarts ==
  /\ ~runActive /\ runActive' = TRUE
  /\ UNCHANGED <<registry, recent, bounds, history>>

(* Mutant: a way out of runReplyAgent that forgets finalizeWithFollowup.   *)
RunEndsUnfinalized ==
  /\ runActive /\ runActive' = FALSE
  /\ UNCHANGED <<registry, recent, bounds, history>>

(* A run of runReplyAgent that got into its try block ends: each way out of *)
(* it is finalizeWithFollowup.                                             *)
RunEnds ==
  /\ runActive /\ runActive' = FALSE
  /\ Becomes(ScheduleFollowupDrain(Now))
  /\ UNCHANGED <<created, recent, bounds, history>>

(* A run of agentCommand (agent RPC, sessions_send, subagent announce, CLI) *)
(* ends, or the memory flush before the try block throws: isRunActive()    *)
(* was true of it too, but nothing is scheduled.                           *)
AgentCommandEnds ==
  /\ runActive /\ runActive' = FALSE
  /\ UNCHANGED <<registry, recent, bounds, history>>

-----------------------------------------------------------------------------
StartRun(q, kind, batch, summary, force) ==
  drain' = [drain EXCEPT ![q] = [at |-> "run", force |-> force, kind |-> kind,
                                 batch |-> batch, summary |-> summary]]

(* Mutant: the newest message first.                                       *)
NextItemNewest(items) == SubSeq(items, Len(items), Len(items))

(* drainNextQueueItem looks at items[0].                                   *)
NextItem(items) == SubSeq(items, 1, 1)

(* After the debounce: decide what the next run is, or break.              *)
DrainTurn(q) ==
  LET items == queue[q].items
      collect == queue[q].mode = "collect"
      force == drain[q].force \/ HasCrossChannelItems(items)
      summary == IF queue[q].dropPolicy = "summarize" THEN queue[q].overflow ELSE {}
      stop == IF collect /\ ~force THEN items = <<>> /\ ~queue[q].lastRun
              ELSE items = <<>>
  IN  /\ drain[q].at = "debounce"
      /\ IF stop THEN Becomes(EndDrain(Now, q))
         ELSE /\ UNCHANGED <<registered, callback, queue>>
              /\ IF collect
                 THEN IF force THEN StartRun(q, "item", NextItem(items), {}, TRUE)
                      ELSE StartRun(q, "collect", items, summary, FALSE)
                 ELSE StartRun(q, IF summary = {} THEN "item" ELSE "summary",
                               NextItem(items), summary, drain[q].force)
      /\ UNCHANGED <<created, recent, runActive, bounds, history>>

(* Mutant: the batch stays on the queue.                                   *)
AfterRunKeepsItems(q) ==
  [queue[q] EXCEPT !.overflow = IF drain[q].summary = {} THEN @ ELSE {}]

(* items.shift() or splice(0, items.length), and clearQueueSummaryState.   *)
AfterRun(q) ==
  [queue[q] EXCEPT !.items = SubSeq(@, Len(drain[q].batch) + 1, Len(@)),
                   !.overflow = IF drain[q].summary = {} THEN @ ELSE {}]

(* effectiveRunFollowup resolves.                                          *)
RunFollowupSucceeds(q) ==
  /\ drain[q].at = "run"
  /\ Becomes(LoopDrain([Now EXCEPT !.queue[q] = AfterRun(q)], q))
  /\ delivered' = IF drain[q].kind = "summary" THEN delivered
                  ELSE [m \in Message |-> IF Contains(drain[q].batch, m)
                                          THEN delivered[m] + 1 ELSE delivered[m]]
  /\ UNCHANGED <<created, recent, runActive, bounds, acceptedAt, dropped, cleared>>

(* Mutant: a run that throws consumes its message.                         *)
RunFollowupFailsConsumes(q) ==
  /\ drain[q].at = "run" /\ failures < MaxFailures
  /\ failures' = failures + 1
  /\ Becomes(EndDrain([Now EXCEPT !.queue[q] = AfterRun(q)], q))
  /\ UNCHANGED <<created, recent, runActive, arrivals, clears, expiries, history>>

(* effectiveRunFollowup throws: nothing is removed, and the finally block  *)
(* schedules the next try.                                                 *)
RunFollowupFails(q) ==
  /\ drain[q].at = "run" /\ failures < MaxFailures
  /\ failures' = failures + 1
  /\ Becomes(EndDrain(Now, q))
  /\ UNCHANGED <<created, recent, runActive, arrivals, clears, expiries, history>>

(* clearSessionQueues: empty the object, forget it and the callback.  A    *)
(* drain that holds the object goes on.                                    *)
ClearSessionQueues ==
  /\ clears < MaxClears /\ registered # 0
  /\ clears' = clears + 1
  /\ queue' = [queue EXCEPT ![registered].items = <<>>, ![registered].overflow = {},
                            ![registered].lastRun = FALSE]
  /\ registered' = 0 /\ callback' = FALSE
  /\ cleared' = cleared \cup ToSet(queue[registered].items) \cup queue[registered].overflow
  /\ UNCHANGED <<created, drain, recent, runActive, arrivals, failures, expiries,
                 acceptedAt, delivered, dropped>>

(* A message id outlives the ttl of the dedupe cache.                      *)
ExpireMessageId(m) ==
  /\ expiries < MaxExpiries /\ m \in recent
  /\ expiries' = expiries + 1
  /\ recent' = recent \ {m}
  /\ UNCHANGED <<registry, runActive, arrivals, failures, clears, history>>

Next ==
  \/ \E m \in Message, s \in Setting, b \in BOOLEAN : SkipMessage(m, s, b)
  \/ \E m \in Message, s \in Setting, b \in BOOLEAN : EnqueueFollowupRun(m, s, b)
  \/ RunStarts \/ RunEnds \/ AgentCommandEnds
  \/ \E q \in Queue : DrainTurn(q)
  \/ \E q \in Queue : RunFollowupSucceeds(q)
  \/ \E q \in Queue : RunFollowupFails(q)
  \/ ClearSessionQueues
  \/ \E m \in Message : ExpireMessageId(m)

Spec == Init /\ [][Next]_vars

(* Agent runs and the debounce timer end.  That a reply run ever follows   *)
(* is not the gateway's doing, so nothing here is fair to RunEnds alone.   *)
FairSpec ==
  /\ Spec
  /\ WF_vars(RunEnds \/ AgentCommandEnds)
  /\ \A q \in Queue : /\ WF_vars(DrainTurn(q))
                      /\ WF_vars(RunFollowupSucceeds(q) \/ RunFollowupFails(q))

-----------------------------------------------------------------------------
(* A redelivered message never waits twice in a queue, also after its id   *)
(* has left the cache: isRunAlreadyQueued still finds it.                  *)
NeverQueuedTwice == \A q \in Queue : IsInjective(queue[q].items)

(* A step that accepts a message (its id enters the dedupe cache) leaves   *)
(* at most cap messages waiting, also when the cap has just been lowered   *)
(* below what the queue held: applyQueueDropPolicy drops the whole excess. *)
AcceptsWithinCap ==
  [][recent' \subseteq recent \/
     Len(queue'[registered'].items) <= queue'[registered'].cap]_vars

(* A queue somebody will still drain: its own drain holds it, or the map   *)
(* does.                                                                   *)
Live(q) == queue[q].draining \/ registered = q

(* Every accepted message is waiting where a drain will find it, has been  *)
(* the prompt of a run, or was discarded on purpose: no interleaving of    *)
(* arrivals with the run that drains the queue loses one.                  *)
NothingLost ==
  \A m \in Message : acceptedAt[m] > 0 =>
    \/ \E q \in Queue : Live(q) /\ Contains(queue[q].items, m)
    \/ delivered[m] > 0
    \/ m \in dropped \cup cleared

(* Followups run in the order the messages came in, retries included.      *)
DeliveryOrder ==
  \A m, n \in Message :
    /\ delivered[m] > 0
    /\ \E q \in Queue : Contains(queue[q].items, n)
    /\ delivered[n] = 0
    => acceptedAt[m] < acceptedAt[n]

(* A batch that is collected into one prompt has one destination.          *)
BatchHasOneRoute ==
  \A q \in Queue : drain[q].at = "run" /\ drain[q].kind = "collect" =>
    \A i, j \in 1 .. Len(drain[q].batch) :
      Route[drain[q].batch[i]] = Route[drain[q].batch[j]]

(* With its id in the dedupe cache a message is answered at most once,     *)
(* however often its channel delivers it and however often runs fail.      *)
DeliveredOnce == \A m \in Message : m \in recent => delivered[m] <= 1

(* What a drain holds it delivers, failing runs and mode changes included, *)
(* without any other run of the session: each failure schedules again.     *)
DrainedIsDelivered ==
  \A m \in Message :
    (\E q \in Queue : queue[q].draining /\ Contains(queue[q].items, m))
      ~> delivered[m] > 0

(* As long as reply runs keep ending in finalizeWithFollowup, every        *)
(* accepted message is eventually the prompt of a run.                     *)
AcceptedIsDelivered ==
  []<><<RunEnds>>_vars => \A m \in Message : acceptedAt[m] > 0 ~> delivered[m] > 0

(* docs/concepts/queue.md:30, "enqueue for the next agent turn after the   *)
(* current run ends": with agent turns following one another for ever, an  *)
(* accepted message gets its turn.                                         *)
NextTurnAfterRun ==
  []<><<RunStarts>>_vars => \A m \in Message : acceptedAt[m] > 0 ~> delivered[m] > 0

(* Every overflow is eventually reported, and the drain comes to rest.  A  *)
(* drain that breaks and is scheduled again on the same state spins: the   *)
(* step is a stutter of the model.                                         *)
OverflowIsReported ==
  \A q \in Queue : queue[q].overflow # {} ~> queue[q].overflow = {}
=============================================================================
