# A TLA+ model of the OpenClaw gateway

The repository is a docker-compose stack around a fork of the OpenClaw gateway: `openclaw-src/` is the upstream
checkout, `openclaw-patches/` the patches applied to it at build time, the rest is deployment. All paths below are
relative to `src/openclaw-src/src/` unless they start with `src/`. The models follow the upstream sources as they are
in the repository; none of the four patch groups touches the files modelled here.

The gateway is one Node.js process. Nothing runs in parallel, but every `await` is a point where another handler, a
timer or a finished agent run can come in between, and a process can die at any of them. That is where this code is
hard to test and where the models put their steps: one action is the code between two awaits that really suspend.

## 1. Inventory

| part | state | operations | hard because |
|---|---|---|---|
| command queue `process/command-queue.ts` | lanes (queue, active ids, cap, generation), draining flag, waiters | enqueue, pump, complete, set concurrency, clear, mark draining, reset, wait | completions of old generations, five callers of `drainLane`, waiters |
| gateway run loop `cli/gateway-cli/run-loop.ts` | server, lock, `shuttingDown`, restart promise | start, signal, drain, close, release, reacquire, exit | loop and shutdown are two async activities over the same variables |
| followup queue `auto-reply/reply/queue/`, `utils/queue-helpers.ts` | a queue object per session key, drain callback, dedupe cache | enqueue, schedule, drain turn, run, clear, expire | drains keep objects by reference across agent runs |
| delivery queue `infra/outbound/delivery-queue-*.ts`, `deliver.ts` | files on disk, retry counts | enqueue, send, ack in two phases, fail, move, recover | crashes between file operations, overlapping recoveries |
| agent run lanes `agents/pi-embedded-runner/lanes.ts`, `run.ts`, `gateway/server-lanes.ts` | none of its own | session lane, then global lane; cron lane around both; wait for a run in another session | tasks that hold a slot wait for tasks that need one |
| embedded run registry `agents/pi-embedded-runner/runs.ts` | active runs by session | register, abort, wait | runs end while they are being waited for |
| restart scheduling `infra/restart.ts` | timer, tokens, cooldown | schedule, defer, emit, authorise | several deferral polls at once |
| cron service `cron/service/` | job store on disk, running markers, timer | tick, add, update, remove, run, catch up, stop and start | jobs run outside the lock that guards the store; old and new service on one file |
| heartbeat wake `infra/heartbeat-wake.ts` | pending wakes, handler, generation | request, flush, retry, replace handler | replacement while a batch is in flight |
| heartbeat runner `infra/heartbeat-runner.ts` | interval timer, agents, on/off switch | start, update, stop, run | the timer is armed again only by a wake that ran |
| exec approvals `gateway/exec-approval-manager.ts`, `server-methods/exec-approval.ts`, `node-invoke-system-run-approval.ts`, `agents/bash-tools.exec-*` | pending records with timers; the tool's own decision | request, wait, resolve, expire, consume, invoke | an answer races the expiry; three places judge a missing answer |
| subagent announce queue, subagent registry, task registry | queues and persisted records | announce, retry, resume after restart | as the followup queue, plus persistence |
| file locks `infra/gateway-lock.ts`, `agents/session-write-lock.ts` | lock files | acquire, release, take over a stale lock | two processes |
| tool-loop detection `agents/tool-loop-detection.ts`, patch group 04 | sliding history, counters | record, detect | thresholds and windows |
| inbound debounce, auth cooldowns, node registry, channel manager, ACP queues, pairing | small registries with timers | | timers against events |
| configuration, plugins, media, CLI, UI, native apps, containers | | | no protocol of their own |

How they interact. Channels hand inbound messages to the reply agent. If a run of the session is active, the message
goes to the followup queue; otherwise a run is enqueued on the session's lane of the command queue, and from there on a
global lane. A reply run that ends schedules the followup drain. Replies leave through `deliverOutboundPayloads`, which
writes them to the delivery queue first. A restart signal makes the run loop refuse new lane entries, wait for active
ones, close the server and go round again in the same process, where `resetAllLanes` starts new lane generations and
startup replays the delivery queue. The cron service runs its jobs as agent runs and asks the heartbeat layer for a
wake; the heartbeat runner runs an agent when it is woken. The exec tool of a run asks the approval manager before it
runs a command.

`PROJECT.json` lists every part under `components`, and under `hazards` what can go wrong at which line, with the
properties that would notice.

## 2. Modules

| module | models | extends / instantiates |
|---|---|---|
| `CommandQueue` | `process/command-queue.ts` | |
| `GatewayRunLoop` | `cli/gateway-cli/run-loop.ts`, composed with the queue | extends `CommandQueue` |
| `FollowupQueue` | `auto-reply/reply/queue/*.ts`, `utils/queue-helpers.ts` | |
| `Outbox` | abstract: what a write-ahead queue promises | |
| `DeliveryQueue` | `infra/outbound/delivery-queue-*.ts` and the wrapper in `deliver.ts` | instantiates `Outbox` |
| `AgentRunLanes` | `agents/pi-embedded-runner/lanes.ts`, `run.ts`, `tools/sessions-send-tool.ts`, `gateway/server-lanes.ts`, composed with the queue | extends `CommandQueue` |
| `CronService` | `cron/service/*.ts`, `cron/schedule.ts` | |
| `HeartbeatWake` | `infra/heartbeat-wake.ts` | |
| `HeartbeatRunner` | `startHeartbeatRunner` in `infra/heartbeat-runner.ts`, composed with the wake layer | extends `HeartbeatWake` |
| `ExecApproval` | the approval manager, its gateway methods, the exec tool, the check of `node.invoke` | |
| `CommandQueueProofs`, `DeliveryQueueProofs`, `ExecApprovalProofs`, `CronServiceProofs`, `FollowupQueueProofs` | theorems | extend their component and `TLAPS` |
| `HeartbeatProofs` | theorems about the wake layer and the runner | extends `HeartbeatRunner` and `TLAPS` |
| `GatewayRunLoopProofs`, `AgentRunLanesProofs` | theorems on top of those of the queue | extend their component and `CommandQueueProofs` |
| `MC...` | constants of the runs | extend their component |

Definitions whose comment starts with "Mutant" are wrong variants of the definition after them. No specification uses
them; each is substituted for its original to see that a property notices.

### CommandQueue

The variables are the fields of `LaneState` plus the draining flag and the waiters; `status`, `enqueuedAt` and `starts`
record what became of an entry. `DrainLanes` is `drainLane` with its `pump` loop: a whole pump happens without an await,
so it is one step, and every handler that ends in `drainLane` has it as its last conjunct. A completion is
`CompleteCurrent` or, after a reset, `CompleteStale`. A lane that the code has not created yet is an idle lane of
generation 0. Left out: wait notices and logs, `resetCommandQueueStateForTest`, queue size getters.

### GatewayRunLoop

`loop` is where the `for(;;)` loop is, `shutdown` where the async function in `request()` is. `hadLock` and
`loopHadLock` are the results of `releaseLockIfHeld`, kept because the test of `lock` and the assignment after the await
are two steps. `resolver` tells a pending restart promise from a resolved one and from none. `params.start`,
`server.close()` and the lock are single steps that succeed or fail. The task side of the queue runs on as `QueueStep`.
Three constants are inputs of the environment: whether a start may fail, whether a signal may come during a start, and
whether a fresh process can be spawned. A signal cannot come between `restartResolver()` and the continuation of the
loop, because both are microtasks of one turn; `MaySignal` says so. `lockLost` records that a failed start has released
the lock; no action reads it.

### FollowupQueue

One session key. `registered` is the map entry, `queue` the objects, since a drain can outlive the entry. A drain is
idle, in its debounce, or in a run. `droppedCount` and `summaryLines` are together the set `overflow` of the messages
the next summary will count. `Route` abstracts `resolveCrossChannelKey` to a key, none, or "cross".
`ScheduleFollowupDrain`, `EndDrain` and `LoopDrain` are functions on the registry so that they compose the way the
calls do. A run that makes messages wait ends in one of two ways. `RunEnds` is a run of `runReplyAgent`: every way out
of its try block is `finalizeWithFollowup`, which schedules the drain. `AgentCommandEnds` is a run of `agentCommand`
(agent RPC, `sessions_send`, subagent announce, command line): `isEmbeddedPiRunActive` is true of it as well, but
nothing is scheduled when it ends. The same step stands for a reply run that throws before its try block
(`agent-runner.ts:256` to `401`). Left out: `refreshQueuedFollowupSession` (rewrites data inside items), the wording
of prompts, and `restartIfIdle = true`, which no caller outside tests uses.

### DeliveryQueue and Outbox

Every file operation is a step. An actor is the first send of an entry or the recovery of one life of the gateway; `op`
is its program counter per entry together with the retry count it has read. `Crash` forgets all actors and keeps the
files. `Restart` is an in-process restart, which keeps the actors, or an orderly one. A send ends in one of the ways
`Outcome` lists. `writeQueueEntry` writes a temporary file and renames it, so an entry appears in one step. Payloads of
an entry are one message. A failed first write (the message is then sent without the queue), the migration of old
entries and the shared name of the temporary file are left out.

`Outbox` has three actions on an entry that matter to a caller: accept, send while pending, and leave the pending state
because it was sent, called off or set aside. `OutboxState` maps the files to it.

### AgentRunLanes

A task of the queue is a run and a level: the cron task of a manual run, the session task, the work on a global lane.
Each is the body of the one before: `StartInner` is the call that enqueues the next level, `OuterEnds` the end of the
await. The queue itself is the whole of `CommandQueue`, whose tasks and lanes `LanesAssumption` fixes to these.
`SessionsSend` starts a run in another session from inside the work and waits for it; the wait ends with the answer or
its timeout. An abort of a run (queue mode "interrupt", stop) is a work that ends rejected. The agent run itself is
one task that ends. Left out: the ping-pong turns after a `sessions_send`, which are runs of the same form one after
the other.

### CronService

`locked()` serialises the sections that load, change and save the store, so a section is an action, and a job executes
between two of them. `store` is the file and `copy[s]` what the service `s` has in memory: `ensureLoaded` reads the
file once and from then on trusts the copy (`store.ts:27`), except in the two sections of a tick and before the last
save of a manual run, which read the file again; a save writes the whole copy. `tick` is where `onTimer` is, `boot`
where `start()` is, `manual` where a call of `run()` is; `batch` holds what a tick or a catch-up has still to run, is
running and has run. A `Service` is one `CronServiceState`. A reload stops the timer of the old one, whose tick goes
on and arms it again, and starts another on the same file, so that each has a copy the other does not know of; a crash
ends all of them and leaves the file. A tick changes the marker of the job objects it has captured, which are those of
the copy until the file is read again (`attached`). A reload waits until the startup and the manual runs of the old
service have ended, which is a bound of the model. `unmarked` records the jobs whose running marker was removed, in
the file or in the memory of the current service, while they executed. Time is an abstract clock; interval and cron
slots are computed on it the way `schedule.ts` does, with an expression as a period. One `Backoff` list stands for
that of recurring jobs and that of one-shot retries. Left out: failed writes of the store, schedules that throw (and
the counter that disables such a job), the session reaper, failure alerts, the task ledger, what a job does. Calls are
served once the first section of `start()` is queued (`Serving`), as `server.impl.ts` calls `start()` before it is
ready.

### HeartbeatWake and HeartbeatRunner

`HeartbeatWake` has the module variables of `heartbeat-wake.ts`; `batch` holds the callbacks of the timer that await a
handler. The callback is split at its awaits into one action for each way in (no handler, running, nothing pending, a
batch) and two for a call that returns (another wake follows, or the `finally` block). Reasons are reduced to their
priorities, the order of wakes in a batch is left open. `HeartbeatRunner` adds one runner for every handler: its
interval timer, its agents and the switch of `set-heartbeats`. `runHeartbeatOnce` is the wait between the call and its
return, which says done, busy or throws. `FinallyArms` says when the `finally` block of `run()` arms the interval:
always after it was done, for a busy answer only if the wake had a target, and after an exception if it came from
inside the try block. Left out: the due times of single agents, which decide whom a wake of all runs.

### ExecApproval

`pending`, `record` and `promise` are the manager; `handler` is where the request method is, which registers before its
first await and decides about the route after it; `tool` is where the exec tool is. `Approves` and `Denies` are the
tool's decision for both hosts, `Admits` is the check of `node.invoke`. A policy is what is fixed before the tool asks.
Operators answer with an id or an abbreviation that may mean several. Left out: comparing a command with its record
(the bindings always match here), the allowlist that `allow-always` extends, plugin approvals, which use the same
manager. A call of the tool takes less than the grace period (`Latency < Grace`: 15 s in the code).

## 3. Runs

Passing runs:

| run | bounds | shows |
|---|---|---|
| `command_queue` | 2 lanes, 4 tasks (3 share a lane), caps 0 and 2, 1 restart, 1 waiter | slots, order, settlement, notifications |
| `agent_lanes` | 3 runs on 2 sessions, one a manual cron run that sends to the other session, 1 restart, lanes of 1 slot | the runs of a session do not overlap unless a restart wrote one off; no circle of waiting |
| `run_loop` | 1 session lane, 3 tasks of which 1 hangs, 3 restarts, starts may fail, signals while serving | reported drains are true; restarts keep the lock and reset lanes between servers; drain windows end; preserved work is started |
| `followup_queue` | 3 messages on 3 routes, each delivered twice, 1 failing run, cap 4 | nothing lost, reordered, doubled or sent to the wrong place; what a drain holds is delivered, and every accepted message as long as reply runs keep ending |
| `followup_queue_tight` | 3 messages, each delivered twice, modes, caps of 1 and 2 and policies that change, 1 failure, clear and expiry | no message queued twice; an accepted message leaves at most cap messages, also when the cap was lowered |
| `delivery_queue` | 2 entries, 3 lives, 2 faults, 2 retries | duplicates and attempts bounded by faults; nothing forgotten; refinement of `Outbox` |
| `cron` | one service, an overdue one-shot and an interval, 1 manual run, 1 edit, all outcomes, a clock of 3 | markers, the timer, one-shots that succeeded and due slots survive every order of edits, runs and results |
| `cron_restart` | a one-shot and a cron expression, 1 crash or reload anywhere in tick and startup, a clock of 3 | the ticks of two services do not run a job at once unless its marker was removed; every due job is taken up |
| `heartbeat` | 2 runners, 2 targets, 1 request, 1 update, 2 batches at a time | no wake is forgotten, batches do not overlap unless a handler was replaced, the interval goes on |
| `exec_approval` | 2 commands under every mix of 5 policies, an ambiguous abbreviation, 2 invokes of an id, 3 ticks | allow-once runs once, denied commands do not run, fresh approvals are honoured, every request ends |

Runs that end in a counterexample, each recorded under `findings`:

| run | what happens |
|---|---|
| `heartbeat_disabled` | the interval passes while heartbeats are disabled; enabling them arms nothing and they do not come back |
| `exec_fallback` | `askFallback: full` with nobody to ask: the tool goes on, and `node.invoke` refuses, since its record was resolved by "no-approval-route" |

Further configurations that are kept beside the runs. The first three pass; the others end in a counterexample and
document behaviour of the code that a property of the runs excuses or whose input a run leaves out:

| configuration | what it shows |
|---|---|
| `MCCommandQueueLive.cfg` | accepted entries settle: 3 tasks, caps 1 and 2, 2 restarts |
| `MCCronServiceCrash.cfg` | `MarkerHasRun` across a crash at any point of tick, catch-up, manual run and edit (353,355 states) |
| `MCCronServiceReload.cfg` | `TicksNeedLostMarker` across a reload, with manual runs, edits and reads that write stale copies back (516,338 states) |
| `MCGatewayRunLoopStuck.cfg` | a restart signal during `params.start` leaves the gateway refusing work for good |
| `MCGatewayRunLoopUnlocked.cfg` | the restart after a failed in-process start serves without the lock |
| `MCFollowupQueueLostOverflow.cfg` | `shift()` after the await removes a message that was never answered |
| `MCFollowupQueueStranded.cfg` | a message that waits for a run of `agentCommand` is not delivered by the next agent turn, which `docs/concepts/queue.md:30` promises, nor by any later one of `agentCommand`: it waits for a reply run |
| `MCFollowupQueueSpin.cfg` | an overflow without items makes the drain reschedule itself for ever |
| `MCDeliveryQueueResent.cfg` | the recovery that startup does not await resends a live message |
| `MCDeliveryQueueSwallowed.cfg` | `bestEffort` without `onError` acknowledges a failed send |
| `MCCronServiceStale.cfg` | after a reload a manual run does not see the marker of the old service's tick and runs the job beside it |
| `MCCronServiceStart.cfg` | the last section of `start()` moves a slot that became due during the catch-up, which a comment in `applyStartupCatchupOutcomes` promises to keep |

`NothingLost` holds below the cap and without clears, `DrainWindowEnds` while signals find a serving gateway,
`NeverForgotten` without `bestEffort`. `ServerHoldsLock` fails once a start has failed: its lock is released, and the
next restart finds no handle to release and so takes none back. What the code does keep is `LockKeptAcrossRestarts`,
which excuses every restart after such a start (`lockLost`). In the same way `OverlapNeedsLostMarker` excuses a second
execution of a job after its marker was removed under the first (by disabling it or as stuck), `OneRunPerSession` a
run that a restart has written off, and `OneBatchUnlessReplaced` a handler that was replaced in the middle of a batch:
in all three the code accepts the overlap. (After such a replacement the last property no longer tells two batches of
the new handler apart either.)

What a followup message can count on is split in two. `DrainedIsDelivered` has no premise: what a drain holds it delivers,
since every failure schedules again. `AcceptedIsDelivered` takes as its premise that reply runs keep ending
(`[]<><<RunEnds>>_vars`), because a message that waited for any other run waits for the next of them; nothing in the gateway
makes one follow. Both are checked below the cap: the drain that reschedules itself for ever on an overflow without items
(`MCFollowupQueueSpin.cfg`) does not occur there. `AcceptsWithinCap` is about the step that accepts a message, whatever
the length before it; three messages and caps of 2 and 1 are the least for which dropping one message for one arrival
would not do.

After a hot reload the cron service keeps little of what it promises within one service, because a copy may be stale.
A manual run, an edit or a read of the new service, or its catch-up, works on the copy it loaded when it started: it
misses a marker the old tick has set since (`MCCronServiceStale.cfg`), and its save brings back a marker, a slot or a
one-shot that the old tick has dealt with. `OverlapNeedsLostMarker`, `MarkerHasRun`, `OneShotNotRepeated` and
`DueSlotsAreKept` are therefore checked for one service, and proved for any number of crashes and no reload. What a
reload leaves intact is checked with one: ticks read the file before they collect, so `TicksNeedLostMarker`, and they
come round, so `DueJobsRun`.

`NothingLost` also fails with clears (set `MaxClears = 1` in the configuration of `followup_queue`): `clearSessionQueues`
unregisters a queue object while its drain awaits a run, a message that comes now registers a new object, and the
`finally` block of the old drain, seeing its own object empty, deletes the key with the new object. Other behaviour that
the models have and no property speaks of: in `followup` mode the overflow summary takes the place of the message at
the head of the queue (`drain.ts:152`), and drops during a summary run are cleared with the summary (`drain.ts:140`); a
one-shot that the startup plan deferred gets its slot even if it was run and enabled again meanwhile (`timer.ts:1086`); a
wake whose call throws puts its whole batch back, so one that always throws keeps those behind it waiting
(`heartbeat-wake.ts:176`); an approval given just before its expiry is refused when `node.invoke` comes after it
(`node-invoke-system-run-approval.ts:160`).

Bounds. A property here is about two or three parties: a lane with its cap filled, one entry waiting and one arriving;
an old and a new queue object; a live send and one or two recoveries; a tick, a manual run and an edit of one job; an
answer and a timer. The bounds give one more of each than the
shortest counterexample known needs, and one failure more than none. Counters such as restarts, failures and arrivals
are capped in the guards by the constants named `Max...`. `CHECK_DEADLOCK FALSE` is set everywhere because every system
here may come to rest: all bounded inputs used up, or the process has exited. `command_queue` uses symmetry over the tasks
that share a lane and `followup_queue_tight` over its messages, which no constant tells apart; neither checks liveness.

The clock of `cron` runs over one slot of the interval with its retry, the one of `cron_restart` over a crash or a
reload, the catch-up and the next slot. `StuckRun = 0` in `cron` makes a marker count as stuck one tick later, so that
this case occurs. The first request of `exec_approval` can expire and its grace period end while the second is
pending.

Fairness. `agent_lanes`: bodies go on, agent runs end, because each has a timeout, and waits for another run end with
theirs. `run_loop`: every await of the loop and of the shutdown is bounded (drain timeout, force-exit timer, lock polling
with a deadline), and tasks end except those in `Hung`. A start that never settles is not covered by a timeout in the
code; the model assumes that it settles. `followup_queue`: agent runs and debounce timers end; which
of the two ways a run ends is not assumed, so that a reply run which ends again and again is a premise of
`AcceptedIsDelivered` and not part of the fairness. `cron_restart`: timers
fire, locked sections end, jobs end or time out. `heartbeat`: timers fire and the handler answers, an agent run having a
timeout; runners, requests and updates are not assumed. `exec_approval`: timers fire, time passes, and the request
handler and the tool go on; operators need not answer. Nothing assumes that messages, signals, edits, clears, crashes
or failures happen.

## 4. Proofs

Every invariant and every safety property of a passing run is also stated by a theorem, for every value of the
constants: any finite set of tasks, any jobs, messages, entries, requests and runners, any delays, caps, periods and
bounds. Some theorems add a hypothesis on the inputs, in the last column. The named assumptions of the modules ask for
what the code gives: natural numbers for counters and delays, a lane for each task, at least one job and one setting,
at least one retry, a call that takes less than the grace period. TLC evaluates them on every run. Five properties are
stated and proved and are in no run: `ExecutedAtMostOnce`, `AnswerIsFinal`, `StartsWithinCap`,
`ActiveIsCurrentGeneration` and `AckedNeverResent`. A slip in the code that breaks one of the first two breaks others
that a run checks: an entry that is started again leaves its settled state (`SettlesOnce`), and a second settlement of
an approval breaks `DeniedNeverRuns`.

| module | theorem | property | under |
|---|---|---|---|
| `CommandQueueProofs` | `TypeCorrect`, `LanesAreWorkConserving`, `LanesAreFifo`, `EntriesRunAtMostOnce`, `PromisesSettleOnce`, `NotificationsAreNotMissed`, `DrainedReportsAreTrue` | `TypeOK`, `NoIdleLane`, `ArrivalOrder`, `ExecutedAtMostOnce`, `SettlesOnce`, `NoMissedNotification`, `DrainedIsTrue` | |
| | `ActiveSetsAreExact`, `StartsRespectCap` | `ActiveIsCurrentGeneration`, `StartsWithinCap` | |
| `AgentRunLanesProofs` | `SessionsAreSerial` | `OneRunPerSession` | |
| `GatewayRunLoopProofs` | `DrainReportsAreTrue` | `DrainReportsEnd` | |
| | `LockSurvivesRestarts`, `LanesAreResetBetweenServers` | `LockKeptAcrossRestarts`, `ResetBetweenServers` | `~SignalInStartup` |
| `FollowupQueueProofs` | `WaitsOnce`, `BatchesAreRouted`, `AcceptedWithinCap` | `NeverQueuedTwice`, `BatchHasOneRoute`, `AcceptsWithinCap` | |
| | `MessagesAreKept` | `NothingLost` | `NoDrops`, no clears |
| | `DeliveredInOrder` | `DeliveryOrder` | no clears, no expiries |
| | `DeliveredAtMostOnce` | `DeliveredOnce` | no expiries |
| `DeliveryQueueProofs` | `NothingForgotten` | `NeverForgotten` | `~BestEffort` |
| | `DuplicatesCostFaults`, `AttemptsAreBounded`, `AckedAreNotResent` | `DuplicatesNeedFaults`, `AttemptsBounded`, `AckedNeverResent` | `~LiveDuringRecovery`, `~InProcess` |
| | `QueueIsAnOutbox` | `ImplementsOutbox` | all three |
| `CronServiceProofs` | `TicksExclude` | `TicksNeedLostMarker` | |
| | `MarkerExcludes`, `MarkersAreOwned`, `DueSlotsAreNotLost`, `SchedulerStaysAwake` | `OverlapNeedsLostMarker`, `MarkerHasRun`, `DueSlotsAreKept`, `SchedulerAwake` | no hot reload |
| | `OneShotsAreNotRepeated` | `OneShotNotRepeated` | no hot reload, `Stagger > 0` |
| `HeartbeatProofs` | `WakesAreNotForgotten`, `BatchesDoNotOverlap`, `IntervalIsNotLost` | `PendingWakeIsScheduled`, `OneBatchUnlessReplaced`, `IntervalGoesOn` | |
| `ExecApprovalProofs` | `AllowOnceIsUsedOnce`, `DeniedCommandsDoNotRun`, `FreshApprovalsAreAdmitted`, `AnswersAreFinal` | `AllowOnceRunsOnce`, `DeniedNeverRuns`, `FreshApprovalIsAdmitted`, `AnswerIsFinal` | |

The other modules have a theorem of type correctness as well: `LanesTypeCorrect`, `LoopTypeCorrect`,
`FollowupTypeCorrect`, `DeliveryTypeCorrect`, `CronTypeCorrect`, `HeartbeatTypeCorrect`, `ApprovalTypeCorrect`.

### The arguments

**Command queue.** None of the invariants is inductive alone. A lane stays busy only because its active set is exact; the
active set is exact only because an entry is in the queue if and only if it is queued; the cap is kept because queued
entries are distinct, which comes from their strictly increasing arrival stamps. `IndInv` is the conjunction of these
parts. Each part takes its state as arguments, because the handlers change queue, active set and status first and then
call `drainLane`: `DrainLanesKeepsInv` says that if the staged values satisfy the parts, the state after the drain does
too, with the drained lanes busy. The steps for enqueue, completion, concurrency and reset then only have to show it of
their staged values. `WaiterInv` is proved on top of `IndInv`: a snapshot holds tasks that were started, a waiting waiter
has an active task, and a reported drain stays true since settled tasks stay settled and generations only grow. The two
action properties follow from `IndInv` case by case.

**Agent run lanes.** Every step of the runs is a step of the queue, or several changes before one drain, so `IndInv`
carries over. Two facts are added that need each other: a session lane has one task of each generation running
(`SlotInv`, with `CapInv`: nobody configures the cap of a session lane), and the work of a run, which waits on another
lane, happens while its session task runs (`BodyInv`). Two works of a session at once then have two session tasks running,
which must be of different generations.

**Gateway run loop.** `LoopInv` joins the queue's invariants, who may wait (`WaitsInDrain`: only the shutdown that
registered the waiter, while it drains) and where the loop can be (`ResolvedIsIdle`). With these no snapshot spans a
reset, so that the clause of the queue's `DrainedIsTrue` about abandoned tasks falls away and a reported drain is true
without exception. `LockInv` says when the lock file may be missing.

**Followup queue.** The code's calls (`scheduleFollowupDrain`, the `finally` block, `getFollowupQueue`) are operators
on the registry as a value, so the invariant is one of the registry (`RegistryInv`), with a lemma for each call, and a
handler is put together from them. Its parts: a drain is under way exactly on the objects marked so (`Paired`),
objects not yet made have none (`Fresh`), no message is twice in a queue, a collected batch has one route. For what is
delivered a step is one of five shapes (`StepShape`: nothing moves, a message joins, a run begins, a run ends, a
clear), whichever handler took it, and the invariants are about those. `OnceInv` holds while the dedupe cache forgets
nothing: the cache is the set of accepted messages; a message is in at most one place, in a queue or in the prompt of
a run under way, until it is answered; each queue is sorted by acceptance; and what a drain answers was accepted
before all that stays when it is done (`InOrder`). The last part is what survives a drop policy that cuts the queue
short under a run: `splice` may then remove messages nobody answered, but leaves none that was answered. `OneQueue`
holds without clears: all that waits is in the registered object and no other is being drained, so that what was
delivered came before all that waits (`Behind`). `KeepInv` holds while nothing is discarded: what a drain runs is
still the head of its queue (`BatchAtHead`), and every accepted message waits or was delivered. `NoDrops` is that
every setting keeps what is queued: policy `new`, which refuses arrivals, or a cap that the messages do not reach. So
no drop policy discards anything.

**Delivery queue.** `NeverForgotten` holds with actors overlapping or not. The strengthening is `RenamesWhatWasSent`:
an actor about to rename an entry has sent it or was told to call it off. That is what `bestEffort` breaks
(`MCDeliveryQueueSwallowed.cfg`). The bounds on duplicates and attempts, and the refinement, need `SoloInv`: at any
moment the recovery of this life or the first sends are active, never both, and `EntryInv` ties the files of an entry,
the program counter of its one actor, and its histories. A fault is counted in the step that loses an acknowledgement
or a retry count. That the recovery finds an oldest entry to go on with is the well-foundedness of the natural
numbers, from the library. `AckedAreNotResent` and `QueueIsAnOutbox` then go action by action.

**Cron service.** The operators on the store come first, with lemmas on what each preserves (`GoodStore`: typed
records, and a slot for every job that is not disabled or done) and which markers and slots it leaves alone. They say
this of any store, since a section may work on the file or on a copy. The invariant `IndInv(sole)` comes in two
strengths. `TypeInv == IndInv(FALSE)` holds of every behaviour: types and control. `OneServiceInv == IndInv(TRUE)`
adds what is true while no reload puts a second service beside the first: the copy of a started service agrees with
the file on everything but the markers and the slots of disabled jobs (`Alike`); a job whose marker was not removed
has one executor, in a tick, a catch-up or a manual run, and its marker (`MarkerInv`); and the last to go takes the
marker with it (`MarkerHasRun`). A crash ends every service, so it keeps it. The theorems with "no hot reload" are of
the form `CronSpec /\ [][~Reload]_cronVars => ...` and follow from it. For any number of reloads `TickInv(j)` remains:
of the ticks that hold a job whose marker was not removed there is at most one, and while there is one the file has
the marker. A stale copy that is written back may take that marker away; then the step itself records the job in
`unmarked`. `TicksExclude` follows. `Stagger > 0` keeps a deferred one-shot apart from one set for its own time; it is
5000 ms in the code unless it is configured.

**Heartbeat.** The interval of a runner is followed through its hands (`IntervalCarried`): its timer, the pending wake
of all agents, a batch of this very runner that has yet to call `run` for it, a call past the checks at its entry. A
wake in a batch of another runner carries nothing. A batch keeps what it has not settled (`BatchKeepsWakes`), and
`running` guards the only batch unless a handler was replaced.

**Exec approvals.** Requests share nothing but the clock, so the invariant is a conjunction over requests: what the tool
believes is what the promise settled with; an allow-once is in the record until the first run on it; an entry stays
in the map for as long as a call in flight may still need it.

### The hypotheses

That a hypothesis is needed TLC shows by a counterexample when the input it excludes is let in:

| hypothesis | configuration to change | fails with the input |
|---|---|---|
| `~SignalInStartup` | `MCGatewayRunLoop.cfg`, `SignalInStartup = TRUE` | `LockKeptAcrossRestarts`, `ResetBetweenServers`: the shutdown closes no server while one is starting, and its lock and the lanes go under it |
| `~LiveDuringRecovery`, `~InProcess` | `MCDeliveryQueue.cfg`, either one `TRUE` | each of the four properties: the recovery takes up an entry whose first send is still under way |
| `~BestEffort` | `MCDeliveryQueueSwallowed.cfg` | `NeverForgotten` |
| `NoDrops` | `MCFollowupQueue.cfg`, settings `MCTight` | `NothingLost` |
| no clears | `MCFollowupQueue.cfg`, `MaxClears = 1` | `NothingLost`, `DeliveryOrder` |
| no expiries | `MCFollowupQueue.cfg`, `MaxExpiries = 1` | `DeliveryOrder`, `DeliveredOnce` |
| no hot reload | `MCCronServiceStale.cfg`, each in turn as its property | `OverlapNeedsLostMarker`, `MarkerHasRun`, `DueSlotsAreKept` |
| | the same with the one-shot for the cron expression and patch `schedule` | `OneShotNotRepeated` |
| | `MCCronService.cfg`, `MaxService = 2` | `SchedulerAwake`: the old tick gives a job a slot after the new service has looked and armed nothing |

Both inputs of the first two rows are ones the program meets: the first is the finding of `MCGatewayRunLoopStuck.cfg`,
the second that of `MCDeliveryQueueResent.cfg`, since `server.impl.ts` does not await the recovery. What the theorems
then say is that nothing else breaks the property. The counterexample to `DeliveryOrder` with a clear is a drain that
goes on with its cleared object and, at its end, forgets the key of the object that has taken its place: a third
object is then made and drained beside the second. In one place a proof uses a hypothesis for which no counterexample
is known: `Stagger > 0`.

### What the proofs showed

- `LockKeptAcrossRestarts` was false beyond two restarts as it was first stated, in terms of `loopHadLock`: a second failed start
  overwrites that variable. The model now has the history variable `lockLost`, and run `run_loop` three restarts.
- `SchedulerAwake` is false after a hot reload: the attempt to prove it with reloads showed it. `cron_restart` checks by
  liveness that due jobs are taken up all the same.
- With a copy for each service the other cron properties turned out to be properties of one service. The proof of what is left,
  `TicksExclude`, uses of the code that both sections of a tick read the file again, and nothing else of `ensureLoaded`.
- `AttemptsBounded` needs `MAX_RETRIES` to be at least 1; it is 5 in the code.

### Only model-checked

The liveness properties: `AcceptedIsDelivered`, `DrainedIsDelivered`, `EveryRunSettles`, `DrainWindowEnds`,
`PreservedWorkRuns`, and those of `cron_restart`, `heartbeat` and `exec_approval`. They hold under fairness, which is
out of the prover's reach. So are the two counterexamples of section 3 and the further configurations, which are
single behaviours.

## 5. What could come next

Proofs: a form of `SchedulerAwake` with reloads that says which old ticks are still under way; `DuplicatesNeedFaults`
and `AttemptsBounded` with overlapping actors, with a term for each overlap in place of the hypotheses;
`OneShotNotRepeated` without `Stagger > 0`.

Models: the subagent registry with its persisted records and the announce queue over the helpers of `FollowupQueue`; a
payload list in `DeliveryQueue`; the two file locks with two processes and a model of process ids.

## 6. Not modelled

- Subagent registry, announce queue and task registry: persisted records of detached work. As large as the cron
  service, and the next candidates for a module.
- Restart scheduling: coalescing, cooldown and deferral polls decide when a restart is requested; the run loop takes a
  restart at any time as input. Several deferral polls can coexist and emit a restart twice (`infra/restart.ts:225`); the
  second one is the signal during a start of `MCGatewayRunLoopStuck.cfg`.
- File locks between processes: they need a model of the file system and of process ids.
- In `DeliveryQueue`: an entry with several payloads that fails after the first is replayed as a whole
  (`deliver.ts:549`), and two writers of an entry in one process share a temporary file (`delivery-queue-storage.ts:79`).
  In `FollowupQueue`: a drop policy switched away from `summarize` with an overflow pending (`queue-helpers.ts:199`) is a step
  of the model, but not of a liveness run, for its size.
- Tool-loop detection, auth cooldowns: sequential computations over a history or timestamps, covered by unit tests.
- Inbound debounce, ACP queues, node registry, pairing: a promise chain or a map with timers each, of the shape of the
  queues modelled here.
- Configuration and schema handling, plugin loading, media and speech, rendering, the command line, terminal and web
  interfaces and the native apps, model providers, containers and sample data. They convert data or do I/O and have no
  state protocol of their own.

The repository holds close to a million lines; the models cover the parts of the gateway in which steps of several
activities meet. The `components` list in `PROJECT.json` gives the status and the reason for each part.
