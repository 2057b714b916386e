---------------------------- MODULE CronService ----------------------------
(***************************************************************************)
(* The cron service of the gateway (src/cron/service): a store of jobs on  *)
(* disk, a timer that collects the due ones, runs them outside the store   *)
(* lock and applies the results, manual runs, edits, and the catch-up of   *)
(* missed jobs when the service starts.                                    *)
(*                                                                         *)
(* locked() serialises the sections that load, change and save the store,  *)
(* so one section is one action.  `store' is the file and copy[s] what the *)
(* service s has in memory: ensureLoaded reads the file once and from then *)
(* on trusts the copy, except in the two sections of onTimer and before    *)
(* the last save of a manual run, which read the file again.  A save       *)
(* writes the whole copy.                                                  *)
(*                                                                         *)
(* A Service is one CronServiceState.  A hot reload of the configuration   *)
(* or an in-process restart stops the timer of the current one and starts  *)
(* another on the same file, while the tick of the old one goes on: then   *)
(* each has a copy the other does not know of.  A crash ends them all.     *)
(*                                                                         *)
(* Times are ticks of an abstract clock from 1 on; a timestamp that is     *)
(* undefined in the code is None.                                          *)
(***************************************************************************)
EXTENDS Naturals, Sequences, FiniteSets

CONSTANTS
  Job,             \* job ids; an id is never reused
  Kind,            \* schedule.kind of a job: "at", "every" or "cron"
  Period,          \* everyMs, or the distance of the slots of the cron expression
  DeleteAfterRun,  \* the jobs with deleteAfterRun
  InitialJobs,     \* the jobs an earlier life of the gateway left in the store
  Backoff,         \* errorBackoffMs, by number of consecutive errors
  MaxAttempts,     \* cron.retry.maxAttempts
  RefireGap,       \* MIN_REFIRE_GAP_MS
  StuckRun,        \* STUCK_RUN_MS
  RunConcurrency,  \* cron.maxConcurrentRuns
  MaxMissed,       \* maxMissedJobsPerRestart
  Stagger,         \* missedJobStaggerMs
  Manual,          \* one per call of run(id, mode)
  Outcome,         \* the ends of a job that are explored
  Patches,         \* the patches of update that are explored
  BootTime,        \* bound: when the gateway boots
  MaxTime,         \* bound: the clock
  MaxService,      \* bound: services started, by boot, crash or reload
  MaxEdits         \* bound: calls of update and remove

None == 0
Time == 1 .. MaxTime
Service == 1 .. MaxService
Patch == {"enable", "disable", "schedule", "edit"}
Result == {"ok", "skipped", "transient", "permanent"}

ASSUME JobAssumption == IsFiniteSet(Job) /\ Job # {} /\ InitialJobs \subseteq Job
ASSUME KindAssumption == Kind \in [Job -> {"at", "every", "cron"}]
ASSUME PeriodAssumption == Period \in [Job -> Nat \ {0}]
ASSUME BackoffAssumption == Backoff \in Seq(Nat \ {0}) /\ Len(Backoff) > 0
ASSUME ChoiceAssumption == Outcome \subseteq Result /\ Patches \subseteq Patch
ASSUME BoundAssumption ==
  /\ {MaxAttempts, RefireGap, StuckRun, MaxMissed, Stagger, MaxEdits} \subseteq Nat
  /\ {RunConcurrency, BootTime, MaxService, MaxTime} \subseteq Nat \ {0}
  /\ BootTime <= MaxTime

VARIABLES
  now,             \* deps.nowMs()
  store,           \* CronStoreFile.jobs, by id
  copy,            \* state.store.jobs, by service and id
  fresh,           \* ids not handed out yet
  current,         \* the service the gateway holds
  timer,           \* state.timer # null
  tick,            \* where onTimer is; state.running is tick # "idle"
  boot,            \* where start() is
  skip,            \* startupInterruptedJobIds
  batch,           \* the jobs a tick or a startup catch-up runs
  attached,        \* the jobs a tick captured are still the objects in memory
  deferred,        \* deferredJobIds of the startup plan
  manual,          \* where a call of run() is
  edits,           \* calls of update and remove so far
  unmarked         \* jobs that lost their running marker while they executed

cronVars == <<now, store, copy, fresh, current, timer, tick, boot, skip, batch,
              attached, deferred, manual, edits, unmarked>>

Runner == Service \X {"tick", "boot"}
Stamp == {None} \cup Nat
Record ==
  [enabled : BOOLEAN, base : Stamp, next : Stamp, running : Stamp,
   lastRun : Stamp, lastStatus : {"none", "ok", "skipped", "error"}, errors : Nat]
Batch ==
  [todo : SUBSET Job,
   live : SUBSET [job : Job, startedAt : Time],
   done : SUBSET [job : Job, startedAt : Time, endedAt : Time, status : Result]]
NoBatch == [todo |-> {}, live |-> {}, done |-> {}]
NoJobs == [j \in {} |-> NoBatch]  \* state.store before the first load
(* A call of run() holds a job from the preflight on; NoCall otherwise.     *)
Call == [phase : {"idle", "reserve", "run", "finish", "over"}, job : Job,
         force : BOOLEAN, startedAt : Stamp, endedAt : Stamp,
         status : Result \cup {"none"}]

NoCall(p) == [phase |-> p, job |-> CHOOSE j \in Job : TRUE, force |-> FALSE,
              startedAt |-> None, endedAt |-> None, status |-> "none"]

CronTypeOK ==
  /\ now \in Time
  /\ \A st \in {store} \cup {copy[s] : s \in Service} :
       /\ DOMAIN st \subseteq Job \ fresh
       /\ \A j \in DOMAIN st : st[j] \in Record
  /\ DOMAIN copy = Service
  /\ current \in Service
  /\ timer \in [Service -> BOOLEAN]
  /\ tick \in [Service -> {"idle", "collect", "run", "finally"}]
  /\ boot \in [Service -> {"off", "clear", "plan", "run", "recompute", "on"}]
  /\ skip \subseteq Job
  /\ batch \in [Runner -> Batch]
  /\ attached \in [Service -> BOOLEAN]
  /\ deferred \in Seq(Job)
  /\ manual \in [Manual -> Call]
  /\ edits \in 0 .. MaxEdits
  /\ unmarked \subseteq Job

-----------------------------------------------------------------------------
(* The schedule of a job.                                                  *)

(* computeNextRunAtMs for an interval: the first slot at or after t, never *)
(* the anchor itself once it has passed.                                   *)
EverySlot(anchor, p, t) ==
  LET steps == (t - anchor + p - 1) \div p
  IN  IF t < anchor THEN anchor ELSE anchor + p * (IF steps > 1 THEN steps ELSE 1)

(* computeNextRunAtMs and computePreviousRunAtMs for a cron expression.    *)
CronSlotAfter(p, t) == p * (1 + t \div p)
CronSlotBefore(p, t) == p * ((t - 1) \div p)

(* Mutant: a one-shot that has succeeded is due again.                     *)
ComputeJobNextRunAtMsForgetsSuccess(r, j, t) ==
  CASE ~r.enabled -> None
    [] r.enabled /\ Kind[j] = "every" ->
         IF r.lastRun # None /\ r.lastRun + Period[j] > t
         THEN r.lastRun + Period[j] ELSE EverySlot(r.base, Period[j], t)
    [] r.enabled /\ Kind[j] = "at" -> r.base
    [] r.enabled /\ Kind[j] = "cron" -> CronSlotAfter(Period[j], t)

ComputeJobNextRunAtMs(r, j, t) ==
  CASE ~r.enabled -> None
    [] r.enabled /\ Kind[j] = "every" ->
         IF r.lastRun # None /\ r.lastRun + Period[j] > t
         THEN r.lastRun + Period[j] ELSE EverySlot(r.base, Period[j], t)
    [] r.enabled /\ Kind[j] = "at" ->
         IF r.lastStatus = "ok" /\ r.base <= r.lastRun THEN None ELSE r.base
    [] r.enabled /\ Kind[j] = "cron" -> CronSlotAfter(Period[j], t)

(* normalizeJobTickState: a disabled job is neither scheduled nor marked,  *)
(* and a marker older than STUCK_RUN_MS is dropped.                        *)
NormalizeJobTickState(r, t) ==
  IF ~r.enabled THEN [r EXCEPT !.next = None, !.running = None]
  ELSE IF r.running # None /\ t > r.running + StuckRun THEN [r EXCEPT !.running = None]
  ELSE r

(* walkSchedulableJobs, and recomputeJobNextRunAtMs for the jobs in J.      *)
WalkSchedulableJobs(st, t) == [j \in DOMAIN st |-> NormalizeJobTickState(st[j], t)]
RecomputeJobs(st, t, J) ==
  [j \in DOMAIN st |-> IF st[j].enabled /\ j \in J
                       THEN [st[j] EXCEPT !.next = ComputeJobNextRunAtMs(st[j], j, t)]
                       ELSE st[j]]

(* recomputeNextRuns moves every slot that is missing or already due.      *)
RecomputeNextRuns(st, t) ==
  LET kept == WalkSchedulableJobs(st, t)
  IN  RecomputeJobs(kept, t, {j \in DOMAIN kept : kept[j].next = None \/ t >= kept[j].next})

(* Mutant: the bug of issue 13992, where maintenance moves due slots.      *)
RecomputeNextRunsForMaintenanceAdvances(st, t, recomputeExpired) ==
  LET kept == WalkSchedulableJobs(st, t)
  IN  RecomputeJobs(kept, t, {j \in DOMAIN kept :
        kept[j].next = None \/ (recomputeExpired /\ t >= kept[j].next)})

(* recomputeNextRunsForMaintenance repairs a missing slot, and on request  *)
(* moves one that has been executed.                                       *)
RecomputeNextRunsForMaintenance(st, t, recomputeExpired) ==
  LET kept == WalkSchedulableJobs(st, t)
      executed == {j \in DOMAIN kept :
        t >= kept[j].next /\ kept[j].running = None /\ kept[j].lastRun >= kept[j].next}
  IN  RecomputeJobs(kept, t, {j \in DOMAIN kept :
        kept[j].next = None \/ (recomputeExpired /\ j \in executed)})

ErrorBackoffMs(n) == Backoff[IF n < Len(Backoff) THEN n ELSE Len(Backoff)]
ErrorCap == MaxAttempts + Len(Backoff)  \* bound: further errors change nothing
Later(s, t) == IF s > t THEN s ELSE t

(* applyJobResult.  preserveSchedule keeps the phase of an interval.       *)
ShouldDelete(j, res) == Kind[j] = "at" /\ j \in DeleteAfterRun /\ res.status = "ok"
ApplyJobResult(r, j, res, preserveSchedule) ==
  LET failed == res.status \in {"transient", "permanent"}
      errors == IF ~failed THEN 0 ELSE IF r.errors < ErrorCap THEN r.errors + 1 ELSE ErrorCap
      ran == [r EXCEPT !.running = None, !.lastRun = res.startedAt, !.errors = errors,
                       !.lastStatus = IF failed THEN "error" ELSE res.status]
      natural == IF preserveSchedule /\ Kind[j] = "every"
                 THEN ComputeJobNextRunAtMs([ran EXCEPT !.lastRun = r.lastRun], j, res.endedAt)
                 ELSE ComputeJobNextRunAtMs(ran, j, res.endedAt)
      retry == res.endedAt + ErrorBackoffMs(errors)
  IN  CASE Kind[j] = "at" /\ res.status = "transient" /\ errors <= MaxAttempts ->
             [ran EXCEPT !.next = retry]
        [] Kind[j] = "at" /\ ~(res.status = "transient" /\ errors <= MaxAttempts) ->
             [ran EXCEPT !.enabled = FALSE, !.next = None]
        [] Kind[j] # "at" /\ ~r.enabled -> [ran EXCEPT !.next = None]
        [] Kind[j] # "at" /\ r.enabled /\ failed -> [ran EXCEPT !.next = Later(natural, retry)]
        [] Kind[j] = "every" /\ r.enabled /\ ~failed -> [ran EXCEPT !.next = natural]
        [] Kind[j] = "cron" /\ r.enabled /\ ~failed ->
             [ran EXCEPT !.next = Later(natural, res.endedAt + RefireGap)]

(* Mutant: the outcome is recorded and the marker stays.                   *)
ApplyOutcomesKeepsMarker(st, results, preserveSchedule) ==
  [j \in {k \in DOMAIN st : \A res \in results : res.job = k => ~ShouldDelete(k, res)} |->
     IF \E res \in results : res.job = j
     THEN LET res == CHOOSE res \in results : res.job = j
          IN  [ApplyJobResult(st[j], j, res, preserveSchedule) EXCEPT !.running = st[j].running]
     ELSE st[j]]

(* applyOutcomeToStoredJob for the results of a batch: the result of a job *)
(* that is gone is discarded, a one-shot that asked for it is deleted.     *)
ApplyOutcomes(st, results, preserveSchedule) ==
  [j \in {k \in DOMAIN st : \A res \in results : res.job = k => ~ShouldDelete(k, res)} |->
     IF \E res \in results : res.job = j
     THEN ApplyJobResult(st[j], j, CHOOSE res \in results : res.job = j, preserveSchedule)
     ELSE st[j]]

-----------------------------------------------------------------------------
(* The timer and its tick.                                                 *)

(* armTimer: there is a timer if some enabled job has a slot.              *)
Armed(st) == \E j \in DOMAIN st : st[j].enabled /\ st[j].next # None

(* isRunnableJob, as onTimer asks it.                                      *)
IsDue(r, t) == r.enabled /\ r.running = None /\ r.next # None /\ t >= r.next

(* isErrorBackoffPending, and isRunnableJob as the startup asks it: a      *)
(* one-shot that has a status runs only as a retry, and a slot of a cron   *)
(* expression is missed also when nextRunAtMs has moved past it.           *)
IsErrorBackoffPending(r, j, t) ==
  /\ Kind[j] # "at"
  /\ r.lastStatus = "error"
  /\ t < r.lastRun + ErrorBackoffMs(IF r.errors > 1 THEN r.errors ELSE 1)
IsMissed(r, j, t) ==
  /\ r.enabled /\ j \notin skip /\ r.running = None
  /\ IF Kind[j] = "at" /\ r.lastStatus # "none"
     THEN r.lastStatus = "error" /\ r.next > r.lastRun /\ t >= r.next
     ELSE \/ r.next # None /\ t >= r.next
          \/ /\ Kind[j] = "cron"
             /\ ~(r.next > t /\ IsErrorBackoffPending(r, j, t))
             /\ r.lastRun # None
             /\ CronSlotBefore(Period[j], t) > r.lastRun

Marked(st, J, t) == [j \in DOMAIN st |-> IF j \in J THEN [st[j] EXCEPT !.running = t] ELSE st[j]]

(* An execution of the job has been decided on and its result not applied. *)
InFlight(j) ==
  \/ \E w \in Runner : \/ j \in batch[w].todo
                       \/ \E e \in batch[w].live \cup batch[w].done : e.job = j
  \/ \E m \in Manual : manual[m].job = j /\ manual[m].phase \in {"run", "finish"}

(* The jobs that lose their marker, in the file or in the memory of the    *)
(* current service, while they go on executing.                            *)
InFile(j) == j \in DOMAIN store /\ store[j].running # None
InMemory(j) == j \in DOMAIN copy[current] /\ copy[current][j].running # None
RecordUnmarked ==
  unmarked' = {j \in Job : /\ InFlight(j)'
                           /\ \/ j \in unmarked
                              \/ InFile(j) /\ ~InFile(j)'
                              \/ InMemory(j) /\ ~InMemory(j)'}

(* persist: the file becomes the copy.                                     *)
Persist(s, st) ==
  /\ store' = st
  /\ copy' = [copy EXCEPT ![s] = st]
(* The sections that save only what has changed.                           *)
PersistChange(s, st) ==
  IF st = copy[s] THEN UNCHANGED <<store, copy>> ELSE Persist(s, st)

(* Mutant: the bug of issue 12025, where nothing is armed in that case.    *)
OnTimerBusyForgets(s) ==
  /\ timer[s]
  /\ tick[s] # "idle"
  /\ timer' = [timer EXCEPT ![s] = FALSE]
  /\ UNCHANGED <<now, store, copy, fresh, current, tick, boot, skip, batch, attached,
                 deferred, manual, edits>>

(* The timer fires while a tick is under way: look again in a while.       *)
OnTimerBusy(s) ==
  /\ timer[s]
  /\ tick[s] # "idle"
  /\ timer' = [timer EXCEPT ![s] = TRUE]
  /\ UNCHANGED <<now, store, copy, fresh, current, tick, boot, skip, batch, attached,
                 deferred, manual, edits>>

(* The timer fires, a minute after it was armed at the latest: the tick    *)
(* begins, with a watchdog armed.                                          *)
OnTimer(s) ==
  /\ timer[s]
  /\ tick[s] = "idle"
  /\ tick' = [tick EXCEPT ![s] = "collect"]
  /\ timer' = [timer EXCEPT ![s] = TRUE]
  /\ UNCHANGED <<now, store, copy, fresh, current, boot, skip, batch, attached,
                 deferred, manual, edits>>

(* Mutant: the tick trusts the copy in memory.                             *)
CollectDueJobsFromCopy(s) ==
  LET w == <<s, "tick">>
      due == {j \in DOMAIN copy[s] : IsDue(copy[s][j], now)}
  IN  /\ tick[s] = "collect"
      /\ tick' = [tick EXCEPT ![s] = IF due = {} THEN "finally" ELSE "run"]
      /\ Persist(s, IF due = {} THEN RecomputeNextRunsForMaintenance(copy[s], now, TRUE)
                    ELSE Marked(copy[s], due, now))
      /\ batch' = [batch EXCEPT ![w].todo = due]
      /\ attached' = [attached EXCEPT ![s] = (due # {})]
      /\ UNCHANGED <<now, fresh, current, timer, boot, skip, deferred, manual, edits>>

(* Locked: read the file, mark what is due and run it, or else only do     *)
(* maintenance.                                                            *)
CollectDueJobs(s) ==
  LET w == <<s, "tick">>
      due == {j \in DOMAIN store : IsDue(store[j], now)}
  IN  /\ tick[s] = "collect"
      /\ tick' = [tick EXCEPT ![s] = IF due = {} THEN "finally" ELSE "run"]
      /\ Persist(s, IF due = {} THEN RecomputeNextRunsForMaintenance(store, now, TRUE)
                    ELSE Marked(store, due, now))
      /\ batch' = [batch EXCEPT ![w].todo = due]
      /\ attached' = [attached EXCEPT ![s] = (due # {})]
      /\ UNCHANGED <<now, fresh, current, timer, boot, skip, deferred, manual, edits>>

(* runDueJob, by a worker that is free: also for a job that was disabled   *)
(* or removed since it was collected.  The marker of the captured object   *)
(* gets the time of the start; nothing is saved.                           *)
RunDueJob(s, j) ==
  LET w == <<s, "tick">>
  IN  /\ tick[s] = "run"
      /\ j \in batch[w].todo
      /\ Cardinality(batch[w].live) < RunConcurrency
      /\ batch' = [batch EXCEPT ![w].todo = @ \ {j},
                                ![w].live = @ \cup {[job |-> j, startedAt |-> now]}]
      /\ copy' = [copy EXCEPT ![s] = IF attached[s] THEN Marked(@, {j}, now) ELSE @]
      /\ UNCHANGED <<now, store, fresh, current, timer, tick, boot, skip, attached,
                     deferred, manual, edits>>

(* executeJobCoreWithTimeout ends: the job returns, throws or times out.   *)
JobEnds(w, e, status) ==
  /\ e \in batch[w].live
  /\ batch' = [batch EXCEPT ![w].live = @ \ {e},
                 ![w].done = @ \cup {[job |-> e.job, startedAt |-> e.startedAt,
                                      endedAt |-> now, status |-> status]}]
  /\ UNCHANGED <<now, store, copy, fresh, current, timer, tick, boot, skip, attached,
                 deferred, manual, edits>>

BatchEnded(w) == batch[w].todo = {} /\ batch[w].live = {}

(* Locked: apply the results to the jobs as they are in the file now.      *)
ApplyTickResults(s) ==
  LET w == <<s, "tick">>
  IN  /\ tick[s] = "run"
      /\ BatchEnded(w)
      /\ Persist(s, RecomputeNextRunsForMaintenance(
                      ApplyOutcomes(store, batch[w].done, FALSE), now, FALSE))
      /\ batch' = [batch EXCEPT ![w] = NoBatch]
      /\ tick' = [tick EXCEPT ![s] = "finally"]
      /\ attached' = [attached EXCEPT ![s] = FALSE]
      /\ UNCHANGED <<now, fresh, current, timer, boot, skip, deferred, manual, edits>>

(* Mutant: the tick leaves the timer as it finds it.                       *)
TickFinallyNoArm(s) ==
  /\ tick[s] = "finally"
  /\ tick' = [tick EXCEPT ![s] = "idle"]
  /\ timer' = [timer EXCEPT ![s] = FALSE]
  /\ UNCHANGED <<now, store, copy, fresh, current, boot, skip, batch, attached,
                 deferred, manual, edits>>

(* The finally block, after the session reaper: arm the timer, also that   *)
(* of a service which has been stopped in the meantime.                    *)
TickFinally(s) ==
  /\ tick[s] = "finally"
  /\ tick' = [tick EXCEPT ![s] = "idle"]
  /\ timer' = [timer EXCEPT ![s] = Armed(copy[s])]
  /\ UNCHANGED <<now, store, copy, fresh, current, boot, skip, batch, attached,
                 deferred, manual, edits>>

-----------------------------------------------------------------------------
(* start(), which the gateway does not wait for.                           *)

(* Locked: load the file, clear every marker and remember whose it was.    *)
StartClear(s) ==
  /\ boot[s] = "clear"
  /\ boot' = [boot EXCEPT ![s] = "plan"]
  /\ skip' = {j \in DOMAIN store : store[j].running # None}
  /\ Persist(s, Marked(store, skip', None))
  /\ UNCHANGED <<now, fresh, current, timer, tick, batch, attached,
                 deferred, manual, edits>>

(* Locked, planStartupCatchup: the jobs missed longest ago, by the copy in *)
(* memory, run at once, the others later.                                  *)
PlanStartupCatchup(s) ==
  LET w == <<s, "boot">>
      missed == {j \in DOMAIN copy[s] : IsMissed(copy[s][j], j, now)}
      n == Cardinality(missed)
      atOnce == IF n < MaxMissed THEN n ELSE MaxMissed
  IN  /\ boot[s] = "plan"
      /\ \E order \in [1 .. n -> missed] :
           /\ \A a, b \in 1 .. n : a < b => /\ order[a] # order[b]
                                            /\ copy[s][order[a]].next <= copy[s][order[b]].next
           /\ LET candidates == {order[i] : i \in 1 .. atOnce}
              IN  /\ IF missed = {} THEN UNCHANGED <<store, copy>>
                     ELSE Persist(s, Marked(copy[s], candidates, now))
                  /\ batch' = [batch EXCEPT ![w].todo = candidates]
           /\ deferred' = SubSeq(order, atOnce + 1, n)
      /\ boot' = [boot EXCEPT ![s] = IF missed = {} THEN "recompute" ELSE "run"]
      /\ UNCHANGED <<now, fresh, current, timer, tick, skip, attached, manual, edits>>

(* runStartupCatchupCandidate, one after the other.                        *)
RunStartupCatchupCandidate(s, j) ==
  LET w == <<s, "boot">>
  IN  /\ boot[s] = "run"
      /\ j \in batch[w].todo
      /\ batch[w].live = {}
      /\ batch' = [batch EXCEPT ![w].todo = @ \ {j},
                                ![w].live = {[job |-> j, startedAt |-> now]}]
      /\ UNCHANGED <<now, store, copy, fresh, current, timer, tick, boot, skip, attached,
                     deferred, manual, edits>>

(* Locked, applyStartupCatchupOutcomes: apply the results, spread out the  *)
(* deferred jobs that are still enabled, repair what is missing.           *)
Spread(st) ==
  LET still == SelectSeq(deferred, LAMBDA j : j \in DOMAIN st /\ st[j].enabled)
  IN  [j \in DOMAIN st |->
         IF \E k \in 1 .. Len(still) : still[k] = j
         THEN [st[j] EXCEPT !.next =
                 now + Stagger * (CHOOSE k \in 1 .. Len(still) : still[k] = j)]
         ELSE st[j]]
ApplyStartupCatchupOutcomes(s) ==
  LET w == <<s, "boot">>
  IN  /\ boot[s] = "run"
      /\ BatchEnded(w)
      /\ Persist(s, RecomputeNextRunsForMaintenance(
                      Spread(ApplyOutcomes(copy[s], batch[w].done, FALSE)), now, FALSE))
      /\ batch' = [batch EXCEPT ![w] = NoBatch]
      /\ deferred' = <<>>
      /\ boot' = [boot EXCEPT ![s] = "recompute"]
      /\ UNCHANGED <<now, fresh, current, timer, tick, skip, attached, manual, edits>>

(* Locked: the last section of start() moves every due slot and arms.      *)
StartRecompute(s) ==
  /\ boot[s] = "recompute"
  /\ boot' = [boot EXCEPT ![s] = "on"]
  /\ PersistChange(s, RecomputeNextRuns(copy[s], now))
  /\ timer' = [timer EXCEPT ![s] = Armed(copy'[s])]
  /\ skip' = {}
  /\ UNCHANGED <<now, fresh, current, tick, batch, attached, deferred, manual, edits>>

-----------------------------------------------------------------------------
(* Calls of the service the gateway holds.  The first section of start()   *)
(* is queued before the gateway serves any of them.                        *)
Serving == boot[current] # "clear"
Own == copy[current]

(* Locked, inspectManualRunPreflight: maintenance, which is not saved, then*)
(* refuse a job that is running or, unless forced, not due.                *)
RunPreflight(m, j, force) ==
  LET kept == RecomputeNextRunsForMaintenance(Own, now, FALSE)
      runnable == kept[j].running = None /\ (force \/ IsDue(kept[j], now))
  IN  /\ manual[m].phase = "idle"
      /\ Serving
      /\ j \in DOMAIN Own
      /\ copy' = [copy EXCEPT ![current] = kept]
      /\ manual' = [manual EXCEPT ![m] =
           IF runnable
           THEN [NoCall("reserve") EXCEPT !.job = j, !.force = force, !.startedAt = now]
           ELSE NoCall("over")]
      /\ UNCHANGED <<now, store, fresh, current, timer, tick, boot, skip, batch, attached,
                     deferred, edits>>

(* Mutant: the section trusts the preflight.                               *)
RunReserveUnchecked(m) ==
  LET j == manual[m].job
  IN  /\ manual[m].phase = "reserve"
      /\ manual' = [manual EXCEPT ![m].phase = IF j \in DOMAIN Own THEN "run" ELSE "over"]
      /\ Persist(current, Marked(Own, {j}, manual[m].startedAt))
      /\ UNCHANGED <<now, fresh, current, timer, tick, boot, skip, batch, attached,
                     deferred, edits>>

(* Locked, prepareManualRun: look at the copy again, and mark the job.     *)
RunReserve(m) ==
  LET j == manual[m].job
      free == j \in DOMAIN Own /\ Own[j].running = None
  IN  /\ manual[m].phase = "reserve"
      /\ manual' = [manual EXCEPT ![m] =
                       IF free THEN [@ EXCEPT !.phase = "run"] ELSE NoCall("over")]
      /\ IF free THEN Persist(current, Marked(Own, {j}, manual[m].startedAt))
         ELSE UNCHANGED <<store, copy>>
      /\ UNCHANGED <<now, fresh, current, timer, tick, boot, skip, batch, attached,
                     deferred, edits>>

ManualRunEnds(m, status) ==
  /\ manual[m].phase = "run"
  /\ manual' = [manual EXCEPT ![m].phase = "finish", ![m].endedAt = now, ![m].status = status]
  /\ UNCHANGED <<now, store, copy, fresh, current, timer, tick, boot, skip, batch, attached,
                 deferred, edits>>

(* mergeManualRunSnapshotAfterReload: the file, with the state of the job  *)
(* that ran, or without it.                                                *)
MergeManualRun(ran, j) ==
  [k \in {i \in DOMAIN store : i = j => i \in DOMAIN ran} |->
     IF k = j THEN [ran[j] EXCEPT !.base = store[j].base] ELSE store[k]]

(* Locked, finishPreparedManualRun: apply the result unless the job is     *)
(* gone, read the file again, merge, maintenance, arm.                     *)
FinishPreparedManualRun(m) ==
  LET res == [job |-> manual[m].job, startedAt |-> manual[m].startedAt,
              endedAt |-> manual[m].endedAt, status |-> manual[m].status]
      merged == MergeManualRun(ApplyOutcomes(Own, {res}, manual[m].force), res.job)
  IN  /\ manual[m].phase = "finish"
      /\ manual' = [manual EXCEPT ![m] = NoCall("over")]
      /\ IF res.job \in DOMAIN Own
         THEN /\ Persist(current, RecomputeNextRunsForMaintenance(merged, now, TRUE))
              /\ attached' = [attached EXCEPT ![current] = FALSE]
              /\ timer' = [timer EXCEPT ![current] = Armed(store')]
         ELSE UNCHANGED <<store, copy, attached, timer>>
      /\ UNCHANGED <<now, fresh, current, tick, boot, skip, batch, deferred, edits>>

(* Locked, add: createJob, then the due slots of all jobs move.            *)
NewRecord(j, t) ==
  LET r == [enabled |-> TRUE, base |-> IF Kind[j] = "at" THEN t + 1 ELSE t, next |-> None,
            running |-> None, lastRun |-> None, lastStatus |-> "none", errors |-> 0]
  IN  [r EXCEPT !.next = ComputeJobNextRunAtMs(r, j, t)]
Add(j) ==
  /\ Serving
  /\ j \in fresh
  /\ fresh' = fresh \ {j}
  /\ Persist(current, RecomputeNextRuns(
                        [k \in DOMAIN Own \cup {j} |->
                           IF k = j THEN NewRecord(j, now) ELSE Own[k]], now))
  /\ timer' = [timer EXCEPT ![current] = Armed(store')]
  /\ UNCHANGED <<now, current, tick, boot, skip, batch, attached, deferred, manual, edits>>

(* Locked, update: applyJobPatch, then the slot of this job.  A new        *)
(* schedule starts from now.                                               *)
Patched(r, j, p) ==
  LET q == CASE p = "enable" -> [r EXCEPT !.enabled = TRUE]
             [] p = "disable" -> [r EXCEPT !.enabled = FALSE]
             [] p = "schedule" -> [r EXCEPT !.base = IF Kind[j] = "at" THEN now + 1 ELSE now]
             [] p = "edit" -> r
      again == [q EXCEPT !.next = ComputeJobNextRunAtMs(q, j, now)]
  IN  IF p = "edit" THEN IF q.enabled /\ q.next = None THEN again ELSE q
      ELSE IF q.enabled THEN again ELSE [q EXCEPT !.next = None, !.running = None]
Update(j, p) ==
  /\ Serving
  /\ edits < MaxEdits
  /\ edits' = edits + 1
  /\ j \in DOMAIN Own
  /\ Persist(current, [Own EXCEPT ![j] = Patched(Own[j], j, p)])
  /\ timer' = [timer EXCEPT ![current] = Armed(store')]
  /\ UNCHANGED <<now, fresh, current, tick, boot, skip, batch, attached, deferred, manual>>

(* Locked, remove.                                                         *)
Remove(j) ==
  /\ Serving
  /\ edits < MaxEdits
  /\ edits' = edits + 1
  /\ j \in DOMAIN Own
  /\ Persist(current, [k \in DOMAIN Own \ {j} |-> Own[k]])
  /\ timer' = [timer EXCEPT ![current] = Armed(store')]
  /\ UNCHANGED <<now, fresh, current, tick, boot, skip, batch, attached, deferred, manual>>

(* Locked, ensureLoadedForRead of list, listPage and status.               *)
EnsureLoadedForRead ==
  /\ Serving
  /\ PersistChange(current, RecomputeNextRunsForMaintenance(Own, now, FALSE))
  /\ UNCHANGED <<now, fresh, current, timer, tick, boot, skip, batch, attached,
                 deferred, manual, edits>>

-----------------------------------------------------------------------------
(* The environment.                                                        *)

Advance ==
  /\ now < MaxTime
  /\ now' = now + 1
  /\ UNCHANGED <<store, copy, fresh, current, timer, tick, boot, skip, batch, attached,
                 deferred, manual, edits>>

(* stop() and the start() of the next service: only the timer is stopped.  *)
(* Bound: the startup and the manual runs of the old service have ended.   *)
Reload ==
  /\ current < MaxService
  /\ boot[current] = "on"
  /\ \A m \in Manual : manual[m].phase \in {"idle", "over"}
  /\ current' = current + 1
  /\ timer' = [timer EXCEPT ![current] = FALSE]
  /\ boot' = [boot EXCEPT ![current] = "off", ![current + 1] = "clear"]
  /\ UNCHANGED <<now, store, copy, fresh, tick, skip, batch, attached, deferred,
                 manual, edits>>

(* The process dies and is started again; the file survives.               *)
Crash ==
  /\ current < MaxService
  /\ current' = current + 1
  /\ timer' = [s \in Service |-> FALSE]
  /\ tick' = [s \in Service |-> "idle"]
  /\ boot' = [s \in Service |-> IF s = current + 1 THEN "clear" ELSE "off"]
  /\ batch' = [w \in Runner |-> NoBatch]
  /\ deferred' = <<>>
  /\ skip' = {}
  /\ manual' = [m \in Manual |->
                  NoCall(IF manual[m].phase = "idle" THEN "idle" ELSE "over")]
  /\ attached' = [s \in Service |-> FALSE]
  /\ copy' = [s \in Service |-> NoJobs]
  /\ UNCHANGED <<now, store, fresh, edits>>

(* The file was written when the jobs were created, at time 1.             *)
CronInit ==
  /\ now = BootTime
  /\ store = [j \in InitialJobs |-> NewRecord(j, 1)]
  /\ copy = [s \in Service |-> NoJobs]
  /\ fresh = Job \ InitialJobs
  /\ current = 1
  /\ timer = [s \in Service |-> FALSE]
  /\ tick = [s \in Service |-> "idle"]
  /\ boot = [s \in Service |-> IF s = 1 THEN "clear" ELSE "off"]
  /\ skip = {}
  /\ batch = [w \in Runner |-> NoBatch]
  /\ attached = [s \in Service |-> FALSE]
  /\ deferred = <<>>
  /\ manual = [m \in Manual |-> NoCall("idle")]
  /\ edits = 0
  /\ unmarked = {}

TickStep(s) ==
  \/ OnTimer(s)
  \/ CollectDueJobs(s)
  \/ \E j \in Job : RunDueJob(s, j)
  \/ ApplyTickResults(s)
  \/ TickFinally(s)

StartStep(s) ==
  \/ StartClear(s)
  \/ PlanStartupCatchup(s)
  \/ \E j \in Job : RunStartupCatchupCandidate(s, j)
  \/ ApplyStartupCatchupOutcomes(s)
  \/ StartRecompute(s)

SomeJobEnds(w) == \E e \in batch[w].live, r \in Outcome : JobEnds(w, e, r)

CronStep ==
  \/ \E s \in Service : OnTimerBusy(s)
  \/ \E s \in Service : TickStep(s)
  \/ \E s \in Service : StartStep(s)
  \/ \E w \in Runner : SomeJobEnds(w)
  \/ \E m \in Manual, j \in Job, force \in BOOLEAN : RunPreflight(m, j, force)
  \/ \E m \in Manual : RunReserve(m)
  \/ \E m \in Manual, r \in Outcome : ManualRunEnds(m, r)
  \/ \E m \in Manual : FinishPreparedManualRun(m)
  \/ \E j \in Job : Add(j)
  \/ \E j \in Job, p \in Patches : Update(j, p)
  \/ \E j \in Job : Remove(j)
  \/ EnsureLoadedForRead
  \/ Advance
  \/ Reload
  \/ Crash

CronNext == CronStep /\ RecordUnmarked

CronSpec == CronInit /\ [][CronNext]_cronVars

(* Timers fire, locked sections end, and a job ends or times out.          *)
CronFairSpec ==
  /\ CronSpec
  /\ \A s \in Service :
       /\ WF_cronVars(TickStep(s) /\ RecordUnmarked)
       /\ WF_cronVars(StartStep(s) /\ RecordUnmarked)
  /\ \A w \in Runner : WF_cronVars(SomeJobEnds(w) /\ RecordUnmarked)
  /\ \A m \in Manual :
       /\ WF_cronVars(RunReserve(m) /\ RecordUnmarked)
       /\ WF_cronVars((\E r \in Outcome : ManualRunEnds(m, r)) /\ RecordUnmarked)
       /\ WF_cronVars(FinishPreparedManualRun(m) /\ RecordUnmarked)

-----------------------------------------------------------------------------
(* Executions of a job that are under way at this moment.                  *)
TickExecutions(j) ==
  Cardinality({s \in Service : \E e \in batch[<<s, "tick">>].live : e.job = j})
Executions(j) ==
  Cardinality({w \in Runner : \E e \in batch[w].live : e.job = j})
  + Cardinality({m \in Manual : manual[m].job = j /\ manual[m].phase = "run"})

(* runningAtMs keeps a job from running twice at the same time: a tick, a  *)
(* catch-up and manual runs of one service overlap on a job only after its *)
(* marker was removed under a run, by disabling the job or as stuck.  (Not *)
(* so after a reload: run() of the new service and its catch-up look for   *)
(* the marker in a copy that the tick of the old one never touches.)       *)
OverlapNeedsLostMarker == \A j \in Job : Executions(j) > 1 => j \in unmarked

(* The part of it that survives a reload, because a tick reads the file    *)
(* again: the ticks of two services overlap on a job only after its marker *)
(* was removed under a run.                                                *)
TicksNeedLostMarker == \A j \in Job : TickExecutions(j) > 1 => j \in unmarked

(* Once start() has cleared the markers of the last life, a marker belongs *)
(* to an execution whose result is still to come: no order of edits, runs  *)
(* and results leaves a job blocked until it counts as stuck, as long as   *)
(* one service at a time works on the file.                                *)
MarkerHasRun ==
  boot[current] # "clear" => \A j \in Job : InFile(j) \/ InMemory(j) => InFlight(j)

(* Issue 12025: the scheduler of a started service never falls asleep      *)
(* while an enabled job has a slot, in its memory or in the file, also     *)
(* during a tick that hangs; at the end of a tick the finally block is     *)
(* about to arm the timer.                                                 *)
SchedulerAwake ==
  /\ boot[current] = "on"
  /\ Armed(store) \/ Armed(copy[current])
  /\ tick[current] # "finally"
  => timer[current]

(* Issues 11452 and 13845: a tick or the catch-up takes up a one-shot on   *)
(* the time it is set for only if it has not succeeded since, also after   *)
(* manual runs, retries, and edits that enable or schedule it again.  (The *)
(* slot a startup plan gives a deferred job is not the time it is set for: *)
(* a job run and enabled again while the plan executes keeps that slot.)   *)
SeenBy(w, j) == IF w[2] = "tick" THEN store[j] ELSE copy[w[1]][j]
OneShotNotRepeated ==
  [][\A w \in Runner : \A j \in batch'[w].todo \ batch[w].todo :
       Kind[j] = "at" /\ SeenBy(w, j).next = SeenBy(w, j).base
       => /\ j \in DOMAIN store
          /\ ~(store[j].lastStatus = "ok" /\ store[j].base <= store[j].lastRun)]_cronVars

(* Issues 13992 and 17852: the slot of a due job that nobody is executing  *)
(* is not moved on by a tick, a manual run of another job or a read, unless*)
(* it has been executed; only an update of the job, an add and the startup *)
(* may do that.                                                            *)
DueSlotsAreKept ==
  [][\A j \in DOMAIN store \cap DOMAIN store' :
       /\ IsDue(store[j], now) /\ ~InFlight(j)
       /\ edits' = edits /\ fresh' = fresh /\ boot' = boot
       => store'[j].next = store[j].next \/ store[j].lastRun >= store[j].next]_cronVars

(* Slots that become due while the catch-up runs are kept for a tick, as a *)
(* comment in applyStartupCatchupOutcomes has it.  Not so: the last section*)
(* of start() moves them.                                                  *)
StartKeepsNewlyDue ==
  [][\A j \in DOMAIN store :
       /\ boot[current] = "recompute" /\ boot'[current] = "on"
       /\ IsDue(store[j], now) /\ j \notin skip
       => store'[j].next = store[j].next]_cronVars

(* Every due job is executed, disabled, removed or moved: the timer, the   *)
(* tick and the markers never starve it.                                   *)
DueJobsRun ==
  \A j \in Job :
    (j \in DOMAIN store /\ IsDue(store[j], now)) ~>
    ~(j \in DOMAIN store /\ IsDue(store[j], now))
=============================================================================
