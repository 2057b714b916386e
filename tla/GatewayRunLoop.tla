--------------------------- MODULE GatewayRunLoop ---------------------------
(***************************************************************************)
(* The gateway's run loop (src/cli/gateway-cli/run-loop.ts) composed with  *)
(* the command queue: start the server, wait for a signal, drain, close,   *)
(* and either exit or go round the loop again in the same process, where   *)
(* resetAllLanes gives every lane a fresh generation.                      *)
(*                                                                         *)
(* Two asynchronous activities share the state: the loop itself and the    *)
(* shutdown that request() starts from a signal handler.  Every await is a *)
(* point where the other one, or a task of the queue, can run.             *)
(***************************************************************************)
EXTENDS CommandQueue

CONSTANTS
  MaxRestarts,     \* bound: restart requests that are not ignored
  Hung,            \* tasks that never end (their finally blocks never run)
  InProcess,       \* FALSE: restartGatewayProcessWithFreshPid may succeed
  StartMayFail,    \* params.start may reject
  SignalInStartup  \* a signal may arrive while params.start is pending

ASSUME MaxRestartsAssumption == MaxRestarts \in Nat
ASSUME WaiterAssumption == Waiter = 1 .. MaxRestarts

VARIABLES
  loop,            \* where the for(;;) loop is
  isFirstStart,
  server,          \* server # null: it listens
  lock,            \* lock # null: the handle of the gateway lock
  lockFile,        \* the lock file exists
  shuttingDown,
  shutdown,        \* where the asynchronous part of request() is
  isRestart,       \* the action of that shutdown
  hadLock,         \* a releaseLockIfHeld of the shutdown found a handle
  loopHadLock,     \* so did the one of the loop's catch block
  lockLost,        \* history: a failed start has released the lock
  resolver,        \* restartResolver, and whether its promise is resolved
  restarts,        \* restart requests accepted so far
  runsDrain        \* waitForActiveEmbeddedRuns

loopVars == <<loop, isFirstStart, server, lock, lockFile, shuttingDown, shutdown,
              isRestart, hadLock, loopHadLock, lockLost, resolver, restarts,
              runsDrain>>
vars == <<queueVars, loopVars>>

(* Types, and the one flag that mirrors a position: a shutdown is under    *)
(* way exactly while shuttingDown makes request() ignore further signals.  *)
LoopTypes ==
  /\ shuttingDown <=> shutdown # "idle"
  /\ loop \in {"starting", "failed", "serving", "exited"}
  /\ shutdown \in {"idle", "drain", "close", "release", "reacquire"}
  /\ resolver \in {"null", "pending", "resolved"}
  /\ restarts \in 0 .. MaxRestarts
  /\ runsDrain \in {"waiting", "drained", "timeout"}
  /\ isFirstStart \in BOOLEAN /\ server \in BOOLEAN
  /\ lock \in BOOLEAN /\ lockFile \in BOOLEAN
  /\ shuttingDown \in BOOLEAN /\ isRestart \in BOOLEAN
  /\ hadLock \in BOOLEAN /\ loopHadLock \in BOOLEAN /\ lockLost \in BOOLEAN

LoopTypeOK == TypeOK /\ LoopTypes

(* The gateway lock is held and the first params.start is pending.         *)
LoopInit ==
  /\ Init
  /\ loop = "starting" /\ isFirstStart = TRUE /\ server = FALSE
  /\ lock = TRUE /\ lockFile = TRUE
  /\ shuttingDown = FALSE /\ shutdown = "idle" /\ isRestart = FALSE
  /\ hadLock = FALSE /\ loopHadLock = FALSE /\ lockLost = FALSE
  /\ resolver = "null" /\ restarts = 0 /\ runsDrain = "drained"

Running == loop # "exited"

-----------------------------------------------------------------------------
(* The loop.                                                               *)

(* params.start resolves; the loop goes on to await a new restart promise. *)
StartSucceeds ==
  /\ loop = "starting"
  /\ server' = TRUE /\ isFirstStart' = FALSE
  /\ loop' = "serving" /\ resolver' = "pending"
  /\ UNCHANGED <<queueVars, lock, lockFile, shuttingDown, shutdown, isRestart,
                 hadLock, loopHadLock, lockLost, restarts, runsDrain>>

(* The first start fails: the error propagates, the outer finally releases *)
(* the lock and the process ends.                                          *)
FirstStartFails ==
  /\ loop = "starting" /\ StartMayFail /\ isFirstStart
  /\ loop' = "exited" /\ lock' = FALSE /\ lockFile' = FALSE
  /\ UNCHANGED <<queueVars, isFirstStart, server, shuttingDown, shutdown, isRestart,
                 hadLock, loopHadLock, lockLost, resolver, restarts, runsDrain>>

(* A later start fails: the process stays alive and starts to release.     *)
RestartFails ==
  /\ loop = "starting" /\ StartMayFail /\ ~isFirstStart
  /\ server' = FALSE
  /\ loop' = "failed" /\ loopHadLock' = lock
  /\ UNCHANGED <<queueVars, isFirstStart, lock, lockFile, shuttingDown, shutdown,
                 isRestart, hadLock, lockLost, resolver, restarts, runsDrain>>

(* releaseLockIfHeld of the catch block is done.                           *)
FailedStartReleased ==
  /\ loop = "failed"
  /\ loop' = "serving" /\ resolver' = "pending"
  /\ lock' = (lock /\ ~loopHadLock)
  /\ lockFile' = (lockFile /\ ~loopHadLock)
  /\ lockLost' = (lockLost \/ loopHadLock)
  /\ UNCHANGED <<queueVars, isFirstStart, server, shuttingDown, shutdown, isRestart,
                 hadLock, loopHadLock, restarts, runsDrain>>

(* Mutant: the first-iteration check of createRestartIterationHook never   *)
(* lets go, so the lanes are not reset.                                    *)
NextIterationWithoutReset ==
  /\ loop = "serving" /\ resolver = "resolved"
  /\ loop' = "starting"
  /\ gatewayDraining' = FALSE
  /\ UNCHANGED <<queue, active, maxConcurrent, generation, status, genOf, enqueuedAt,
                 starts, waiter, isFirstStart, server, lock, lockFile, shuttingDown,
                 shutdown, isRestart, hadLock, loopHadLock, lockLost, resolver,
                 restarts, runsDrain>>

(* The restart promise is resolved: onIteration resets the lanes, then     *)
(* params.start is called again.                                           *)
NextIteration ==
  /\ loop = "serving" /\ resolver = "resolved"
  /\ ResetAllLanes
  /\ loop' = "starting"
  /\ UNCHANGED <<isFirstStart, server, lock, lockFile, shuttingDown, shutdown,
                 isRestart, hadLock, loopHadLock, lockLost, resolver, restarts,
                 runsDrain>>

-----------------------------------------------------------------------------
(* The shutdown.                                                           *)

(* A signal is delivered between two turns of the event loop, so never     *)
(* between restartResolver() and the loop's continuation.                  *)
MaySignal ==
  /\ Running /\ ~shuttingDown
  /\ IF loop = "serving" THEN resolver = "pending" ELSE SignalInStartup

(* request("restart"): refuse new work, then wait for what is active.      *)
RequestRestart(runsActive) ==
  /\ MaySignal
  /\ restarts < MaxRestarts
  /\ shuttingDown' = TRUE /\ isRestart' = TRUE /\ shutdown' = "drain"
  /\ restarts' = restarts + 1
  /\ gatewayDraining' = TRUE
  /\ waiter' = [waiter EXCEPT ![restarts + 1] =
                  [state |-> WaiterResult(TRUE), ids |-> ActiveAtStart]]
  /\ runsDrain' = IF runsActive THEN "waiting" ELSE "drained"
  /\ UNCHANGED <<queue, active, maxConcurrent, generation, status, genOf, enqueuedAt,
                 starts, loop, isFirstStart, server, lock, lockFile, hadLock,
                 loopHadLock, lockLost, resolver>>

(* request("stop"): no drain.                                              *)
RequestStop ==
  /\ MaySignal
  /\ shuttingDown' = TRUE /\ isRestart' = FALSE /\ shutdown' = "drain"
  /\ UNCHANGED <<queueVars, loop, isFirstStart, server, lock, lockFile, hadLock,
                 loopHadLock, lockLost, resolver, restarts, runsDrain>>

(* waitForActiveEmbeddedRuns polls until no run is left or time is up.     *)
RunsDrainEnds(result) ==
  /\ Running /\ shutdown = "drain" /\ isRestart /\ runsDrain = "waiting"
  /\ runsDrain' = result
  /\ UNCHANGED <<queueVars, loop, isFirstStart, server, lock, lockFile, shuttingDown,
                 shutdown, isRestart, hadLock, loopHadLock, lockLost, resolver,
                 restarts>>

(* Mutant: the shutdown only waits for the embedded runs.                  *)
DrainedRunsOnly == isRestart => runsDrain # "waiting"

Drained == isRestart => /\ waiter[restarts].state # "waiting"
                        /\ runsDrain # "waiting"

(* The drain is over, by completion or by timeout: server?.close().        *)
BeginClose ==
  /\ Running /\ shutdown = "drain" /\ Drained /\ server
  /\ shutdown' = "close"
  /\ UNCHANGED <<queueVars, loop, isFirstStart, server, lock, lockFile, shuttingDown,
                 isRestart, hadLock, loopHadLock, lockLost, resolver, restarts,
                 runsDrain>>

(* Mutant: server?.close() is not awaited.                                 *)
CloseDoneNotAwaited ==
  /\ Running
  /\ shutdown = "close" \/ (shutdown = "drain" /\ Drained /\ ~server)
  /\ shutdown' = "release" /\ hadLock' = lock
  /\ UNCHANGED <<queueVars, loop, isFirstStart, server, lock, lockFile, shuttingDown,
                 isRestart, loopHadLock, lockLost, resolver, restarts, runsDrain>>

(* The finally block: forget the server, start to release the lock.        *)
CloseDone ==
  /\ Running
  /\ shutdown = "close" \/ (shutdown = "drain" /\ Drained /\ ~server)
  /\ server' = FALSE
  /\ shutdown' = "release" /\ hadLock' = lock
  /\ UNCHANGED <<queueVars, loop, isFirstStart, lock, lockFile, shuttingDown,
                 isRestart, loopHadLock, lockLost, resolver, restarts, runsDrain>>

(* The force-exit timer: longer than the drain timeout, cleared after      *)
(* close, so it can only fire while close() hangs.                         *)
ForceExit ==
  /\ Running /\ shutdown = "close"
  /\ loop' = "exited"
  /\ UNCHANGED <<queueVars, isFirstStart, server, lock, lockFile, shuttingDown,
                 shutdown, isRestart, hadLock, loopHadLock, lockLost, resolver,
                 restarts, runsDrain>>

ReleaseLock ==
  /\ lock' = (lock /\ ~hadLock)
  /\ lockFile' = (lockFile /\ ~hadLock)

(* Stop, or a fresh process takes over.                                    *)
ReleaseAndExit ==
  /\ Running /\ shutdown = "release"
  /\ isRestart => ~InProcess
  /\ ReleaseLock
  /\ loop' = "exited"
  /\ UNCHANGED <<queueVars, isFirstStart, server, shuttingDown, shutdown, isRestart,
                 hadLock, loopHadLock, lockLost, resolver, restarts, runsDrain>>

(* No fresh process: take the lock back if it was held.                    *)
ReleaseAndReacquire ==
  /\ Running /\ shutdown = "release" /\ isRestart /\ hadLock
  /\ ReleaseLock
  /\ shutdown' = "reacquire"
  /\ UNCHANGED <<queueVars, loop, isFirstStart, server, shuttingDown, isRestart,
                 hadLock, loopHadLock, lockLost, resolver, restarts, runsDrain>>

(* Mutant: the restart promise is never resolved.                          *)
FinishRestartUnresolved ==
  /\ shuttingDown' = FALSE /\ shutdown' = "idle"
  /\ UNCHANGED <<queueVars, loop, isFirstStart, server, isRestart, hadLock,
                 loopHadLock, lockLost, resolver, restarts, runsDrain>>

(* shuttingDown = false; restartResolver?.()                               *)
FinishRestart ==
  /\ shuttingDown' = FALSE /\ shutdown' = "idle"
  /\ resolver' = IF resolver = "pending" THEN "resolved" ELSE resolver
  /\ UNCHANGED <<queueVars, loop, isFirstStart, server, isRestart, hadLock,
                 loopHadLock, lockLost, restarts, runsDrain>>

(* Mutant: the in-process restart goes on without the lock.                *)
ReacquireLockSkipped ==
  /\ Running /\ shutdown = "reacquire" /\ ~lockFile
  /\ UNCHANGED <<lock, lockFile>>
  /\ FinishRestart

ReacquireLock ==
  /\ Running /\ shutdown = "reacquire" /\ ~lockFile
  /\ lock' = TRUE /\ lockFile' = TRUE
  /\ FinishRestart

ReacquireFails ==
  /\ Running /\ shutdown = "reacquire"
  /\ loop' = "exited"
  /\ UNCHANGED <<queueVars, isFirstStart, server, lock, lockFile, shuttingDown,
                 shutdown, isRestart, hadLock, loopHadLock, lockLost, resolver,
                 restarts, runsDrain>>

RestartWithoutLock ==
  /\ Running /\ shutdown = "release" /\ isRestart /\ ~hadLock
  /\ UNCHANGED <<lock, lockFile>>
  /\ FinishRestart

-----------------------------------------------------------------------------
(* Tasks and their callers go on while the loop awaits.                    *)
QueueStep ==
  /\ Running
  /\ \/ \E t \in Task : RefuseEnqueue(t) \/ EnqueueCommandInLane(t)
     \/ \E t \in Task \ Hung, o \in {"resolved", "rejected"} : CompleteTask(t, o)
     \/ \E w \in Waiter : WaiterTimeout(w)
  /\ UNCHANGED loopVars

LoopNext ==
  \/ StartSucceeds \/ FirstStartFails \/ RestartFails \/ FailedStartReleased
  \/ NextIteration
  \/ \E b \in BOOLEAN : RequestRestart(b)
  \/ RequestStop
  \/ \E r \in {"drained", "timeout"} : RunsDrainEnds(r)
  \/ BeginClose \/ CloseDone \/ ForceExit
  \/ ReleaseAndExit \/ ReleaseAndReacquire
  \/ ReacquireLock \/ ReacquireFails \/ RestartWithoutLock
  \/ QueueStep

LoopSpec == LoopInit /\ [][LoopNext]_vars

(* Every await of the loop and of the shutdown is bounded: drains carry a  *)
(* timeout, close() is cut off by the force-exit timer, the lock file is   *)
(* polled with a deadline.  Tasks end unless they hang.                    *)
LoopFairness ==
  /\ WF_vars(StartSucceeds \/ FirstStartFails \/ RestartFails \/ FailedStartReleased
             \/ NextIteration)
  /\ WF_vars(BeginClose \/ CloseDone \/ ForceExit \/ ReleaseAndExit \/ ReleaseAndReacquire
             \/ ReacquireLock \/ ReacquireFails \/ RestartWithoutLock)
  /\ WF_vars(\E r \in {"drained", "timeout"} : RunsDrainEnds(r))
  /\ \A w \in Waiter : WF_vars(Running /\ WaiterTimeout(w) /\ UNCHANGED loopVars)
  /\ \A t \in Task \ Hung :
       WF_vars(/\ Running
               /\ \E o \in {"resolved", "rejected"} : CompleteTask(t, o)
               /\ UNCHANGED loopVars)

LoopFairSpec == LoopSpec /\ LoopFairness

-----------------------------------------------------------------------------
(* "all active work drained": when the drain of a restart reports success, *)
(* every task that was active when the signal came has really ended.  No   *)
(* restart abandons a task behind the back of a waiter.                    *)
DrainReportsEnd ==
  \A w \in Waiter : waiter[w].state = "drained" =>
    \A t \in waiter[w].ids : status[t] \in Settled

(* resetAllLanes only runs between two servers, after the drain of the     *)
(* shutdown that asked for it is over.                                     *)
ResetBetweenServers ==
  [][generation' # generation =>
       ~server /\ \A w \in Waiter : waiter[w].state # "waiting"]_vars

(* A gateway that listens owns the lock file.                              *)
ServerHoldsLock == server /\ Running => lockFile

(* No restart loses the lock by itself: a gateway that listens owns the    *)
(* lock file unless a failed start of this process has given it away.      *)
LockKeptAcrossRestarts == server /\ Running => lockFile \/ lockLost

(* Every drain window ends, with a fresh generation that accepts work or   *)
(* with the end of the process.                                            *)
DrainWindowEnds == gatewayDraining ~> (~gatewayDraining \/ ~Running)

(* An entry that waits after a restart is started, although every task     *)
(* that hangs was active when a restart was requested and never frees its  *)
(* slot: "their finally blocks never ran" must not block new work.         *)
PreservedWorkRuns ==
  \A t \in Task :
    /\ loop = "starting" /\ ~isFirstStart /\ status[t] = "queued"
    /\ \A h \in Hung : status[h] = "running" /\ \E w \in Waiter : h \in waiter[w].ids
    ~> status[t] # "queued" \/ ~Running
=============================================================================
