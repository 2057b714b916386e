------------------------- MODULE AgentRunLanesProofs -------------------------
(***************************************************************************)
(* Proofs about AgentRunLanes: the runs of a session do not overlap, for   *)
(* any runs, sessions, lanes and limits and any number of restarts.        *)
(*                                                                         *)
(* Two things have to be known at once.  A session lane keeps its one slot *)
(* (SlotInv), also for the tasks an earlier generation left behind.  And   *)
(* the work of a run happens inside its session task (BodyInv), although   *)
(* it is queued on another lane.  The rest is the queue's own invariant,   *)
(* which every step of the runs keeps.                                     *)
(***************************************************************************)
EXTENDS AgentRunLanes, CommandQueueProofs

SessionLane == {ResolveSessionLane(r) : r \in Run}

(* The cap of a session lane is never configured.                          *)
CapInv == \A l \in SessionLane : maxConcurrent[l] = 1

(* A session lane has run at most one task in each of its generations that *)
(* still runs.                                                             *)
SlotInv ==
  \A t, u \in Task :
    /\ LaneOf[t] = LaneOf[u] /\ LaneOf[t] \in SessionLane
    /\ status[t] = "running" /\ status[u] = "running"
    /\ genOf[t] = genOf[u]
    => t = u

(* Work that waits or runs does so inside the task of its session.         *)
BodyInv ==
  \A r \in Run : status[<<r, "work">>] \in {"queued", "running"} =>
    status[<<r, "session">>] = "running"

SendInv == send \in [Run -> {"no", "waiting", "done"}]

LanesInv == IndInv /\ CapInv /\ SlotInv /\ BodyInv /\ SendInv

-----------------------------------------------------------------------------
(* The tasks of a run and the lane of its session task.                    *)
LEMMA RunTasks ==
  ASSUME NEW r \in Run
  PROVE  /\ <<r, "session">> \in Task /\ <<r, "work">> \in Task
         /\ LaneOf[<<r, "session">>] = ResolveSessionLane(r)
         /\ ResolveSessionLane(r) \in SessionLane
         /\ ResolveSessionLane(r) \in Lane
<1>1. <<r, "session">> \in RunTask /\ <<r, "work">> \in RunTask
  BY DEF RunTask, Level
<1>2. TaskLane[<<r, "session">>] = ResolveSessionLane(r)
  BY <1>1 DEF TaskLane
<1> QED BY <1>1, <1>2, LanesAssumption DEF SessionLane, LaneName

(* Nothing runs at the start.                                              *)
LEMMA InitLanesInv == LanesInit => LanesInv
<1> SUFFICES ASSUME LanesInit PROVE LanesInv
  OBVIOUS
<1>1. IndInv
  BY InitIndInv DEF LanesInit
<1>2. CapInv
  <2>1. SessionLane \subseteq Lane
    BY LanesAssumption DEF SessionLane, LaneName
  <2> QED BY <2>1 DEF LanesInit, Init, CapInv
<1>3. SlotInv
  BY DEF LanesInit, Init, SlotInv
<1>4. BodyInv
  BY RunTasks DEF LanesInit, Init, BodyInv
<1>5. SendInv
  BY DEF LanesInit, SendInv
<1> QED BY <1>1, <1>2, <1>3, <1>4, <1>5 DEF LanesInv

(* drainLane fills the slot of a session lane only when it is free: a task *)
(* it starts there is the only one of the new active set.                  *)
LEMMA DrainKeepsSlot ==
  ASSUME IndInv, IndInv', SlotInv, CapInv', NEW act, NEW st, DrainPost(act, st),
         ActiveInv(act, st, genOf, generation'),
         \A t \in Task : st[t] = "running" => status[t] = "running"
  PROVE  SlotInv'
<1> SUFFICES ASSUME NEW t \in Task, NEW u \in Task,
                    LaneOf[t] = LaneOf[u], LaneOf[t] \in SessionLane,
                    status'[t] = "running", status'[u] = "running",
                    genOf'[t] = genOf'[u]
             PROVE  t = u
  BY DEF SlotInv
<1> DEFINE l == LaneOf[t]
<1>0. l \in Lane /\ LaneOf[u] \in Lane
  BY LaneOfAssumption
<1>1. CASE st[t] = "running" /\ st[u] = "running"
  <2>1. genOf'[t] = genOf[t] /\ genOf'[u] = genOf[u]
    BY <1>1 DEF DrainPost
  <2> QED BY <1>1, <2>1 DEF SlotInv
<1>2. ASSUME NEW v \in Task, v = t \/ v = u, st[v] # "running" PROVE t = u
  <2>1. genOf'[v] = generation'[l]
    BY <1>0, <1>2 DEF DrainPost
  <2>2. t \in active'[l] /\ u \in active'[l] /\ v \in active'[l]
    BY <1>0, <1>2, <2>1 DEF IndInv, ActiveInv
  <2>3. v \notin act[l]
    BY <1>0, <1>2 DEF ActiveInv
  <2>4. Cardinality(active'[l]) <= 1
    BY <1>0, <2>2, <2>3 DEF DrainPost, CapInv
  <2>5. IsFiniteSet(active'[l])
    <3>1. active'[l] \subseteq Task
      BY <1>0 DEF IndInv, TypeOK
    <3> QED BY <3>1, TaskAssumption, FS_Subset
  <2>6. Cardinality(active'[l]) = 1
    BY <2>2, <2>4, <2>5, FS_CardinalityType, FS_EmptySet
  <2>7. PICK x : active'[l] = {x}
    BY <2>5, <2>6, FS_Singleton
  <2> QED BY <2>2, <2>7
<1> QED BY <1>1, <1>2

-----------------------------------------------------------------------------
(* The parts of the invariant that a step of the queue can disturb.        *)
QueueParts == IndInv /\ CapInv /\ SlotInv /\ BodyInv

(* A step that starts no task and leaves the session tasks running.        *)
LEMMA NoStartKeepsParts ==
  ASSUME QueueParts, IndInv', UNCHANGED <<maxConcurrent, genOf>>,
         \A u \in Task : status'[u] \in {"queued", "running"} => status'[u] = status[u],
         \A r \in Run : status'[<<r, "work">>] \in {"queued", "running"} =>
           (status[<<r, "session">>] = "running" => status'[<<r, "session">>] = "running")
  PROVE  QueueParts'
<1>1. CapInv'
  BY DEF QueueParts, CapInv
<1>2. SlotInv'
  BY DEF QueueParts, SlotInv
<1>3. BodyInv'
  BY RunTasks DEF QueueParts, BodyInv
<1> QED BY <1>1, <1>2, <1>3 DEF QueueParts

(* enqueueCommandInLane, of work only from inside its session task.        *)
LEMMA EnqueueKeepsParts ==
  ASSUME QueueParts, NEW t \in Task, Enqueue(t),
         \A r \in Run : t = <<r, "work">> => status[<<r, "session">>] = "running"
  PROVE  QueueParts'
<1>0. IndInv /\ CapInv /\ SlotInv /\ BodyInv /\ status \in [Task -> Status]
  BY DEF QueueParts, IndInv, TypeOK
<1>1. CASE RefuseEnqueue(t)
  <2>1. IndInv'
    BY <1>0, <1>1, SettleKeepsInv DEF RefuseEnqueue, Settled
  <2>2. \A u \in Task : status'[u] = IF u = t THEN "refused" ELSE status[u]
    BY <1>0, <1>1 DEF RefuseEnqueue
  <2>3. \A r \in Run : status[<<r, "session">>] = "running" => <<r, "session">> # t
    BY <1>1 DEF RefuseEnqueue
  <2>4. UNCHANGED <<maxConcurrent, genOf>>
    BY <1>1 DEF RefuseEnqueue
  <2> QED BY <2>1, <2>2, <2>3, <2>4, RunTasks, NoStartKeepsParts
<1>2. CASE EnqueueCommandInLane(t)
  <2> DEFINE st == [status EXCEPT ![t] = "queued"]
  <2>1. /\ status[t] = "idle"
        /\ UNCHANGED <<maxConcurrent, generation>>
        /\ IndInv' /\ DrainPost(active, st)
    BY <1>0, <1>2, EnqueueKeepsInv DEF EnqueueCommandInLane
  <2>2. \A u \in Task : st[u] = IF u = t THEN "queued" ELSE status[u]
    BY <1>0
  <2> HIDE DEF st
  <2>3. CapInv'
    BY <1>0, <2>1 DEF CapInv
  <2>4. ActiveInv(active, st, genOf, generation')
    BY <1>0, <2>1, <2>2 DEF IndInv, ActiveInv
  <2>5. SlotInv'
    BY <1>0, <2>1, <2>2, <2>3, <2>4, DrainKeepsSlot
  <2>6. BodyInv'
    <3> SUFFICES ASSUME NEW r \in Run, status'[<<r, "work">>] \in {"queued", "running"}
                 PROVE  status'[<<r, "session">>] = "running"
      BY DEF BodyInv
    <3>1. <<r, "session">> \in Task /\ <<r, "work">> \in Task
      BY RunTasks
    <3>2. status[<<r, "session">>] = "running"
      BY <1>0, <2>1, <2>2, <3>1 DEF DrainPost, BodyInv
    <3> QED BY <2>1, <2>2, <3>1, <3>2 DEF DrainPost
  <2> QED BY <2>1, <2>3, <2>5, <2>6 DEF QueueParts
<1> QED BY <1>1, <1>2 DEF Enqueue

(* A task ends, that of a session only after its work.                     *)
LEMMA CompleteKeepsParts ==
  ASSUME QueueParts, NEW t \in Task, NEW o \in {"resolved", "rejected"}, CompleteTask(t, o),
         \A r \in Run : t = <<r, "session">> =>
           status[<<r, "work">>] \notin {"queued", "running"}
  PROVE  QueueParts'
<1>0. IndInv /\ CapInv /\ SlotInv /\ BodyInv /\ status \in [Task -> Status]
  BY DEF QueueParts, IndInv, TypeOK
<1>1. CASE CompleteStale(t, o)
  <2>1. IndInv'
    BY <1>0, <1>1, SettleKeepsInv DEF CompleteStale, Settled
  <2>2. \A u \in Task : status'[u] = IF u = t THEN o ELSE status[u]
    BY <1>0, <1>1 DEF CompleteStale
  <2>3. UNCHANGED <<maxConcurrent, genOf>>
    BY <1>1 DEF CompleteStale
  <2> QED BY <2>1, <2>2, <2>3, RunTasks, NoStartKeepsParts
<1>2. CASE CompleteCurrent(t, o)
  <2> DEFINE st == [status EXCEPT ![t] = o]
             freed == [active EXCEPT ![LaneOf[t]] = @ \ {t}]
  <2>1. /\ status[t] = "running"
        /\ UNCHANGED <<maxConcurrent, generation>>
        /\ IndInv' /\ DrainPost(freed, st)
    BY <1>0, <1>2, CompleteCurrentKeepsInv DEF CompleteCurrent
  <2>2. \A u \in Task : st[u] = IF u = t THEN o ELSE status[u]
    BY <1>0
  <2>3. \A l \in Lane : freed[l] = IF l = LaneOf[t] THEN active[l] \ {t} ELSE active[l]
    BY <1>0 DEF IndInv, TypeOK
  <2> HIDE DEF st, freed
  <2>4. CapInv'
    BY <1>0, <2>1 DEF CapInv
  <2>5. ActiveInv(freed, st, genOf, generation')
    <3> SUFFICES ASSUME NEW l \in Lane
                 PROVE  freed[l] = {u \in Task : /\ LaneOf[u] = l /\ st[u] = "running"
                                                /\ genOf[u] = generation'[l]}
      BY DEF ActiveInv
    <3>1. active[l] = {u \in Task : /\ LaneOf[u] = l /\ status[u] = "running"
                                    /\ genOf[u] = generation[l]}
      BY <1>0 DEF IndInv, ActiveInv
    <3>2. \A u \in Task : st[u] = "running" <=> status[u] = "running" /\ u # t
      BY <2>2
    <3>3. generation'[l] = generation[l]
      BY <2>1
    <3>4. CASE l = LaneOf[t]
      BY <2>3, <3>1, <3>2, <3>3, <3>4
    <3>5. CASE l # LaneOf[t]
      BY <2>3, <3>1, <3>2, <3>3, <3>5
    <3> QED BY <3>4, <3>5
  <2>6. SlotInv'
    BY <1>0, <2>1, <2>2, <2>4, <2>5, DrainKeepsSlot
  <2>7. BodyInv'
    <3> SUFFICES ASSUME NEW r \in Run, status'[<<r, "work">>] \in {"queued", "running"}
                 PROVE  status'[<<r, "session">>] = "running"
      BY DEF BodyInv
    <3>1. <<r, "session">> \in Task /\ <<r, "work">> \in Task
      BY RunTasks
    <3>2. status[<<r, "work">>] \in {"queued", "running"}
      BY <2>1, <2>2, <3>1 DEF DrainPost
    <3>3. status[<<r, "session">>] = "running" /\ t # <<r, "session">>
      BY <1>0, <3>2 DEF BodyInv
    <3> QED BY <2>1, <2>2, <3>1, <3>3 DEF DrainPost
  <2> QED BY <2>1, <2>4, <2>6, <2>7 DEF QueueParts
<1> QED BY <1>1, <1>2 DEF CompleteTask

(* clearCommandLane takes away what waits.                                 *)
LEMMA ClearKeepsParts ==
  ASSUME QueueParts, NEW l \in Lane, ClearCommandLane(l)
  PROVE  QueueParts'
<1>1. /\ IndInv'
      /\ \A t \in Task : status'[t] = status[t]
                           \/ (status[t] = "queued" /\ status'[t] = "cleared")
  BY ClearKeepsInv DEF QueueParts
<1>2. UNCHANGED <<maxConcurrent, genOf>>
  BY DEF ClearCommandLane
<1> QED BY <1>1, <1>2, RunTasks, NoStartKeepsParts

(* A step that ends in drainLane and settles nothing.                      *)
LEMMA DrainKeepsParts ==
  ASSUME QueueParts, IndInv', CapInv', NEW act, DrainPost(act, status),
         ActiveInv(act, status, genOf, generation')
  PROVE  QueueParts'
<1>1. SlotInv'
  BY DrainKeepsSlot DEF QueueParts
<1>2. BodyInv'
  BY RunTasks DEF QueueParts, BodyInv, DrainPost
<1> QED BY <1>1, <1>2 DEF QueueParts

(* resetAllLanes.                                                          *)
LEMMA ResetKeepsParts == ASSUME QueueParts, ResetAllLanes PROVE QueueParts'
<1> DEFINE idle == [l \in Lane |-> {}]
<1>0. IndInv
  BY DEF QueueParts
<1>1. IndInv' /\ DrainPost(idle, status)
  BY <1>0, ResetKeepsInv
<1>2. CapInv'
  BY DEF QueueParts, CapInv, ResetAllLanes
<1>3. ActiveInv(idle, status, genOf, generation')
  <2> SUFFICES ASSUME NEW l \in Lane, NEW t \in Task, LaneOf[t] = l
               PROVE  genOf[t] # generation'[l]
    BY DEF ActiveInv
  <2>1. genOf[t] \in Nat /\ generation[l] \in Nat /\ genOf[t] <= generation[l]
    BY <1>0 DEF IndInv, TypeOK, GenInv
  <2>2. generation'[l] = generation[l] + 1
    BY DEF ResetAllLanes
  <2> QED BY <2>1, <2>2
<1> HIDE DEF idle
<1> QED BY <1>1, <1>2, <1>3, DrainKeepsParts

(* applyGatewayLaneConcurrency sets lanes that are no session's.           *)
LEMMA ConcurrencyKeepsParts ==
  ASSUME QueueParts, NEW cfg \in Limits, ApplyGatewayLaneConcurrency(cfg)
  PROVE  QueueParts'
<1> DEFINE L == DOMAIN cfg
<1>0. IndInv /\ TypeOK
  BY DEF QueueParts, IndInv
<1>1. /\ L = {"cron", "main", "subagent"} /\ L \subseteq Lane
      /\ \A l \in L : cfg[l] \in Nat
      /\ SessionLane \cap L = {}
      /\ SessionLane \subseteq Lane
  BY RunAssumption, LanesAssumption DEF LaneName, SessionLane
<1>2. /\ maxConcurrent' = [lane \in Lane |->
           IF lane \notin L THEN maxConcurrent[lane]
           ELSE IF cfg[lane] < 1 THEN 1 ELSE cfg[lane]]
      /\ UNCHANGED <<generation, gatewayDraining, enqueuedAt, waiter>>
      /\ DrainLanes(L, queue, active, status)
  BY LanesAssumption DEF ApplyGatewayLaneConcurrency
<1> HIDE DEF L
<1>3. /\ maxConcurrent' \in [Lane -> Nat \ {0}]
      /\ \A l \in Lane \ L : maxConcurrent'[l] = maxConcurrent[l]
  BY <1>0, <1>1, <1>2 DEF TypeOK
<1>4. BusyInv(queue, active, maxConcurrent', Lane \ L)
  BY <1>0, <1>3 DEF IndInv, BusyInv
<1>5. DrainPre(L, queue, active, status)
  BY <1>0, <1>1, <1>2, <1>3, <1>4 DEF DrainPre, IndInv, TypeOK
<1>6. /\ \A l \in Lane : generation[l] <= generation'[l]
      /\ gatewayDraining' \in BOOLEAN
      /\ waiter' \in [Waiter -> [state : WaiterState, ids : SUBSET Task]]
  BY <1>0, <1>2 DEF TypeOK
<1>7. IndInv' /\ DrainPost(active, status)
  BY <1>0, <1>2, <1>5, <1>6, DrainKeepsInv
<1>8. CapInv'
  BY <1>1, <1>3 DEF QueueParts, CapInv
<1>9. ActiveInv(active, status, genOf, generation')
  BY <1>0, <1>2 DEF IndInv
<1> QED BY <1>7, <1>8, <1>9, DrainKeepsParts

-----------------------------------------------------------------------------
(* The tasks the actions name.                                             *)
LEMMA OutermostTask ==
  ASSUME NEW r \in Run
  PROVE  Outermost(r) \in Task /\ \A s \in Run : Outermost(r) # <<s, "work">>
<1>1. Outermost(r) \in RunTask
  BY DEF Outermost, RunTask, Level
<1> QED BY <1>1, LanesAssumption DEF Outermost

(* A task that is not work is the cron or the session task of a run.       *)
LEMMA InnerTask ==
  ASSUME NEW r \in Run, NEW level \in {"cron", "session"}, <<r, level>> \in RunTask
  PROVE  /\ <<r, level>> \in Task /\ Inner(<<r, level>>) \in Task
         /\ \A s \in Run : Inner(<<r, level>>) = <<s, "work">> => s = r /\ level = "session"
         /\ \A s \in Run : <<r, level>> = <<s, "session">> =>
              Inner(<<r, level>>) = <<s, "work">>
<1>1. Inner(<<r, level>>) = IF level = "cron" THEN <<r, "session">> ELSE <<r, "work">>
  BY DEF Inner
<1> QED BY <1>1, RunTasks, LanesAssumption

(* Every step of the runs keeps what is known about the queue.             *)
LEMMA LanesNextKeepsParts ==
  ASSUME QueueParts, LanesNext \/ UNCHANGED laneVars
  PROVE  QueueParts'
<1>1. ASSUME UNCHANGED <<maxConcurrent, generation, queue, active, status, genOf,
                         enqueuedAt, starts, waiter>>, gatewayDraining' \in BOOLEAN
      PROVE  QueueParts'
  <2>1. IndInv'
    <3>1. waiter' \in [Waiter -> [state : WaiterState, ids : SUBSET Task]]
      BY <1>1 DEF QueueParts, IndInv, TypeOK
    <3> QED BY <1>1, <3>1, WaiterStepKeepsInv DEF QueueParts
  <2> QED BY <1>1, <2>1, NoStartKeepsParts
<1>2. ASSUME UNCHANGED queueVars PROVE QueueParts'
  <2>1. gatewayDraining' \in BOOLEAN
    BY <1>2 DEF QueueParts, IndInv, TypeOK, queueVars
  <2> QED BY <1>1, <1>2, <2>1 DEF queueVars
<1>3. ASSUME NEW r \in Run, Dispatch(r) PROVE QueueParts'
  BY <1>3, OutermostTask, EnqueueKeepsParts DEF Dispatch
<1>4. ASSUME NEW r \in Run, NEW level \in {"cron", "session"}, <<r, level>> \in RunTask,
             StartInner(<<r, level>>)
      PROVE  QueueParts'
  <2>1. status[<<r, level>>] = "running" /\ Enqueue(Inner(<<r, level>>))
    BY <1>4 DEF StartInner
  <2>2. Inner(<<r, level>>) \in Task
    BY <1>4, InnerTask
  <2>3. ASSUME NEW s \in Run, Inner(<<r, level>>) = <<s, "work">>
        PROVE  status[<<s, "session">>] = "running"
    <3>1. \A u \in Run : Inner(<<r, level>>) = <<u, "work">> => u = r /\ level = "session"
      BY <1>4, InnerTask
    <3>2. s = r /\ level = "session"
      BY <2>3, <3>1
    <3> QED BY <2>1, <3>2
  <2> QED BY <2>1, <2>2, <2>3, EnqueueKeepsParts
<1>5. ASSUME NEW r \in Run, NEW level \in {"cron", "session"}, <<r, level>> \in RunTask,
             OuterEnds(<<r, level>>)
      PROVE  QueueParts'
  <2>1. PICK o \in {"resolved", "rejected"} : CompleteTask(<<r, level>>, o)
    BY <1>5 DEF OuterEnds
  <2>2. status[Inner(<<r, level>>)] \notin {"queued", "running"}
    BY <1>5 DEF OuterEnds, IsSettled, Settled
  <2>3. ASSUME NEW s \in Run, <<r, level>> = <<s, "session">>
        PROVE  status[<<s, "work">>] \notin {"queued", "running"}
    BY <1>5, <2>2, <2>3, InnerTask
  <2>4. <<r, level>> \in Task
    BY <1>5, InnerTask
  <2> QED BY <2>1, <2>3, <2>4, CompleteKeepsParts
<1>6. ASSUME NEW r \in Run, WorkEnds(r) \/ WorkAborted(r) PROVE QueueParts'
  <2>1. PICK o \in {"resolved", "rejected"} : CompleteTask(<<r, "work">>, o)
    BY <1>6 DEF WorkEnds, WorkAborted
  <2> QED BY <2>1, RunTasks, CompleteKeepsParts
<1>7. ASSUME NEW r \in Run, SessionsSend(r) PROVE QueueParts'
  <2>1. SendsTo[r] \in Run /\ Enqueue(Outermost(SendsTo[r]))
    BY <1>7, RunAssumption DEF SessionsSend
  <2> QED BY <2>1, OutermostTask, EnqueueKeepsParts
<1>8. ASSUME NEW r \in Run, SendAnswered(r) \/ SendTimesOut(r) PROVE QueueParts'
  BY <1>2, <1>8 DEF SendAnswered, SendTimesOut
<1>9. ASSUME NEW r \in Run, InterruptSession(r) PROVE QueueParts'
  BY <1>9, RunTasks, ClearKeepsParts DEF InterruptSession
<1>10. ASSUME NEW cfg \in Limits, ApplyGatewayLaneConcurrency(cfg) PROVE QueueParts'
  BY <1>10, ConcurrencyKeepsParts
<1>11. CASE Drain
  BY <1>1, <1>11 DEF Drain, MarkGatewayDraining
<1>12. CASE Reset
  BY <1>12, ResetKeepsParts DEF Reset
<1>13. CASE UNCHANGED laneVars
  BY <1>2, <1>13 DEF laneVars
<1> QED
  BY <1>3, <1>4, <1>5, <1>6, <1>7, <1>8, <1>9, <1>10, <1>11, <1>12, <1>13
  DEF LanesNext, RunStep

(* ... and about the sends.                                                *)
LEMMA LanesNextKeepsSend ==
  ASSUME SendInv, LanesNext \/ UNCHANGED laneVars
  PROVE  SendInv'
<1>1. ASSUME UNCHANGED send PROVE SendInv'
  BY <1>1 DEF SendInv
<1>2. ASSUME NEW r \in Run, SessionsSend(r) \/ SendAnswered(r) \/ SendTimesOut(r)
      PROVE  SendInv'
  BY <1>2 DEF SessionsSend, SendAnswered, SendTimesOut, SendInv
<1> QED
  BY <1>1, <1>2
  DEF LanesNext, RunStep, Dispatch, StartInner, OuterEnds, WorkEnds, WorkAborted,
      InterruptSession, ApplyGatewayLaneConcurrency, Drain, Reset, laneVars

(* The invariant of the runs holds of every behaviour.                     *)
LEMMA LanesInvariant == LanesSpec => []LanesInv
<1>1. LanesInv /\ [LanesNext]_laneVars => LanesInv'
  BY LanesNextKeepsParts, LanesNextKeepsSend DEF LanesInv, QueueParts
<1> QED BY <1>1, InitLanesInv, PTL DEF LanesSpec

-----------------------------------------------------------------------------
(* Every reachable state of the queue under agent runs is well typed.      *)
THEOREM LanesTypeCorrect == LanesSpec => []LanesTypeOK
<1>1. LanesInv => LanesTypeOK
  BY DEF LanesInv, IndInv, SendInv, LanesTypeOK
<1> QED BY <1>1, LanesInvariant, PTL

(* resolveSessionLane and a lane of one slot serialise the runs of a       *)
(* session: two of them work at once only when an in-process restart lies  *)
(* between the starts of their session tasks.                              *)
THEOREM SessionsAreSerial == LanesSpec => []OneRunPerSession
<1>1. LanesInv => OneRunPerSession
  <2> SUFFICES ASSUME LanesInv, NEW r \in Run, NEW s \in Run, r # s,
                      SessionKey[r] = SessionKey[s],
                      status[<<r, "work">>] = "running", status[<<s, "work">>] = "running"
               PROVE  genOf[<<r, "session">>] # genOf[<<s, "session">>]
    BY DEF OneRunPerSession
  <2>1. status[<<r, "session">>] = "running" /\ status[<<s, "session">>] = "running"
    BY DEF LanesInv, BodyInv
  <2>2. /\ <<r, "session">> \in Task /\ <<s, "session">> \in Task
        /\ LaneOf[<<r, "session">>] = LaneOf[<<s, "session">>]
        /\ LaneOf[<<r, "session">>] \in SessionLane
    BY RunTasks DEF ResolveSessionLane
  <2>3. <<r, "session">> # <<s, "session">>
    OBVIOUS
  <2> QED BY <2>1, <2>2, <2>3 DEF LanesInv, SlotInv
<1> QED BY <1>1, LanesInvariant, PTL
=============================================================================
