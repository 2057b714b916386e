------------------------ MODULE DeliveryQueueProofs ------------------------
(***************************************************************************)
(* Proofs about the write-ahead queue, for any number of entries, lives,   *)
(* faults and retries.                                                     *)
(*                                                                         *)
(* Two arguments.  That no message is forgotten needs one fact about       *)
(* actors between two file operations: whoever is about to rename an entry *)
(* away has sent it, or was told to call it off.  That fact is what        *)
(* bestEffort breaks; overlapping actors do not.                           *)
(*                                                                         *)
(* The bounds on sends and attempts, and the refinement of the outbox, are *)
(* about one actor at a time: at any moment either the recovery of this    *)
(* life or the first sends are active, never both, so that no actor's      *)
(* entry is touched behind its back.  That is what sending during the      *)
(* recovery, and an in-process restart, break.                             *)
(***************************************************************************)
EXTENDS DeliveryQueue, FiniteSetTheorems, WellFoundedInduction, TLAPS

OpRecord == [pc : Pc, count : Nat]
OpType == op \in [Actor -> [Entry -> OpRecord]]

(* A step moves no other actor, and this one on no other entry, and brings *)
(* it to pc.                                                               *)
Moves(a, e, pc) ==
  \A b \in Actor, x \in Entry : op'[b][x].pc = IF b = a /\ x = e THEN pc ELSE op[b][x].pc

(* The count an actor holds changes at most for this entry.                *)
Counts(a, e, n) ==
  \A b \in Actor, x \in Entry : op'[b][x].count = IF b = a /\ x = e THEN n ELSE op[b][x].count

-----------------------------------------------------------------------------
(* What the steps do to the program counters.                              *)

LEMMA ActorFacts == Live \in Actor /\ Recovery \subseteq Actor /\ \A r \in Recovery : r # Live
  BY DeliveryAssumption DEF Live, Actor, Recovery

LEMMA TypeOfOp == DeliveryTypeOK => OpType
  BY DEF DeliveryTypeOK, OpType, OpRecord

LEMMA SetOpFacts ==
  ASSUME OpType, NEW a \in Actor, NEW e \in Entry, NEW v \in OpRecord,
         op' = [op EXCEPT ![a][e] = v]
  PROVE  OpType' /\ Moves(a, e, v.pc) /\ Counts(a, e, v.count)
<1> DEFINE row == [op[a] EXCEPT ![e] = v]
<1>1. op[a] \in [Entry -> OpRecord]
  BY DEF OpType
<1>2. /\ row \in [Entry -> OpRecord] /\ row[e] = v
      /\ \A x \in Entry : x # e => row[x] = op[a][x]
  BY <1>1
<1>3. op' = [op EXCEPT ![a] = row]
  OBVIOUS
<1> HIDE DEF row
<1>4. OpType' /\ op'[a] = row /\ \A b \in Actor : b # a => op'[b] = op[b]
  BY <1>2, <1>3 DEF OpType
<1> QED
  BY <1>2, <1>4 DEF Moves, Counts

LEMMA GotoFacts ==
  ASSUME OpType, NEW a \in Actor, NEW e \in Entry, NEW pc \in Pc, Goto(a, e, pc)
  PROVE  OpType' /\ Moves(a, e, pc) /\ Counts(a, e, op[a][e].count)
<1>1. op[a][e] \in OpRecord
  BY DEF OpType
<1> DEFINE v == [op[a][e] EXCEPT !.pc = pc]
<1>2. v \in OpRecord /\ v.pc = pc /\ v.count = op[a][e].count
  BY <1>1 DEF OpRecord
<1>3. op' = [op EXCEPT ![a][e] = v]
  BY DEF Goto
<1> HIDE DEF v
<1>4. OpType' /\ Moves(a, e, v.pc) /\ Counts(a, e, v.count)
  BY <1>2, <1>3, SetOpFacts
<1> QED
  BY <1>2, <1>4

LEMMA RowFacts ==
  ASSUME OpType, NEW r \in Actor, NEW row \in [Entry -> OpRecord],
         op' = [op EXCEPT ![r] = row]
  PROVE  OpType' /\ \A b \in Actor : op'[b] = IF b = r THEN row ELSE op[b]
  BY DEF OpType

LEMMA EnqueueFacts ==
  ASSUME OpType, NEW e \in Entry, EnqueueDelivery(e)
  PROVE  OpType' /\ Moves(Live, e, "send") /\ Counts(Live, e, op[Live][e].count)
<1>1. Live \in Actor /\ "send" \in Pc /\ Goto(Live, e, "send")
  BY ActorFacts DEF Pc, EnqueueDelivery
<1> QED
  BY <1>1, GotoFacts

LEMMA DeliverFacts ==
  ASSUME OpType, NEW a \in Actor, NEW e \in Entry, NEW o \in Outcome(a), Deliver(a, e, o)
  PROVE  /\ OpType' /\ Moves(a, e, AfterSend(a, o)) /\ Counts(a, e, op[a][e].count)
         /\ AfterSend(a, o) \in {"rename", "read", "move"}
         /\ AfterSend(a, o) = "rename" => o \in {"sent", "aborted", "swallowed"}
         /\ o \in {"sent", "aborted"} => AfterSend(a, o) = "rename"
         /\ ~BestEffort => o # "swallowed"
<1>1. /\ o \in {"sent", "error", "aborted", "permanent", "swallowed", "partial"}
      /\ ~BestEffort => o # "swallowed"
  BY DEF Outcome
<1>2. /\ AfterSend(a, o) \in {"rename", "read", "move"}
      /\ AfterSend(a, o) = "rename" => o \in {"sent", "aborted", "swallowed"}
      /\ o \in {"sent", "aborted"} => AfterSend(a, o) = "rename"
  BY <1>1 DEF AfterSend
<1>3. AfterSend(a, o) \in Pc
  BY <1>2 DEF Pc
<1>4. Goto(a, e, AfterSend(a, o))
  BY DEF Deliver
<1>5. OpType' /\ Moves(a, e, AfterSend(a, o)) /\ Counts(a, e, op[a][e].count)
  BY <1>3, <1>4, GotoFacts
<1> QED
  BY <1>1, <1>2, <1>5

(* Where the steps that only move on go.                                   *)
LEMMA MoveOnFacts ==
  ASSUME OpType, NEW a \in Actor, NEW e \in Entry,
         \/ AckRename(a, e) \/ AckUnlink(a, e) \/ FailWrite(a, e)
         \/ MoveToFailed(a, e) \/ IoError(a, e)
  PROVE  \E pc \in {"unlink", "read", "done"} :
           /\ OpType' /\ Moves(a, e, pc) /\ Counts(a, e, op[a][e].count)
           /\ ~IoError(a, e) => pc # "read"
           /\ ~AckRename(a, e) => pc # "unlink"
<1>1. PICK pc \in {"unlink", "read", "done"} :
        /\ Goto(a, e, pc)
        /\ ~IoError(a, e) => pc # "read"
        /\ ~AckRename(a, e) => pc # "unlink"
  <2>1. CASE AckRename(a, e)
    BY <2>1 DEF AckRename
  <2>2. CASE AckUnlink(a, e) \/ FailWrite(a, e) \/ MoveToFailed(a, e)
    BY <2>2 DEF AckUnlink, FailWrite, MoveToFailed
  <2>3. CASE IoError(a, e)
    BY <2>3 DEF IoError
  <2> QED
    BY <2>1, <2>2, <2>3
<1>2. pc \in Pc
  BY <1>1 DEF Pc
<1>3. OpType' /\ Moves(a, e, pc) /\ Counts(a, e, op[a][e].count)
  BY <1>1, <1>2, GotoFacts
<1> QED
  BY <1>1, <1>3

LEMMA FailReadFacts ==
  ASSUME DeliveryTypeOK, NEW a \in Actor, NEW e \in Entry, FailRead(a, e)
  PROVE  /\ OpType'
         /\ \/ e \in pending /\ Moves(a, e, "write") /\ Counts(a, e, retryCount[e] + 1)
            \/ e \notin pending /\ Moves(a, e, "done") /\ Counts(a, e, op[a][e].count)
<1>1. OpType
  BY TypeOfOp
<1>2. CASE e \in pending
  <2> DEFINE v == [pc |-> "write", count |-> retryCount[e] + 1]
  <2>1. v \in OpRecord /\ v.pc = "write" /\ v.count = retryCount[e] + 1
    BY DEF DeliveryTypeOK, OpRecord, Pc
  <2>2. op' = [op EXCEPT ![a][e] = v]
    BY <1>2 DEF FailRead
  <2> HIDE DEF v
  <2>3. OpType' /\ Moves(a, e, v.pc) /\ Counts(a, e, v.count)
    BY <1>1, <2>1, <2>2, SetOpFacts
  <2> QED
    BY <1>2, <2>1, <2>3
<1>3. CASE e \notin pending
  <2>1. "done" \in Pc /\ Goto(a, e, "done")
    BY <1>3 DEF Pc, FailRead
  <2> QED
    BY <1>1, <1>3, <2>1, GotoFacts
<1> QED
  BY <1>2, <1>3

LEMMA LoadFacts ==
  ASSUME DeliveryTypeOK, NEW r \in Recovery, NEW e \in Entry, LoadEntry(r, e)
  PROVE  /\ OpType'
         /\ \/ e \in pending /\ Moves(r, e, "loaded") /\ Counts(r, e, retryCount[e])
            \/ e \notin pending /\ Moves(r, e, "idle") /\ Counts(r, e, 0)
<1> DEFINE v == IF e \in pending THEN [pc |-> "loaded", count |-> retryCount[e]] ELSE NoOp
<1>1. OpType /\ r \in Actor
  BY TypeOfOp, ActorFacts
<1>2. /\ v \in OpRecord
      /\ e \in pending => v.pc = "loaded" /\ v.count = retryCount[e]
      /\ e \notin pending => v.pc = "idle" /\ v.count = 0
  BY DEF DeliveryTypeOK, OpRecord, Pc, NoOp
<1>3. op' = [op EXCEPT ![r][e] = v]
  BY DEF LoadEntry
<1> HIDE DEF v
<1>4. OpType' /\ Moves(r, e, v.pc) /\ Counts(r, e, v.count)
  BY <1>1, <1>2, <1>3, SetOpFacts
<1> QED
  BY <1>2, <1>4

LEMMA ListFacts ==
  ASSUME OpType, NEW r \in Recovery, ListPendingDeliveries(r)
  PROVE  /\ OpType'
         /\ \A b \in Actor, x \in Entry :
              op'[b][x].pc = IF b = r THEN (IF x \in pending THEN "listed" ELSE "idle")
                             ELSE op[b][x].pc
         /\ \A b \in Actor, x \in Entry : b # r => op'[b][x].count = op[b][x].count
<1> DEFINE row == [e \in Entry |->
                    IF e \in pending THEN [NoOp EXCEPT !.pc = "listed"] ELSE NoOp]
<1>1. /\ row \in [Entry -> OpRecord]
      /\ \A x \in Entry : row[x].pc = IF x \in pending THEN "listed" ELSE "idle"
  BY DEF NoOp, Pc, OpRecord
<1>2. op' = [op EXCEPT ![r] = row] /\ r \in Actor
  BY ActorFacts DEF ListPendingDeliveries
<1> HIDE DEF row
<1>3. OpType' /\ \A b \in Actor : op'[b] = IF b = r THEN row ELSE op[b]
  BY <1>1, <1>2, RowFacts
<1> QED
  BY <1>1, <1>3

LEMMA DeferFacts ==
  ASSUME OpType, NEW r \in Recovery, DeferRemaining(r)
  PROVE  /\ OpType'
         /\ \A b \in Actor, x \in Entry :
              op'[b][x].pc = IF b = r /\ op[b][x].pc = "loaded" THEN "read" ELSE op[b][x].pc
         /\ \A b \in Actor, x \in Entry : op'[b][x].count = op[b][x].count
<1> DEFINE row == [e \in Entry |->
                    IF At(r, e, "loaded") THEN [op[r][e] EXCEPT !.pc = "read"] ELSE op[r][e]]
<1>1. r \in Actor /\ \A x \in Entry : op[r][x] \in OpRecord
  BY ActorFacts DEF OpType
<1>2. \A x \in Entry :
        /\ row[x] \in OpRecord
        /\ row[x].pc = IF op[r][x].pc = "loaded" THEN "read" ELSE op[r][x].pc
        /\ row[x].count = op[r][x].count
  BY <1>1 DEF Pc, OpRecord, At
<1>3. row \in [Entry -> OpRecord] /\ op' = [op EXCEPT ![r] = row]
  BY <1>2 DEF DeferRemaining
<1> HIDE DEF row
<1>4. OpType' /\ \A b \in Actor : op'[b] = IF b = r THEN row ELSE op[b]
  BY <1>1, <1>3, RowFacts
<1> QED
  BY <1>2, <1>4

(* The oldest of the loaded entries is one of them.                        *)
LEMMA OldestIsLoaded ==
  ASSUME DeliveryTypeOK, NEW E \in SUBSET Entry, E # {}
  PROVE  Oldest(E) \in E
<1> DEFINE T == {enqueuedAt[x] : x \in E}
           R == OpToRel(<, Nat)
<1>1. T \subseteq Nat /\ T # {}
  BY DEF DeliveryTypeOK
<1>2. \A i, j \in Nat : i < j => <<i, j>> \in R
  BY DEF OpToRel
<1>3. IsWellFoundedOn(R, Nat)
  BY NatLessThanWellFounded
<1>4. PICK m \in T : \A k \in T : ~(<<k, m>> \in R)
  <2> HIDE DEF T, R
  <2> QED
    BY <1>1, <1>3, WFMin
<1>5. ASSUME NEW k \in T PROVE m <= k
  <2> HIDE DEF T, R
  <2>1. m \in Nat /\ k \in Nat
    BY <1>1
  <2>2. ~(k < m)
    BY <1>2, <1>4, <2>1
  <2> QED
    BY <2>1, <2>2
<1>6. PICK e \in E : enqueuedAt[e] = m
  OBVIOUS
<1>7. \A x \in E : enqueuedAt[e] <= enqueuedAt[x]
  BY <1>5, <1>6
<1> QED
  BY <1>7 DEF Oldest

LEMMA RecoverFacts ==
  ASSUME DeliveryTypeOK, NEW r \in Recovery, NEW ready \in BOOLEAN, RecoverNext(r, ready)
  PROVE  \E e \in Entry, pc \in {"send", "move", "done"} :
           /\ op[r][e].pc = "loaded"
           /\ OpType' /\ Moves(r, e, pc) /\ Counts(r, e, op[r][e].count)
           /\ pc = "send" => op[r][e].count < MaxRetries
<1> DEFINE e == Oldest(Loaded(r))
           pc == ReplayStep(op[r][e].count, ready)
<1>1. e \in Loaded(r)
  BY OldestIsLoaded DEF RecoverNext, Loaded
<1>2. e \in Entry /\ op[r][e].pc = "loaded" /\ op[r][e].count \in Nat /\ r \in Actor /\ OpType
  BY <1>1, TypeOfOp, ActorFacts DEF Loaded, At, OpType, OpRecord
<1>3. /\ pc \in {"send", "move", "done"} /\ pc \in Pc
      /\ pc = "send" => op[r][e].count < MaxRetries
  BY <1>2, DeliveryAssumption DEF ReplayStep, Pc
<1>4. Goto(r, e, pc)
  BY DEF RecoverNext
<1> HIDE DEF e, pc
<1>5. OpType' /\ Moves(r, e, pc) /\ Counts(r, e, op[r][e].count)
  BY <1>2, <1>3, <1>4, GotoFacts
<1> QED
  BY <1>2, <1>3, <1>5

LEMMA CrashFacts ==
  ASSUME Crash
  PROVE  OpType' /\ \A b \in Actor, x \in Entry : op'[b][x].pc = "idle"
  BY DEF Crash, OpType, OpRecord, NoOp, Pc

-----------------------------------------------------------------------------
(* Type correctness.                                                       *)

(* Stamps of the enqueue order are natural numbers.                        *)
LEMMA StampIsNat == 1 + Cardinality({x \in Entry : enqueuedAt[x] > 0}) \in Nat \ {0}
<1>1. IsFiniteSet({x \in Entry : enqueuedAt[x] > 0})
  BY DeliveryAssumption, FS_Subset
<1>2. Cardinality({x \in Entry : enqueuedAt[x] > 0}) \in Nat
  BY <1>1, FS_CardinalityType
<1> QED BY <1>2

LEMMA InitType == Init => DeliveryTypeOK
  BY DeliveryAssumption, SMT DEF Init, DeliveryTypeOK, NoOp, Pc, Actor, Recovery

LEMMA TypeKeeps ==
  ASSUME DeliveryTypeOK, [Next]_vars
  PROVE  DeliveryTypeOK'
<1>0. OpType
  BY TypeOfOp
<1>1. CASE UNCHANGED vars
  BY <1>1 DEF vars, files, history, DeliveryTypeOK
<1>2. ASSUME NEW e \in Entry, EnqueueDelivery(e) PROVE DeliveryTypeOK'
  BY <1>0, <1>2, EnqueueFacts, StampIsNat
     DEF EnqueueDelivery, DeliveryTypeOK, OpType, OpRecord
<1>3. ASSUME NEW a \in Actor, NEW e \in Entry, NEW o \in Outcome(a), Deliver(a, e, o)
      PROVE  DeliveryTypeOK'
  <2>1. OpType'
    BY <1>0, <1>3, DeliverFacts
  <2>2. sent' \in [Entry -> Nat] /\ attempts' \in [Entry -> Nat] /\ aborted' \subseteq Entry
    BY <1>3 DEF Deliver, DeliveryTypeOK
  <2> QED
    BY <1>3, <2>1, <2>2 DEF Deliver, DeliveryTypeOK, OpType, OpRecord, files
<1>4. ASSUME NEW a \in Actor, NEW e \in Entry,
             \/ AckRename(a, e) \/ AckUnlink(a, e) \/ FailWrite(a, e)
             \/ MoveToFailed(a, e) \/ IoError(a, e)
      PROVE  DeliveryTypeOK'
  <2>1. OpType' /\ op[a][e].count \in Nat
    BY <1>0, <1>4, MoveOnFacts DEF OpType, OpRecord
  <2>2. CASE AckRename(a, e) \/ AckUnlink(a, e) \/ FailWrite(a, e) \/ MoveToFailed(a, e)
    BY <2>1, <2>2 DEF AckRename, AckUnlink, FailWrite, MoveToFailed, history,
                      DeliveryTypeOK, OpType, OpRecord
  <2>3. CASE IoError(a, e)
    BY <2>1, <2>3, DeliveryAssumption
       DEF IoError, files, history, DeliveryTypeOK, OpType, OpRecord
  <2> QED
    BY <1>4, <2>2, <2>3
<1>5. ASSUME NEW a \in Actor, NEW e \in Entry, FailRead(a, e) PROVE DeliveryTypeOK'
  BY <1>5, FailReadFacts DEF FailRead, files, history, DeliveryTypeOK, OpType, OpRecord
<1>6. ASSUME NEW r \in Recovery, ListPendingDeliveries(r) PROVE DeliveryTypeOK'
  BY <1>0, <1>6, ListFacts
     DEF ListPendingDeliveries, history, DeliveryTypeOK, OpType, OpRecord
<1>7. ASSUME NEW r \in Recovery, DeferRemaining(r) PROVE DeliveryTypeOK'
  BY <1>0, <1>7, DeferFacts
     DEF DeferRemaining, files, history, DeliveryTypeOK, OpType, OpRecord
<1>8. ASSUME NEW r \in Recovery, NEW e \in Entry, LoadEntry(r, e) PROVE DeliveryTypeOK'
  BY <1>8, LoadFacts DEF LoadEntry, files, history, DeliveryTypeOK, OpType, OpRecord
<1>9. ASSUME NEW r \in Recovery, NEW ready \in BOOLEAN, RecoverNext(r, ready)
      PROVE  DeliveryTypeOK'
  BY <1>9, RecoverFacts DEF RecoverNext, files, history, DeliveryTypeOK, OpType, OpRecord
<1>10. ASSUME NEW r \in Recovery, EndRecovery(r) PROVE DeliveryTypeOK'
  BY <1>10 DEF EndRecovery, files, history, DeliveryTypeOK
<1>11. CASE Crash
  BY <1>11, CrashFacts, DeliveryAssumption
     DEF Crash, files, history, DeliveryTypeOK, OpType, OpRecord
<1>12. CASE Restart
  BY <1>12, DeliveryAssumption DEF Restart, files, history, DeliveryTypeOK
<1> QED
  BY <1>1, <1>2, <1>3, <1>4, <1>5, <1>6, <1>7, <1>8, <1>9, <1>10, <1>11, <1>12 DEF Next

(* The files, the program counters and the histories keep their types.     *)
THEOREM DeliveryTypeCorrect == Spec => []DeliveryTypeOK
  BY InitType, TypeKeeps, PTL DEF Spec

-----------------------------------------------------------------------------
(* No message is forgotten.                                                *)

(* An actor at phase 1 of ackDelivery holds an entry that was sent.        *)
RenamesWhatWasSent ==
  \A a \in Actor, e \in Entry :
    op[a][e].pc = "rename" => sent[e] > 0 \/ e \in aborted

KeptInv == DeliveryTypeOK /\ RenamesWhatWasSent /\ NeverForgotten

(* A step that sends no actor to "rename" and leaves the histories alone   *)
(* keeps RenamesWhatWasSent.                                               *)
LEMMA KeepsRenames ==
  ASSUME RenamesWhatWasSent, UNCHANGED <<sent, aborted>>,
         \A b \in Actor, x \in Entry : op'[b][x].pc = "rename" => op[b][x].pc = "rename"
  PROVE  RenamesWhatWasSent'
  BY DEF RenamesWhatWasSent

(* Every step keeps the invariant, provided nobody swallows errors.        *)
LEMMA NextKeepsKept ==
  ASSUME ~BestEffort, KeptInv, [Next]_vars
  PROVE  RenamesWhatWasSent' /\ NeverForgotten'
<1>0. OpType /\ DeliveryTypeOK /\ RenamesWhatWasSent /\ NeverForgotten
  BY TypeOfOp DEF KeptInv
<1> DEFINE Goal == RenamesWhatWasSent' /\ NeverForgotten'
<1>1. CASE UNCHANGED vars
  BY <1>1, <1>0 DEF vars, files, history, RenamesWhatWasSent, NeverForgotten
<1>2. ASSUME NEW e \in Entry, EnqueueDelivery(e) PROVE Goal
  <2>1. RenamesWhatWasSent'
    BY <1>0, <1>2, EnqueueFacts, KeepsRenames DEF EnqueueDelivery, Moves
  <2>2. NeverForgotten'
    BY <1>0, <1>2 DEF EnqueueDelivery, NeverForgotten, DeliveryTypeOK
  <2> QED BY <2>1, <2>2
<1>3. ASSUME NEW a \in Actor, NEW e \in Entry, NEW o \in Outcome(a), Deliver(a, e, o)
      PROVE  Goal
  <2>1. /\ Moves(a, e, AfterSend(a, o))
        /\ AfterSend(a, o) = "rename" => o \in {"sent", "aborted"}
    BY <1>0, <1>3, DeliverFacts
  <2>2. /\ \A x \in Entry : sent'[x] \in Nat /\ sent'[x] >= sent[x]
        /\ aborted \subseteq aborted'
        /\ o = "sent" => sent'[e] > 0
        /\ o = "aborted" => e \in aborted'
    BY <1>0, <1>3 DEF Deliver, DeliveryTypeOK
  <2>3. RenamesWhatWasSent'
    BY <1>0, <2>1, <2>2 DEF RenamesWhatWasSent, DeliveryTypeOK, Moves
  <2>4. NeverForgotten'
    BY <1>0, <1>3, <2>2 DEF Deliver, NeverForgotten, files, DeliveryTypeOK
  <2> QED BY <2>3, <2>4
<1>4. ASSUME NEW a \in Actor, NEW e \in Entry, AckRename(a, e) PROVE Goal
  <2>1. RenamesWhatWasSent'
    BY <1>0, <1>4, MoveOnFacts, KeepsRenames DEF AckRename, Moves
  <2>2. sent[e] > 0 \/ e \in aborted
    BY <1>0, <1>4 DEF AckRename, At, RenamesWhatWasSent
  <2>3. NeverForgotten'
    BY <1>0, <1>4, <2>2 DEF AckRename, NeverForgotten
  <2> QED BY <2>1, <2>3
<1>5. ASSUME NEW a \in Actor, NEW e \in Entry,
             AckUnlink(a, e) \/ FailWrite(a, e) \/ MoveToFailed(a, e)
      PROVE  Goal
  <2>1. RenamesWhatWasSent'
    BY <1>0, <1>5, MoveOnFacts, KeepsRenames
       DEF AckUnlink, FailWrite, MoveToFailed, history, Moves
  <2>2. NeverForgotten'
    BY <1>0, <1>5 DEF AckUnlink, FailWrite, MoveToFailed, history, NeverForgotten
  <2> QED BY <2>1, <2>2
<1>6. ASSUME UNCHANGED <<pending, failed, history>>,
             \A b \in Actor, x \in Entry : op'[b][x].pc = "rename" => op[b][x].pc = "rename"
      PROVE  Goal
  <2>1. RenamesWhatWasSent'
    BY <1>0, <1>6, KeepsRenames DEF history
  <2>2. NeverForgotten'
    BY <1>0, <1>6 DEF history, NeverForgotten
  <2> QED BY <2>1, <2>2
<1>7. ASSUME NEW a \in Actor, NEW e \in Entry, FailRead(a, e) \/ IoError(a, e) PROVE Goal
  BY <1>0, <1>6, <1>7, FailReadFacts, MoveOnFacts DEF FailRead, IoError, files, Moves
<1>8. ASSUME NEW r \in Recovery, ListPendingDeliveries(r) \/ DeferRemaining(r) PROVE Goal
  BY <1>0, <1>6, <1>8, ListFacts, DeferFacts DEF ListPendingDeliveries, DeferRemaining, files
<1>9. ASSUME NEW r \in Recovery, NEW e \in Entry, LoadEntry(r, e) PROVE Goal
  <2>1. UNCHANGED <<pending, failed, history>>
    BY <1>9 DEF LoadEntry, files
  <2>2. \A b \in Actor, x \in Entry : op'[b][x].pc = "rename" => op[b][x].pc = "rename"
    BY <1>0, <1>9, LoadFacts DEF Moves
  <2> QED
    BY <1>6, <2>1, <2>2
<1>10. ASSUME NEW r \in Recovery, NEW ready \in BOOLEAN, RecoverNext(r, ready) PROVE Goal
  BY <1>0, <1>6, <1>10, RecoverFacts DEF RecoverNext, files, Moves
<1>11. CASE \/ \E r \in Recovery : EndRecovery(r)
            \/ Restart
  BY <1>0, <1>6, <1>11 DEF EndRecovery, Restart, files
<1>12. CASE Crash
  BY <1>0, <1>6, <1>12, CrashFacts DEF Crash, files
<1> HIDE DEF Goal
<1>13. Goal
  BY <1>1, <1>2, <1>3, <1>4, <1>5, <1>7, <1>8, <1>9, <1>10, <1>11, <1>12 DEF Next, Goal
<1> QED
  BY <1>13 DEF Goal

LEMMA KeptInvariant == ASSUME ~BestEffort PROVE Spec => []KeptInv
<1>1. Init => KeptInv
  BY InitType DEF KeptInv, Init, RenamesWhatWasSent, NeverForgotten, NoOp
<1>2. KeptInv /\ [Next]_vars => KeptInv'
  BY TypeKeeps, NextKeepsKept DEF KeptInv
<1> QED
  BY <1>1, <1>2, PTL DEF Spec

(* Unless errors are swallowed, a message that was written to the queue is *)
(* on disk, in failed/, sent or called off, at every moment, whichever     *)
(* actors overlap and wherever the process dies.                           *)
THEOREM NothingForgotten ==
  ASSUME ~BestEffort
  PROVE  Spec => []NeverForgotten
<1>1. KeptInv => NeverForgotten
  BY DEF KeptInv
<1> QED
  BY <1>1, KeptInvariant, PTL

-----------------------------------------------------------------------------
(* One actor at a time.                                                    *)

Active(a, e) == op[a][e].pc \notin {"idle", "done"}

(* The recovery of this life runs to its end before messages are sent, and *)
(* nothing is under way when the process starts.                           *)
Owner == IF recovery[life] = "end" THEN Live ELSE life
OneActor ==
  \A a \in Actor, e \in Entry : Active(a, e) => recovery[life] # "none" /\ a = Owner

(* What an actor knows about its entry is still true.                      *)
OpInv(a, e) ==
  /\ Active(a, e) => enqueuedAt[e] # 0 /\ (e \in pending \/ At(a, e, "unlink"))
  /\ At(a, e, "loaded") => op[a][e].count = retryCount[e]
  /\ At(a, e, "write") => op[a][e].count = retryCount[e] + 1
  /\ At(a, e, "send") => retryCount[e] < MaxRetries

(* Where the file of an entry can be.                                      *)
FilesInv(e) ==
  /\ enqueuedAt[e] = 0 => e \notin pending \cup failed \cup acked
  /\ e \in pending => e \notin failed \cup acked

(* Sent, and the entry not yet renamed.                                    *)
Renaming(e) == \E a \in Actor : At(a, e, "rename")
(* Tried, and retryCount not yet raised.                                   *)
Tried(e) == \E a \in Actor : op[a][e].pc \in {"rename", "read", "write", "move"}

(* A pending entry was sent at most once per fault, and tried at most once *)
(* per count and fault.                                                    *)
CountInv(e) ==
  /\ enqueuedAt[e] = 0 => sent[e] = 0 /\ attempts[e] = 0
  /\ sent[e] <= 1 + faults
  /\ attempts[e] <= MaxRetries + faults
  /\ e \in pending /\ ~Renaming(e) => sent[e] <= faults
  /\ e \in pending => attempts[e] <= retryCount[e] + 1 + faults
  /\ e \in pending /\ ~Tried(e) => attempts[e] <= retryCount[e] + faults

EntryInv(e) == FilesInv(e) /\ CountInv(e) /\ \A a \in Actor : OpInv(a, e)

SoloInv == DeliveryTypeOK /\ OneActor /\ \A e \in Entry : EntryInv(e)

(* The state of one entry, but for the program counters.                   *)
SameEntry(x) ==
  /\ x \in pending' <=> x \in pending
  /\ x \in failed' <=> x \in failed
  /\ x \in acked' <=> x \in acked
  /\ retryCount'[x] = retryCount[x] /\ enqueuedAt'[x] = enqueuedAt[x]
  /\ sent'[x] = sent[x] /\ attempts'[x] = attempts[x]

(* An entry the step does not touch keeps its invariant.                   *)
LEMMA UntouchedKeeps ==
  ASSUME NEW x \in Entry, EntryInv(x), DeliveryTypeOK, DeliveryTypeOK', SameEntry(x),
         faults <= faults',
         \A b \in Actor : op'[b][x].pc = op[b][x].pc,
         \A b \in Actor : op[b][x].pc \in {"loaded", "write"} => op'[b][x].count = op[b][x].count
  PROVE  EntryInv(x)'
<1>1. faults \in Nat /\ faults' \in Nat /\ MaxRetries \in Nat
  BY DeliveryAssumption DEF DeliveryTypeOK
<1>2. /\ sent[x] \in Nat /\ attempts[x] \in Nat /\ retryCount[x] \in Nat
  BY DEF DeliveryTypeOK
<1>3. (Renaming(x)' <=> Renaming(x)) /\ (Tried(x)' <=> Tried(x))
  BY DEF Renaming, Tried, At
<1>4. \A a \in Actor : OpInv(a, x)'
  BY DEF EntryInv, OpInv, SameEntry, Active, At
<1>5. FilesInv(x)'
  BY DEF EntryInv, FilesInv, SameEntry
<1>6. CountInv(x)'
  BY <1>1, <1>2, <1>3 DEF EntryInv, CountInv, SameEntry
<1> QED
  BY <1>4, <1>5, <1>6 DEF EntryInv

(* A step of actor a on entry e leaves the other entries alone, and the    *)
(* owner is the same.                                                      *)
LEMMA TouchOne ==
  ASSUME SoloInv, DeliveryTypeOK', NEW a \in Actor, NEW e \in Entry, NEW pc, NEW n,
         Moves(a, e, pc),
         \A x \in Entry \ {e} : SameEntry(x),
         faults <= faults',
         Counts(a, e, n),
         EntryInv(e)'
  PROVE  \A x \in Entry : EntryInv(x)'
<1>1. ASSUME NEW x \in Entry, x # e PROVE EntryInv(x)'
  <2>1. EntryInv(x) /\ DeliveryTypeOK
    BY DEF SoloInv
  <2>2. \A b \in Actor : op'[b][x].pc = op[b][x].pc /\ op'[b][x].count = op[b][x].count
    BY <1>1 DEF Moves, Counts
  <2> QED
    BY <1>1, <2>1, <2>2, UntouchedKeeps
<1> QED
  BY <1>1

(* The actor stays the only one.                                           *)
LEMMA StillOneActor ==
  ASSUME SoloInv, NEW a \in Actor, NEW e \in Entry, NEW pc, Active(a, e),
         Moves(a, e, pc), UNCHANGED <<life, recovery>>
  PROVE  OneActor'
  BY DEF SoloInv, OneActor, Active, Owner, Moves

(* Nobody else is at work on an entry.                                     *)
LEMMA Alone ==
  ASSUME SoloInv, NEW a \in Actor, NEW e \in Entry, Active(a, e)
  PROVE  /\ \A b \in Actor : b # a => op[b][e].pc \in {"idle", "done"}
         /\ e \in pending \/ At(a, e, "unlink")
         /\ EntryInv(e) /\ OpInv(a, e)
         /\ recovery[life] # "none" /\ a = Owner
<1>1. a = Owner /\ recovery[life] # "none" /\ \A b \in Actor : Active(b, e) => b = Owner
  BY DEF SoloInv, OneActor
<1>2. \A b \in Actor : b # a => ~Active(b, e)
  BY <1>1
<1>3. EntryInv(e) /\ OpInv(a, e)
  BY DEF SoloInv, EntryInv
<1> QED
  BY <1>1, <1>2, <1>3 DEF Active, OpInv

(* What the numbers of an entry are.                                       *)
LEMMA Numbers ==
  ASSUME DeliveryTypeOK, NEW e \in Entry
  PROVE  /\ faults \in Nat /\ sent[e] \in Nat /\ attempts[e] \in Nat
         /\ retryCount[e] \in Nat /\ enqueuedAt[e] \in Nat
         /\ MaxRetries \in Nat /\ MaxRetries > 0
         /\ life \in Recovery /\ life \in Actor
  BY DeliveryAssumption DEF DeliveryTypeOK, Recovery, Actor

(* The program counters of an entry after a step of its only actor.        *)
LEMMA AfterMove ==
  ASSUME NEW a \in Actor, NEW e \in Entry, NEW pc, Moves(a, e, pc),
         \A b \in Actor : b # a => op[b][e].pc \in {"idle", "done"}
  PROVE  /\ op'[a][e].pc = pc
         /\ \A b \in Actor : b # a => OpInv(b, e)'
         /\ Renaming(e)' <=> pc = "rename"
         /\ Tried(e)' <=> pc \in {"rename", "read", "write", "move"}
<1>1. op'[a][e].pc = pc /\ \A b \in Actor : b # a => op'[b][e].pc \in {"idle", "done"}
  BY DEF Moves
<1> QED
  BY <1>1 DEF Renaming, Tried, At, OpInv, Active

LEMMA EnqueueSolo ==
  ASSUME ~LiveDuringRecovery, SoloInv, DeliveryTypeOK', NEW e \in Entry, EnqueueDelivery(e)
  PROVE  OneActor' /\ \A x \in Entry : EntryInv(x)'
<1>1. OpType /\ DeliveryTypeOK /\ EntryInv(e) /\ Live \in Actor
  BY TypeOfOp, ActorFacts DEF SoloInv
<1>2. Moves(Live, e, "send") /\ Counts(Live, e, op[Live][e].count)
  BY <1>1, EnqueueFacts
<1>3. recovery[life] = "end" /\ UNCHANGED <<recovery, life, faults>>
  BY DEF EnqueueDelivery
<1>4. OneActor'
  BY <1>2, <1>3 DEF SoloInv, OneActor, Active, Owner, Moves
<1>5. \A b \in Actor : op[b][e].pc \in {"idle", "done"}
  BY <1>1 DEF EnqueueDelivery, EntryInv, OpInv, Active
<1>6. /\ enqueuedAt[e] = 0 /\ enqueuedAt'[e] # 0 /\ retryCount'[e] = 0
      /\ e \in pending' /\ e \notin failed' \cup acked'
      /\ sent'[e] = 0 /\ attempts'[e] = 0
  BY <1>1, StampIsNat DEF EnqueueDelivery, DeliveryTypeOK, EntryInv, FilesInv, CountInv
<1>7. EntryInv(e)'
  <2>1. OpInv(Live, e)'
    BY <1>1, <1>2, <1>5, <1>6, AfterMove, Numbers DEF OpInv, At, Active
  <2>2. \A b \in Actor : OpInv(b, e)'
    BY <1>1, <1>2, <1>5, <2>1, AfterMove
  <2>3. CountInv(e)'
    BY <1>1, <1>3, <1>6, Numbers DEF CountInv
  <2> QED
    BY <1>6, <2>2, <2>3 DEF EntryInv, FilesInv
<1>8. \A x \in Entry \ {e} : SameEntry(x)
  BY <1>1 DEF EnqueueDelivery, SameEntry, DeliveryTypeOK
<1> QED
  BY <1>1, <1>2, <1>3, <1>4, <1>7, <1>8, TouchOne, Numbers

LEMMA DeliverSolo ==
  ASSUME SoloInv, DeliveryTypeOK', NEW a \in Actor, NEW e \in Entry, NEW o \in Outcome(a),
         Deliver(a, e, o)
  PROVE  OneActor' /\ \A x \in Entry : EntryInv(x)'
<1> DEFINE pc == AfterSend(a, o)
<1>1. OpType /\ DeliveryTypeOK /\ At(a, e, "send") /\ Active(a, e)
  BY TypeOfOp DEF SoloInv, Deliver, At, Active
<1>2. /\ Moves(a, e, pc) /\ Counts(a, e, op[a][e].count)
      /\ pc \in {"rename", "read", "move"}
      /\ o = "sent" => pc = "rename"
  BY <1>1, DeliverFacts
<1> HIDE DEF pc
<1>3. /\ \A b \in Actor : b # a => op[b][e].pc \in {"idle", "done"}
      /\ e \in pending /\ enqueuedAt[e] # 0 /\ EntryInv(e) /\ retryCount[e] < MaxRetries
  BY <1>1, Alone DEF OpInv, At
<1>4. /\ UNCHANGED <<life, recovery, faults, pending, failed, acked, retryCount, enqueuedAt>>
      /\ attempts'[e] = attempts[e] + 1
      /\ sent'[e] = IF o = "sent" THEN sent[e] + 1 ELSE sent[e]
      /\ \A x \in Entry \ {e} : sent'[x] = sent[x] /\ attempts'[x] = attempts[x]
  BY <1>1 DEF Deliver, files, DeliveryTypeOK
<1>5. OneActor'
  BY <1>1, <1>2, <1>4, StillOneActor
<1>6. ~Renaming(e) /\ ~Tried(e)
  BY <1>1, <1>3 DEF Renaming, Tried, At
<1>7. sent[e] <= faults /\ attempts[e] <= retryCount[e] + faults
  BY <1>3, <1>6 DEF EntryInv, CountInv
<1>8. EntryInv(e)'
  <2>1. OpInv(a, e)'
    BY <1>2, <1>3, <1>4, AfterMove DEF OpInv, At, Active
  <2>2. \A b \in Actor : OpInv(b, e)'
    BY <1>2, <1>3, <2>1, AfterMove
  <2>3. (Renaming(e)' <=> pc = "rename") /\ Tried(e)'
    BY <1>2, <1>3, AfterMove
  <2>4. CountInv(e)'
    BY <1>1, <1>2, <1>3, <1>4, <1>7, <2>3, Numbers DEF CountInv
  <2>5. FilesInv(e)'
    BY <1>3, <1>4 DEF FilesInv, EntryInv
  <2> QED
    BY <2>2, <2>4, <2>5 DEF EntryInv
<1>9. \A x \in Entry \ {e} : SameEntry(x)
  BY <1>4 DEF SameEntry
<1> QED
  BY <1>1, <1>2, <1>4, <1>5, <1>8, <1>9, TouchOne, Numbers

LEMMA AckRenameSolo ==
  ASSUME SoloInv, DeliveryTypeOK', NEW a \in Actor, NEW e \in Entry, AckRename(a, e)
  PROVE  OneActor' /\ \A x \in Entry : EntryInv(x)'
<1>1. OpType /\ DeliveryTypeOK /\ At(a, e, "rename") /\ Active(a, e)
  BY TypeOfOp DEF SoloInv, AckRename, At, Active
<1>2. /\ \A b \in Actor : b # a => op[b][e].pc \in {"idle", "done"}
      /\ e \in pending /\ enqueuedAt[e] # 0 /\ EntryInv(e)
  BY <1>1, Alone DEF OpInv, At
<1>3. /\ pending' = pending \ {e} /\ acked' = acked \cup {e}
      /\ UNCHANGED <<retryCount, failed, recovery, life, faults, enqueuedAt, sent, attempts>>
  BY <1>2 DEF AckRename
<1>4. Moves(a, e, "unlink") /\ Counts(a, e, op[a][e].count)
  <2>1. "unlink" \in Pc /\ Goto(a, e, "unlink")
    BY <1>2 DEF Pc, AckRename
  <2> QED
    BY <1>1, <2>1, GotoFacts
<1>5. OneActor'
  BY <1>1, <1>3, <1>4, StillOneActor
<1>6. EntryInv(e)'
  <2>1. OpInv(a, e)'
    BY <1>2, <1>3, <1>4, AfterMove DEF OpInv, At, Active
  <2>2. \A b \in Actor : OpInv(b, e)'
    BY <1>2, <1>4, <2>1, AfterMove
  <2>3. CountInv(e)' /\ FilesInv(e)'
    BY <1>2, <1>3 DEF CountInv, FilesInv, EntryInv
  <2> QED
    BY <2>2, <2>3 DEF EntryInv
<1>7. \A x \in Entry \ {e} : SameEntry(x)
  BY <1>3 DEF SameEntry
<1> QED
  BY <1>1, <1>3, <1>4, <1>5, <1>6, <1>7, TouchOne, Numbers

LEMMA AckUnlinkSolo ==
  ASSUME SoloInv, DeliveryTypeOK', NEW a \in Actor, NEW e \in Entry, AckUnlink(a, e)
  PROVE  OneActor' /\ \A x \in Entry : EntryInv(x)'
<1>1. OpType /\ DeliveryTypeOK /\ At(a, e, "unlink") /\ Active(a, e)
  BY TypeOfOp DEF SoloInv, AckUnlink, At, Active
<1>2. /\ \A b \in Actor : b # a => op[b][e].pc \in {"idle", "done"}
      /\ EntryInv(e)
  BY <1>1, Alone
<1>3. UNCHANGED <<pending, retryCount, failed, recovery, life, faults, enqueuedAt, sent,
                  attempts, acked>>
  BY DEF AckUnlink, history
<1>4. Moves(a, e, "done") /\ Counts(a, e, op[a][e].count)
  <2>1. "done" \in Pc /\ Goto(a, e, "done")
    BY DEF Pc, AckUnlink
  <2> QED
    BY <1>1, <2>1, GotoFacts
<1>5. OneActor'
  BY <1>1, <1>3, <1>4, StillOneActor
<1>6. ~Renaming(e) /\ ~Tried(e)
  BY <1>1, <1>2 DEF Renaming, Tried, At
<1>7. EntryInv(e)'
  <2>1. OpInv(a, e)'
    BY <1>2, <1>4, AfterMove DEF OpInv, At, Active
  <2>2. \A b \in Actor : OpInv(b, e)'
    BY <1>2, <1>4, <2>1, AfterMove
  <2>3. CountInv(e)' /\ FilesInv(e)'
    BY <1>2, <1>3, <1>6 DEF CountInv, FilesInv, EntryInv
  <2> QED
    BY <2>2, <2>3 DEF EntryInv
<1>8. \A x \in Entry \ {e} : SameEntry(x)
  BY <1>3 DEF SameEntry
<1> QED
  BY <1>1, <1>3, <1>4, <1>5, <1>7, <1>8, TouchOne, Numbers

LEMMA FailReadSolo ==
  ASSUME SoloInv, DeliveryTypeOK', NEW a \in Actor, NEW e \in Entry, FailRead(a, e)
  PROVE  OneActor' /\ \A x \in Entry : EntryInv(x)'
<1>1. DeliveryTypeOK /\ At(a, e, "read") /\ Active(a, e)
  BY DEF SoloInv, FailRead, At, Active
<1>2. /\ \A b \in Actor : b # a => op[b][e].pc \in {"idle", "done"}
      /\ e \in pending /\ enqueuedAt[e] # 0 /\ EntryInv(e)
  BY <1>1, Alone DEF OpInv, At
<1>3. UNCHANGED <<pending, retryCount, failed, recovery, life, faults, enqueuedAt, sent,
                  attempts, acked>>
  BY DEF FailRead, files, history
<1>4. Moves(a, e, "write") /\ Counts(a, e, retryCount[e] + 1)
  BY <1>1, <1>2, FailReadFacts
<1>5. OneActor'
  BY <1>1, <1>3, <1>4, StillOneActor
<1>6. ~Renaming(e)
  BY <1>1, <1>2 DEF Renaming, At
<1>7. EntryInv(e)'
  <2>1. OpInv(a, e)'
    <3>1. op'[a][e].count = retryCount'[e] + 1
      BY <1>3, <1>4 DEF Counts
    <3> QED
      BY <1>2, <1>3, <1>4, <3>1, AfterMove DEF OpInv, At, Active
  <2>2. \A b \in Actor : OpInv(b, e)'
    BY <1>2, <1>4, <2>1, AfterMove
  <2>3. Tried(e)'
    BY <1>2, <1>4, AfterMove
  <2>4. CountInv(e)' /\ FilesInv(e)'
    BY <1>2, <1>3, <1>6, <2>3 DEF CountInv, FilesInv, EntryInv
  <2> QED
    BY <2>2, <2>4 DEF EntryInv
<1>8. \A x \in Entry \ {e} : SameEntry(x)
  BY <1>3 DEF SameEntry
<1> QED
  BY <1>1, <1>3, <1>4, <1>5, <1>7, <1>8, TouchOne, Numbers

LEMMA FailWriteSolo ==
  ASSUME SoloInv, DeliveryTypeOK', NEW a \in Actor, NEW e \in Entry, FailWrite(a, e)
  PROVE  OneActor' /\ \A x \in Entry : EntryInv(x)'
<1>1. OpType /\ DeliveryTypeOK /\ At(a, e, "write") /\ Active(a, e)
  BY TypeOfOp DEF SoloInv, FailWrite, At, Active
<1>2. /\ \A b \in Actor : b # a => op[b][e].pc \in {"idle", "done"}
      /\ e \in pending /\ EntryInv(e) /\ op[a][e].count = retryCount[e] + 1
  BY <1>1, Alone DEF OpInv, At
<1>3. /\ retryCount'[e] = retryCount[e] + 1
      /\ \A x \in Entry \ {e} : retryCount'[x] = retryCount[x]
      /\ UNCHANGED <<pending, failed, recovery, life, faults, enqueuedAt, sent, attempts, acked>>
  BY <1>1, <1>2 DEF FailWrite, history, DeliveryTypeOK
<1>4. Moves(a, e, "done") /\ Counts(a, e, op[a][e].count)
  <2>1. "done" \in Pc /\ Goto(a, e, "done")
    BY DEF Pc, FailWrite
  <2> QED
    BY <1>1, <2>1, GotoFacts
<1>5. OneActor'
  BY <1>1, <1>3, <1>4, StillOneActor
<1>6. ~Renaming(e)
  BY <1>1, <1>2 DEF Renaming, At
<1>7. EntryInv(e)'
  <2>1. OpInv(a, e)'
    BY <1>2, <1>4, AfterMove DEF OpInv, At, Active
  <2>2. \A b \in Actor : OpInv(b, e)'
    BY <1>2, <1>4, <2>1, AfterMove
  <2>3. CountInv(e)' /\ FilesInv(e)'
    BY <1>1, <1>2, <1>3, <1>6, Numbers DEF CountInv, FilesInv, EntryInv
  <2> QED
    BY <2>2, <2>3 DEF EntryInv
<1>8. \A x \in Entry \ {e} : SameEntry(x)
  BY <1>3 DEF SameEntry
<1> QED
  BY <1>1, <1>3, <1>4, <1>5, <1>7, <1>8, TouchOne, Numbers

LEMMA MoveToFailedSolo ==
  ASSUME SoloInv, DeliveryTypeOK', NEW a \in Actor, NEW e \in Entry, MoveToFailed(a, e)
  PROVE  OneActor' /\ \A x \in Entry : EntryInv(x)'
<1>1. OpType /\ DeliveryTypeOK /\ At(a, e, "move") /\ Active(a, e)
  BY TypeOfOp DEF SoloInv, MoveToFailed, At, Active
<1>2. /\ \A b \in Actor : b # a => op[b][e].pc \in {"idle", "done"}
      /\ e \in pending /\ enqueuedAt[e] # 0 /\ EntryInv(e)
  BY <1>1, Alone DEF OpInv, At
<1>3. /\ pending' = pending \ {e} /\ failed' = failed \cup {e}
      /\ UNCHANGED <<retryCount, recovery, life, faults, enqueuedAt, sent, attempts, acked>>
  BY <1>2 DEF MoveToFailed, history
<1>4. Moves(a, e, "done") /\ Counts(a, e, op[a][e].count)
  <2>1. "done" \in Pc /\ Goto(a, e, "done")
    BY DEF Pc, MoveToFailed
  <2> QED
    BY <1>1, <2>1, GotoFacts
<1>5. OneActor'
  BY <1>1, <1>3, <1>4, StillOneActor
<1>6. EntryInv(e)'
  <2>1. OpInv(a, e)'
    BY <1>2, <1>4, AfterMove DEF OpInv, At, Active
  <2>2. \A b \in Actor : OpInv(b, e)'
    BY <1>2, <1>4, <2>1, AfterMove
  <2>3. CountInv(e)' /\ FilesInv(e)'
    BY <1>2, <1>3 DEF CountInv, FilesInv, EntryInv
  <2> QED
    BY <2>2, <2>3 DEF EntryInv
<1>7. \A x \in Entry \ {e} : SameEntry(x)
  BY <1>3 DEF SameEntry
<1> QED
  BY <1>1, <1>3, <1>4, <1>5, <1>6, <1>7, TouchOne, Numbers

(* A failed file operation uses up a fault.                                *)
LEMMA IoErrorSolo ==
  ASSUME SoloInv, DeliveryTypeOK', NEW a \in Actor, NEW e \in Entry, IoError(a, e)
  PROVE  OneActor' /\ \A x \in Entry : EntryInv(x)'
<1>1. /\ OpType /\ DeliveryTypeOK /\ Active(a, e)
      /\ op[a][e].pc \in {"rename", "read", "write", "move"}
  BY TypeOfOp DEF SoloInv, IoError, Active
<1>2. /\ \A b \in Actor : b # a => op[b][e].pc \in {"idle", "done"}
      /\ e \in pending /\ enqueuedAt[e] # 0 /\ EntryInv(e)
  BY <1>1, Alone DEF OpInv, At
<1>3. /\ faults' = faults + 1
      /\ UNCHANGED <<pending, failed, retryCount, recovery, life, enqueuedAt, sent, attempts,
                     acked>>
  BY DEF IoError, files, history
<1>4. PICK pc \in {"read", "done"} : Moves(a, e, pc) /\ Counts(a, e, op[a][e].count)
  <2>1. "done" \in Pc /\ "read" \in Pc /\ (Goto(a, e, "read") \/ Goto(a, e, "done"))
    BY DEF Pc, IoError
  <2> QED
    BY <1>1, <2>1, GotoFacts
<1>5. OneActor'
  BY <1>1, <1>3, <1>4, StillOneActor
<1>6. EntryInv(e)'
  <2>1. OpInv(a, e)'
    BY <1>2, <1>3, <1>4, AfterMove DEF OpInv, At, Active
  <2>2. \A b \in Actor : OpInv(b, e)'
    BY <1>2, <1>4, <2>1, AfterMove
  <2>3. CountInv(e)' /\ FilesInv(e)'
    BY <1>1, <1>2, <1>3, Numbers DEF CountInv, FilesInv, EntryInv
  <2> QED
    BY <2>2, <2>3 DEF EntryInv
<1>7. \A x \in Entry \ {e} : SameEntry(x)
  BY <1>3 DEF SameEntry
<1>8. faults <= faults'
  BY <1>1, <1>3, Numbers
<1> QED
  BY <1>1, <1>4, <1>5, <1>6, <1>7, <1>8, TouchOne

LEMMA LoadSolo ==
  ASSUME SoloInv, DeliveryTypeOK', NEW r \in Recovery, NEW e \in Entry, LoadEntry(r, e)
  PROVE  OneActor' /\ \A x \in Entry : EntryInv(x)'
<1>1. DeliveryTypeOK /\ r \in Actor /\ At(r, e, "listed") /\ Active(r, e)
  BY ActorFacts DEF SoloInv, LoadEntry, At, Active
<1>2. /\ \A b \in Actor : b # r => op[b][e].pc \in {"idle", "done"}
      /\ e \in pending /\ enqueuedAt[e] # 0 /\ EntryInv(e)
  BY <1>1, Alone DEF OpInv, At
<1>3. UNCHANGED <<pending, retryCount, failed, recovery, life, faults, enqueuedAt, sent,
                  attempts, acked>>
  BY DEF LoadEntry, files, history
<1>4. Moves(r, e, "loaded") /\ Counts(r, e, retryCount[e])
  BY <1>1, <1>2, LoadFacts
<1>5. OneActor'
  BY <1>1, <1>3, <1>4, StillOneActor
<1>6. ~Renaming(e) /\ ~Tried(e)
  BY <1>1, <1>2 DEF Renaming, Tried, At
<1>7. EntryInv(e)'
  <2>1. OpInv(r, e)'
    <3>1. op'[r][e].count = retryCount'[e]
      BY <1>1, <1>3, <1>4 DEF Counts
    <3> QED
      BY <1>1, <1>2, <1>3, <1>4, <3>1, AfterMove DEF OpInv, At, Active
  <2>2. \A b \in Actor : OpInv(b, e)'
    BY <1>1, <1>2, <1>4, <2>1, AfterMove
  <2>3. CountInv(e)' /\ FilesInv(e)'
    BY <1>2, <1>3, <1>6 DEF CountInv, FilesInv, EntryInv
  <2> QED
    BY <2>2, <2>3 DEF EntryInv
<1>8. \A x \in Entry \ {e} : SameEntry(x)
  BY <1>3 DEF SameEntry
<1> QED
  BY <1>1, <1>3, <1>4, <1>5, <1>7, <1>8, TouchOne, Numbers

LEMMA RecoverSolo ==
  ASSUME SoloInv, DeliveryTypeOK', NEW r \in Recovery, NEW ready \in BOOLEAN,
         RecoverNext(r, ready)
  PROVE  OneActor' /\ \A x \in Entry : EntryInv(x)'
<1>1. PICK e \in Entry, pc \in {"send", "move", "done"} :
        /\ op[r][e].pc = "loaded"
        /\ Moves(r, e, pc) /\ Counts(r, e, op[r][e].count)
        /\ pc = "send" => op[r][e].count < MaxRetries
  BY RecoverFacts DEF SoloInv
<1>2. DeliveryTypeOK /\ r \in Actor /\ Active(r, e)
  BY <1>1, ActorFacts DEF SoloInv, Active
<1>3. /\ \A b \in Actor : b # r => op[b][e].pc \in {"idle", "done"}
      /\ e \in pending /\ enqueuedAt[e] # 0 /\ EntryInv(e) /\ op[r][e].count = retryCount[e]
      /\ r = Owner
  BY <1>1, <1>2, Alone DEF OpInv, At
<1>4. /\ recovery' = [recovery EXCEPT ![r] = "loop"] /\ recovery[r] \in {"load", "loop"}
      /\ UNCHANGED <<pending, retryCount, failed, life, faults, enqueuedAt, sent, attempts, acked>>
  BY DEF RecoverNext, files, history
<1>5. life = r /\ recovery'[life] = "loop"
  BY <1>2, <1>3, <1>4, ActorFacts, Numbers DEF Owner, DeliveryTypeOK
<1>6. OneActor'
  BY <1>1, <1>2, <1>4, <1>5, ActorFacts DEF SoloInv, OneActor, Active, Owner, Moves
<1>7. ~Renaming(e) /\ ~Tried(e)
  BY <1>1, <1>3 DEF Renaming, Tried, At
<1>8. EntryInv(e)'
  <2>1. OpInv(r, e)'
    BY <1>1, <1>2, <1>3, <1>4, AfterMove DEF OpInv, At, Active
  <2>2. \A b \in Actor : OpInv(b, e)'
    BY <1>1, <1>2, <1>3, <2>1, AfterMove
  <2>3. CountInv(e)' /\ FilesInv(e)'
    BY <1>3, <1>4, <1>7 DEF CountInv, FilesInv, EntryInv
  <2> QED
    BY <2>2, <2>3 DEF EntryInv
<1>9. \A x \in Entry \ {e} : SameEntry(x)
  BY <1>4 DEF SameEntry
<1> QED
  BY <1>1, <1>2, <1>4, <1>6, <1>8, <1>9, TouchOne, Numbers

LEMMA ListSolo ==
  ASSUME SoloInv, DeliveryTypeOK', NEW r \in Recovery, ListPendingDeliveries(r)
  PROVE  OneActor' /\ \A x \in Entry : EntryInv(x)'
<1>1. OpType /\ DeliveryTypeOK /\ r \in Actor /\ r = life /\ recovery[life] = "none"
  BY TypeOfOp, ActorFacts DEF SoloInv, ListPendingDeliveries
<1>2. /\ \A b \in Actor, x \in Entry :
           op'[b][x].pc = IF b = r THEN (IF x \in pending THEN "listed" ELSE "idle")
                          ELSE op[b][x].pc
  BY <1>1, ListFacts
<1>3. \A b \in Actor, x \in Entry : op[b][x].pc \in {"idle", "done"}
  BY <1>1 DEF SoloInv, OneActor, Active
<1>4. /\ recovery'[life] = "load"
      /\ UNCHANGED <<pending, retryCount, failed, life, faults, enqueuedAt, sent, attempts, acked>>
  BY <1>1 DEF ListPendingDeliveries, history, DeliveryTypeOK
<1>5. OneActor'
  BY <1>1, <1>2, <1>3, <1>4 DEF OneActor, Owner, Active
<1>6. ASSUME NEW x \in Entry PROVE EntryInv(x)'
  <2>1. EntryInv(x) /\ ~Renaming(x) /\ ~Tried(x)
    BY <1>3 DEF SoloInv, Renaming, Tried, At
  <2>2. CountInv(x)' /\ FilesInv(x)'
    BY <1>4, <2>1 DEF CountInv, FilesInv, EntryInv
  <2>3. \A b \in Actor : OpInv(b, x)'
    BY <1>2, <1>3, <1>4, <2>1 DEF OpInv, At, Active, EntryInv, FilesInv
  <2> QED
    BY <2>2, <2>3 DEF EntryInv
<1> QED
  BY <1>5, <1>6

LEMMA DeferSolo ==
  ASSUME SoloInv, DeliveryTypeOK', NEW r \in Recovery, DeferRemaining(r)
  PROVE  OneActor' /\ \A x \in Entry : EntryInv(x)'
<1>1. OpType /\ DeliveryTypeOK /\ r \in Actor
  BY TypeOfOp, ActorFacts DEF SoloInv
<1>2. /\ \A b \in Actor, x \in Entry :
           op'[b][x].pc = IF b = r /\ op[b][x].pc = "loaded" THEN "read" ELSE op[b][x].pc
      /\ \A b \in Actor, x \in Entry : op'[b][x].count = op[b][x].count
  BY <1>1, DeferFacts
<1>3. /\ recovery' = [recovery EXCEPT ![r] = "loop"] /\ recovery[r] \in {"load", "loop"}
      /\ UNCHANGED <<pending, retryCount, failed, life, faults, enqueuedAt, sent, attempts, acked>>
  BY DEF DeferRemaining, files, history
<1>4. \A b \in Actor, x \in Entry : Active(b, x)' => Active(b, x)
  BY <1>2 DEF Active
<1>5. Owner' = Owner /\ (recovery[life] # "none" => recovery'[life] # "none")
  BY <1>1, <1>3 DEF Owner, DeliveryTypeOK
<1>6. OneActor'
  BY <1>3, <1>4, <1>5 DEF SoloInv, OneActor
<1>7. ASSUME NEW x \in Entry PROVE EntryInv(x)'
  <2>1. EntryInv(x) /\ (Renaming(x)' <=> Renaming(x)) /\ (Tried(x) => Tried(x)')
    BY <1>2 DEF SoloInv, Renaming, Tried, At
  <2>2. CountInv(x)' /\ FilesInv(x)'
    BY <1>3, <2>1 DEF CountInv, FilesInv, EntryInv
  <2>3. \A b \in Actor : OpInv(b, x)'
    BY <1>2, <1>3, <2>1 DEF OpInv, At, Active, EntryInv
  <2> QED
    BY <2>2, <2>3 DEF EntryInv
<1> QED
  BY <1>6, <1>7

LEMMA EndSolo ==
  ASSUME SoloInv, DeliveryTypeOK', NEW r \in Recovery, EndRecovery(r)
  PROVE  OneActor' /\ \A x \in Entry : EntryInv(x)'
<1>1. DeliveryTypeOK /\ r \in Actor /\ life \in Recovery
  BY ActorFacts, DeliveryAssumption DEF SoloInv, DeliveryTypeOK, Recovery
<1>2. /\ recovery' = [recovery EXCEPT ![r] = "end"] /\ recovery[r] \in {"load", "loop"}
      /\ \A e \in Entry : ~Active(r, e)
      /\ UNCHANGED <<op, pending, retryCount, failed, life, faults, enqueuedAt, sent, attempts,
                     acked>>
  BY DEF EndRecovery, files, history, Busy, Loaded, At, Active
<1>3. OneActor'
  <2>1. CASE r = life
    <3>1. \A b \in Actor, e \in Entry : ~Active(b, e)
      BY <1>2, <2>1 DEF SoloInv, OneActor, Owner
    <3> QED
      BY <1>2, <3>1 DEF OneActor, Active
  <2>2. CASE r # life
    <3>1. recovery'[life] = recovery[life]
      BY <1>1, <1>2, <2>2 DEF DeliveryTypeOK
    <3> QED
      BY <1>2, <3>1 DEF SoloInv, OneActor, Active, Owner
  <2> QED
    BY <2>1, <2>2
<1>4. ASSUME NEW x \in Entry PROVE EntryInv(x)'
  <2>1. EntryInv(x) /\ SameEntry(x) /\ faults <= faults'
    BY <1>1, <1>2, Numbers DEF SoloInv, SameEntry
  <2> QED
    BY <1>1, <1>2, <2>1, UntouchedKeeps
<1> QED
  BY <1>3, <1>4

(* A crash uses up a fault, and leaves nobody at work.                     *)
LEMMA CrashSolo ==
  ASSUME SoloInv, DeliveryTypeOK', Crash
  PROVE  OneActor' /\ \A x \in Entry : EntryInv(x)'
<1>1. \A b \in Actor, x \in Entry : op'[b][x].pc = "idle"
  BY CrashFacts
<1>2. /\ faults' = faults + 1
      /\ UNCHANGED <<pending, retryCount, failed, enqueuedAt, sent, attempts, acked>>
  BY DEF Crash, files, history
<1>3. OneActor'
  BY <1>1 DEF OneActor, Active
<1>4. ASSUME NEW x \in Entry PROVE EntryInv(x)'
  <2>1. EntryInv(x) /\ DeliveryTypeOK
    BY DEF SoloInv
  <2>2. CountInv(x)' /\ FilesInv(x)'
    BY <1>2, <2>1, Numbers DEF CountInv, FilesInv, EntryInv
  <2>3. \A b \in Actor : OpInv(b, x)'
    BY <1>1 DEF OpInv, At, Active
  <2> QED
    BY <2>2, <2>3 DEF EntryInv
<1> QED
  BY <1>3, <1>4

LEMMA RestartSolo ==
  ASSUME ~InProcess, SoloInv, DeliveryTypeOK', Restart
  PROVE  OneActor' /\ \A x \in Entry : EntryInv(x)'
<1>1. /\ \A a \in Actor, e \in Entry : op[a][e].pc \in {"idle", "done"}
      /\ UNCHANGED <<op, pending, retryCount, failed, faults, enqueuedAt, sent, attempts, acked>>
  BY DEF Restart, files, history
<1>2. OneActor'
  BY <1>1 DEF OneActor, Active
<1>3. ASSUME NEW x \in Entry PROVE EntryInv(x)'
  <2>1. DeliveryTypeOK /\ EntryInv(x) /\ SameEntry(x) /\ faults <= faults'
    BY <1>1, Numbers DEF SoloInv, SameEntry
  <2> QED
    BY <1>1, <2>1, UntouchedKeeps
<1> QED
  BY <1>2, <1>3

LEMMA InitSolo == Init => SoloInv
<1> SUFFICES ASSUME Init PROVE SoloInv
  OBVIOUS
<1>1. DeliveryTypeOK /\ \A a \in Actor, e \in Entry : op[a][e].pc = "idle"
  BY InitType DEF Init, NoOp
<1>2. OneActor
  BY <1>1 DEF OneActor, Active
<1>3. ASSUME NEW e \in Entry PROVE EntryInv(e)
  <2>1. FilesInv(e) /\ CountInv(e)
    BY DeliveryAssumption DEF Init, FilesInv, CountInv
  <2>2. \A a \in Actor : OpInv(a, e)
    BY <1>1 DEF OpInv, Active, At
  <2> QED
    BY <2>1, <2>2 DEF EntryInv
<1> QED
  BY <1>1, <1>2, <1>3 DEF SoloInv

LEMMA NextKeepsSolo ==
  ASSUME ~LiveDuringRecovery, ~InProcess, SoloInv, [Next]_vars
  PROVE  SoloInv'
<1>0. DeliveryTypeOK'
  BY TypeKeeps DEF SoloInv
<1> DEFINE Goal == OneActor' /\ \A x \in Entry : EntryInv(x)'
<1>1. ASSUME UNCHANGED vars PROVE Goal
  <2>1. OneActor'
    BY <1>1 DEF vars, files, history, SoloInv, OneActor, Active, Owner
  <2>2. ASSUME NEW x \in Entry PROVE EntryInv(x)'
    <3>1. DeliveryTypeOK /\ EntryInv(x) /\ SameEntry(x) /\ faults <= faults'
      BY <1>1, Numbers DEF SoloInv, SameEntry, vars, files, history
    <3> QED
      BY <1>0, <1>1, <3>1, UntouchedKeeps DEF vars, files, history
  <2> QED
    BY <2>1, <2>2
<1>2. ASSUME NEW e \in Entry, EnqueueDelivery(e) PROVE Goal
  BY <1>0, <1>2, EnqueueSolo
<1>3. ASSUME NEW a \in Actor, NEW e \in Entry, NEW o \in Outcome(a), Deliver(a, e, o)
      PROVE  Goal
  BY <1>0, <1>3, DeliverSolo
<1>4. ASSUME NEW a \in Actor, NEW e \in Entry,
             AckRename(a, e) \/ AckUnlink(a, e) \/ FailRead(a, e)
      PROVE  Goal
  BY <1>0, <1>4, AckRenameSolo, AckUnlinkSolo, FailReadSolo
<1>5. ASSUME NEW a \in Actor, NEW e \in Entry,
             FailWrite(a, e) \/ MoveToFailed(a, e) \/ IoError(a, e)
      PROVE  Goal
  BY <1>0, <1>5, FailWriteSolo, MoveToFailedSolo, IoErrorSolo
<1>6. ASSUME NEW r \in Recovery, ListPendingDeliveries(r) \/ DeferRemaining(r) \/ EndRecovery(r)
      PROVE  Goal
  BY <1>0, <1>6, ListSolo, DeferSolo, EndSolo
<1>7. ASSUME NEW r \in Recovery, NEW e \in Entry, LoadEntry(r, e) PROVE Goal
  BY <1>0, <1>7, LoadSolo
<1>8. ASSUME NEW r \in Recovery, NEW ready \in BOOLEAN, RecoverNext(r, ready) PROVE Goal
  BY <1>0, <1>8, RecoverSolo
<1>9. ASSUME Crash PROVE Goal
  BY <1>0, <1>9, CrashSolo
<1>10. ASSUME Restart PROVE Goal
  BY <1>0, <1>10, RestartSolo
<1> HIDE DEF Goal
<1>11. Goal
  BY <1>1, <1>2, <1>3, <1>4, <1>5, <1>6, <1>7, <1>8, <1>9, <1>10 DEF Next
<1> QED
  BY <1>0, <1>11 DEF SoloInv, Goal

LEMMA SoloInvariant ==
  ASSUME ~LiveDuringRecovery, ~InProcess
  PROVE  Spec => []SoloInv
<1>1. SoloInv /\ [Next]_vars => SoloInv'
  BY NextKeepsSolo
<1> QED
  BY <1>1, InitSolo, PTL DEF Spec

(* Where recovery and sending do not overlap, a message is sent more than  *)
(* once only as often as a crash or a failed file operation lost its       *)
(* acknowledgement.                                                        *)
THEOREM DuplicatesCostFaults ==
  ASSUME ~LiveDuringRecovery, ~InProcess
  PROVE  Spec => []DuplicatesNeedFaults
<1>1. SoloInv => DuplicatesNeedFaults
  BY DEF SoloInv, EntryInv, CountInv, DuplicatesNeedFaults
<1> QED
  BY <1>1, SoloInvariant, PTL

(* Where recovery and sending do not overlap, MAX_RETRIES bounds the       *)
(* attempts to send a message, but for one uncounted attempt per fault.    *)
THEOREM AttemptsAreBounded ==
  ASSUME ~LiveDuringRecovery, ~InProcess
  PROVE  Spec => []AttemptsBounded
<1>1. SoloInv => AttemptsBounded
  BY DEF SoloInv, EntryInv, CountInv, AttemptsBounded
<1> QED
  BY <1>1, SoloInvariant, PTL

(* Where recovery and sending do not overlap, an entry that ackDelivery    *)
(* took away is never sent again: only overlapping actors can do that.     *)
THEOREM AckedAreNotResent ==
  ASSUME ~LiveDuringRecovery, ~InProcess
  PROVE  Spec => AckedNeverResent
<1> DEFINE A == \A e \in Entry : e \in acked => sent'[e] = sent[e]
<1>1. SoloInv /\ [Next]_vars => [A]_vars
  <2> SUFFICES ASSUME SoloInv, Next, NEW e \in Entry, e \in acked PROVE sent'[e] = sent[e]
    OBVIOUS
  <2>1. \A a \in Actor : ~At(a, e, "send")
    BY DEF SoloInv, EntryInv, OpInv, FilesInv, Active, At
  <2>2. ASSUME NEW a \in Actor, NEW x \in Entry, NEW o \in Outcome(a), Deliver(a, x, o)
        PROVE  sent'[e] = sent[e]
    BY <2>1, <2>2 DEF Deliver, SoloInv, DeliveryTypeOK
  <2>3. CASE ~\E a \in Actor, x \in Entry : \E o \in Outcome(a) : Deliver(a, x, o)
    BY <2>3 DEF Next, EnqueueDelivery, AckRename, AckUnlink, FailRead, FailWrite, MoveToFailed,
                IoError, ListPendingDeliveries, LoadEntry, RecoverNext, DeferRemaining,
                EndRecovery, Crash, Restart, history
  <2> QED
    BY <2>2, <2>3
<1> QED
  BY <1>1, SoloInvariant, PTL DEF Spec, AckedNeverResent

-----------------------------------------------------------------------------
(* The queue implements the outbox.                                        *)

LEMMA InitMaps == Init => OB!Init
  BY DEF Init, OB!Init, OutboxState

(* A step that moves no entry between the places of the outbox.            *)
LEMMA StutterMaps ==
  ASSUME UNCHANGED <<pending, failed, acked, sent, aborted>>
  PROVE  UNCHANGED <<OutboxState, sent, aborted>>
  BY DEF OutboxState

(* No other entry than e moves between the places of the outbox.           *)
OthersStay(e) ==
  \A x \in Entry \ {e} :
    /\ x \in pending' <=> x \in pending
    /\ x \in failed' <=> x \in failed
    /\ x \in acked' <=> x \in acked

(* A step that moves one entry.                                            *)
LEMMA OneEntryMaps ==
  ASSUME NEW e \in Entry, NEW s, OthersStay(e), OutboxState'[e] = s
  PROVE  OutboxState' = [OutboxState EXCEPT ![e] = s]
<1>1. \A x \in Entry \ {e} : OutboxState'[x] = OutboxState[x]
  BY DEF OutboxState, OthersStay
<1>2. /\ OutboxState = [x \in Entry |-> OutboxState[x]]
      /\ OutboxState' = [x \in Entry |-> OutboxState'[x]]
  BY DEF OutboxState
<1> QED
  BY <1>1, <1>2

LEMMA StepMaps ==
  ASSUME ~LiveDuringRecovery, ~InProcess, SoloInv, KeptInv, [Next]_vars
  PROVE  [OB!Next]_<<OutboxState, sent, aborted>>
<1> DEFINE Goal == [OB!Next]_<<OutboxState, sent, aborted>>
<1>0. DeliveryTypeOK
  BY DEF SoloInv
<1>1. ASSUME UNCHANGED <<pending, failed, acked, sent, aborted>> PROVE Goal
  BY <1>1, StutterMaps
<1>2. ASSUME NEW e \in Entry, EnqueueDelivery(e) PROVE Goal
  <2>1. e \notin pending \cup failed \cup acked
    BY <1>2 DEF EnqueueDelivery, SoloInv, EntryInv, FilesInv
  <2>2. OutboxState[e] = "absent" /\ OutboxState'[e] = "pending"
    BY <1>2, <2>1 DEF OutboxState, EnqueueDelivery
  <2>3. OthersStay(e) /\ UNCHANGED <<sent, aborted>>
    BY <1>2, <2>1 DEF OthersStay, EnqueueDelivery
  <2>4. OutboxState' = [OutboxState EXCEPT ![e] = "pending"]
    BY <2>2, <2>3, OneEntryMaps
  <2>5. OB!Accept(e)
    BY <2>2, <2>3, <2>4 DEF OB!Accept
  <2> QED
    BY <2>5 DEF OB!Next
<1>3. ASSUME NEW a \in Actor, NEW e \in Entry, NEW o \in Outcome(a), Deliver(a, e, o)
      PROVE  Goal
  <2>1. e \in pending /\ UNCHANGED <<pending, failed, acked>>
    BY <1>3 DEF Deliver, files, SoloInv, EntryInv, OpInv, Active, At
  <2>2. OutboxState[e] = "pending" /\ OutboxState' = OutboxState
    BY <2>1 DEF OutboxState
  <2>3. CASE o = "sent"
    <3>1. OB!Send(e)
      BY <1>3, <2>2, <2>3 DEF OB!Send, Deliver
    <3> QED
      BY <3>1 DEF OB!Next
  <2>4. CASE o = "aborted"
    <3>1. OB!Abort(e)
      BY <1>3, <2>2, <2>4 DEF OB!Abort, Deliver
    <3> QED
      BY <3>1 DEF OB!Next
  <2>5. CASE o \notin {"sent", "aborted"}
    BY <1>1, <1>3, <2>1, <2>5 DEF Deliver
  <2> QED
    BY <2>3, <2>4, <2>5
<1>4. ASSUME NEW a \in Actor, NEW e \in Entry, AckRename(a, e) PROVE Goal
  <2>1. e \in pending /\ e \notin failed /\ (sent[e] > 0 \/ e \in aborted)
    BY <1>4 DEF AckRename, SoloInv, EntryInv, OpInv, FilesInv, Active, At, KeptInv,
                RenamesWhatWasSent
  <2>2. OutboxState[e] = "pending" /\ OutboxState'[e] = "delivered"
    BY <1>4, <2>1 DEF OutboxState, AckRename
  <2>3. OthersStay(e) /\ UNCHANGED <<sent, aborted>>
    BY <1>4, <2>1 DEF OthersStay, AckRename
  <2>4. OutboxState' = [OutboxState EXCEPT ![e] = "delivered"]
    BY <2>2, <2>3, OneEntryMaps
  <2>5. OB!Settle(e)
    BY <2>1, <2>2, <2>3, <2>4 DEF OB!Settle
  <2> QED
    BY <2>5 DEF OB!Next
<1>5. ASSUME NEW a \in Actor, NEW e \in Entry, MoveToFailed(a, e) PROVE Goal
  <2>1. e \in pending
    BY <1>5 DEF MoveToFailed, SoloInv, EntryInv, OpInv, Active, At
  <2>2. OutboxState[e] = "pending" /\ OutboxState'[e] = "failed"
    BY <1>5, <2>1 DEF OutboxState, MoveToFailed
  <2>3. OthersStay(e) /\ UNCHANGED <<sent, aborted>>
    BY <1>5, <2>1 DEF OthersStay, MoveToFailed, history
  <2>4. OutboxState' = [OutboxState EXCEPT ![e] = "failed"]
    BY <2>2, <2>3, OneEntryMaps
  <2>5. OB!GiveUp(e)
    BY <2>2, <2>3, <2>4 DEF OB!GiveUp
  <2> QED
    BY <2>5 DEF OB!Next
<1>6. ASSUME NEW a \in Actor, NEW e \in Entry, FailWrite(a, e) PROVE Goal
  <2>1. e \in pending
    BY <1>6 DEF FailWrite, SoloInv, EntryInv, OpInv, Active, At
  <2> QED
    BY <1>1, <1>6, <2>1 DEF FailWrite, history
<1>7. ASSUME NEW a \in Actor, NEW e \in Entry,
             AckUnlink(a, e) \/ FailRead(a, e) \/ IoError(a, e)
      PROVE  Goal
  BY <1>1, <1>7 DEF AckUnlink, FailRead, IoError, files, history
<1>8. ASSUME NEW r \in Recovery,
             \/ ListPendingDeliveries(r) \/ DeferRemaining(r) \/ EndRecovery(r)
             \/ \E e \in Entry : LoadEntry(r, e)
             \/ \E ready \in BOOLEAN : RecoverNext(r, ready)
      PROVE  Goal
  BY <1>1, <1>8 DEF ListPendingDeliveries, DeferRemaining, EndRecovery, LoadEntry, RecoverNext,
                    files, history
<1>9. ASSUME Crash \/ Restart \/ UNCHANGED vars PROVE Goal
  BY <1>1, <1>9 DEF Crash, Restart, vars, files, history
<1> HIDE DEF Goal
<1>10. Goal
  BY <1>2, <1>3, <1>4, <1>5, <1>6, <1>7, <1>8, <1>9 DEF Next
<1> QED
  BY <1>10 DEF Goal

(* With one actor at a time and no swallowed errors the queue is an        *)
(* outbox: every file operation, crash and replay is a step of it or       *)
(* changes nothing it promises.                                            *)
THEOREM QueueIsAnOutbox ==
  ASSUME ~LiveDuringRecovery, ~InProcess, ~BestEffort
  PROVE  Spec => ImplementsOutbox
<1>1. SoloInv /\ KeptInv /\ [Next]_vars => [OB!Next]_<<OutboxState, sent, aborted>>
  BY StepMaps
<1>2. Spec => []SoloInv /\ []KeptInv
  BY SoloInvariant, KeptInvariant
<1> QED
  BY <1>1, <1>2, InitMaps, PTL DEF Spec, ImplementsOutbox, OB!Spec
=============================================================================
