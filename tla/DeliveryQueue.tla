---------------------------- MODULE DeliveryQueue ----------------------------
(***************************************************************************)
(* The write-ahead queue of outbound messages                              *)
(* (src/infra/outbound/delivery-queue-storage.ts, -recovery.ts and the     *)
(* wrapper deliverOutboundPayloads of deliver.ts): an entry is written to  *)
(* disk, the message is sent, the entry is acknowledged or its retryCount  *)
(* is raised.  Startup replays what it finds on disk.                      *)
(*                                                                         *)
(* Every file operation is an await, so an actor can stop between any two  *)
(* of them: for another actor to run, or for good, when the process dies.  *)
(* An actor is the call that sends an entry for the first time (Live) or   *)
(* the recovery of one life of the gateway.  A life ends with a crash, or  *)
(* with an in-process restart, which leaves the old actors running.        *)
(***************************************************************************)
EXTENDS Integers, FiniteSets

CONSTANTS
  Entry,               \* ids of queue entries
  MaxRetries,          \* MAX_RETRIES
  MaxLife,             \* bound: starts of the gateway
  MaxFaults,           \* bound: crashes and failed file operations
  BestEffort,          \* entries may be sent with bestEffort
  LiveDuringRecovery,  \* messages are sent while the startup recovery runs
  InProcess            \* a gateway may restart in process

Live == 0
Recovery == 1 .. MaxLife
Actor == 0 .. MaxLife

ASSUME DeliveryAssumption ==
  /\ IsFiniteSet(Entry)
  /\ MaxRetries \in Nat \ {0} /\ MaxLife \in Nat \ {0} /\ MaxFaults \in Nat
  /\ BestEffort \in BOOLEAN /\ LiveDuringRecovery \in BOOLEAN /\ InProcess \in BOOLEAN

VARIABLES
  pending,      \* {id}.json exists
  retryCount,   \* its retryCount; lastAttemptAt is set as soon as this is not 0
  delivered,    \* {id}.delivered exists
  failed,       \* failed/{id}.json exists
  op,           \* per actor and entry: the next file operation, and the value
                \* of retryCount the actor has read
  recovery,     \* per life: where recoverPendingDeliveries is
  life, faults,
  enqueuedAt,   \* 0, or the place of the entry in the order of enqueues
  sent,         \* history: complete sends of the entry
  attempts,     \* history: sends tried
  acked,        \* history: entries that phase 1 of ackDelivery has taken away
  aborted       \* history: sends called off by their caller

files == <<pending, retryCount, delivered, failed>>
history == <<enqueuedAt, sent, attempts, acked, aborted>>
vars == <<files, op, recovery, life, faults, history>>

Pc == {"idle", "listed", "loaded", "send", "rename", "unlink", "read", "write", "move", "done"}

DeliveryTypeOK ==
  /\ pending \subseteq Entry /\ delivered \subseteq Entry /\ failed \subseteq Entry
  /\ acked \subseteq Entry /\ aborted \subseteq Entry
  /\ retryCount \in [Entry -> Nat]
  /\ op \in [Actor -> [Entry -> [pc : Pc, count : Nat]]]
  /\ recovery \in [Recovery -> {"none", "load", "loop", "end"}]
  /\ life \in 1 .. MaxLife /\ faults \in 0 .. MaxFaults
  /\ enqueuedAt \in [Entry -> Nat] /\ sent \in [Entry -> Nat]
  /\ attempts \in [Entry -> Nat]

NoOp == [pc |-> "idle", count |-> 0]

Init ==
  /\ pending = {} /\ delivered = {} /\ failed = {}
  /\ retryCount = [e \in Entry |-> 0]
  /\ op = [a \in Actor |-> [e \in Entry |-> NoOp]]
  /\ recovery = [r \in Recovery |-> "none"]
  /\ life = 1 /\ faults = 0
  /\ enqueuedAt = [e \in Entry |-> 0]
  /\ sent = [e \in Entry |-> 0] /\ attempts = [e \in Entry |-> 0]
  /\ acked = {} /\ aborted = {}

At(a, e, pc) == op[a][e].pc = pc
Goto(a, e, pc) == op' = [op EXCEPT ![a][e].pc = pc]

-----------------------------------------------------------------------------
(* deliverOutboundPayloads: enqueueDelivery writes a temporary file and    *)
(* renames it, so the entry appears at once.                               *)
EnqueueDelivery(e) ==
  /\ enqueuedAt[e] = 0
  /\ LiveDuringRecovery \/ recovery[life] = "end"
  /\ enqueuedAt' = [enqueuedAt EXCEPT ![e] =
                      1 + Cardinality({x \in Entry : enqueuedAt[x] > 0})]
  /\ pending' = pending \cup {e}
  /\ retryCount' = [retryCount EXCEPT ![e] = 0]
  /\ Goto(Live, e, "send")
  /\ UNCHANGED <<delivered, failed, recovery, life, faults, sent, attempts, acked, aborted>>

(* How a send ends.  "partial": bestEffort with an onError that saw an     *)
(* error; "swallowed": bestEffort without one, as in every replay; only    *)
(* the caller of a first send can abort it.                                *)
Outcome(a) ==
  (IF BestEffort THEN {"swallowed"} ELSE {}) \cup
  (IF a = Live THEN {"sent", "error", "aborted"} \cup (IF BestEffort THEN {"partial"} ELSE {})
   ELSE {"sent", "error", "permanent"})

(* Mutant: a first send that fails is acknowledged.                        *)
AfterSendAcksErrors(a, outcome) ==
  IF outcome = "permanent" THEN "move"
  ELSE IF outcome = "error" /\ a # Live THEN "read" ELSE "rename"

(* ackDelivery, failDelivery or moveToFailed.                              *)
AfterSend(a, outcome) ==
  CASE outcome \in {"sent", "swallowed", "aborted"} -> "rename"
    [] outcome \in {"error", "partial"} -> "read"
    [] outcome = "permanent" -> "move"

Deliver(a, e, outcome) ==
  /\ At(a, e, "send") /\ outcome \in Outcome(a)
  /\ attempts' = [attempts EXCEPT ![e] = @ + 1]
  /\ sent' = IF outcome = "sent" THEN [sent EXCEPT ![e] = @ + 1] ELSE sent
  /\ aborted' = IF outcome = "aborted" THEN aborted \cup {e} ELSE aborted
  /\ Goto(a, e, AfterSend(a, outcome))
  /\ UNCHANGED <<files, recovery, life, faults, enqueuedAt, acked>>

-----------------------------------------------------------------------------
(* Mutant: the entry is copied to its marker, not renamed.                 *)
AckRenameCopies(a, e) ==
  /\ At(a, e, "rename")
  /\ delivered' = delivered \cup {e}
  /\ Goto(a, e, "unlink")
  /\ UNCHANGED <<pending, retryCount, failed, recovery, life, faults, history>>

(* ackDelivery, phase 1.  Without the file only a marker is left to remove.*)
AckRename(a, e) ==
  /\ At(a, e, "rename")
  /\ IF e \in pending
     THEN /\ pending' = pending \ {e} /\ delivered' = delivered \cup {e}
          /\ acked' = acked \cup {e}
          /\ Goto(a, e, "unlink")
     ELSE /\ delivered' = delivered \ {e}
          /\ UNCHANGED <<pending, acked>>
          /\ Goto(a, e, "done")
  /\ UNCHANGED <<retryCount, failed, recovery, life, faults, enqueuedAt, sent, attempts,
                 aborted>>

(* ackDelivery, phase 2.                                                   *)
AckUnlink(a, e) ==
  /\ At(a, e, "unlink")
  /\ delivered' = delivered \ {e}
  /\ Goto(a, e, "done")
  /\ UNCHANGED <<pending, retryCount, failed, recovery, life, faults, history>>

(* failDelivery reads the entry; without the file it throws, and every     *)
(* caller ignores that.                                                    *)
FailRead(a, e) ==
  /\ At(a, e, "read")
  /\ IF e \in pending
     THEN op' = [op EXCEPT ![a][e] = [pc |-> "write", count |-> retryCount[e] + 1]]
     ELSE Goto(a, e, "done")
  /\ UNCHANGED <<files, recovery, life, faults, history>>

(* Mutant: the raised count is not written.                                *)
FailWriteSameCount(a, e) ==
  /\ At(a, e, "write")
  /\ pending' = pending \cup {e}
  /\ Goto(a, e, "done")
  /\ UNCHANGED <<retryCount, delivered, failed, recovery, life, faults, history>>

(* failDelivery writes it back, whatever has become of the file.           *)
FailWrite(a, e) ==
  /\ At(a, e, "write")
  /\ pending' = pending \cup {e}
  /\ retryCount' = [retryCount EXCEPT ![e] = op[a][e].count]
  /\ Goto(a, e, "done")
  /\ UNCHANGED <<delivered, failed, recovery, life, faults, history>>

MoveToFailed(a, e) ==
  /\ At(a, e, "move")
  /\ IF e \in pending
     THEN pending' = pending \ {e} /\ failed' = failed \cup {e}
     ELSE UNCHANGED <<pending, failed>>
  /\ Goto(a, e, "done")
  /\ UNCHANGED <<retryCount, delivered, recovery, life, faults, history>>

(* A file operation fails: callers ignore it, except that a replay whose   *)
(* ackDelivery throws counts as a failed one.                              *)
IoError(a, e) ==
  /\ faults < MaxFaults /\ faults' = faults + 1
  /\ op[a][e].pc \in {"rename", "read", "write", "move"}
  /\ Goto(a, e, IF a # Live /\ At(a, e, "rename") THEN "read" ELSE "done")
  /\ UNCHANGED <<files, recovery, life, history>>

-----------------------------------------------------------------------------
(* loadPendingDeliveries lists the directory, removes the markers in it ...*)
ListPendingDeliveries(r) ==
  /\ recovery[r] = "none" /\ r = life
  /\ recovery' = [recovery EXCEPT ![r] = "load"]
  /\ delivered' = {}
  /\ op' = [op EXCEPT ![r] = [e \in Entry |->
              IF e \in pending THEN [NoOp EXCEPT !.pc = "listed"] ELSE NoOp]]
  /\ UNCHANGED <<pending, retryCount, failed, life, faults, history>>

(* ... and reads the entries, skipping those that have gone.               *)
LoadEntry(r, e) ==
  /\ At(r, e, "listed")
  /\ op' = [op EXCEPT ![r][e] = IF e \in pending
                                THEN [pc |-> "loaded", count |-> retryCount[e]]
                                ELSE NoOp]
  /\ UNCHANGED <<files, recovery, life, faults, history>>

Busy(r) == \E e \in Entry : op[r][e].pc \notin {"idle", "loaded", "done"}
Loaded(r) == {e \in Entry : At(r, e, "loaded")}
Oldest(E) == CHOOSE e \in E : \A x \in E : enqueuedAt[e] <= enqueuedAt[x]

(* What the loop does with an entry.  The first replay is immediate, later *)
(* ones only once the backoff has passed.                                  *)
ReplayStep(count, ready) ==
  IF count >= MaxRetries THEN "move"
  ELSE IF count = 0 \/ ready THEN "send"
  ELSE "done"

(* The loop of recoverPendingDeliveries takes the oldest entry left.       *)
RecoverNext(r, ready) ==
  LET e == Oldest(Loaded(r))
  IN  /\ recovery[r] \in {"load", "loop"} /\ ~Busy(r) /\ Loaded(r) # {}
      /\ recovery' = [recovery EXCEPT ![r] = "loop"]
      /\ Goto(r, e, ReplayStep(op[r][e].count, ready))
      /\ UNCHANGED <<files, life, faults, history>>

(* The time budget is used up: failDelivery for all that is left.          *)
DeferRemaining(r) ==
  /\ recovery[r] \in {"load", "loop"} /\ ~Busy(r) /\ Loaded(r) # {}
  /\ recovery' = [recovery EXCEPT ![r] = "loop"]
  /\ op' = [op EXCEPT ![r] = [e \in Entry |->
              IF At(r, e, "loaded") THEN [op[r][e] EXCEPT !.pc = "read"] ELSE op[r][e]]]
  /\ UNCHANGED <<files, life, faults, history>>

EndRecovery(r) ==
  /\ recovery[r] \in {"load", "loop"} /\ ~Busy(r) /\ Loaded(r) = {}
  /\ recovery' = [recovery EXCEPT ![r] = "end"]
  /\ UNCHANGED <<files, op, life, faults, history>>

-----------------------------------------------------------------------------
(* The process dies: what it was doing is lost, the files stay.            *)
Crash ==
  /\ life < MaxLife /\ faults < MaxFaults
  /\ life' = life + 1 /\ faults' = faults + 1
  /\ op' = [a \in Actor |-> [e \in Entry |-> NoOp]]
  /\ recovery' = [r \in Recovery |-> IF r <= life THEN "end" ELSE recovery[r]]
  /\ UNCHANGED <<files, history>>

(* A restart without a crash starts another recovery.  An in-process one   *)
(* stops nothing that is under way; otherwise all work is done before it.  *)
Restart ==
  /\ life < MaxLife
  /\ \/ InProcess
     \/ /\ recovery[life] = "end"
        /\ \A a \in Actor, e \in Entry : op[a][e].pc \in {"idle", "done"}
  /\ life' = life + 1
  /\ UNCHANGED <<files, op, recovery, faults, history>>

Next ==
  \/ \E e \in Entry : EnqueueDelivery(e)
  \/ \E a \in Actor, e \in Entry : \E o \in Outcome(a) : Deliver(a, e, o)
  \/ \E a \in Actor, e \in Entry : AckRename(a, e)
  \/ \E a \in Actor, e \in Entry : AckUnlink(a, e)
  \/ \E a \in Actor, e \in Entry : FailRead(a, e)
  \/ \E a \in Actor, e \in Entry : FailWrite(a, e)
  \/ \E a \in Actor, e \in Entry : MoveToFailed(a, e)
  \/ \E a \in Actor, e \in Entry : IoError(a, e)
  \/ \E r \in Recovery : ListPendingDeliveries(r)
  \/ \E r \in Recovery, e \in Entry : LoadEntry(r, e)
  \/ \E r \in Recovery, ready \in BOOLEAN : RecoverNext(r, ready)
  \/ \E r \in Recovery : DeferRemaining(r)
  \/ \E r \in Recovery : EndRecovery(r)
  \/ Crash
  \/ Restart

Spec == Init /\ [][Next]_vars

-----------------------------------------------------------------------------
(* Nothing is dropped silently: an entry that was written to disk stays    *)
(* there until it was sent completely or called off, or is in failed/.     *)
NeverForgotten ==
  \A e \in Entry : enqueuedAt[e] > 0 =>
    e \in pending \cup failed \/ sent[e] > 0 \/ e \in aborted

(* An entry that ackDelivery has taken away is not sent again: neither a   *)
(* crash between the two phases nor the next recovery scan replays it.     *)
AckedNeverResent ==
  [][\A e \in Entry : e \in acked => sent'[e] = sent[e]]_vars

(* A message reaches its recipient twice only where a crash or a failed    *)
(* file operation came between the send and the acknowledgement.           *)
DuplicatesNeedFaults == \A e \in Entry : sent[e] <= 1 + faults

(* The retry counter bounds the attempts: one may go uncounted per fault.  *)
AttemptsBounded == \A e \in Entry : attempts[e] <= MaxRetries + faults

(* The queue keeps the promise of an outbox.                               *)
OutboxState ==
  [e \in Entry |-> IF e \in pending THEN "pending"
                   ELSE IF e \in failed THEN "failed"
                   ELSE IF e \in acked THEN "delivered" ELSE "absent"]
OB == INSTANCE Outbox WITH state <- OutboxState
ImplementsOutbox == OB!Spec
=============================================================================
