------------------------------- MODULE Outbox -------------------------------
(***************************************************************************)
(* What a write-ahead delivery queue promises its callers: an accepted     *)
(* message stays pending until it was sent or called off, or is set aside  *)
(* as failed; a message that is no longer pending is never sent.           *)
(***************************************************************************)
EXTENDS Naturals

CONSTANT Entry

VARIABLES state, sent, aborted

Init ==
  /\ state = [e \in Entry |-> "absent"]
  /\ sent = [e \in Entry |-> 0]
  /\ aborted = {}

Accept(e) ==
  /\ state[e] = "absent"
  /\ state' = [state EXCEPT ![e] = "pending"]
  /\ UNCHANGED <<sent, aborted>>

Send(e) ==
  /\ state[e] = "pending"
  /\ sent' = [sent EXCEPT ![e] = @ + 1]
  /\ UNCHANGED <<state, aborted>>

Abort(e) ==
  /\ state[e] = "pending"
  /\ aborted' = aborted \cup {e}
  /\ UNCHANGED <<state, sent>>

Settle(e) ==
  /\ state[e] = "pending"
  /\ sent[e] > 0 \/ e \in aborted
  /\ state' = [state EXCEPT ![e] = "delivered"]
  /\ UNCHANGED <<sent, aborted>>

GiveUp(e) ==
  /\ state[e] = "pending"
  /\ state' = [state EXCEPT ![e] = "failed"]
  /\ UNCHANGED <<sent, aborted>>

Next == \E e \in Entry : Accept(e) \/ Send(e) \/ Abort(e) \/ Settle(e) \/ GiveUp(e)

Spec == Init /\ [][Next]_<<state, sent, aborted>>
=============================================================================
