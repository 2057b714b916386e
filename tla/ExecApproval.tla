---------------------------- MODULE ExecApproval ----------------------------
(***************************************************************************)
(* Approval of a command: the exec tool of an agent asks the gateway       *)
(* (exec.approval.request, then exec.approval.waitDecision), an operator   *)
(* answers (exec.approval.resolve) or the request expires, and the tool    *)
(* runs the command itself (host gateway) or asks the gateway to forward   *)
(* it to a node (node.invoke system.run), which the gateway checks against *)
(* its own record of the approval.                                         *)
(*                                                                         *)
(* A request is named by its approval id: the tool makes a fresh uuid for  *)
(* every command.  The device, node and command bindings of the record     *)
(* always match here, the requester being the one that asked.              *)
(***************************************************************************)
EXTENDS Integers, FiniteSets

CONSTANTS
  Id,             \* approval ids, one per command that needs a prompt
  Policy,         \* the policies a command may be under (PolicyType)
  Slug,           \* abbreviated ids an operator may answer with
  IdsOfSlug,      \* the ids each abbreviation is a prefix of
  Lifetime,       \* timeoutMs of an approval
  Grace,          \* RESOLVED_ENTRY_GRACE_MS
  Latency,        \* bound: how long a call of the tool is in flight
  MaxTime,        \* bound: the clock
  MaxInvokes      \* bound: node.invoke calls with one approval id

ASSUME TimesAssumption ==
  /\ Lifetime \in Nat \ {0}
  /\ Grace \in Nat
  /\ Latency \in Nat /\ Latency < Grace
  /\ MaxTime \in Nat
  /\ MaxInvokes \in Nat \ {0}

ASSUME SlugAssumption == IdsOfSlug \in [Slug -> SUBSET Id]

Decision == {"allow-once", "allow-always", "deny"}

\* What is fixed before the tool asks: the host, the ask mode, the fallback
\* without an answer ("deny" for an obfuscated command, whatever is configured),
\* whether the trigger is headless (cron), whether the allowlist admits the
\* command, whether the client of node.invoke has the approvals scope, whether an
\* approval client or a chat that can answer is connected (route), and whether
\* the forwarder finds a target (forwards).
PolicyType ==
  [host : {"gateway", "node"}, ask : {"on-miss", "always"},
   fallback : {"deny", "allowlist", "full"},
   headless : BOOLEAN, listed : BOOLEAN, scope : BOOLEAN,
   route : BOOLEAN, forwards : BOOLEAN]

ASSUME PolicyAssumption == Policy \subseteq PolicyType

VARIABLES
  now,        \* Date.now()
  policy,     \* the policy of each command
  pending,    \* ids that are keys of the manager's map
  record,     \* the record of each id
  promise,    \* what the promise of the entry has settled with
  handler,    \* where the exec.approval.request handler of each id stands
  tool,       \* where the exec tool stands with each command
  invokes,    \* node.invoke calls made with each id
  runs        \* how each command was run so far: what allowed it, per run

vars == <<now, policy, pending, record, promise, handler, tool, invokes, runs>>

NoRecord == [at |-> -1, resolvedAt |-> -1, decision |-> "undefined", resolvedBy |-> "undefined"]

RecordType ==
  [at : -1 .. MaxTime, resolvedAt : -1 .. MaxTime,
   decision : Decision \cup {"undefined"},
   resolvedBy : {"undefined", "null", "operator", "no-approval-route"}]

ToolType ==
  [step : {"idle", "registering", "accepted", "waiting", "invoking", "ran", "denied"},
   decision : Decision \cup {"none", "null"}, approved : BOOLEAN]

Init ==
  /\ now = 0
  /\ policy \in [Id -> Policy]
  /\ pending = {}
  /\ record = [q \in Id |-> NoRecord]
  /\ promise = [q \in Id |-> "pending"]
  /\ handler = [q \in Id |-> "idle"]
  /\ tool = [q \in Id |-> [step |-> "idle", decision |-> "none", approved |-> FALSE]]
  /\ invokes = [q \in Id |-> 0]
  /\ runs = [q \in Id |-> {}]

-----------------------------------------------------------------------------
(* The manager. *)

ExpiresAt(q) == record[q].at + Lifetime
IsResolved(q) == record[q].resolvedAt # -1

\* Mutant: a settlement that does not look at resolvedAtMs.
CanSettleTwice(q) == q \in pending

\* expire and resolve: the same settlement, once, of an entry that is still
\* in the map and unresolved.
CanSettle(q) == q \in pending /\ ~IsResolved(q)

Settle(q, decision, resolvedBy) ==
  /\ record' = [record EXCEPT ![q].resolvedAt = now,
                              ![q].decision = decision,
                              ![q].resolvedBy = resolvedBy]
  /\ promise' = [promise EXCEPT ![q] = IF decision = "undefined" THEN "null" ELSE decision]

\* Mutant: the timer marks the record and leaves the promise.
ExpireTimerSilent(q) ==
  /\ CanSettle(q)
  /\ now >= ExpiresAt(q)
  /\ record' = [record EXCEPT ![q].resolvedAt = now, ![q].resolvedBy = "null"]
  /\ UNCHANGED <<now, policy, pending, promise, handler, tool, invokes, runs>>

\* setTimeout of register, cleared by the settlement.  The timer may be late.
ExpireTimer(q) ==
  /\ CanSettle(q)
  /\ now >= ExpiresAt(q)
  /\ Settle(q, "undefined", "null")
  /\ UNCHANGED <<now, policy, pending, handler, tool, invokes, runs>>

\* Mutant: the entry goes as soon as it is resolved.
GraceTimerAtOnce(q) ==
  /\ q \in pending
  /\ IsResolved(q)
  /\ pending' = pending \ {q}
  /\ UNCHANGED <<now, policy, record, promise, handler, tool, invokes, runs>>

\* setTimeout of the settlement.
GraceTimer(q) ==
  /\ q \in pending
  /\ IsResolved(q)
  /\ now >= record[q].resolvedAt + Grace
  /\ pending' = pending \ {q}
  /\ UNCHANGED <<now, policy, record, promise, handler, tool, invokes, runs>>

\* lookupPendingId: an exact key, else the only unresolved id with the prefix.
LookupPendingId(input) ==
  IF input \in Id
  THEN {q \in {input} : CanSettle(q)}
  ELSE LET matches == {q \in IdsOfSlug[input] : CanSettle(q)}
       IN  IF Cardinality(matches) = 1 THEN matches ELSE {}

\* Somebody was told of the request, and of its id.
Asked(q) == policy[q].route \/ policy[q].forwards

\* exec.approval.resolve: none and ambiguous are refused, and allow-always under
\* ask=always.  An operator answers with an id or an abbreviation of one that was
\* shown to him.
Resolve(input, decision) ==
  /\ \E q \in IF input \in Id THEN {input} ELSE IdsOfSlug[input] :
       Asked(q) /\ handler[q] # "idle"
  /\ \E q \in LookupPendingId(input) :
       /\ decision = "allow-always" => policy[q].ask # "always"
       /\ CanSettle(q)
       /\ Settle(q, decision, "operator")
       /\ UNCHANGED <<now, policy, pending, handler, tool, invokes, runs>>

-----------------------------------------------------------------------------
(* exec.approval.request and the exec tool that called it. *)

\* approvedByAsk and deniedReason, as resolveBaseExecApprovalDecision and what
\* follows it in the two hosts compute them.  A null decision on a node with the
\* allowlist fallback is neither: the node is left to decide.
Approves(q, decision) ==
  \/ decision \in {"allow-once", "allow-always"}
  \/ decision = "null" /\ policy[q].fallback = "full"
  \/ /\ decision = "null" /\ policy[q].fallback = "allowlist"
     /\ policy[q].host = "gateway" /\ policy[q].listed

Denies(q, decision) ==
  \/ decision = "deny"
  \/ decision = "null" /\ policy[q].fallback = "deny"
  \/ /\ decision = "null" /\ policy[q].fallback = "allowlist"
     /\ policy[q].host = "gateway" /\ ~policy[q].listed

\* shouldResolveExecApprovalUnavailableInline: decided without the host's own
\* reading of the fallback, so only "full" goes on.
DeniesInline(q) == policy[q].headless /\ policy[q].fallback # "full"

\* The tool has its answer: it gives up, runs the command on the gateway host,
\* or goes on to node.invoke.
DecideTool(q, decision, denied) ==
  IF denied
  THEN /\ tool' = [tool EXCEPT ![q].step = "denied", ![q].decision = decision]
       /\ UNCHANGED runs
  ELSE IF policy[q].host = "gateway"
  THEN /\ tool' = [tool EXCEPT ![q].step = "ran", ![q].decision = decision,
                               ![q].approved = Approves(q, decision)]
       /\ runs' = [runs EXCEPT ![q] = @ \cup {<<decision, 1>>}]
  ELSE /\ tool' = [tool EXCEPT ![q].step = "invoking", ![q].decision = decision,
                               ![q].approved = Approves(q, decision)]
       /\ UNCHANGED runs

\* The request arrives; create and register run before the first await.
Request(q) ==
  /\ tool[q].step = "idle"
  /\ now + Lifetime <= MaxTime
  /\ tool' = [tool EXCEPT ![q].step = "registering"]
  /\ handler' = [handler EXCEPT ![q] = "forwarding"]
  /\ pending' = pending \cup {q}
  /\ record' = [record EXCEPT ![q].at = now]
  /\ UNCHANGED <<now, policy, promise, invokes, runs>>

\* The forwarder has answered.  Without a route the approval expires at once
\* and the response carries a null decision; otherwise it is "accepted".
Forwarded(q) ==
  /\ handler[q] = "forwarding"
  /\ handler' = [handler EXCEPT ![q] = "answered"]
  /\ IF ~Asked(q)
     THEN /\ IF CanSettle(q)
             THEN Settle(q, "undefined", "no-approval-route")
             ELSE UNCHANGED <<record, promise>>
          /\ IF tool[q].step = "registering"
             THEN DecideTool(q, "null", Denies(q, "null") \/ DeniesInline(q))
             ELSE UNCHANGED <<tool, runs>>
     ELSE /\ tool' = [tool EXCEPT ![q].step = IF @ = "registering" THEN "accepted" ELSE @]
          /\ UNCHANGED <<record, promise, runs>>
  /\ UNCHANGED <<now, policy, pending, invokes>>

\* exec.approval.waitDecision arrives: an unknown id answers "approval expired
\* or not found", which the tool takes for no decision.
WaitDecision(q) ==
  /\ tool[q].step = "accepted"
  /\ IF q \in pending
     THEN tool' = [tool EXCEPT ![q].step = "waiting"] /\ UNCHANGED runs
     ELSE DecideTool(q, "null", Denies(q, "null"))
  /\ UNCHANGED <<now, policy, pending, record, promise, handler, invokes>>

\* The awaited promise has settled.
DecisionArrives(q) ==
  /\ tool[q].step = "waiting"
  /\ promise[q] # "pending"
  /\ DecideTool(q, promise[q], Denies(q, promise[q]))
  /\ UNCHANGED <<now, policy, pending, record, promise, handler, invokes>>

\* The request or the wait call fails (connection lost, call timeout): the tool
\* reports a denial, the record stays with the gateway.
CallFails(q) ==
  /\ tool[q].step \in {"registering", "waiting"}
  /\ tool' = [tool EXCEPT ![q].step = "denied", ![q].decision = "none"]
  /\ UNCHANGED <<now, policy, pending, record, promise, handler, invokes, runs>>

-----------------------------------------------------------------------------
(* node.invoke system.run. *)

\* timedOut of sanitizeSystemRunParamsForForwarding.
TimedOut(q) ==
  IsResolved(q) /\ record[q].decision = "undefined" /\ record[q].resolvedBy = "null"

\* What the gateway lets through with the approval flags set.
Admits(q) ==
  /\ q \in pending
  /\ now <= ExpiresAt(q)
  /\ \/ record[q].decision \in {"allow-once", "allow-always"}
     \/ TimedOut(q) /\ tool[q].decision # "allow-always" /\ policy[q].scope

\* Mutant: an allow-once is checked and not consumed.
ConsumeAllowOnceKeeps(q) == UNCHANGED record

\* consumeAllowOnce: the decision of the record is gone once it was used.
ConsumeAllowOnce(q) ==
  record' = [record EXCEPT ![q].decision = IF @ = "allow-once" THEN "undefined" ELSE @]

\* A call with the approval flags set (approved, or a decision) must be
\* admitted; one without them goes to the node as it is, and the node runs it
\* when its own allowlist admits it.  The tool makes one call; a caller that
\* lost the answer may repeat it.
Invoke(q) ==
  /\ \/ tool[q].step = "invoking"
     \/ tool[q].step = "ran" /\ policy[q].host = "node"
  /\ invokes[q] < MaxInvokes
  /\ invokes' = [invokes EXCEPT ![q] = @ + 1]
  /\ LET flagged == tool[q].approved
         admitted == IF flagged THEN Admits(q) ELSE policy[q].listed
         by == IF ~flagged THEN "unflagged"
               ELSE IF record[q].decision = "undefined" THEN "null" ELSE record[q].decision
     IN  /\ runs' = [runs EXCEPT ![q] = IF admitted THEN @ \cup {<<by, invokes'[q]>>} ELSE @]
         /\ tool' = [tool EXCEPT ![q].step =
                       IF admitted \/ @ = "ran" THEN "ran" ELSE "denied"]
         /\ IF flagged /\ admitted THEN ConsumeAllowOnce(q) ELSE UNCHANGED record
  /\ UNCHANGED <<now, policy, pending, promise, handler>>

-----------------------------------------------------------------------------
\* Calls of the tool are in flight for at most Latency: from the request to the
\* wait, and from the decision to the invoke.  The clock stops at its bound.
Tick ==
  /\ now < MaxTime
  /\ \A q \in Id :
       /\ tool[q].step \in {"registering", "accepted"} => now < record[q].at + Latency
       /\ tool[q].step = "waiting" /\ IsResolved(q) => now < record[q].resolvedAt + Latency
       /\ tool[q].step = "invoking" /\ IsResolved(q) => now < record[q].resolvedAt + Latency
  /\ now' = now + 1
  /\ UNCHANGED <<policy, pending, record, promise, handler, tool, invokes, runs>>

ToolStep(q) == WaitDecision(q) \/ DecisionArrives(q) \/ Invoke(q)

Next ==
  \/ Tick
  \/ \E q \in Id :
       \/ Request(q)
       \/ ExpireTimer(q)
       \/ GraceTimer(q)
       \/ Forwarded(q)
       \/ ToolStep(q)
       \/ CallFails(q)
  \/ \E input \in Id \cup Slug, decision \in Decision : Resolve(input, decision)

Spec == Init /\ [][Next]_vars

\* Timers fire, and handlers and the tool go on.
FairSpec ==
  /\ Spec
  /\ WF_vars(Tick)
  /\ \A q \in Id : WF_vars(ExpireTimer(q)) /\ WF_vars(GraceTimer(q))
                   /\ WF_vars(Forwarded(q)) /\ WF_vars(WaitDecision(q))
                   /\ WF_vars(DecisionArrives(q)) /\ WF_vars(Invoke(q))

-----------------------------------------------------------------------------
(* Properties. *)

\* The shape of the state.
ApprovalTypeOK ==
  /\ now \in 0 .. MaxTime
  /\ policy \in [Id -> Policy]
  /\ pending \subseteq Id
  /\ record \in [Id -> RecordType]
  /\ promise \in [Id -> Decision \cup {"pending", "null"}]
  /\ handler \in [Id -> {"idle", "forwarding", "answered"}]
  /\ tool \in [Id -> ToolType]
  /\ invokes \in [Id -> 0 .. MaxInvokes]
  /\ runs \in [Id -> SUBSET ((Decision \cup {"null", "unflagged"}) \X (1 .. MaxInvokes))]

\* A command that was allowed once runs once: however often node.invoke is called
\* with its id while the resolved entry is kept (exec-approval-manager.ts
\* consumeAllowOnce, "the same runId cannot be replayed during the resolved-entry
\* grace window").  A call without the approval flags is the node's to decide.
AllowOnceRunsOnce ==
  \A q \in Id : promise[q] = "allow-once" => Cardinality({r \in runs[q] : r[1] # "unflagged"}) <= 1

\* A command its operator denied does not run: not on the gateway host, where
\* the tool alone decides, and not on a node, also when the wait call arrives
\* after the entry was resolved.  (A request nobody was asked about can be denied
\* by an abbreviation that meant another one; its handler answers null all the
\* same.)
DeniedNeverRuns ==
  \A q \in Id : promise[q] = "deny" /\ Asked(q) => runs[q] = {}

\* A command that was allowed, and whose node.invoke is the first and in time, is
\* let through: the entry is still there for the tool that learned the decision
\* (the grace period of resolve, the expiry check of the forwarding).
FreshApprovalIsAdmitted ==
  \A q \in Id :
    /\ tool[q].step = "invoking"
    /\ tool[q].decision \in {"allow-once", "allow-always"}
    /\ now <= ExpiresAt(q)
    => Admits(q)

\* An answer is final: a late timer, a second answer or the missing route never
\* change who settled an approval or how, an allow-once that is used up apart.
AnswerIsFinal ==
  [][\A q \in Id : IsResolved(q) =>
       /\ record'[q].resolvedAt = record[q].resolvedAt
       /\ record'[q].resolvedBy = record[q].resolvedBy
       /\ \/ record'[q].decision = record[q].decision
          \/ record[q].decision = "allow-once" /\ record'[q].decision = "undefined"
       /\ promise'[q] = promise[q]]_vars

\* Every command the tool asked about ends, run or reported as denied: the wait
\* is always answered, by an operator, the expiry timer or the missing route.
EveryRequestEnds ==
  \A q \in Id : tool[q].step = "registering" ~> tool[q].step \in {"ran", "denied"}

\* docs/tools/exec-approvals.md: without an answer the fallback decides, and
\* "full" allows.  The gateway refuses the call: the record of a request without
\* a route names who resolved it, so it does not count as timed out, and the
\* record of one that did time out is past its expiry.
FullFallbackRuns ==
  \A q \in Id :
    tool[q].step = "denied" /\ tool[q].decision = "null" => policy[q].fallback # "full"
=============================================================================
