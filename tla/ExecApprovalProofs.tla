------------------------- MODULE ExecApprovalProofs -------------------------
(***************************************************************************)
(* Proofs about ExecApproval, for every set of requests, every mix of      *)
(* policies, any abbreviations, lifetimes and bounds.                      *)
(*                                                                         *)
(* Requests do not share state but for the clock, so the invariant is a    *)
(* conjunction over the requests.  Its parts say how the record, the       *)
(* promise, the map of the manager and the tool of one request agree:      *)
(* what the tool believes is what the promise settled with, an allow-once  *)
(* is in the record until the first run, and an entry outlives the calls   *)
(* that are in flight because they take less than the grace period.        *)
(***************************************************************************)
EXTENDS ExecApproval, FiniteSetTheorems, TLAPS

Flagged(q) == {r \in runs[q] : r[1] # "unflagged"}

(* The record and the promise of a request tell the same story.            *)
SettledInv(q) ==
  /\ promise[q] = "pending" <=> ~IsResolved(q)
  /\ ~IsResolved(q) => record[q].decision = "undefined" /\ record[q].resolvedBy = "undefined"
  /\ promise[q] \in Decision => record[q].resolvedBy = "operator"
  /\ promise[q] = "null" => /\ record[q].resolvedBy \in {"null", "no-approval-route"}
                            /\ record[q].decision = "undefined"
  /\ promise[q] \in {"allow-always", "deny"} => record[q].decision = promise[q]
  /\ promise[q] = "allow-once" => record[q].decision \in {"allow-once", "undefined"}
  /\ IsResolved(q) => record[q].at <= record[q].resolvedAt /\ record[q].resolvedAt <= now

(* An entry is in the map from its registration until the grace period     *)
(* after its settlement is over.                                           *)
EntryInv(q) ==
  /\ q \in pending => tool[q].step # "idle"
  /\ handler[q] = "idle" <=> tool[q].step = "idle"
  /\ tool[q].step = "idle" => ~IsResolved(q)
  /\ tool[q].step # "idle" => record[q].at \in 0 .. now
  /\ tool[q].step # "idle" /\ q \notin pending =>
       IsResolved(q) /\ now >= record[q].resolvedAt + Grace

(* Calls of the tool are in flight for at most Latency.                    *)
LatencyInv(q) ==
  /\ tool[q].step \in {"registering", "accepted"} => now <= record[q].at + Latency
  /\ tool[q].step \in {"waiting", "invoking"} /\ IsResolved(q) =>
       now <= record[q].resolvedAt + Latency

(* What the tool knows, and that nothing has run before it went ahead.     *)
ToolInv(q) ==
  /\ tool[q].step # "ran" => runs[q] = {}
  /\ tool[q].step \in {"invoking", "ran"} => IsResolved(q)
  /\ tool[q].step = "invoking" => policy[q].host = "node"
  /\ tool[q].decision \in Decision => tool[q].decision = promise[q]
  /\ tool[q].step \in {"accepted", "waiting"} => Asked(q)
  /\ tool[q].step \in {"invoking", "ran"} /\ Asked(q) =>
       tool[q].decision = promise[q] /\ promise[q] # "deny"

(* An allow-once is used up by the first run on a node, and by no other.   *)
OnceInv(q) ==
  /\ promise[q] = "allow-once" /\ tool[q].step # "ran" => record[q].decision = "allow-once"
  /\ policy[q].host = "node" /\ record[q].decision = "allow-once" => Flagged(q) = {}
  /\ policy[q].host = "gateway" \/ promise[q] = "allow-once" =>
       \A r, s \in Flagged(q) : r = s

IdInv(q) == SettledInv(q) /\ EntryInv(q) /\ LatencyInv(q) /\ ToolInv(q) /\ OnceInv(q)

IndInv == ApprovalTypeOK /\ \A q \in Id : IdInv(q)

-----------------------------------------------------------------------------
(* Facts about the types of one request.                                   *)
RunType == (Decision \cup {"null", "unflagged"}) \X (1 .. MaxInvokes)

(* The state a request had, in words of its type.                          *)
LEMMA TypeFacts ==
  ASSUME ApprovalTypeOK, NEW q \in Id
  PROVE  /\ record[q] \in RecordType
         /\ tool[q] \in ToolType
         /\ policy[q] \in PolicyType
         /\ promise[q] \in Decision \cup {"pending", "null"}
         /\ runs[q] \subseteq RunType
         /\ now \in Nat /\ now <= MaxTime
  BY PolicyAssumption, TimesAssumption DEF ApprovalTypeOK, RunType

Same(q) ==
  /\ record'[q] = record[q] /\ promise'[q] = promise[q] /\ handler'[q] = handler[q]
  /\ tool'[q] = tool[q] /\ runs'[q] = runs[q]
  /\ q \in pending' <=> q \in pending

(* A step that does not touch a request keeps its part of the invariant.   *)
LEMMA SameKeeps ==
  ASSUME NEW q \in Id, IdInv(q), Same(q), UNCHANGED <<now, policy>>
  PROVE  IdInv(q)'
  BY DEF IdInv, Same, SettledInv, EntryInv, LatencyInv, ToolInv, OnceInv, Flagged, IsResolved,
         Asked

(* A step of one request.                                                  *)
LEMMA OneKeeps ==
  ASSUME IndInv, NEW q \in Id, ApprovalTypeOK', UNCHANGED <<now, policy>>, IdInv(q)',
         \A x \in Id : x # q => Same(x)
  PROVE  IndInv'
  BY SameKeeps DEF IndInv

(* What the settlement of an approval does to its record and promise.      *)
LEMMA SettleFacts ==
  ASSUME ApprovalTypeOK, NEW q \in Id, NEW d \in Decision \cup {"undefined"},
         NEW by \in {"null", "operator", "no-approval-route"}, Settle(q, d, by)
  PROVE  /\ record' \in [Id -> RecordType]
         /\ promise' \in [Id -> Decision \cup {"pending", "null"}]
         /\ \A x \in Id : x # q => record'[x] = record[x] /\ promise'[x] = promise[x]
         /\ record'[q].at = record[q].at
         /\ record'[q].resolvedAt = now
         /\ record'[q].decision = d
         /\ record'[q].resolvedBy = by
         /\ promise'[q] = IF d = "undefined" THEN "null" ELSE d
<1>1. now \in -1 .. MaxTime /\ record \in [Id -> RecordType]
  BY TimesAssumption DEF ApprovalTypeOK
<1>2. promise' \in [Id -> Decision \cup {"pending", "null"}]
  BY DEF Settle, ApprovalTypeOK
<1>3. record' = [record EXCEPT ![q] = [record[q] EXCEPT !.resolvedAt = now, !.decision = d,
                                                         !.resolvedBy = by]]
  BY <1>1 DEF Settle, RecordType
<1>4. [record[q] EXCEPT !.resolvedAt = now, !.decision = d, !.resolvedBy = by] \in RecordType
  BY <1>1 DEF RecordType
<1> QED BY <1>1, <1>2, <1>3, <1>4 DEF Settle, ApprovalTypeOK, RecordType

(* What the decision of the tool does.                                     *)
LEMMA DecideFacts ==
  ASSUME ApprovalTypeOK, NEW q \in Id, NEW d \in Decision \cup {"null"}, NEW denied,
         denied \in BOOLEAN, DecideTool(q, d, denied), runs[q] = {}
  PROVE  /\ tool' \in [Id -> ToolType]
         /\ runs' \in [Id -> SUBSET RunType]
         /\ \A x \in Id : x # q => tool'[x] = tool[x] /\ runs'[x] = runs[x]
         /\ tool'[q].decision = d
         /\ \/ denied /\ tool'[q].step = "denied" /\ runs'[q] = {}
            \/ /\ ~denied /\ policy[q].host = "gateway"
               /\ tool'[q].step = "ran" /\ runs'[q] = {<<d, 1>>}
            \/ /\ ~denied /\ policy[q].host = "node"
               /\ tool'[q].step = "invoking" /\ runs'[q] = {}
<1>1. /\ tool \in [Id -> ToolType] /\ tool[q] \in ToolType
      /\ runs \in [Id -> SUBSET RunType]
      /\ policy[q].host \in {"gateway", "node"}
  BY PolicyAssumption DEF ApprovalTypeOK, RunType, PolicyType
<1>2. Approves(q, d) \in BOOLEAN
  BY DEF Approves
<1>3. CASE denied
  BY <1>1, <1>3 DEF DecideTool, ToolType
<1>4. CASE ~denied /\ policy[q].host = "gateway"
  <2>1. <<d, 1>> \in RunType
    BY TimesAssumption DEF RunType
  <2>2. runs' = [runs EXCEPT ![q] = runs[q] \cup {<<d, 1>>}]
    BY <1>4 DEF DecideTool
  <2>3. runs' \in [Id -> SUBSET RunType] /\ runs'[q] = {<<d, 1>>}
        /\ \A x \in Id : x # q => runs'[x] = runs[x]
    BY <1>1, <2>1, <2>2
  <2>4. /\ tool' \in [Id -> ToolType]
        /\ \A x \in Id : x # q => tool'[x] = tool[x]
        /\ tool'[q].decision = d /\ tool'[q].step = "ran"
    BY <1>1, <1>2, <1>4 DEF DecideTool, ToolType
  <2> QED BY <1>4, <2>3, <2>4
<1>5. CASE ~denied /\ policy[q].host = "node"
  BY <1>1, <1>2, <1>5 DEF DecideTool, ToolType
<1> QED BY <1>1, <1>3, <1>4, <1>5

(* The initial state satisfies the invariant.                              *)
LEMMA InitIndInv == Init => IndInv
  BY TimesAssumption
  DEF Init, IndInv, ApprovalTypeOK, IdInv, SettledInv, EntryInv, LatencyInv, ToolInv, OnceInv,
      Flagged, IsResolved, Asked, NoRecord, RecordType, ToolType, Decision

(* The expiry timer, an answer and the missing route: whoever settles an   *)
(* approval finds it unresolved, and finds nothing run.                    *)
LEMMA SettleKeeps ==
  ASSUME IndInv, NEW q \in Id, CanSettle(q), NEW d \in Decision \cup {"undefined"},
         NEW by \in {"null", "operator", "no-approval-route"}, Settle(q, d, by),
         d = "undefined" <=> by # "operator",
         handler' \in [Id -> {"idle", "forwarding", "answered"}],
         handler'[q] = "idle" <=> handler[q] = "idle",
         \A x \in Id : x # q => handler'[x] = handler[x],
         UNCHANGED <<now, policy, pending, tool, invokes, runs>>
  PROVE  IndInv'
<1>1. /\ ApprovalTypeOK /\ IdInv(q)
      /\ record[q] \in RecordType /\ promise[q] \in Decision \cup {"pending", "null"}
      /\ now \in Nat
  BY TypeFacts DEF IndInv
<1>2. /\ record' \in [Id -> RecordType]
      /\ promise' \in [Id -> Decision \cup {"pending", "null"}]
      /\ \A x \in Id : x # q => record'[x] = record[x] /\ promise'[x] = promise[x]
      /\ record'[q].at = record[q].at
      /\ record'[q].resolvedAt = now
      /\ record'[q].decision = d
      /\ record'[q].resolvedBy = by
      /\ promise'[q] = IF d = "undefined" THEN "null" ELSE d
  BY <1>1, SettleFacts
<1>3. ApprovalTypeOK'
  BY <1>1, <1>2 DEF ApprovalTypeOK
<1>4. /\ tool[q].step \notin {"idle", "ran", "invoking"} /\ runs[q] = {}
      /\ record[q].at \in 0 .. now
      /\ record[q].resolvedAt = -1 /\ q \in pending /\ promise[q] = "pending"
  BY <1>1 DEF CanSettle, IdInv, SettledInv, EntryInv, ToolInv, IsResolved
<1>5. SettledInv(q)'
  BY <1>1, <1>2, <1>4 DEF SettledInv, IsResolved, Decision
<1>6. EntryInv(q)' /\ LatencyInv(q)'
  BY <1>1, <1>2, <1>4, TimesAssumption DEF IdInv, EntryInv, LatencyInv, IsResolved
<1>7. ToolInv(q)'
  BY <1>1, <1>2, <1>4 DEF IdInv, ToolInv, IsResolved, Asked, Decision
<1>8. OnceInv(q)'
  BY <1>1, <1>2, <1>4 DEF OnceInv, Flagged, Decision
<1>9. IdInv(q)'
  BY <1>5, <1>6, <1>7, <1>8 DEF IdInv
<1>10. \A x \in Id : x # q => Same(x)
  BY <1>2 DEF Same
<1> QED BY <1>3, <1>9, <1>10, OneKeeps

(* An answer goes to an approval that is unresolved.                       *)
LEMMA ResolveKeeps ==
  ASSUME IndInv, NEW input \in Id \cup Slug, NEW d \in Decision, Resolve(input, d)
  PROVE  IndInv'
<1>1. PICK q \in LookupPendingId(input) :
        /\ CanSettle(q)
        /\ Settle(q, d, "operator")
        /\ UNCHANGED <<now, policy, pending, handler, tool, invokes, runs>>
  BY DEF Resolve
<1>2. q \in Id
  BY <1>1, SlugAssumption DEF LookupPendingId
<1>3. d # "undefined"
  BY DEF Decision
<1> QED BY <1>1, <1>2, <1>3, SettleKeeps DEF IndInv, ApprovalTypeOK

(* The expiry timer.                                                       *)
LEMMA ExpireTimerKeeps ==
  ASSUME IndInv, NEW q \in Id, ExpireTimer(q)
  PROVE  IndInv'
  BY SettleKeeps DEF ExpireTimer, IndInv, ApprovalTypeOK

(* The timer that drops a settled entry.                                   *)
LEMMA GraceTimerKeeps ==
  ASSUME IndInv, NEW q \in Id, GraceTimer(q)
  PROVE  IndInv'
<1>1. ApprovalTypeOK /\ IdInv(q)
  BY DEF IndInv
<1>2. ApprovalTypeOK'
  BY <1>1 DEF GraceTimer, ApprovalTypeOK
<1>3. IdInv(q)'
  BY <1>1 DEF GraceTimer, IdInv, SettledInv, EntryInv, LatencyInv, ToolInv, OnceInv,
              Flagged, IsResolved, Asked
<1>4. \A x \in Id : x # q => Same(x)
  BY DEF GraceTimer, Same
<1> QED BY <1>2, <1>3, <1>4, OneKeeps DEF GraceTimer

(* The request registers its record.                                       *)
LEMMA RequestKeeps ==
  ASSUME IndInv, NEW q \in Id, Request(q)
  PROVE  IndInv'
<1>1. /\ ApprovalTypeOK /\ IdInv(q)
      /\ record[q] \in RecordType /\ tool[q] \in ToolType
      /\ now \in Nat /\ now <= MaxTime
  BY TypeFacts DEF IndInv
<1>2. /\ tool' \in [Id -> ToolType]
      /\ \A x \in Id : x # q => tool'[x] = tool[x]
      /\ tool'[q].step = "registering" /\ tool'[q].decision = tool[q].decision
  BY <1>1 DEF Request, ApprovalTypeOK, ToolType
<1>3. /\ record' \in [Id -> RecordType]
      /\ \A x \in Id : x # q => record'[x] = record[x]
      /\ record'[q].at = now /\ record'[q].resolvedAt = record[q].resolvedAt
      /\ record'[q].decision = record[q].decision
      /\ record'[q].resolvedBy = record[q].resolvedBy
  BY <1>1, TimesAssumption DEF Request, ApprovalTypeOK, RecordType
<1>4. /\ handler' \in [Id -> {"idle", "forwarding", "answered"}]
      /\ handler'[q] = "forwarding" /\ \A x \in Id : x # q => handler'[x] = handler[x]
      /\ pending' = pending \cup {q} /\ tool[q].step = "idle"
      /\ UNCHANGED <<now, policy, promise, invokes, runs>>
  BY <1>1 DEF Request, ApprovalTypeOK
<1>5. ApprovalTypeOK'
  BY <1>1, <1>2, <1>3, <1>4 DEF ApprovalTypeOK
<1>6. SettledInv(q)' /\ EntryInv(q)' /\ LatencyInv(q)'
  BY <1>1, <1>2, <1>3, <1>4, TimesAssumption
  DEF IdInv, SettledInv, EntryInv, LatencyInv, IsResolved
<1>7. ToolInv(q)' /\ OnceInv(q)'
  BY <1>1, <1>2, <1>3, <1>4 DEF IdInv, ToolInv, OnceInv, Flagged, IsResolved, Asked
<1>8. \A x \in Id : x # q => Same(x)
  BY <1>2, <1>3, <1>4 DEF Same
<1> QED BY <1>4, <1>5, <1>6, <1>7, <1>8, OneKeeps DEF IdInv

(* A request whose calls are in flight still has its entry.                *)
LEMMA EntryIsKept ==
  ASSUME IndInv, NEW q \in Id,
         \/ tool[q].step \in {"registering", "accepted"}
         \/ tool[q].step \in {"waiting", "invoking"} /\ IsResolved(q)
  PROVE  q \in pending
<1>1. /\ IdInv(q) /\ record[q] \in RecordType /\ now \in Nat
  BY TypeFacts DEF IndInv
<1> QED BY <1>1, TimesAssumption
        DEF IdInv, SettledInv, EntryInv, LatencyInv, IsResolved, RecordType

(* The tool has its answer, and the record is settled: before this step or *)
(* in it.                                                                  *)
LEMMA DecideKeeps ==
  ASSUME IndInv, NEW q \in Id, NEW d \in Decision \cup {"null"}, NEW denied,
         denied \in BOOLEAN, DecideTool(q, d, denied),
         tool[q].step \in {"registering", "accepted", "waiting"},
         UNCHANGED <<now, policy, pending, invokes>>,
         record' \in [Id -> RecordType],
         promise' \in [Id -> Decision \cup {"pending", "null"}],
         handler' \in [Id -> {"idle", "forwarding", "answered"}],
         handler'[q] # "idle",
         \A x \in Id : x # q => /\ record'[x] = record[x] /\ promise'[x] = promise[x]
                                /\ handler'[x] = handler[x],
         SettledInv(q)', IsResolved(q)', q \in pending,
         record'[q].at = record[q].at, now <= record'[q].resolvedAt + Latency,
         promise'[q] = "allow-once" => record'[q].decision = "allow-once",
         d \in Decision \/ Asked(q) => d = promise'[q],
         d = "deny" => denied
  PROVE  IndInv'
<1>1. /\ ApprovalTypeOK /\ IdInv(q)
      /\ tool[q].step \notin {"idle", "ran"} /\ runs[q] = {}
  BY DEF IndInv, IdInv, ToolInv
<1>2. /\ tool' \in [Id -> ToolType]
      /\ runs' \in [Id -> SUBSET RunType]
      /\ \A x \in Id : x # q => tool'[x] = tool[x] /\ runs'[x] = runs[x]
      /\ tool'[q].decision = d
      /\ \/ denied /\ tool'[q].step = "denied" /\ runs'[q] = {}
         \/ /\ ~denied /\ policy[q].host = "gateway"
            /\ tool'[q].step = "ran" /\ runs'[q] = {<<d, 1>>}
         \/ /\ ~denied /\ policy[q].host = "node"
            /\ tool'[q].step = "invoking" /\ runs'[q] = {}
  BY <1>1, DecideFacts
<1>3. ApprovalTypeOK'
  BY <1>1, <1>2 DEF ApprovalTypeOK, RunType
<1>4. EntryInv(q)' /\ LatencyInv(q)'
  BY <1>1, <1>2 DEF IdInv, EntryInv, LatencyInv, IsResolved
<1>5. ToolInv(q)'
  BY <1>1, <1>2 DEF IdInv, ToolInv, IsResolved, Asked, Decision
<1>6. OnceInv(q)'
  <2>1. Flagged(q)' \subseteq {<<d, 1>>} /\ (policy[q].host = "node" => Flagged(q)' = {})
    BY <1>2 DEF Flagged
  <2> QED BY <1>2, <2>1 DEF OnceInv
<1>7. \A x \in Id : x # q => Same(x)
  BY <1>2 DEF Same
<1> QED BY <1>3, <1>4, <1>5, <1>6, <1>7, OneKeeps DEF IdInv

(* The wait call finds the entry.                                          *)
LEMMA WaitDecisionKeeps ==
  ASSUME IndInv, NEW q \in Id, WaitDecision(q)
  PROVE  IndInv'
<1>1. ApprovalTypeOK /\ IdInv(q) /\ record[q] \in RecordType /\ tool[q] \in ToolType
      /\ now \in Nat
  BY TypeFacts DEF IndInv
<1>2. q \in pending
  BY EntryIsKept DEF WaitDecision
<1>3. /\ tool' \in [Id -> ToolType] /\ UNCHANGED runs
      /\ \A x \in Id : x # q => tool'[x] = tool[x]
      /\ tool[q].step = "accepted"
      /\ tool'[q].step = "waiting" /\ tool'[q].decision = tool[q].decision
      /\ UNCHANGED <<now, policy, pending, record, promise, handler, invokes>>
  BY <1>1, <1>2 DEF WaitDecision, ApprovalTypeOK, ToolType
<1>4. ApprovalTypeOK'
  BY <1>1, <1>3 DEF ApprovalTypeOK
<1>5. SettledInv(q)' /\ EntryInv(q)' /\ LatencyInv(q)'
  BY <1>1, <1>3, TimesAssumption
  DEF IdInv, SettledInv, EntryInv, LatencyInv, IsResolved, RecordType
<1>6. ToolInv(q)' /\ OnceInv(q)'
  BY <1>1, <1>3 DEF IdInv, ToolInv, OnceInv, Flagged, IsResolved, Asked
<1>7. \A x \in Id : x # q => Same(x)
  BY <1>3 DEF Same
<1> QED BY <1>3, <1>4, <1>5, <1>6, <1>7, OneKeeps DEF IdInv

(* The decision reaches the waiting tool.                                  *)
LEMMA DecisionArrivesKeeps ==
  ASSUME IndInv, NEW q \in Id, DecisionArrives(q)
  PROVE  IndInv'
<1>1. /\ ApprovalTypeOK /\ IdInv(q)
      /\ promise[q] \in Decision \cup {"null"}
      /\ tool[q].step = "waiting" /\ IsResolved(q)
  BY TypeFacts DEF IndInv, DecisionArrives, IdInv, SettledInv
<1>2. q \in pending
  BY <1>1, EntryIsKept
<1>3. /\ Denies(q, promise[q]) \in BOOLEAN
      /\ promise[q] = "deny" => Denies(q, promise[q])
  BY DEF Denies
<1>4. DecideTool(q, promise[q], Denies(q, promise[q]))
      /\ UNCHANGED <<now, policy, pending, record, promise, handler, invokes>>
  BY DEF DecisionArrives
<1>5. SettledInv(q)' /\ IsResolved(q)' /\ handler[q] # "idle"
  BY <1>1, <1>4 DEF IdInv, SettledInv, IsResolved, EntryInv
<1>6. /\ now <= record[q].resolvedAt + Latency
      /\ promise[q] = "allow-once" => record[q].decision = "allow-once"
  BY <1>1 DEF IdInv, LatencyInv, OnceInv
<1>7. /\ record' \in [Id -> RecordType]
      /\ promise' \in [Id -> Decision \cup {"pending", "null"}]
      /\ handler' \in [Id -> {"idle", "forwarding", "answered"}]
  BY <1>1, <1>4 DEF ApprovalTypeOK
<1> QED BY <1>1, <1>2, <1>3, <1>4, <1>5, <1>6, <1>7, DecideKeeps

(* A call of the tool is lost.                                             *)
LEMMA CallFailsKeeps ==
  ASSUME IndInv, NEW q \in Id, CallFails(q)
  PROVE  IndInv'
<1>1. ApprovalTypeOK /\ IdInv(q) /\ tool[q] \in ToolType
  BY TypeFacts DEF IndInv
<1>2. /\ tool' \in [Id -> ToolType]
      /\ \A x \in Id : x # q => tool'[x] = tool[x]
      /\ tool[q].step \in {"registering", "waiting"}
      /\ tool'[q].step = "denied" /\ tool'[q].decision = "none"
      /\ UNCHANGED <<now, policy, pending, record, promise, handler, invokes, runs>>
  BY <1>1 DEF CallFails, ApprovalTypeOK, ToolType
<1>3. ApprovalTypeOK'
  BY <1>1, <1>2 DEF ApprovalTypeOK
<1>4. SettledInv(q)' /\ EntryInv(q)' /\ LatencyInv(q)'
  BY <1>1, <1>2 DEF IdInv, SettledInv, EntryInv, LatencyInv, IsResolved
<1>5. ToolInv(q)' /\ OnceInv(q)'
  BY <1>1, <1>2 DEF IdInv, ToolInv, OnceInv, Flagged, IsResolved, Asked, Decision
<1>6. \A x \in Id : x # q => Same(x)
  BY <1>2 DEF Same
<1> QED BY <1>2, <1>3, <1>4, <1>5, <1>6, OneKeeps DEF IdInv

(* The request handler goes on after the forwarder has answered.           *)
LEMMA ForwardedKeeps ==
  ASSUME IndInv, NEW q \in Id, Forwarded(q)
  PROVE  IndInv'
<1>1. /\ ApprovalTypeOK /\ IdInv(q)
      /\ record[q] \in RecordType /\ tool[q] \in ToolType
      /\ promise[q] \in Decision \cup {"pending", "null"} /\ now \in Nat
  BY TypeFacts DEF IndInv
<1>2. /\ handler' \in [Id -> {"idle", "forwarding", "answered"}]
      /\ handler[q] # "idle" /\ handler'[q] # "idle"
      /\ \A x \in Id : x # q => handler'[x] = handler[x]
      /\ UNCHANGED <<now, policy, pending, invokes>>
  BY <1>1 DEF Forwarded, ApprovalTypeOK
<1>3. CASE Asked(q)
  <2>1. /\ tool' \in [Id -> ToolType]
        /\ \A x \in Id : x # q => tool'[x] = tool[x]
        /\ tool'[q].step = IF tool[q].step = "registering" THEN "accepted" ELSE tool[q].step
        /\ tool'[q].decision = tool[q].decision
        /\ UNCHANGED <<record, promise, runs>>
    BY <1>1, <1>3 DEF Forwarded, ApprovalTypeOK, ToolType
  <2>2. ApprovalTypeOK'
    BY <1>1, <1>2, <2>1 DEF ApprovalTypeOK
  <2>3. SettledInv(q)' /\ EntryInv(q)' /\ LatencyInv(q)'
    BY <1>1, <1>2, <2>1 DEF IdInv, SettledInv, EntryInv, LatencyInv, IsResolved
  <2>4. ToolInv(q)' /\ OnceInv(q)'
    BY <1>1, <1>2, <1>3, <2>1 DEF IdInv, ToolInv, OnceInv, Flagged, IsResolved, Asked
  <2>5. \A x \in Id : x # q => Same(x)
    BY <1>2, <2>1 DEF Same
  <2> QED BY <1>2, <2>2, <2>3, <2>4, <2>5, OneKeeps DEF IdInv
<1>4. CASE ~Asked(q) /\ tool[q].step = "registering"
  <2> DEFINE denied == Denies(q, "null") \/ DeniesInline(q)
  <2>1. DecideTool(q, "null", denied) /\ denied \in BOOLEAN
    BY <1>4 DEF Forwarded
  <2>2. /\ q \in pending
        /\ record[q].at \in 0 .. now /\ now <= record[q].at + Latency
    BY <1>1, <1>4, EntryIsKept DEF IdInv, EntryInv, LatencyInv
  <2>3. CASE CanSettle(q)
    <3>1. Settle(q, "undefined", "no-approval-route")
      BY <1>4, <2>3 DEF Forwarded
    <3>2. /\ record' \in [Id -> RecordType]
          /\ promise' \in [Id -> Decision \cup {"pending", "null"}]
          /\ \A x \in Id : x # q => record'[x] = record[x] /\ promise'[x] = promise[x]
          /\ record'[q].at = record[q].at
          /\ record'[q].resolvedAt = now
          /\ record'[q].decision = "undefined"
          /\ record'[q].resolvedBy = "no-approval-route"
          /\ promise'[q] = "null"
      BY <1>1, <3>1, SettleFacts
    <3>3. SettledInv(q)' /\ IsResolved(q)'
      BY <1>1, <1>2, <2>2, <3>2 DEF SettledInv, IsResolved, Decision
    <3>4. now <= record'[q].resolvedAt + Latency
      BY <1>1, <3>2, TimesAssumption
    <3> HIDE DEF denied
    <3> QED BY <1>2, <1>4, <2>1, <2>2, <3>2, <3>3, <3>4, DecideKeeps DEF Decision
  <2>4. CASE ~CanSettle(q)
    <3>1. UNCHANGED <<record, promise>> /\ IsResolved(q)
      BY <1>4, <2>2, <2>4 DEF Forwarded, CanSettle
    <3>2. SettledInv(q)' /\ IsResolved(q)'
      BY <1>1, <1>2, <3>1 DEF IdInv, SettledInv, IsResolved
    <3>3. now <= record[q].resolvedAt + Latency
      BY <1>1, <2>2, <3>1, TimesAssumption DEF IdInv, SettledInv, RecordType
    <3>4. promise[q] = "allow-once" => record[q].decision = "allow-once"
      BY <1>1, <1>4 DEF IdInv, OnceInv
    <3>5. /\ record' \in [Id -> RecordType]
          /\ promise' \in [Id -> Decision \cup {"pending", "null"}]
      BY <1>1, <3>1 DEF ApprovalTypeOK
    <3> HIDE DEF denied
    <3> QED BY <1>2, <1>4, <2>1, <2>2, <3>1, <3>2, <3>3, <3>4, <3>5, DecideKeeps DEF Decision
  <2> QED BY <2>3, <2>4
<1>5. CASE ~Asked(q) /\ tool[q].step # "registering" /\ CanSettle(q)
  BY <1>2, <1>5, SettleKeeps DEF Forwarded
<1>6. CASE ~Asked(q) /\ tool[q].step # "registering" /\ ~CanSettle(q)
  <2>1. UNCHANGED <<record, promise, tool, runs>>
    BY <1>6 DEF Forwarded
  <2>2. ApprovalTypeOK'
    BY <1>1, <1>2, <2>1 DEF ApprovalTypeOK
  <2>3. IdInv(q)'
    BY <1>1, <1>2, <2>1
    DEF IdInv, SettledInv, EntryInv, LatencyInv, ToolInv, OnceInv, Flagged, IsResolved, Asked
  <2>4. \A x \in Id : x # q => Same(x)
    BY <1>2, <2>1 DEF Same
  <2> QED BY <1>2, <2>2, <2>3, <2>4, OneKeeps
<1> QED BY <1>3, <1>4, <1>5, <1>6

(* A call of node.invoke, the first or a repeated one.                     *)
LEMMA InvokeKeeps ==
  ASSUME IndInv, NEW q \in Id, Invoke(q)
  PROVE  IndInv'
<1> DEFINE flagged == tool[q].approved
           admitted == IF flagged THEN Admits(q) ELSE policy[q].listed
           by == IF ~flagged THEN "unflagged"
                 ELSE IF record[q].decision = "undefined" THEN "null" ELSE record[q].decision
           n == invokes[q] + 1
<1>1. /\ ApprovalTypeOK /\ IdInv(q)
      /\ record[q] \in RecordType /\ tool[q] \in ToolType /\ policy[q] \in PolicyType
      /\ promise[q] \in Decision \cup {"pending", "null"} /\ runs[q] \subseteq RunType
  BY TypeFacts DEF IndInv
<1>2. /\ invokes' \in [Id -> 0 .. MaxInvokes] /\ invokes'[q] = n /\ n \in 1 .. MaxInvokes
      /\ \A x \in Id : x # q => invokes'[x] = invokes[x]
  BY <1>1, TimesAssumption DEF Invoke, ApprovalTypeOK
<1>3. by \in Decision \cup {"null", "unflagged"} /\ <<by, n>> \in RunType
  BY <1>1, <1>2 DEF RecordType, Decision, RunType
<1>4. /\ policy[q].host = "node" /\ IsResolved(q)
      /\ tool[q].step \in {"invoking", "ran"}
      /\ UNCHANGED <<now, policy, pending, promise, handler>>
  BY <1>1 DEF Invoke, IdInv, ToolInv
<1>5. /\ runs' = [runs EXCEPT ![q] = IF admitted THEN @ \cup {<<by, n>>} ELSE @]
      /\ tool' = [tool EXCEPT ![q].step = IF admitted \/ @ = "ran" THEN "ran" ELSE "denied"]
      /\ IF flagged /\ admitted THEN ConsumeAllowOnce(q) ELSE UNCHANGED record
  BY <1>2 DEF Invoke
<1>6. flagged \in BOOLEAN /\ admitted \in BOOLEAN
  BY <1>1 DEF ToolType, PolicyType, Admits
<1>7. /\ runs' \in [Id -> SUBSET RunType]
      /\ \A x \in Id : x # q => runs'[x] = runs[x]
      /\ runs'[q] = IF admitted THEN runs[q] \cup {<<by, n>>} ELSE runs[q]
  <2> HIDE DEF admitted, by, n
  <2> QED BY <1>1, <1>3, <1>5 DEF ApprovalTypeOK, RunType
<1>8. /\ tool' \in [Id -> ToolType]
      /\ \A x \in Id : x # q => tool'[x] = tool[x]
      /\ tool'[q].step = IF admitted \/ tool[q].step = "ran" THEN "ran" ELSE "denied"
      /\ tool'[q].decision = tool[q].decision
  <2> HIDE DEF admitted
  <2> QED BY <1>1, <1>5 DEF ApprovalTypeOK, ToolType
<1>9. /\ record' \in [Id -> RecordType]
      /\ \A x \in Id : x # q => record'[x] = record[x]
      /\ record'[q].at = record[q].at /\ record'[q].resolvedAt = record[q].resolvedAt
      /\ record'[q].resolvedBy = record[q].resolvedBy
      /\ record'[q].decision = IF flagged /\ admitted /\ record[q].decision = "allow-once"
                               THEN "undefined" ELSE record[q].decision
  <2> HIDE DEF flagged, admitted
  <2> QED BY <1>1, <1>5 DEF ConsumeAllowOnce, ApprovalTypeOK, RecordType
<1>10. ApprovalTypeOK'
  BY <1>1, <1>2, <1>4, <1>7, <1>8, <1>9 DEF ApprovalTypeOK, RunType
<1>11. flagged /\ admitted /\ promise[q] = "allow-once" =>
         record[q].decision = "allow-once" /\ Flagged(q) = {}
  BY <1>1, <1>4 DEF Admits, TimedOut, IdInv, SettledInv, OnceInv, Decision
<1>12. Flagged(q)' = IF flagged /\ admitted THEN Flagged(q) \cup {<<by, n>>} ELSE Flagged(q)
  <2>1. flagged <=> by # "unflagged"
    BY <1>1, <1>6 DEF RecordType, Decision
  <2>2. <<by, n>>[1] = by
    OBVIOUS
  <2> HIDE DEF flagged, admitted, by, n
  <2> QED BY <1>6, <1>7, <2>1, <2>2 DEF Flagged
<1> HIDE DEF flagged, admitted, by, n
<1>13. SettledInv(q)' /\ EntryInv(q)' /\ LatencyInv(q)'
  BY <1>1, <1>4, <1>8, <1>9 DEF IdInv, SettledInv, EntryInv, LatencyInv, IsResolved, Decision
<1>14. ToolInv(q)'
  BY <1>1, <1>4, <1>6, <1>7, <1>8, <1>9 DEF IdInv, ToolInv, IsResolved, Asked
<1>15. OnceInv(q)'
  BY <1>1, <1>4, <1>6, <1>8, <1>9, <1>11, <1>12 DEF IdInv, OnceInv, PolicyType
<1>16. \A x \in Id : x # q => Same(x)
  BY <1>4, <1>7, <1>8, <1>9 DEF Same
<1> QED BY <1>4, <1>10, <1>13, <1>14, <1>15, <1>16, OneKeeps DEF IdInv

(* The clock.                                                              *)
LEMMA TickKeeps ==
  ASSUME IndInv, Tick
  PROVE  IndInv'
<1>1. ApprovalTypeOK'
  BY TimesAssumption DEF IndInv, Tick, ApprovalTypeOK
<1>2. ASSUME NEW q \in Id PROVE IdInv(q)'
  <2>1. IdInv(q) /\ record[q] \in RecordType /\ now \in Nat
    BY TypeFacts DEF IndInv
  <2>2. SettledInv(q)' /\ EntryInv(q)' /\ LatencyInv(q)'
    BY <2>1, TimesAssumption
    DEF Tick, IdInv, SettledInv, EntryInv, LatencyInv, IsResolved, RecordType
  <2>3. ToolInv(q)' /\ OnceInv(q)'
    BY <2>1 DEF Tick, IdInv, ToolInv, OnceInv, Flagged, IsResolved, Asked
  <2> QED BY <2>2, <2>3 DEF IdInv
<1> QED BY <1>1, <1>2 DEF IndInv

-----------------------------------------------------------------------------
(* Every step keeps the invariant.                                         *)
LEMMA NextKeepsInv ==
  ASSUME IndInv, [Next]_vars
  PROVE  IndInv'
<1>1. CASE UNCHANGED vars
  BY <1>1 DEF vars, IndInv, ApprovalTypeOK, IdInv, SettledInv, EntryInv, LatencyInv, ToolInv,
              OnceInv, Flagged, IsResolved, Asked
<1>2. CASE Next
  BY <1>2, TickKeeps, RequestKeeps, ExpireTimerKeeps, GraceTimerKeeps, ForwardedKeeps,
     WaitDecisionKeeps, DecisionArrivesKeeps, InvokeKeeps, CallFailsKeeps, ResolveKeeps
  DEF Next, ToolStep
<1> QED BY <1>1, <1>2

(* The invariant holds in every reachable state.                           *)
LEMMA Invariant == Spec => []IndInv
  BY InitIndInv, NextKeepsInv, PTL DEF Spec

(* The shape of the state.                                                 *)
THEOREM ApprovalTypeCorrect == Spec => []ApprovalTypeOK
<1>1. IndInv => ApprovalTypeOK
  BY DEF IndInv
<1> QED BY <1>1, Invariant, PTL

(* However often node.invoke is repeated while a resolved entry is kept    *)
(* (consumeAllowOnce), a command that was allowed once runs once.          *)
THEOREM AllowOnceIsUsedOnce == Spec => []AllowOnceRunsOnce
<1>1. IndInv => AllowOnceRunsOnce
  <2> SUFFICES ASSUME IndInv, NEW q \in Id, promise[q] = "allow-once"
               PROVE  Cardinality(Flagged(q)) <= 1
    BY DEF AllowOnceRunsOnce, Flagged
  <2>1. \A r, s \in Flagged(q) : r = s
    BY DEF IndInv, IdInv, OnceInv
  <2>2. CASE Flagged(q) = {}
    BY <2>2, FS_EmptySet
  <2>3. CASE Flagged(q) # {}
    <3>1. PICK r : Flagged(q) = {r}
      BY <2>1, <2>3
    <3> QED BY <3>1, FS_Singleton
  <2> QED BY <2>2, <2>3
<1> QED BY <1>1, Invariant, PTL

(* A command its operator denied runs neither on the gateway host nor on a *)
(* node, also when the tool asks for the decision late.                    *)
THEOREM DeniedCommandsDoNotRun == Spec => []DeniedNeverRuns
<1>1. IndInv => DeniedNeverRuns
  BY DEF IndInv, IdInv, ToolInv, DeniedNeverRuns
<1> QED BY <1>1, Invariant, PTL

(* A first node.invoke that comes in time finds its approval: the grace    *)
(* period of resolve is longer than the call takes.                        *)
THEOREM FreshApprovalsAreAdmitted == Spec => []FreshApprovalIsAdmitted
<1>1. IndInv => FreshApprovalIsAdmitted
  <2> SUFFICES ASSUME IndInv, NEW q \in Id, tool[q].step = "invoking",
                      tool[q].decision \in {"allow-once", "allow-always"}, now <= ExpiresAt(q)
               PROVE  Admits(q)
    BY DEF FreshApprovalIsAdmitted
  <2>1. IdInv(q)
    BY DEF IndInv
  <2>2. IsResolved(q) /\ tool[q].decision = promise[q]
    BY <2>1 DEF IdInv, ToolInv, Decision
  <2>3. q \in pending
    BY <2>2, EntryIsKept
  <2>4. record[q].decision \in {"allow-once", "allow-always"}
    BY <2>1, <2>2 DEF IdInv, SettledInv, OnceInv
  <2> QED BY <2>3, <2>4 DEF Admits
<1> QED BY <1>1, Invariant, PTL

(* Nobody changes who settled an approval, or how: not a late timer, not a *)
(* second answer, not the missing route.                                   *)
THEOREM AnswersAreFinal == Spec => AnswerIsFinal
<1> DEFINE Kept(q) == /\ record'[q].resolvedAt = record[q].resolvedAt
                      /\ record'[q].resolvedBy = record[q].resolvedBy
                      /\ \/ record'[q].decision = record[q].decision
                         \/ record[q].decision = "allow-once" /\ record'[q].decision = "undefined"
                      /\ promise'[q] = promise[q]
           Final == \A q \in Id : IsResolved(q) => Kept(q)
<1>1. IndInv /\ [Next]_vars => [Final]_vars
  <2> SUFFICES ASSUME IndInv, Next PROVE Final
    OBVIOUS
  <2>0. ApprovalTypeOK /\ record \in [Id -> RecordType]
    BY DEF IndInv, ApprovalTypeOK
  <2>1. ASSUME UNCHANGED <<record, promise>> PROVE Final
    BY <2>1
  <2>2. ASSUME NEW q \in Id, CanSettle(q), NEW d \in Decision \cup {"undefined"},
               NEW by \in {"null", "operator", "no-approval-route"}, Settle(q, d, by)
        PROVE  Final
    <3>1. \A x \in Id : x # q => record'[x] = record[x] /\ promise'[x] = promise[x]
      BY <2>0, <2>2, SettleFacts
    <3> QED BY <2>2, <3>1 DEF CanSettle
  <2>3. ASSUME NEW input \in Id \cup Slug, NEW d \in Decision, Resolve(input, d) PROVE Final
    <3>1. PICK q \in LookupPendingId(input) : CanSettle(q) /\ Settle(q, d, "operator")
      BY <2>3 DEF Resolve
    <3>2. q \in Id
      BY <3>1, SlugAssumption DEF LookupPendingId
    <3> HIDE DEF Final
    <3> QED BY <2>2, <3>1, <3>2
  <2>4. ASSUME NEW q \in Id, Request(q) PROVE Final
    <3>1. /\ ~IsResolved(q) /\ promise' = promise
          /\ \A x \in Id : x # q => record'[x] = record[x]
      BY <2>0, <2>4 DEF Request, IndInv, IdInv, EntryInv
    <3> QED BY <3>1
  <2>5. ASSUME NEW q \in Id, Forwarded(q) PROVE Final
    <3>1. \/ CanSettle(q) /\ Settle(q, "undefined", "no-approval-route")
          \/ UNCHANGED <<record, promise>>
      BY <2>5 DEF Forwarded
    <3> HIDE DEF Final
    <3> QED BY <2>1, <2>2, <3>1
  <2>6. ASSUME NEW q \in Id, Invoke(q) PROVE Final
    <3>1. promise' = promise /\ (ConsumeAllowOnce(q) \/ UNCHANGED record)
      BY <2>6 DEF Invoke
    <3>2. CASE ConsumeAllowOnce(q)
      BY <2>0, <3>1, <3>2 DEF ConsumeAllowOnce, RecordType
    <3> QED BY <3>1, <3>2
  <2>7. ASSUME NEW q \in Id, ExpireTimer(q) PROVE Final
    <3> HIDE DEF Final
    <3> QED BY <2>2, <2>7 DEF ExpireTimer
  <2> HIDE DEF Final
  <2>8. ASSUME NEW q \in Id,
               GraceTimer(q) \/ WaitDecision(q) \/ DecisionArrives(q) \/ CallFails(q)
        PROVE  Final
    BY <2>1, <2>8 DEF GraceTimer, WaitDecision, DecisionArrives, CallFails
  <2>9. CASE Tick
    BY <2>1, <2>9 DEF Tick
  <2> QED BY <2>3, <2>4, <2>5, <2>6, <2>7, <2>8, <2>9 DEF Next, ToolStep
<1> QED BY <1>1, Invariant, PTL DEF Spec, AnswerIsFinal
=============================================================================
