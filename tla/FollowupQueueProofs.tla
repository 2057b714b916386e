------------------------- MODULE FollowupQueueProofs -------------------------
(***************************************************************************)
(* What holds of the followup queue for every number of messages, queue    *)
(* objects, arrivals and failed runs.                                      *)
(*                                                                         *)
(* The code's calls (scheduleFollowupDrain, the finally block of a drain,  *)
(* getFollowupQueue) are operators on the registry as a value, so there is *)
(* a lemma for each, and a handler's step is put together from them.       *)
(* IndInv holds with every drop policy, clear and expiry; OnceInv adds     *)
(* what holds while the dedupe cache forgets nothing, OneQueue what holds  *)
(* without clears, and KeepInv what holds while nothing is discarded.      *)
(***************************************************************************)
EXTENDS FollowupQueue, FiniteSetTheorems, SequenceTheorems, TLAPS

QueueType ==
  [items : Seq(Message), draining : BOOLEAN, mode : {"collect", "followup"},
   cap : Nat \ {0}, dropPolicy : {"summarize", "old", "new"},
   overflow : SUBSET Message, lastRun : BOOLEAN]
DrainType ==
  [at : {"idle", "debounce", "run"}, force : BOOLEAN,
   kind : {"item", "summary", "collect"}, batch : Seq(Message), summary : SUBSET Message]
RegistryType ==
  [registered : 0 .. MaxQueue, callback : BOOLEAN,
   queue : [Queue -> QueueType], drain : [Queue -> DrainType]]

(* A drain is under way exactly on the objects that are marked.            *)
Paired(r) == \A q \in Queue : r.drain[q].at # "idle" <=> r.queue[q].draining

OneRoute(s) == \A i, j \in 1 .. Len(s) : Route[s[i]] = Route[s[j]]
BatchesRouted(r) ==
  \A q \in Queue : r.drain[q].at = "run" /\ r.drain[q].kind = "collect" =>
    OneRoute(r.drain[q].batch)

-----------------------------------------------------------------------------
(* The first n elements of a sequence are dropped.                         *)
LEMMA DropFirst ==
  ASSUME NEW S, NEW s \in Seq(S), NEW n \in Nat
  PROVE  /\ SubSeq(s, n + 1, Len(s)) \in Seq(S)
         /\ Len(SubSeq(s, n + 1, Len(s))) = IF n <= Len(s) THEN Len(s) - n ELSE 0
         /\ \A i \in 1 .. Len(s) - n : SubSeq(s, n + 1, Len(s))[i] = s[i + n]
         /\ IsInjective(s) => IsInjective(SubSeq(s, n + 1, Len(s)))
<1>1. \A i \in n + 1 .. Len(s) : s[i] \in S
  OBVIOUS
<1>2. n + 1 \in Int /\ Len(s) \in Int /\ Len(s) \in Nat
  OBVIOUS
<1> DEFINE t == SubSeq(s, n + 1, Len(s))
<1>3. /\ t \in Seq(S)
      /\ Len(t) = IF n + 1 <= Len(s) THEN Len(s) - (n + 1) + 1 ELSE 0
      /\ \A i \in 1 .. Len(s) - (n + 1) + 1 : t[i] = s[n + 1 + i - 1]
  BY <1>1, <1>2, SubSeqProperties
<1> HIDE DEF t
<1>4. Len(t) = IF n <= Len(s) THEN Len(s) - n ELSE 0
  BY <1>2, <1>3
<1>5. \A i \in 1 .. Len(s) - n : t[i] = s[i + n]
  <2> TAKE i \in 1 .. Len(s) - n
  <2>1. i \in 1 .. Len(s) - (n + 1) + 1 /\ n + 1 + i - 1 = i + n
    BY <1>2
  <2> QED BY <1>3, <2>1
<1>6. ASSUME IsInjective(s) PROVE IsInjective(t)
  <2> SUFFICES ASSUME NEW a \in DOMAIN t, NEW b \in DOMAIN t, t[a] = t[b] PROVE a = b
    BY DEF IsInjective
  <2>1. a \in 1 .. Len(t) /\ b \in 1 .. Len(t)
    BY <1>3
  <2>2. a \in 1 .. Len(s) - n /\ b \in 1 .. Len(s) - n
    BY <1>2, <1>4, <2>1
  <2>3. s[a + n] = s[b + n]
    BY <1>5, <2>2
  <2>4. a + n \in DOMAIN s /\ b + n \in DOMAIN s
    BY <1>2, <2>2
  <2>5. a + n = b + n
    BY <1>6, <2>3, <2>4 DEF IsInjective
  <2> QED BY <2>2, <2>5
<1> QED BY <1>3, <1>4, <1>5, <1>6 DEF t

(* A message that is not waiting is put behind the ones that are.          *)
LEMMA AppendNew ==
  ASSUME NEW S, NEW s \in Seq(S), NEW e \in S
  PROVE  /\ Append(s, e) \in Seq(S)
         /\ Len(Append(s, e)) = Len(s) + 1
         /\ \A i \in 1 .. Len(s) : Append(s, e)[i] = s[i]
         /\ Append(s, e)[Len(s) + 1] = e
         /\ IsInjective(s) /\ ~Contains(s, e) => IsInjective(Append(s, e))
<1>1. /\ Append(s, e) \in Seq(S)
      /\ Len(Append(s, e)) = Len(s) + 1
      /\ \A i \in 1 .. Len(s) : Append(s, e)[i] = s[i]
      /\ Append(s, e)[Len(s) + 1] = e
      /\ Len(s) \in Nat
  BY AppendProperties
<1>2. ASSUME IsInjective(s), ~Contains(s, e),
             NEW a \in DOMAIN Append(s, e), NEW b \in DOMAIN Append(s, e),
             Append(s, e)[a] = Append(s, e)[b]
      PROVE  a = b
  <2>1. /\ a \in 1 .. Len(s) \/ a = Len(s) + 1
        /\ b \in 1 .. Len(s) \/ b = Len(s) + 1
    BY <1>1
  <2>2. CASE a \in 1 .. Len(s) /\ b \in 1 .. Len(s)
    <3>1. s[a] = s[b] /\ a \in DOMAIN s /\ b \in DOMAIN s
      BY <1>1, <1>2, <2>2
    <3> QED BY <1>2, <3>1 DEF IsInjective
  <2>3. CASE a \in 1 .. Len(s) /\ b = Len(s) + 1
    BY <1>1, <1>2, <2>3 DEF Contains
  <2>4. CASE b \in 1 .. Len(s) /\ a = Len(s) + 1
    BY <1>1, <1>2, <2>4 DEF Contains
  <2> QED BY <2>1, <2>2, <2>3, <2>4
<1> QED BY <1>1, <1>2 DEF IsInjective

(* What hasCrossChannelItems lets through has one destination.             *)
LEMMA SameChannel ==
  ASSUME NEW s \in Seq(Message), ~HasCrossChannelItems(s)
  PROVE  OneRoute(s)
<1> DEFINE keys == {Route[s[i]] : i \in 1 .. Len(s)}
           keyed == keys \ {"none"}
<1>1. "cross" \notin keys /\ (keyed = {} \/ (keyed = keys /\ ~(Cardinality(keyed) > 1)))
  BY DEF HasCrossChannelItems
<1>2. CASE keyed = {}
  <2>1. \A i \in 1 .. Len(s) : Route[s[i]] = "none"
    BY <1>2
  <2> QED BY <2>1 DEF OneRoute
<1>3. CASE keyed # {} /\ keyed = keys /\ ~(Cardinality(keyed) > 1)
  <2>1. IsFiniteSet(keys)
    <3> DEFINE f == [i \in 1 .. Len(s) |-> Route[s[i]]]
    <3>1. f \in Surjection(1 .. Len(s), keys)
      BY DEF Surjection
    <3>2. IsFiniteSet(1 .. Len(s))
      BY FS_Interval
    <3> HIDE DEF f, keys
    <3> QED BY <3>1, <3>2, FS_Surjection
  <2> HIDE DEF keys, keyed
  <2>2. Cardinality(keys) = 1
    BY <1>3, <2>1, FS_CardinalityType, FS_EmptySet
  <2>3. PICK x : keys = {x}
    BY <2>1, <2>2, FS_Singleton
  <2>4. \A i \in 1 .. Len(s) : Route[s[i]] = x
    BY <2>3 DEF keys
  <2> QED BY <2>4 DEF OneRoute
<1> QED BY <1>1, <1>2, <1>3

-----------------------------------------------------------------------------
(* Two registries whose queue objects hold the same.                       *)
SameQueues(r, s) ==
  \A q \in Queue :
    /\ s.queue[q].items = r.queue[q].items /\ s.queue[q].overflow = r.queue[q].overflow
    /\ s.queue[q].mode = r.queue[q].mode /\ s.queue[q].cap = r.queue[q].cap
    /\ s.queue[q].dropPolicy = r.queue[q].dropPolicy
    /\ s.queue[q].lastRun = r.queue[q].lastRun

(* What the calls at the end of a handler may do to the registry: mark and *)
(* unmark objects, start and end drains, forget the key.                   *)
Settles(r, s) ==
  /\ s \in RegistryType
  /\ Paired(s)
  /\ SameQueues(r, s)
  /\ s.registered \in {0, r.registered}
  /\ \A q \in Queue : s.drain[q] = r.drain[q] \/ s.drain[q].at # "run"
  /\ \A q \in Queue : q # r.registered => (s.queue[q].draining => r.queue[q].draining)

(* Types of the constants the operators build.                             *)
LEMMA IdleDrainType ==
  /\ IdleDrain \in DrainType /\ IdleDrain.at = "idle"
  /\ [IdleDrain EXCEPT !.at = "debounce"] \in DrainType
  /\ [IdleDrain EXCEPT !.at = "debounce"].at = "debounce"
<1>1. <<>> \in Seq(Message)
  OBVIOUS
<1> QED BY <1>1 DEF IdleDrain, DrainType

(* An object that is marked or unmarked, and nothing else.                 *)
LEMMA MarkSettles ==
  ASSUME NEW r \in RegistryType, Paired(r), NEW q \in Queue, NEW x \in DrainType,
         NEW d \in BOOLEAN, x.at # "run", x.at # "idle" <=> d,
         d => q = r.registered \/ r.queue[q].draining,
         NEW c \in BOOLEAN
  PROVE  /\ [r EXCEPT !.queue[q].draining = d, !.callback = c, !.drain[q] = x] \in RegistryType
         /\ Settles(r, [r EXCEPT !.queue[q].draining = d, !.callback = c, !.drain[q] = x])
<1> DEFINE s == [r EXCEPT !.queue[q].draining = d, !.callback = c, !.drain[q] = x]
           marked == [r.queue[q] EXCEPT !.draining = d]
<1> SUFFICES s \in RegistryType /\ Settles(r, s)
  OBVIOUS
<1>0. r.queue \in [Queue -> QueueType] /\ r.drain \in [Queue -> DrainType]
  BY DEF RegistryType
<1>1. r.queue[q] \in QueueType
  BY <1>0
<1>2. /\ marked \in QueueType /\ marked.draining = d
      /\ marked.items = r.queue[q].items /\ marked.overflow = r.queue[q].overflow
      /\ marked.mode = r.queue[q].mode /\ marked.cap = r.queue[q].cap
      /\ marked.dropPolicy = r.queue[q].dropPolicy /\ marked.lastRun = r.queue[q].lastRun
  BY <1>1 DEF QueueType
<1>3. /\ s.queue = [r.queue EXCEPT ![q] = marked]
      /\ s.drain = [r.drain EXCEPT ![q] = x]
      /\ s.registered = r.registered /\ s.callback = c
      /\ s = [registered |-> s.registered, callback |-> s.callback,
              queue |-> s.queue, drain |-> s.drain]
  <2>1. s = [r EXCEPT !.queue[q].draining = d, !.callback = c, !.drain[q] = x]
    OBVIOUS
  <2> HIDE DEF s
  <2> QED BY <2>1 DEF RegistryType
<1> HIDE DEF s, marked
<1>4. s \in RegistryType
  BY <1>0, <1>2, <1>3 DEF RegistryType
<1>5. \A p \in Queue : /\ s.queue[p] = IF p = q THEN marked ELSE r.queue[p]
                       /\ s.drain[p] = IF p = q THEN x ELSE r.drain[p]
  BY <1>0, <1>3
<1>6. Paired(s)
  BY <1>2, <1>5 DEF Paired
<1>7. SameQueues(r, s)
  BY <1>2, <1>5 DEF SameQueues
<1>8. \A p \in Queue : s.drain[p] = r.drain[p] \/ s.drain[p].at # "run"
  BY <1>5
<1>9. \A p \in Queue : p # r.registered => (s.queue[p].draining => r.queue[p].draining)
  BY <1>2, <1>5
<1> QED BY <1>3, <1>4, <1>6, <1>7, <1>8, <1>9 DEF Settles

(* The key forgets its object.                                             *)
LEMMA ForgetSettles ==
  ASSUME NEW r \in RegistryType, Paired(r)
  PROVE  Settles(r, [r EXCEPT !.registered = 0, !.callback = FALSE])
<1> DEFINE s == [r EXCEPT !.registered = 0, !.callback = FALSE]
<1> SUFFICES Settles(r, s)
  OBVIOUS
<1>0. 0 \in 0 .. MaxQueue /\ FALSE \in BOOLEAN
  BY FollowupAssumption
<1>1. s \in RegistryType
  BY <1>0 DEF RegistryType
<1>2. s.queue = r.queue /\ s.drain = r.drain /\ s.registered = 0
  BY DEF RegistryType
<1> HIDE DEF s
<1> QED BY <1>1, <1>2 DEF Settles, SameQueues, Paired

LEMMA SettlesTransitive ==
  ASSUME NEW r, NEW s, NEW t, Settles(r, s), Settles(s, t)
  PROVE  Settles(r, t)
  BY FollowupAssumption DEF Settles, SameQueues, Queue

(* scheduleFollowupDrain.                                                  *)
LEMMA ScheduleSettles ==
  ASSUME NEW r \in RegistryType, Paired(r)
  PROVE  Settles(r, ScheduleFollowupDrain(r))
<1> DEFINE q == r.registered
           begun == [IdleDrain EXCEPT !.at = "debounce"]
           yes == TRUE
<1>1. Settles(r, r)
  BY DEF Settles, SameQueues
<1>2. CASE q # 0
  <2>1. q \in Queue
    BY <1>2, FollowupAssumption DEF Queue, RegistryType
  <2>2. begun \in DrainType /\ begun.at = "debounce" /\ yes \in BOOLEAN /\ yes
    BY IdleDrainType
  <2> HIDE DEF begun, yes
  <2>3. Settles(r, [r EXCEPT !.queue[q].draining = yes, !.callback = yes, !.drain[q] = begun])
    BY <2>1, <2>2, MarkSettles
  <2> QED BY <1>1, <2>3, ForgetSettles DEF ScheduleFollowupDrain, yes, begun
<1> QED BY <1>1, <1>2 DEF ScheduleFollowupDrain

(* The head of the finally block.                                          *)
Ended(r, q) == [r EXCEPT !.queue[q].draining = FALSE, !.drain[q] = IdleDrain]

LEMMA EndedSettles ==
  ASSUME NEW r \in RegistryType, Paired(r), NEW q \in Queue
  PROVE  /\ Settles(r, Ended(r, q))
         /\ Ended(r, q).registered = r.registered /\ Ended(r, q).drain[q] = IdleDrain
         /\ Ended(r, q).queue[q].draining = FALSE
         /\ Ended(r, q).queue[q].items = r.queue[q].items
<1> DEFINE no == FALSE
           ended == Ended(r, q)
<1>1. ended = [r EXCEPT !.queue[q].draining = no, !.callback = r.callback,
                        !.drain[q] = IdleDrain]
  BY DEF Ended, RegistryType
<1>2. IdleDrain \in DrainType /\ IdleDrain.at = "idle" /\ no \in BOOLEAN /\ ~no
      /\ r.callback \in BOOLEAN
  BY IdleDrainType DEF RegistryType
<1>3. /\ ended.registered = r.registered /\ ended.drain[q] = IdleDrain
      /\ ended.queue[q].draining = FALSE /\ ended.queue[q].items = r.queue[q].items
  <2>1. r.queue[q] \in QueueType
    BY DEF RegistryType
  <2> QED BY <2>1 DEF RegistryType, QueueType, Ended
<1> HIDE DEF no, ended
<1>4. Settles(r, ended)
  BY <1>1, <1>2, MarkSettles
<1> QED BY <1>3, <1>4 DEF ended

(* The finally block of a drain.                                           *)
LEMMA EndDrainSettles ==
  ASSUME NEW r \in RegistryType, Paired(r), NEW q \in Queue
  PROVE  Settles(r, EndDrain(r, q))
<1>1. Settles(r, Ended(r, q)) /\ Ended(r, q) \in RegistryType /\ Paired(Ended(r, q))
  BY EndedSettles DEF Settles
<1>2. EndDrain(r, q) = IF IsEmpty(Ended(r, q).queue[q])
                       THEN [Ended(r, q) EXCEPT !.registered = 0, !.callback = FALSE]
                       ELSE ScheduleFollowupDrain(Ended(r, q))
  BY DEF EndDrain, Ended
<1>3. Settles(Ended(r, q), EndDrain(r, q))
  BY <1>1, <1>2, ForgetSettles, ScheduleSettles
<1> QED BY <1>1, <1>3, SettlesTransitive

(* The head of the drain's loop.                                           *)
LEMMA LoopDrainSettles ==
  ASSUME NEW r \in RegistryType, Paired(r), NEW q \in Queue, r.drain[q].at = "run"
  PROVE  Settles(r, LoopDrain(r, q))
<1>1. CASE IsEmpty(r.queue[q])
  BY <1>1, EndDrainSettles DEF LoopDrain
<1>2. CASE ~IsEmpty(r.queue[q])
  <2> DEFINE next == [r.drain[q] EXCEPT !.at = "debounce", !.batch = <<>>, !.summary = {}]
             yes == TRUE
  <2>0. r.queue[q] \in QueueType /\ r.drain[q] \in DrainType /\ r.queue[q].draining
    BY DEF RegistryType, Paired
  <2>1. next \in DrainType /\ next.at = "debounce" /\ yes \in BOOLEAN /\ yes
        /\ r.callback \in BOOLEAN
    <3>1. <<>> \in Seq(Message)
      OBVIOUS
    <3> QED BY <2>0, <3>1 DEF DrainType, RegistryType
  <2>2. LoopDrain(r, q) = [r EXCEPT !.drain[q].at = "debounce", !.drain[q].batch = <<>>,
                                    !.drain[q].summary = {}]
    BY <1>2 DEF LoopDrain
  <2>3. LoopDrain(r, q) = [r EXCEPT !.queue[q].draining = TRUE, !.callback = r.callback,
                                    !.drain[q] = next]
    <3>1. [r.queue EXCEPT ![q].draining = TRUE] = r.queue
      <4>1. [r.queue[q] EXCEPT !.draining = TRUE] = r.queue[q]
        BY <2>0 DEF QueueType
      <4>2. r.queue \in [Queue -> QueueType]
        BY DEF RegistryType
      <4> QED BY <4>1, <4>2
    <3>2. LoopDrain(r, q) = [r EXCEPT !.drain[q] = next]
      BY <2>2 DEF RegistryType
    <3>3. [r EXCEPT !.queue[q].draining = TRUE, !.callback = r.callback, !.drain[q] = next]
            = [r EXCEPT !.drain[q] = next]
      <4> HIDE DEF next
      <4> QED BY <3>1 DEF RegistryType
    <3> QED BY <3>2, <3>3
  <2> HIDE DEF next, yes
  <2>4. Settles(r, [r EXCEPT !.queue[q].draining = yes, !.callback = r.callback,
                             !.drain[q] = next])
    BY <2>0, <2>1, MarkSettles
  <2> QED BY <2>3, <2>4 DEF yes
<1> QED BY <1>1, <1>2

-----------------------------------------------------------------------------
(* The invariant of a registry whose map has seen n objects.               *)
Injective(r) == \A q \in Queue : IsInjective(r.queue[q].items)
Fresh(r, n) == \A q \in Queue : q > n => r.drain[q].at = "idle"
RegistryInv(r, n) ==
  /\ r \in RegistryType /\ r.registered <= n
  /\ Paired(r) /\ Injective(r) /\ BatchesRouted(r) /\ Fresh(r, n)

IndInv ==
  /\ RegistryInv(Now, created)
  /\ created \in 0 .. MaxQueue
  /\ runActive \in BOOLEAN /\ recent \subseteq Message

(* The ends of the handlers keep it.                                       *)
LEMMA SettlesKeepsInv ==
  ASSUME NEW r, NEW s, NEW n \in Nat, RegistryInv(r, n), Settles(r, s)
  PROVE  RegistryInv(s, n)
<1>0. r \in RegistryType /\ r.registered \in 0 .. MaxQueue /\ Paired(r)
  BY DEF RegistryInv, RegistryType
<1>1. s \in RegistryType /\ s.registered <= n /\ Paired(s)
  BY DEF RegistryInv, Settles
<1>2. Injective(s)
  BY DEF RegistryInv, Settles, SameQueues, Injective
<1>3. BatchesRouted(s)
  BY DEF RegistryInv, Settles, BatchesRouted
<1>4. Fresh(s, n)
  <2> SUFFICES ASSUME NEW q \in Queue, q > n PROVE s.drain[q].at = "idle"
    BY DEF Fresh
  <2>1. r.drain[q].at = "idle" /\ q # r.registered
    BY <1>0, FollowupAssumption DEF RegistryInv, Fresh, Queue
  <2>2. ~s.queue[q].draining
    BY <1>0, <2>1 DEF Settles, Paired
  <2> QED BY <1>1, <2>2 DEF Paired
<1> QED BY <1>1, <1>2, <1>3, <1>4 DEF RegistryInv

(* An object that is replaced by one with the same mark.                   *)
Put(r, q, x, c) == [r EXCEPT !.queue[q] = x, !.callback = c]
LEMMA PutFields ==
  ASSUME NEW r \in RegistryType, NEW q, NEW x, NEW c
  PROVE  Put(r, q, x, c) = [registered |-> r.registered, callback |-> c,
                            queue |-> [r.queue EXCEPT ![q] = x], drain |-> r.drain]
<1> DEFINE s == Put(r, q, x, c)
<1>1. s = [r EXCEPT !.queue[q] = x, !.callback = c]
  BY DEF Put
<1> HIDE DEF s
<1>2. /\ s.registered = r.registered /\ s.callback = c /\ s.drain = r.drain
      /\ s.queue = [r.queue EXCEPT ![q] = x]
      /\ s = [registered |-> s.registered, callback |-> s.callback,
              queue |-> s.queue, drain |-> s.drain]
  BY <1>1 DEF RegistryType
<1> QED BY <1>2 DEF s

LEMMA PutKeepsInv ==
  ASSUME NEW r, NEW n \in Nat, RegistryInv(r, n), NEW q \in Queue, NEW x \in QueueType,
         x.draining = r.queue[q].draining, IsInjective(x.items), NEW c \in BOOLEAN,
         NEW s, s = Put(r, q, x, c)
  PROVE  /\ RegistryInv(s, n)
         /\ s.queue = [r.queue EXCEPT ![q] = x] /\ s.drain = r.drain
         /\ s.registered = r.registered
<1>0. r \in RegistryType /\ r.queue \in [Queue -> QueueType]
  BY DEF RegistryInv, RegistryType
<1>1. /\ s.queue = [r.queue EXCEPT ![q] = x] /\ s.drain = r.drain
      /\ s.registered = r.registered /\ s.callback = c
      /\ s = [registered |-> s.registered, callback |-> s.callback,
              queue |-> s.queue, drain |-> s.drain]
  BY <1>0 DEF RegistryType, Put
<1>2. s.queue \in [Queue -> QueueType] /\ s \in RegistryType
  BY <1>0, <1>1 DEF RegistryType
<1>3. \A p \in Queue : s.queue[p] = IF p = q THEN x ELSE r.queue[p]
  BY <1>0, <1>1
<1>4. Paired(s)
  BY <1>1, <1>3 DEF RegistryInv, Paired
<1>5. Injective(s)
  BY <1>3 DEF RegistryInv, Injective
<1>6. BatchesRouted(s) /\ Fresh(s, n)
  BY <1>1 DEF RegistryInv, BatchesRouted, Fresh
<1>7. RegistryInv(s, n)
  BY <1>1, <1>2, <1>4, <1>5, <1>6 DEF RegistryInv
<1> QED BY <1>1, <1>7

(* getFollowupQueue: the object that is registered afterwards.             *)
NextCreated == IF registered = 0 THEN created + 1 ELSE created
Got(g, st) ==
  /\ RegistryInv(g, NextCreated)
  /\ NextCreated \in 0 .. MaxQueue
  /\ g.registered = (IF registered = 0 THEN created + 1 ELSE registered)
  /\ g.registered \in Queue
  /\ g.drain = drain /\ g.callback \in BOOLEAN
  /\ \A q \in Queue : q # g.registered => g.queue[q] = queue[q]
  /\ g.queue[g.registered].items =
       (IF registered = 0 THEN <<>> ELSE queue[registered].items)
  /\ g.queue[g.registered].overflow =
       (IF registered = 0 THEN {} ELSE queue[registered].overflow)
  /\ g.queue[g.registered].cap = st.cap
  /\ g.queue[g.registered].dropPolicy = st.dropPolicy
  /\ g.queue[g.registered].draining =
       (IF registered = 0 THEN FALSE ELSE queue[registered].draining)

LEMMA GetFollowupQueueKeepsInv ==
  ASSUME IndInv, NEW st \in Setting, registered = 0 => created < MaxQueue
  PROVE  Got(GetFollowupQueue(st), st)
<1> DEFINE g == GetFollowupQueue(st)
<1> SUFFICES Got(g, st)
  OBVIOUS
<1>0. /\ queue \in [Queue -> QueueType] /\ drain \in [Queue -> DrainType]
      /\ callback \in BOOLEAN /\ registered \in 0 .. MaxQueue /\ created \in 0 .. MaxQueue
      /\ registered <= created /\ MaxQueue \in Nat
      /\ Paired(Now) /\ Injective(Now) /\ BatchesRouted(Now) /\ Fresh(Now, created)
  BY FollowupAssumption DEF IndInv, RegistryInv, RegistryType, Now
<1>1. /\ st.mode \in {"collect", "followup"} /\ st.cap \in Nat \ {0}
      /\ st.dropPolicy \in {"summarize", "old", "new"}
  BY FollowupAssumption
<1>2. CASE registered = 0
  <2> DEFINE new == NewQueue(st)
  <2>1. /\ new \in QueueType /\ new.draining = FALSE /\ new.items = <<>> /\ new.overflow = {}
        /\ new.cap = st.cap /\ new.dropPolicy = st.dropPolicy
    <3>1. <<>> \in Seq(Message) /\ {} \in SUBSET Message
      OBVIOUS
    <3> QED BY <1>1, <3>1 DEF NewQueue, QueueType
  <2> HIDE DEF new
  <2>2. created + 1 \in Queue /\ created + 1 \in 0 .. MaxQueue
    BY <1>0, <1>2 DEF Queue
  <2>3. g = [registered |-> created + 1, callback |-> callback,
             queue |-> [queue EXCEPT ![created + 1] = new], drain |-> drain]
    BY <1>2 DEF GetFollowupQueue, Now, new
  <2>4. /\ g.registered = created + 1 /\ g.callback = callback /\ g.drain = drain
        /\ g.queue = [queue EXCEPT ![created + 1] = new]
    BY <2>3
  <2>5. \A q \in Queue : g.queue[q] = IF q = created + 1 THEN new ELSE queue[q]
    BY <1>0, <2>4
  <2>6. g \in RegistryType
    <3>1. g.queue \in [Queue -> QueueType]
      BY <1>0, <2>1, <2>4
    <3> QED BY <1>0, <2>2, <2>3, <2>4, <3>1 DEF RegistryType
  <2> HIDE DEF g
  <2>7. Paired(g)
    <3>1. drain[created + 1].at = "idle"
      BY <1>0, <2>2 DEF Fresh, Now
    <3> QED BY <1>0, <2>1, <2>4, <2>5, <3>1 DEF Paired, Now
  <2>8. Injective(g)
    BY <1>0, <2>1, <2>5 DEF Injective, Now, IsInjective
  <2>9. BatchesRouted(g) /\ Fresh(g, created + 1)
    BY <1>0, <2>4 DEF BatchesRouted, Fresh, Now, Queue
  <2>10. RegistryInv(g, created + 1)
    BY <1>0, <2>4, <2>6, <2>7, <2>8, <2>9 DEF RegistryInv
  <2>11. NextCreated = created + 1
    BY <1>2 DEF NextCreated
  <2>12. /\ \A q \in Queue : q # g.registered => g.queue[q] = queue[q]
         /\ g.queue[g.registered] = new
    BY <2>2, <2>4, <2>5
  <2> QED BY <1>0, <1>2, <2>1, <2>2, <2>4, <2>10, <2>11, <2>12 DEF Got
<1>3. CASE registered # 0
  <2> DEFINE x == [queue[registered] EXCEPT !.mode = st.mode, !.cap = st.cap,
                                            !.dropPolicy = st.dropPolicy]
  <2>0. registered \in Queue /\ queue[registered] \in QueueType
    BY <1>0, <1>3 DEF Queue
  <2>1. /\ x \in QueueType /\ x.draining = queue[registered].draining
        /\ x.items = queue[registered].items /\ x.overflow = queue[registered].overflow
        /\ x.cap = st.cap /\ x.dropPolicy = st.dropPolicy
    BY <1>1, <2>0 DEF QueueType
  <2>2. g = Put(Now, registered, x, callback)
    <3>1. [queue EXCEPT ![registered].mode = st.mode, ![registered].cap = st.cap,
                        ![registered].dropPolicy = st.dropPolicy]
            = [queue EXCEPT ![registered] = x]
      BY <1>0, <2>0
    <3>2. g = [registered |-> registered, callback |-> callback, drain |-> drain,
               queue |-> [queue EXCEPT ![registered].mode = st.mode,
                                       ![registered].cap = st.cap,
                                       ![registered].dropPolicy = st.dropPolicy]]
      BY <1>3 DEF GetFollowupQueue, Now
    <3> DEFINE changed == [queue EXCEPT ![registered].mode = st.mode,
                                        ![registered].cap = st.cap,
                                        ![registered].dropPolicy = st.dropPolicy]
    <3>3. changed = [queue EXCEPT ![registered] = x]
      BY <3>1
    <3>4. g = [registered |-> registered, callback |-> callback, queue |-> changed,
               drain |-> drain]
      BY <3>2
    <3> HIDE DEF x, g, changed
    <3>5. Put(Now, registered, x, callback)
            = [registered |-> registered, callback |-> callback,
               queue |-> [queue EXCEPT ![registered] = x], drain |-> drain]
      <4>1. Now \in RegistryType /\ Now.queue = queue /\ Now.drain = drain
            /\ Now.registered = registered
        BY DEF Now, IndInv, RegistryInv
      <4> QED BY <4>1, PutFields
    <3> QED BY <3>3, <3>4, <3>5
  <2> HIDE DEF x, g
  <2>3. Now.queue = queue /\ Now.drain = drain /\ Now.registered = registered
    BY DEF Now
  <2>4. IsInjective(x.items)
    BY <1>0, <2>0, <2>1 DEF Injective, Now
  <2>5. RegistryInv(Now, created) /\ created \in Nat
    BY <1>0 DEF IndInv
  <2>6. /\ RegistryInv(g, created) /\ g.queue = [queue EXCEPT ![registered] = x]
        /\ g.drain = drain /\ g.registered = registered
    <3>1. x.draining = Now.queue[registered].draining
      BY <2>1, <2>3
    <3>2. /\ RegistryInv(g, created) /\ g.queue = [Now.queue EXCEPT ![registered] = x]
          /\ g.drain = Now.drain /\ g.registered = Now.registered
      BY <1>0, <2>0, <2>1, <2>2, <2>4, <2>5, <3>1, PutKeepsInv
    <3> QED BY <2>3, <3>2
  <2>7. \A q \in Queue : g.queue[q] = IF q = registered THEN x ELSE queue[q]
    BY <1>0, <2>6
  <2>8. g.callback \in BOOLEAN
    BY <2>6 DEF RegistryInv, RegistryType
  <2> QED BY <1>0, <1>3, <2>0, <2>1, <2>6, <2>7, <2>8 DEF NextCreated, Got
<1> QED BY <1>2, <1>3

-----------------------------------------------------------------------------
LEMMA BecomesIs ==
  ASSUME NEW r \in RegistryType, Becomes(r)
  PROVE  Now' = r
<1>1. r = [registered |-> r.registered, callback |-> r.callback,
           queue |-> r.queue, drain |-> r.drain]
  BY DEF RegistryType
<1>2. Now' = [registered |-> r.registered, callback |-> r.callback,
              queue |-> r.queue, drain |-> r.drain]
  BY DEF Now, Becomes
<1> QED BY <1>1, <1>2

(* A handler ends with a registry that satisfies the invariant.            *)
LEMMA BecomesKeepsInv ==
  ASSUME NEW r, NEW n \in 0 .. MaxQueue, RegistryInv(r, n), Becomes(r), created' = n,
         runActive' \in BOOLEAN, recent' \subseteq Message
  PROVE  IndInv'
<1>1. r \in RegistryType
  BY DEF RegistryInv
<1>2. Now' = r
  BY <1>1, BecomesIs
<1>3. RegistryInv(Now', created')
  BY <1>2
<1>4. RegistryInv(Now, created)'
  BY <1>3 DEF RegistryInv, Paired, Injective, BatchesRouted, Fresh
<1> QED BY <1>4 DEF IndInv

(* Recheck only settles.                                                   *)
LEMMA RecheckKeepsInv ==
  ASSUME NEW r, NEW n \in Nat, RegistryInv(r, n), NEW b
  PROVE  RegistryInv(Recheck(r, b), n) /\ Settles(r, Recheck(r, b))
<1>1. r \in RegistryType /\ Paired(r)
  BY DEF RegistryInv
<1>2. Settles(r, r)
  BY <1>1 DEF Settles, SameQueues
<1>3. Settles(r, Recheck(r, b))
  BY <1>1, <1>2, ScheduleSettles DEF Recheck
<1> QED BY <1>3, SettlesKeepsInv

(* The object after an accepted message: room was made for it first.       *)
LEMMA FreshObject ==
  ASSUME NEW q \in QueueType, NEW m \in Message, IsInjective(q.items),
         ~Contains(q.items, m),
         NEW x, x = [WithDrop(q) EXCEPT !.items = Append(@, m), !.lastRun = TRUE]
  PROVE  /\ x \in QueueType /\ x.draining = q.draining /\ x.cap = q.cap
         /\ IsInjective(x.items)
         /\ Len(x.items) <= x.cap /\ x.items # <<>>
<1> DEFINE n == DropCount(q)
           left == SubSeq(q.items, n + 1, Len(q.items))
           gone == SubSeq(q.items, 1, n)
<1>1. q.items \in Seq(Message) /\ q.cap \in Nat \ {0} /\ Len(q.items) \in Nat
  BY DEF QueueType
<1>2. n \in Nat /\ n <= Len(q.items)
      /\ (Len(q.items) < q.cap => n = 0)
      /\ (~(Len(q.items) < q.cap) => n = Len(q.items) - q.cap + 1)
  BY <1>1 DEF DropCount
<1>3. /\ left \in Seq(Message) /\ Len(left) = Len(q.items) - n
      /\ \A i \in 1 .. Len(q.items) - n : left[i] = q.items[i + n]
      /\ IsInjective(left)
  <2> HIDE DEF n
  <2> QED BY <1>1, <1>2, DropFirst
<1>4. gone \in Seq(Message)
  <2> HIDE DEF n
  <2>1. \A i \in 1 .. n : q.items[i] \in Message
    BY <1>1, <1>2
  <2> QED BY <1>2, <2>1, SubSeqProperties
<1>5. ToSet(gone) \subseteq Message
  <2> HIDE DEF gone
  <2> QED BY <1>4 DEF ToSet
<1>6. WithDrop(q) \in QueueType /\ WithDrop(q).items = left /\ WithDrop(q).cap = q.cap
      /\ WithDrop(q).draining = q.draining
  <2>1. WithDrop(q) = IF q.dropPolicy # "summarize" THEN [q EXCEPT !.items = left]
                      ELSE [q EXCEPT !.items = left, !.overflow = @ \cup ToSet(gone)]
    BY DEF WithDrop, QueueType
  <2> DEFINE over == q.overflow \cup ToSet(gone)
  <2>2. over \subseteq Message
    BY <1>5 DEF QueueType
  <2>3. WithDrop(q) = IF q.dropPolicy # "summarize" THEN [q EXCEPT !.items = left]
                      ELSE [q EXCEPT !.items = left, !.overflow = over]
    BY <2>1
  <2> HIDE DEF left, gone, over
  <2>4. CASE q.dropPolicy # "summarize"
    BY <1>3, <2>3, <2>4 DEF QueueType
  <2>5. CASE q.dropPolicy = "summarize"
    BY <1>3, <2>2, <2>3, <2>5 DEF QueueType
  <2> QED BY <2>4, <2>5
<1> HIDE DEF left, gone, n
<1>7. ~Contains(left, m)
  <2> SUFFICES ASSUME NEW i \in 1 .. Len(left), left[i] = m PROVE FALSE
    BY DEF Contains
  <2>1. i + n \in 1 .. Len(q.items) /\ q.items[i + n] = m
    BY <1>1, <1>2, <1>3
  <2> QED BY <2>1 DEF Contains
<1>8. /\ Append(left, m) \in Seq(Message) /\ Len(Append(left, m)) = Len(left) + 1
      /\ IsInjective(Append(left, m))
  BY <1>3, <1>7, AppendNew
<1> DEFINE more == Append(left, m)
<1>9. x = [WithDrop(q) EXCEPT !.items = more, !.lastRun = TRUE]
  BY <1>6
<1> HIDE DEF more
<1>10. x \in QueueType /\ x.items = more /\ x.cap = q.cap /\ x.draining = q.draining
  BY <1>6, <1>8, <1>9 DEF QueueType, more
<1>11. Len(left) + 1 <= q.cap
  BY <1>1, <1>2, <1>3
<1>12. more # <<>>
  <2>1. Len(left) \in Nat
    BY <1>3
  <2>2. Len(more) = Len(left) + 1
    BY <1>8 DEF more
  <2> QED BY <2>1, <2>2
<1> QED BY <1>8, <1>10, <1>11, <1>12 DEF more

-----------------------------------------------------------------------------
WithinCap == Len(queue'[registered'].items) <= queue'[registered'].cap

(* The queue objects that IndInv speaks of.                                *)
LEMMA Objects ==
  ASSUME IndInv
  PROVE  /\ Now \in RegistryType /\ RegistryInv(Now, created) /\ created \in Nat
         /\ queue \in [Queue -> QueueType] /\ drain \in [Queue -> DrainType]
         /\ Now.queue = queue /\ Now.drain = drain /\ Now.registered = registered
         /\ registered \in 0 .. created /\ created \in 0 .. MaxQueue
         /\ \A q \in Queue : queue[q].items \in Seq(Message) /\ Len(queue[q].items) \in Nat
<1>1. /\ Now \in RegistryType /\ RegistryInv(Now, created) /\ created \in 0 .. MaxQueue
  BY DEF IndInv, RegistryInv
<1>2. Now.queue = queue /\ Now.drain = drain /\ Now.registered = registered
  BY DEF Now
<1>3. queue \in [Queue -> QueueType] /\ drain \in [Queue -> DrainType]
      /\ registered \in 0 .. MaxQueue /\ registered <= created
  BY <1>1, <1>2 DEF RegistryType, RegistryInv
<1>4. \A q \in Queue : queue[q].items \in Seq(Message) /\ Len(queue[q].items) \in Nat
  <2>1. \A q \in Queue : queue[q].items \in Seq(Message)
    BY <1>3 DEF QueueType
  <2> QED BY <2>1
<1> QED BY <1>1, <1>2, <1>3, <1>4, FollowupAssumption

(* What an accepted message does: g is the registry after getFollowupQueue, *)
(* x the object that takes the message, put the registry with it.          *)
Accepting(m, st, b, g, x, put) ==
  /\ Got(g, st) /\ put.queue = [g.queue EXCEPT ![g.registered] = x]
  /\ put.drain = g.drain /\ put.registered = g.registered
  /\ g.queue[g.registered] \in QueueType /\ ~AlreadyQueued(m, g.queue[g.registered].items)
  /\ IsInjective(g.queue[g.registered].items)
  /\ \/ Len(g.queue[g.registered].items) < g.queue[g.registered].cap
     \/ g.queue[g.registered].dropPolicy # "new"
  /\ LET q == g.queue[g.registered]
     IN  x = [WithDrop(q) EXCEPT !.items = Append(@, m), !.lastRun = TRUE]
  /\ x \in QueueType /\ x.draining = g.queue[g.registered].draining
  /\ Len(x.items) <= x.cap /\ x.items # <<>>
  /\ RegistryInv(put, NextCreated) /\ NextCreated \in Nat
  /\ Becomes(Recheck(put, b))

LEMMA EnqueueResult ==
  ASSUME IndInv, NEW m \in Message, NEW st \in Setting, NEW b,
         EnqueueFollowupRun(m, st, b)
  PROVE  \E g, x, put : Accepting(m, st, b, g, x, put)
<1> DEFINE g == GetFollowupQueue(st)
           k == g.registered
           old == g.queue[k]
           fresh == [WithDrop(old) EXCEPT !.items = Append(@, m), !.lastRun = TRUE]
           put == [g EXCEPT !.queue[k] = fresh, !.callback = TRUE]
           yes == TRUE
<1>1. /\ Becomes(Recheck(put, b)) /\ ~AlreadyQueued(m, old.items)
      /\ Len(old.items) < old.cap \/ old.dropPolicy # "new"
      /\ (registered = 0 => created < MaxQueue)
  BY DEF EnqueueFollowupRun, MayArrive
<1>2. Got(g, st)
  BY <1>1, GetFollowupQueueKeepsInv
<1>3. put = Put(g, k, fresh, yes) /\ yes \in BOOLEAN
  BY DEF Put
<1> HIDE DEF g, fresh, put, yes
<1>4. k \in Queue /\ RegistryInv(g, NextCreated) /\ NextCreated \in 0 .. MaxQueue
  BY <1>2 DEF Got
<1>5. old \in QueueType /\ IsInjective(old.items) /\ ~Contains(old.items, m)
  <2>1. g.queue \in [Queue -> QueueType]
    BY <1>4 DEF RegistryInv, RegistryType
  <2>2. old \in QueueType
    BY <1>4, <2>1
  <2> QED BY <1>1, <1>4, <2>2 DEF RegistryInv, Injective, AlreadyQueued
<1>6. /\ fresh \in QueueType /\ fresh.draining = old.draining
      /\ IsInjective(fresh.items) /\ Len(fresh.items) <= fresh.cap /\ fresh.items # <<>>
  <2>1. fresh = [WithDrop(old) EXCEPT !.items = Append(@, m), !.lastRun = TRUE]
    BY DEF fresh
  <2> HIDE DEF old
  <2> QED BY <1>5, <2>1, FreshObject
<1>7. NextCreated \in Nat
  BY <1>4, FollowupAssumption
<1>8. /\ RegistryInv(put, NextCreated) /\ put.queue = [g.queue EXCEPT ![k] = fresh]
      /\ put.drain = g.drain /\ put.registered = k
  BY <1>3, <1>4, <1>6, <1>7, PutKeepsInv
<1>9. Accepting(m, st, b, g, fresh, put)
  BY <1>1, <1>2, <1>5, <1>6, <1>7, <1>8 DEF Accepting, fresh
<1> QED BY <1>9

LEMMA EnqueueStep ==
  ASSUME IndInv, NEW m \in Message, NEW st \in Setting, NEW b,
         EnqueueFollowupRun(m, st, b)
  PROVE  IndInv' /\ WithinCap
<1>0. PICK g, x, put : Accepting(m, st, b, g, x, put)
  BY EnqueueResult
<1> DEFINE k == g.registered
           done == Recheck(put, b)
<1>1. /\ RegistryInv(put, NextCreated) /\ NextCreated \in Nat /\ Becomes(done)
      /\ put.queue = [g.queue EXCEPT ![k] = x] /\ Len(x.items) <= x.cap
      /\ g.queue \in [Queue -> QueueType] /\ NextCreated \in 0 .. MaxQueue /\ k \in Queue
  BY <1>0 DEF Accepting, Got, RegistryInv, RegistryType
<1>2. /\ created' = NextCreated /\ runActive' = runActive /\ recent' = recent \cup {m}
  BY DEF EnqueueFollowupRun, MayArrive, NextCreated
<1>3. RegistryInv(done, NextCreated) /\ Settles(put, done)
  BY <1>1, RecheckKeepsInv
<1>4. runActive' \in BOOLEAN /\ recent' \subseteq Message
  BY <1>2 DEF IndInv
<1> HIDE DEF done
<1>5. IndInv'
  BY <1>1, <1>2, <1>3, <1>4, BecomesKeepsInv
<1>6. put.queue[k] = x /\ put.registered = k /\ x.items # <<>>
  <2>1. put.queue[k] = x
    BY <1>1
  <2>2. put.registered = k /\ x.items # <<>>
    BY <1>0 DEF Accepting
  <2> QED BY <2>1, <2>2
<1>7. registered' = k
  BY <1>1, <1>6 DEF done, Becomes, Recheck, ScheduleFollowupDrain, IsEmpty
<1>8. queue'[k].items = x.items /\ queue'[k].cap = x.cap
  BY <1>1, <1>3, <1>6 DEF Becomes, Settles, SameQueues
<1> QED BY <1>1, <1>5, <1>7, <1>8 DEF WithinCap

(* What a message that is not taken does, before the recheck.              *)
Skipping(st, b, g, r) ==
  /\ Got(g, st) /\ RegistryInv(r, NextCreated) /\ NextCreated \in Nat
  /\ r.drain = g.drain /\ r.registered = g.registered
  /\ \A q \in Queue : /\ r.queue[q].items = g.queue[q].items
                      /\ r.queue[q].overflow = g.queue[q].overflow
                      /\ r.queue[q].draining = g.queue[q].draining
  /\ Becomes(Recheck(r, b))

LEMMA SkipResult ==
  ASSUME IndInv, NEW m \in Message, NEW st \in Setting, NEW b, SkipMessage(m, st, b)
  PROVE  \E g, r : Skipping(st, b, g, r)
<1> DEFINE g == GetFollowupQueue(st)
           k == g.registered
           kept == [g.queue[k] EXCEPT !.lastRun = TRUE]
           put == [g EXCEPT !.queue[k].lastRun = TRUE]
<1>1. \E r \in {g, put} : Becomes(Recheck(r, b))
  BY DEF SkipMessage
<1>2. registered = 0 => created < MaxQueue
  BY DEF SkipMessage, MayArrive
<1>3. Got(g, st)
  BY <1>2, GetFollowupQueueKeepsInv
<1> HIDE DEF g
<1>4. k \in Queue /\ RegistryInv(g, NextCreated) /\ NextCreated \in 0 .. MaxQueue
      /\ NextCreated \in Nat /\ g.callback \in BOOLEAN
  BY <1>3, FollowupAssumption DEF Got
<1>5. g \in RegistryType /\ g.queue \in [Queue -> QueueType] /\ g.queue[k] \in QueueType
  <2>1. g.queue \in [Queue -> QueueType]
    BY <1>4 DEF RegistryInv, RegistryType
  <2> QED BY <1>4, <2>1 DEF RegistryInv
<1>6. /\ kept \in QueueType /\ kept.draining = g.queue[k].draining
      /\ kept.items = g.queue[k].items /\ kept.overflow = g.queue[k].overflow
  BY <1>5 DEF QueueType
<1>7. put = Put(g, k, kept, g.callback)
  <2>1. put = [g EXCEPT !.queue[k] = kept]
    BY <1>5
  <2>2. Put(g, k, kept, g.callback) = [g EXCEPT !.queue[k] = kept]
    <3> HIDE DEF kept
    <3> QED BY <1>5 DEF Put, RegistryType
  <2> QED BY <2>1, <2>2
<1> HIDE DEF put, kept
<1>8. /\ RegistryInv(put, NextCreated) /\ put.queue = [g.queue EXCEPT ![k] = kept]
      /\ put.drain = g.drain /\ put.registered = g.registered
  <2>1. IsInjective(kept.items)
    BY <1>4, <1>6 DEF RegistryInv, Injective
  <2> QED BY <1>4, <1>6, <1>7, <2>1, PutKeepsInv
<1>9. \A q \in Queue : /\ put.queue[q].items = g.queue[q].items
                      /\ put.queue[q].overflow = g.queue[q].overflow
                      /\ put.queue[q].draining = g.queue[q].draining
  BY <1>5, <1>6, <1>8
<1>10. \A r \in {g, put} : Becomes(Recheck(r, b)) => Skipping(st, b, g, r)
  BY <1>3, <1>4, <1>8, <1>9 DEF Skipping
<1> QED BY <1>1, <1>10

LEMMA SkipStep ==
  ASSUME IndInv, NEW m \in Message, NEW st \in Setting, NEW b, SkipMessage(m, st, b)
  PROVE  IndInv'
<1>0. PICK g, r : Skipping(st, b, g, r)
  BY SkipResult
<1> DEFINE k == g.registered
           done == Recheck(r, b)
<1>1. /\ created' = NextCreated /\ runActive' = runActive /\ recent' = recent
  BY DEF SkipMessage, MayArrive, NextCreated
<1>2. /\ Becomes(done) /\ RegistryInv(r, NextCreated) /\ NextCreated \in Nat
      /\ NextCreated \in 0 .. MaxQueue /\ k \in Queue
  BY <1>0 DEF Skipping, Got
<1>3. RegistryInv(done, NextCreated) /\ Settles(r, done)
  BY <1>2, RecheckKeepsInv
<1> HIDE DEF done
<1>4. runActive' \in BOOLEAN /\ recent' \subseteq Message
  BY <1>1 DEF IndInv
<1>5. IndInv'
  BY <1>1, <1>2, <1>3, <1>4, BecomesKeepsInv
<1> QED BY <1>5

(* A handler that only settles the registry.                               *)
LEMMA SettlingStep ==
  ASSUME IndInv, NEW r, Settles(Now, r), Becomes(r), created' = created,
         runActive' \in BOOLEAN, recent' \subseteq Message
  PROVE  IndInv'
<1>1. RegistryInv(r, created)
  BY Objects, SettlesKeepsInv
<1>2. IndInv'
  BY <1>1, Objects, BecomesKeepsInv
<1> QED BY <1>2

(* What a drain that does not stop runs next.                              *)
RunChosen(q) ==
  /\ UNCHANGED <<registered, callback, queue>>
  /\ \E kind \in {"item", "summary", "collect"}, force \in BOOLEAN,
        batch \in {queue[q].items, NextItem(queue[q].items)},
        summary \in {{}, queue[q].overflow} :
       /\ StartRun(q, kind, batch, summary, force)
       /\ batch = queue[q].items \/ queue[q].items # <<>>
       /\ kind = "collect" => batch = queue[q].items /\ ~HasCrossChannelItems(batch)
       /\ kind = "summary" => summary # {}
LEMMA RunChoice ==
  ASSUME IndInv, NEW q \in Queue, DrainTurn(q), ~Becomes(EndDrain(Now, q))
  PROVE  RunChosen(q)
<1> USE DEF RunChosen
<1> DEFINE items == queue[q].items
           once == NextItem(items)
           forced == drain[q].force \/ HasCrossChannelItems(items)
           summed == IF queue[q].dropPolicy = "summarize" THEN queue[q].overflow ELSE {}
<1>1. drain[q].force \in BOOLEAN
  BY Objects DEF DrainType
<1>2. /\ UNCHANGED <<registered, callback, queue>>
      /\ (queue[q].mode = "collect" /\ ~forced) \/ items # <<>>
      /\ IF queue[q].mode = "collect"
         THEN IF forced THEN StartRun(q, "item", once, {}, TRUE)
              ELSE StartRun(q, "collect", items, summed, FALSE)
         ELSE StartRun(q, IF summed = {} THEN "item" ELSE "summary",
                       once, summed, drain[q].force)
  BY DEF DrainTurn
<1>3. summed \in {{}, queue[q].overflow}
  OBVIOUS
<1> HIDE DEF once, summed
<1>4. CASE queue[q].mode = "collect" /\ forced
  BY <1>2, <1>4 DEF once
<1>5. CASE queue[q].mode = "collect" /\ ~forced
  <2>1. StartRun(q, "collect", items, summed, FALSE) /\ ~HasCrossChannelItems(items)
    BY <1>2, <1>5
  <2> QED BY <1>2, <1>3, <2>1
<1>6. CASE queue[q].mode # "collect" /\ summed = {}
  BY <1>1, <1>2, <1>3, <1>6 DEF once
<1>7. CASE queue[q].mode # "collect" /\ summed # {}
  BY <1>1, <1>2, <1>3, <1>7 DEF once
<1> QED BY <1>4, <1>5, <1>6, <1>7

LEMMA DrainTurnStep ==
  ASSUME IndInv, NEW q \in Queue, DrainTurn(q)
  PROVE  IndInv'
<1>0. /\ created' = created /\ runActive' \in BOOLEAN /\ recent' \subseteq Message
      /\ drain[q].at = "debounce" /\ drain[q] \in DrainType /\ queue[q] \in QueueType
      /\ Paired(Now)
  BY Objects DEF DrainTurn, IndInv, RegistryInv
<1>1. ASSUME Becomes(EndDrain(Now, q)) PROVE IndInv'
  <2>1. Settles(Now, EndDrain(Now, q))
    BY <1>0, Objects, EndDrainSettles
  <2> QED BY <1>0, <1>1, <2>1, SettlingStep
<1>2. ASSUME ~Becomes(EndDrain(Now, q)) PROVE IndInv'
  <2> DEFINE x == drain'[q]
  <2>1. RunChosen(q)
    BY <1>2, RunChoice
  <2>2. PICK kind \in {"item", "summary", "collect"}, force \in BOOLEAN,
             batch \in {queue[q].items, NextItem(queue[q].items)},
             summary \in {{}, queue[q].overflow} :
               /\ StartRun(q, kind, batch, summary, force)
               /\ batch = queue[q].items \/ queue[q].items # <<>>
               /\ kind = "collect" => batch = queue[q].items /\ ~HasCrossChannelItems(batch)
    BY <2>1 DEF RunChosen
  <2>3. batch \in Seq(Message) /\ summary \in SUBSET Message
    <3>1. queue[q].items \in Seq(Message) /\ queue[q].overflow \in SUBSET Message
      BY <1>0 DEF QueueType
    <3>2. ASSUME queue[q].items # <<>> PROVE NextItem(queue[q].items) \in Seq(Message)
      <4>1. Len(queue[q].items) \in Nat \ {0}
        BY <3>1, <3>2
      <4>2. \A i \in 1 .. 1 : queue[q].items[i] \in Message
        BY <3>1, <4>1
      <4> QED BY <4>2, SubSeqProperties DEF NextItem
    <3> QED BY <2>2, <3>1, <3>2
  <2> DEFINE run == [at |-> "run", force |-> force, kind |-> kind,
                     batch |-> batch, summary |-> summary]
  <2>4. run \in DrainType /\ run.at = "run" /\ run.kind = kind /\ run.batch = batch
    BY <2>3 DEF DrainType
  <2>5. drain' = [drain EXCEPT ![q] = run]
    BY <2>2 DEF StartRun
  <2> HIDE DEF run
  <2>6. \A p \in Queue : drain'[p] = IF p = q THEN run ELSE drain[p]
    BY <2>5, Objects
  <2>7. drain' \in [Queue -> DrainType]
    BY <2>4, <2>5, Objects
  <2>8. kind = "collect" => OneRoute(batch)
    BY <2>2, <2>3, SameChannel
  <2>9. /\ Now' = [registered |-> registered, callback |-> callback,
                   queue |-> queue, drain |-> drain']
        /\ Now'.registered = registered /\ Now'.queue = queue /\ Now'.drain = drain'
        /\ queue' = queue
    BY <2>1 DEF Now, RunChosen
  <2>10. Now' \in RegistryType
    <3>1. registered \in 0 .. MaxQueue /\ callback \in BOOLEAN
      BY Objects, FollowupAssumption DEF RegistryType, Now
    <3> QED BY <2>7, <2>9, <3>1, Objects DEF RegistryType
  <2>11. Paired(Now')
    BY <1>0, <2>4, <2>6, <2>9, Objects DEF Paired
  <2>12. Injective(Now')
    BY <2>9, Objects DEF RegistryInv, Injective
  <2>13. BatchesRouted(Now')
    BY <2>4, <2>6, <2>8, <2>9, Objects DEF RegistryInv, BatchesRouted
  <2>14. Fresh(Now', created)
    BY <1>0, <2>6, <2>9, Objects DEF RegistryInv, Fresh
  <2>15. RegistryInv(Now', created')
    BY <1>0, <2>9, <2>10, <2>11, <2>12, <2>13, <2>14, Objects DEF RegistryInv
  <2>16. RegistryInv(Now, created)'
    BY <2>15 DEF RegistryInv, Paired, Injective, BatchesRouted, Fresh
  <2> QED
    BY <1>0, <2>16, Objects DEF IndInv
<1> QED BY <1>1, <1>2

(* What a run that succeeds leaves in the object of its drain.             *)
LEMMA AfterRunResult ==
  ASSUME IndInv, NEW q \in Queue,
         NEW put, put = [Now EXCEPT !.queue[q] = AfterRun(q)]
  PROVE  /\ RegistryInv(put, created) /\ put.queue = [queue EXCEPT ![q] = AfterRun(q)]
         /\ put.drain = drain /\ put.registered = registered
         /\ AfterRun(q).draining = queue[q].draining
         /\ AfterRun(q).items = SubSeq(queue[q].items, Len(drain[q].batch) + 1,
                                       Len(queue[q].items))
         /\ AfterRun(q).overflow \subseteq queue[q].overflow
         /\ Len(AfterRun(q).items) <= Len(queue[q].items)
<1> DEFINE x == AfterRun(q)
           n == Len(drain[q].batch)
           left == SubSeq(queue[q].items, n + 1, Len(queue[q].items))
           over == IF drain[q].summary = {} THEN queue[q].overflow ELSE {}
<1>0. drain[q] \in DrainType /\ queue[q] \in QueueType
  BY Objects
<1>1. n \in Nat
  BY <1>0 DEF DrainType
<1>2. queue[q].items \in Seq(Message) /\ Len(queue[q].items) \in Nat
      /\ IsInjective(queue[q].items)
  BY Objects DEF RegistryInv, Injective
<1>3. /\ left \in Seq(Message) /\ IsInjective(left) /\ Len(left) <= Len(queue[q].items)
  <2> HIDE DEF n
  <2>1. /\ left \in Seq(Message) /\ IsInjective(left)
        /\ Len(left) = IF n <= Len(queue[q].items) THEN Len(queue[q].items) - n ELSE 0
    BY <1>1, <1>2, DropFirst
  <2> HIDE DEF left
  <2> QED BY <1>1, <1>2, <2>1
<1>4. over \subseteq Message /\ over \subseteq queue[q].overflow
  BY <1>0 DEF QueueType
<1>5. x = [queue[q] EXCEPT !.items = left, !.overflow = over]
  BY DEF AfterRun
<1>6. put = Put(Now, q, x, callback) /\ callback \in BOOLEAN
  <2> HIDE DEF x
  <2> QED BY Objects DEF Put, Now, RegistryType, x
<1> HIDE DEF x, left, over
<1>7. x \in QueueType /\ x.draining = queue[q].draining /\ x.items = left /\ x.overflow = over
  BY <1>0, <1>3, <1>4, <1>5 DEF QueueType
<1>8. /\ RegistryInv(put, created)
      /\ put.queue = [Now.queue EXCEPT ![q] = x] /\ put.drain = Now.drain
      /\ put.registered = Now.registered
  <2>1. x.draining = Now.queue[q].draining /\ IsInjective(x.items)
    BY <1>3, <1>7, Objects
  <2>2. RegistryInv(Now, created) /\ created \in Nat
    BY Objects
  <2>3. q \in Queue
    OBVIOUS
  <2> QED BY ONLY <1>6, <1>7, <2>1, <2>2, <2>3, PutKeepsInv
<1> QED BY <1>3, <1>4, <1>7, <1>8, Objects DEF x, left

LEMMA RunSucceedsStep ==
  ASSUME IndInv, NEW q \in Queue, RunFollowupSucceeds(q)
  PROVE  IndInv'
<1> DEFINE put == [Now EXCEPT !.queue[q] = AfterRun(q)]
           done == LoopDrain(put, q)
<1>0. /\ created' = created /\ runActive' \in BOOLEAN /\ recent' \subseteq Message
      /\ drain[q].at = "run" /\ Becomes(done)
  BY Objects DEF RunFollowupSucceeds, IndInv
<1>1. /\ RegistryInv(put, created) /\ put.queue = [queue EXCEPT ![q] = AfterRun(q)]
      /\ put.drain = drain /\ Len(AfterRun(q).items) <= Len(queue[q].items)
  <2> HIDE DEF put
  <2>1. put = [Now EXCEPT !.queue[q] = AfterRun(q)]
    BY DEF put
  <2> QED BY <2>1, AfterRunResult
<1> HIDE DEF put
<1>2. Settles(put, done)
  <2>1. put.drain[q].at = "run"
    BY <1>0, <1>1
  <2> QED BY <1>1, <2>1, LoopDrainSettles DEF RegistryInv
<1>3. RegistryInv(done, created)
  BY <1>1, <1>2, Objects, SettlesKeepsInv
<1> HIDE DEF done
<1>4. IndInv'
  BY <1>0, <1>3, Objects, BecomesKeepsInv
<1> QED BY <1>4

LEMMA ClearStep ==
  ASSUME IndInv, ClearSessionQueues
  PROVE  IndInv'
<1> DEFINE q == registered
           x == [queue[q] EXCEPT !.items = <<>>, !.overflow = {}, !.lastRun = FALSE]
           put == Put(Now, q, x, callback)
           done == [put EXCEPT !.registered = 0, !.callback = FALSE]
<1>0. /\ created' = created /\ runActive' \in BOOLEAN /\ recent' \subseteq Message
      /\ q \in Queue /\ callback \in BOOLEAN
  BY Objects DEF ClearSessionQueues, IndInv, Queue, Now, RegistryType
<1>1. queue[q] \in QueueType
  BY <1>0, Objects
<1>2. /\ x \in QueueType /\ x.draining = queue[q].draining /\ x.items = <<>>
  <2>1. <<>> \in Seq(Message) /\ {} \in SUBSET Message
    OBVIOUS
  <2> QED BY <1>1, <2>1 DEF QueueType
<1>3. IsInjective(x.items)
  BY <1>2 DEF IsInjective
<1>4. /\ queue' = [queue EXCEPT ![q] = x]
      /\ registered' = 0 /\ callback' = FALSE /\ drain' = drain
  <2>1. [queue EXCEPT ![q].items = <<>>, ![q].overflow = {}, ![q].lastRun = FALSE]
          = [queue EXCEPT ![q] = x]
    BY <1>0, Objects
  <2> QED BY <2>1 DEF ClearSessionQueues
<1> HIDE DEF x, put
<1>5. /\ RegistryInv(put, created) /\ put.queue = [queue EXCEPT ![q] = x]
      /\ put.drain = drain
  <2>1. x.draining = Now.queue[q].draining
    BY <1>2, Objects
  <2>2. put = Put(Now, q, x, callback)
    BY DEF put
  <2>3. RegistryInv(Now, created) /\ created \in Nat
    BY Objects
  <2>4. /\ RegistryInv(put, created) /\ put.queue = [Now.queue EXCEPT ![q] = x]
        /\ put.drain = Now.drain
    BY <1>0, <1>2, <1>3, <2>1, <2>2, <2>3, PutKeepsInv
  <2> QED BY <2>4, Objects
<1>6. Settles(put, done)
  BY <1>5, ForgetSettles DEF RegistryInv
<1>7. RegistryInv(done, created)
  BY <1>5, <1>6, Objects, SettlesKeepsInv
<1>8. Becomes(done)
  BY <1>4, <1>5 DEF Becomes, RegistryInv, RegistryType
<1>9. IndInv'
  <2> HIDE DEF done
  <2> QED BY <1>0, <1>7, <1>8, Objects, BecomesKeepsInv
<1> QED BY <1>9

LEMMA StepKeepsInv ==
  ASSUME IndInv, [Next]_vars
  PROVE  IndInv'
<1>0. /\ Now \in RegistryType /\ Paired(Now) /\ runActive \in BOOLEAN
      /\ recent \subseteq Message
  BY Objects DEF IndInv, RegistryInv
<1>00. ASSUME UNCHANGED registry, runActive' \in BOOLEAN, recent' \subseteq Message
       PROVE  IndInv'
  <2>1. Settles(Now, Now)
    BY <1>0 DEF Settles, SameQueues
  <2>2. Becomes(Now) /\ created' = created
    BY <1>00 DEF Becomes, Now, registry
  <2> QED BY <1>00, <2>1, <2>2, SettlingStep
<1>1. ASSUME NEW m \in Message, NEW s \in Setting, NEW b \in BOOLEAN, SkipMessage(m, s, b)
      PROVE  IndInv'
  BY <1>1, SkipStep
<1>2. ASSUME NEW m \in Message, NEW s \in Setting, NEW b \in BOOLEAN,
             EnqueueFollowupRun(m, s, b)
      PROVE  IndInv'
  BY <1>2, EnqueueStep
<1>3. CASE RunStarts \/ AgentCommandEnds
  BY <1>0, <1>00, <1>3 DEF RunStarts, AgentCommandEnds
<1>4. CASE RunEnds
  BY <1>0, <1>4, ScheduleSettles, SettlingStep DEF RunEnds
<1>5. ASSUME NEW q \in Queue, DrainTurn(q) PROVE IndInv'
  BY <1>5, DrainTurnStep
<1>6. ASSUME NEW q \in Queue, RunFollowupSucceeds(q) PROVE IndInv'
  BY <1>6, RunSucceedsStep
<1>7. ASSUME NEW q \in Queue, RunFollowupFails(q) PROVE IndInv'
  BY <1>0, <1>7, EndDrainSettles, SettlingStep DEF RunFollowupFails
<1>8. CASE ClearSessionQueues
  BY <1>8, ClearStep
<1>9. ASSUME NEW m \in Message, ExpireMessageId(m) PROVE IndInv'
  BY <1>0, <1>00, <1>9 DEF ExpireMessageId
<1>10. CASE UNCHANGED vars
  BY <1>0, <1>00, <1>10 DEF vars, registry
<1> QED
  BY <1>1, <1>2, <1>3, <1>4, <1>5, <1>6, <1>7, <1>8, <1>9, <1>10 DEF Next

(* Only EnqueueFollowupRun puts an id into the dedupe cache.               *)
LEMMA StepAcceptsWithinCap ==
  ASSUME IndInv, [Next]_vars
  PROVE  recent' \subseteq recent \/ WithinCap
<1>1. ASSUME NEW m \in Message, NEW s \in Setting, NEW b \in BOOLEAN,
             EnqueueFollowupRun(m, s, b)
      PROVE  WithinCap
  BY <1>1, EnqueueStep
<1>2. ASSUME NEW m \in Message, NEW s \in Setting, NEW b \in BOOLEAN, SkipMessage(m, s, b)
      PROVE  recent' \subseteq recent
  BY <1>2 DEF SkipMessage
<1>3. ASSUME NEW q \in Queue,
             DrainTurn(q) \/ RunFollowupSucceeds(q) \/ RunFollowupFails(q)
      PROVE  recent' \subseteq recent
  BY <1>3 DEF DrainTurn, RunFollowupSucceeds, RunFollowupFails
<1>4. ASSUME NEW m \in Message, ExpireMessageId(m) PROVE recent' \subseteq recent
  BY <1>4 DEF ExpireMessageId
<1>5. CASE RunStarts \/ RunEnds \/ AgentCommandEnds \/ ClearSessionQueues \/ UNCHANGED vars
  BY <1>5 DEF RunStarts, RunEnds, AgentCommandEnds, ClearSessionQueues, vars
<1> QED BY <1>1, <1>2, <1>3, <1>4, <1>5 DEF Next

LEMMA InitInv == Init => IndInv
<1> SUFFICES ASSUME Init PROVE IndInv
  OBVIOUS
<1> DEFINE st == CHOOSE s \in Setting : TRUE
           new == NewQueue(st)
<1>1. st \in Setting
  BY FollowupAssumption
<1>2. /\ st.mode \in {"collect", "followup"} /\ st.cap \in Nat \ {0}
      /\ st.dropPolicy \in {"summarize", "old", "new"}
  BY <1>1, FollowupAssumption
<1> HIDE DEF st
<1>3. new \in QueueType /\ new.draining = FALSE /\ new.items = <<>>
  <2>1. <<>> \in Seq(Message) /\ {} \in SUBSET Message
    OBVIOUS
  <2> QED BY <1>2, <2>1 DEF NewQueue, QueueType
<1> HIDE DEF new
<1>4. /\ registered = 0 /\ callback = FALSE /\ created = 0
      /\ queue = [q \in Queue |-> new] /\ drain = [q \in Queue |-> IdleDrain]
      /\ recent = {} /\ runActive = TRUE
  BY DEF Init, new, st
<1>5. 0 \in 0 .. MaxQueue
  BY FollowupAssumption
<1>6. Now \in RegistryType /\ Now.registered <= created
  <2>1. /\ queue \in [Queue -> QueueType] /\ drain \in [Queue -> DrainType]
        /\ registered \in 0 .. MaxQueue /\ callback \in BOOLEAN /\ registered <= created
    <3>1. queue \in [Queue -> QueueType]
      BY <1>3, <1>4
    <3>2. drain \in [Queue -> DrainType]
      BY <1>4, IdleDrainType
    <3>3. registered \in 0 .. MaxQueue /\ registered <= created
      BY <1>4, <1>5
    <3> QED BY <1>4, <3>1, <3>2, <3>3
  <2> QED BY <2>1 DEF Now, RegistryType
<1>7. Paired(Now) /\ Fresh(Now, created) /\ BatchesRouted(Now)
  BY <1>3, <1>4, IdleDrainType DEF Now, Paired, Fresh, BatchesRouted
<1>8. Injective(Now)
  BY <1>3, <1>4 DEF Now, Injective, IsInjective
<1> QED BY <1>4, <1>5, <1>6, <1>7, <1>8 DEF IndInv, RegistryInv

-----------------------------------------------------------------------------
(* The state of the queue objects and their drains keeps its shape: a      *)
(* drain is under way exactly on the objects that are marked.              *)
THEOREM FollowupTypeCorrect == Spec => []FollowupTypeOK
<1>1. IndInv /\ [Next]_vars => IndInv'
  BY StepKeepsInv
<1>2. IndInv => FollowupTypeOK
  <2> SUFFICES ASSUME IndInv PROVE FollowupTypeOK
    OBVIOUS
  <2>1. callback \in BOOLEAN /\ runActive \in BOOLEAN /\ recent \subseteq Message
    BY Objects DEF IndInv, RegistryType, Now
  <2>2. \A q \in Queue : /\ queue[q].items \in Seq(Message)
                         /\ queue[q].overflow \subseteq Message
                         /\ drain[q].at \in {"idle", "debounce", "run"}
    BY Objects DEF QueueType, DrainType
  <2>3. \A q \in Queue : drain[q].at # "idle" <=> queue[q].draining
    BY Objects DEF RegistryInv, Paired
  <2> QED BY <2>1, <2>2, <2>3, Objects DEF FollowupTypeOK
<1> QED BY <1>1, <1>2, InitInv, PTL DEF Spec

(* A message that its channel delivers again does not wait twice: the two  *)
(* checks of enqueueFollowupRun see every object the message can wait in.  *)
THEOREM WaitsOnce == Spec => []NeverQueuedTwice
<1>1. IndInv /\ [Next]_vars => IndInv'
  BY StepKeepsInv
<1>2. IndInv => NeverQueuedTwice
  BY Objects DEF NeverQueuedTwice, RegistryInv, Injective
<1> QED BY <1>1, <1>2, InitInv, PTL DEF Spec

(* What runFollowupDrain collects into one prompt has one destination.     *)
THEOREM BatchesAreRouted == Spec => []BatchHasOneRoute
<1>1. IndInv /\ [Next]_vars => IndInv'
  BY StepKeepsInv
<1>2. IndInv => BatchHasOneRoute
  BY Objects DEF BatchHasOneRoute, RegistryInv, BatchesRouted, OneRoute
<1> QED BY <1>1, <1>2, InitInv, PTL DEF Spec

(* applyQueueDropPolicy makes room for every message that is accepted, in  *)
(* a queue whose cap was lowered as well.                                  *)
THEOREM AcceptedWithinCap == Spec => AcceptsWithinCap
<1>1. IndInv /\ [Next]_vars => IndInv'
  BY StepKeepsInv
<1>2. IndInv /\ [Next]_vars =>
        [recent' \subseteq recent \/
           Len(queue'[registered'].items) <= queue'[registered'].cap]_vars
  BY StepAcceptsWithinCap DEF WithinCap
<1> QED BY <1>1, <1>2, InitInv, PTL DEF Spec, AcceptsWithinCap

-----------------------------------------------------------------------------
(* Everything that waits is in the registered object, and no other is      *)
(* being drained.                                                          *)
OneQueue(r) ==
  \A q \in Queue : q # r.registered => r.queue[q].items = <<>> /\ ~r.queue[q].draining

(* The key forgets its object only when nothing waits in it.               *)
Forgets(r, s) ==
  \/ s.registered = r.registered
  \/ r.registered = 0
  \/ r.queue[r.registered].items = <<>> /\ ~s.queue[r.registered].draining

LEMMA SettlesKeepsOne ==
  ASSUME NEW r \in RegistryType, NEW s, OneQueue(r), Settles(r, s), Forgets(r, s)
  PROVE  OneQueue(s)
<1> SUFFICES ASSUME NEW q \in Queue, q # s.registered
             PROVE  s.queue[q].items = <<>> /\ ~s.queue[q].draining
  BY DEF OneQueue
<1>1. s.queue[q].items = r.queue[q].items
  BY DEF Settles, SameQueues
<1>2. q # 0
  BY FollowupAssumption DEF Queue
<1>3. CASE q # r.registered
  BY <1>1, <1>3 DEF OneQueue, Settles
<1>4. CASE q = r.registered
  BY <1>1, <1>2, <1>4 DEF Forgets
<1> QED BY <1>3, <1>4

LEMMA ScheduleForgets ==
  ASSUME NEW r \in RegistryType, Paired(r)
  PROVE  Forgets(r, ScheduleFollowupDrain(r))
<1> DEFINE q == r.registered
           s == ScheduleFollowupDrain(r)
<1>1. CASE q # 0 /\ ~r.queue[q].draining /\ IsEmpty(r.queue[q])
  <2>1. s.queue = r.queue
    BY <1>1 DEF ScheduleFollowupDrain, RegistryType
  <2> QED BY <1>1, <2>1 DEF Forgets, IsEmpty
<1>2. CASE ~(q # 0 /\ ~r.queue[q].draining /\ IsEmpty(r.queue[q]))
  <2>1. s.registered = r.registered
    BY <1>2 DEF ScheduleFollowupDrain, RegistryType
  <2> QED BY <2>1 DEF Forgets
<1> QED BY <1>1, <1>2

(* The finally block leaves its drain idle, or has started it anew.        *)
LEMMA EndDrainStops ==
  ASSUME NEW r \in RegistryType, Paired(r), NEW q \in Queue
  PROVE  EndDrain(r, q).drain[q].at # "run"
<1>1. /\ Ended(r, q) \in RegistryType /\ Paired(Ended(r, q))
      /\ Ended(r, q).drain[q] = IdleDrain
  BY EndedSettles DEF Settles
<1>2. EndDrain(r, q) = IF IsEmpty(Ended(r, q).queue[q])
                       THEN [Ended(r, q) EXCEPT !.registered = 0, !.callback = FALSE]
                       ELSE ScheduleFollowupDrain(Ended(r, q))
  BY DEF EndDrain, Ended
<1>3. Settles(Ended(r, q), EndDrain(r, q))
  BY <1>1, <1>2, ForgetSettles, ScheduleSettles
<1> QED BY <1>1, <1>3, IdleDrainType DEF Settles

(* The object of a drain is the registered one, so that the finally block  *)
(* looks at the object it forgets.                                         *)
LEMMA EndDrainForgets ==
  ASSUME NEW r \in RegistryType, Paired(r), OneQueue(r), NEW q \in Queue, r.queue[q].draining
  PROVE  Forgets(r, EndDrain(r, q))
<1> DEFINE ended == Ended(r, q)
<1>1. q = r.registered /\ q # 0
  BY FollowupAssumption DEF OneQueue, Queue
<1>2. /\ ended \in RegistryType /\ ended.registered = r.registered
      /\ ended.queue[q].draining = FALSE /\ ended.queue[q].items = r.queue[q].items
  BY EndedSettles DEF Settles
<1>3. EndDrain(r, q) = IF IsEmpty(ended.queue[q])
                       THEN [ended EXCEPT !.registered = 0, !.callback = FALSE]
                       ELSE ScheduleFollowupDrain(ended)
  BY DEF EndDrain, Ended
<1> HIDE DEF ended
<1>4. CASE IsEmpty(ended.queue[q])
  <2>1. EndDrain(r, q).queue = ended.queue
    BY <1>2, <1>3, <1>4 DEF RegistryType
  <2> QED BY <1>1, <1>2, <1>4, <2>1 DEF Forgets, IsEmpty
<1>5. CASE ~IsEmpty(ended.queue[q])
  <2>1. EndDrain(r, q).registered = r.registered
    BY <1>1, <1>2, <1>3, <1>5 DEF ScheduleFollowupDrain, RegistryType
  <2> QED BY <2>1 DEF Forgets
<1> QED BY <1>4, <1>5

(* The head of the loop ends the run, and the drain if nothing is left.    *)
LEMMA LoopDrainForgets ==
  ASSUME NEW r \in RegistryType, Paired(r), NEW q \in Queue
  PROVE  /\ OneQueue(r) /\ r.queue[q].draining => Forgets(r, LoopDrain(r, q))
         /\ LoopDrain(r, q).drain[q].at # "run"
<1>1. CASE IsEmpty(r.queue[q])
  BY <1>1, EndDrainForgets, EndDrainStops DEF LoopDrain
<1>2. CASE ~IsEmpty(r.queue[q])
  <2> DEFINE next == [r.drain[q] EXCEPT !.at = "debounce", !.batch = <<>>, !.summary = {}]
             s == LoopDrain(r, q)
  <2>1. s = [r EXCEPT !.drain[q].at = "debounce", !.drain[q].batch = <<>>,
                      !.drain[q].summary = {}]
    BY <1>2 DEF LoopDrain
  <2>2. r.drain[q] \in DrainType /\ r.drain \in [Queue -> DrainType]
    BY DEF RegistryType
  <2>3. next.at = "debounce"
    BY <2>2 DEF DrainType
  <2>4. s = [r EXCEPT !.drain[q] = next]
    BY <2>1 DEF RegistryType
  <2> HIDE DEF s, next
  <2>5. s.registered = r.registered /\ s.drain = [r.drain EXCEPT ![q] = next]
    BY <2>4 DEF RegistryType
  <2>6. s.drain[q] = next
    BY <2>2, <2>5
  <2> QED BY <2>3, <2>5, <2>6 DEF Forgets, s
<1> QED BY <1>1, <1>2

(* getFollowupQueue makes an object when there is none.                    *)
LEMMA GotKeepsOne ==
  ASSUME IndInv, OneQueue(Now), NEW g, NEW st, Got(g, st)
  PROVE  OneQueue(g)
<1> SUFFICES ASSUME NEW q \in Queue, q # g.registered
             PROVE  g.queue[q].items = <<>> /\ ~g.queue[q].draining
  BY DEF OneQueue
<1>1. g.queue[q] = queue[q]
  BY DEF Got
<1>2. q # registered
  BY FollowupAssumption DEF Got, Queue
<1> QED BY <1>1, <1>2, Objects DEF OneQueue

-----------------------------------------------------------------------------
(* What one step does to the objects and their drains.  An object that is  *)
(* not concerned keeps what it holds, or is made anew; its drain goes on   *)
(* with its run, or runs nothing.                                          *)
Rests(r, q) ==
  /\ \/ r.queue[q].items = queue[q].items /\ r.queue[q].overflow = queue[q].overflow
     \/ q # registered /\ r.queue[q].items = <<>> /\ r.queue[q].overflow = {}
  /\ r.drain[q] = drain[q] \/ r.drain[q].at # "run"

Prefix(s, t) == Len(s) \in 0 .. Len(t) /\ \A i \in 1 .. Len(s) : s[i] = t[i]
Rest(s, n) == SubSeq(s, n + 1, Len(s))

Accepted == {m \in Message : acceptedAt[m] > 0}

(* No drop policy ever bites.                                              *)
NoDrops == \A s \in Setting : s.dropPolicy = "new" \/ s.cap >= Cardinality(Message)

Quiet ==
  /\ \A q \in Queue : Rests(Now', q)
  /\ UNCHANGED <<acceptedAt, delivered>>
  /\ recent' = recent \/ expiries < MaxExpiries
Takes(m, k) ==
  /\ m \notin recent /\ recent' = recent \cup {m}
  /\ \A q \in Queue : q # k => Rests(Now', q)
  /\ drain'[k] = drain[k] \/ drain'[k].at # "run"
  /\ \E old \in {queue[k].items, <<>>}, n \in Nat :
       /\ old = queue[k].items \/ k # registered
       /\ queue'[k].items = Append(Rest(old, n), m)
       /\ NoDrops => n = 0 /\ queue'[k].overflow \subseteq queue[k].overflow
  /\ acceptedAt' = [acceptedAt EXCEPT ![m] = 1 + Cardinality(Accepted)]
  /\ delivered' = delivered
Begins(k) ==
  /\ queue' = queue /\ drain'[k].at = "run"
  /\ Prefix(drain'[k].batch, queue[k].items)
  /\ drain'[k].summary \in {{}, queue[k].overflow}
  /\ drain'[k].kind = "summary" => drain'[k].summary # {}
  /\ \A q \in Queue : q # k => drain'[q] = drain[q]
  /\ UNCHANGED <<acceptedAt, delivered, recent>>
Finishes(k) ==
  /\ drain[k].at = "run" /\ drain'[k].at # "run"
  /\ queue'[k].items = Rest(queue[k].items, Len(drain[k].batch))
  /\ queue'[k].overflow \subseteq queue[k].overflow
  /\ \A q \in Queue : q # k => Rests(Now', q)
  /\ delivered' = IF drain[k].kind = "summary" THEN delivered
                  ELSE [m \in Message |-> IF Contains(drain[k].batch, m)
                                          THEN delivered[m] + 1 ELSE delivered[m]]
  /\ UNCHANGED <<acceptedAt, recent>>
Clears ==
  /\ clears < MaxClears
  /\ \A q \in Queue : queue'[q].items \in {queue[q].items, <<>>}
  /\ UNCHANGED <<drain, acceptedAt, delivered, recent>>

-----------------------------------------------------------------------------
LEMMA SettledRests ==
  ASSUME NEW r, NEW s, Settles(r, s), Becomes(s), NEW q \in Queue, Rests(r, q)
  PROVE  Rests(Now', q)
<1>1. Now'.queue = s.queue /\ Now'.drain = s.drain
  BY DEF Now, Becomes
<1>2. s.queue[q].items = r.queue[q].items /\ s.queue[q].overflow = r.queue[q].overflow
      /\ (s.drain[q] = r.drain[q] \/ s.drain[q].at # "run")
  BY DEF Settles, SameQueues
<1> QED BY <1>1, <1>2 DEF Rests

LEMMA GotRests ==
  ASSUME IndInv, NEW g, NEW st, Got(g, st), NEW q \in Queue
  PROVE  Rests(g, q)
<1>1. g.drain = drain
  BY DEF Got
<1>2. CASE q # g.registered
  <2>1. g.queue[q] = queue[q]
    BY <1>2 DEF Got
  <2> QED BY <1>1, <2>1 DEF Rests
<1>3. CASE q = g.registered /\ registered = 0
  <2>1. q # registered
    BY <1>3, FollowupAssumption DEF Queue
  <2>2. g.queue[q].items = <<>> /\ g.queue[q].overflow = {}
    BY <1>3 DEF Got
  <2> QED BY <1>1, <2>1, <2>2 DEF Rests
<1>4. CASE q = g.registered /\ registered # 0
  <2>1. g.queue[q].items = queue[q].items /\ g.queue[q].overflow = queue[q].overflow
    BY <1>4 DEF Got
  <2> QED BY <1>1, <2>1 DEF Rests
<1> QED BY <1>2, <1>3, <1>4

LEMMA RecheckForgets ==
  ASSUME NEW r \in RegistryType, Paired(r), NEW b
  PROVE  Forgets(r, Recheck(r, b))
BY ScheduleForgets DEF Recheck, Forgets

(* A handler that only settles the registry.                               *)
LEMMA SettlingShape ==
  ASSUME IndInv, NEW r, Settles(Now, r), Becomes(r),
         UNCHANGED <<acceptedAt, delivered>>, recent' = recent \/ expiries < MaxExpiries
  PROVE  /\ Quiet
         /\ OneQueue(Now) /\ Forgets(Now, r) => OneQueue(Now')
<1>1. \A q \in Queue : Rests(Now, q)
  BY DEF Rests, Now
<1>2. \A q \in Queue : Rests(Now', q)
  BY <1>1, SettledRests
<1>3. Now' = r
  BY BecomesIs DEF Settles
<1>4. OneQueue(Now) /\ Forgets(Now, r) => OneQueue(r)
  BY Objects, SettlesKeepsOne
<1> QED BY <1>2, <1>3, <1>4 DEF Quiet

LEMMA SkipShape ==
  ASSUME IndInv, NEW m \in Message, NEW st \in Setting, NEW b, SkipMessage(m, st, b)
  PROVE  Quiet /\ (OneQueue(Now) => OneQueue(Now'))
<1>1. PICK g, r : Skipping(st, b, g, r)
  BY SkipResult
<1> DEFINE done == Recheck(r, b)
<1>2. /\ r \in RegistryType /\ Paired(r) /\ RegistryInv(r, NextCreated) /\ NextCreated \in Nat
      /\ Becomes(done) /\ Got(g, st) /\ r.drain = g.drain /\ r.registered = g.registered
      /\ \A q \in Queue : /\ r.queue[q].items = g.queue[q].items
                          /\ r.queue[q].overflow = g.queue[q].overflow
                          /\ r.queue[q].draining = g.queue[q].draining
  BY <1>1 DEF Skipping, RegistryInv
<1>3. Settles(r, done) /\ Forgets(r, done)
  BY <1>2, RecheckKeepsInv, RecheckForgets
<1> HIDE DEF done
<1>4. \A q \in Queue : Rests(r, q)
  <2>1. \A q \in Queue : Rests(g, q)
    BY <1>2, GotRests
  <2> QED BY <1>2, <2>1 DEF Rests
<1>5. \A q \in Queue : Rests(Now', q)
  BY <1>2, <1>3, <1>4, SettledRests
<1>6. ASSUME OneQueue(Now) PROVE OneQueue(Now')
  <2>1. OneQueue(g)
    BY <1>2, <1>6, GotKeepsOne
  <2>2. OneQueue(r)
    BY <1>2, <2>1 DEF OneQueue
  <2>3. OneQueue(done)
    BY <1>2, <1>3, <2>2, SettlesKeepsOne
  <2>4. Now' = done
    BY <1>2, <1>3, BecomesIs DEF Settles
  <2> QED BY <2>3, <2>4
<1> QED BY <1>5, <1>6 DEF Quiet, SkipMessage, history

-----------------------------------------------------------------------------
(* Waiting messages are different ones: a queue is shorter than its cap    *)
(* when a message that does not wait comes.                                *)
LEMMA RoomForOne ==
  ASSUME NEW s \in Seq(Message), IsInjective(s), NEW m \in Message, ~Contains(s, m)
  PROVE  Len(s) < Cardinality(Message)
<1>1. IsFiniteSet(Message) /\ Len(s) \in Nat
  BY FollowupAssumption
<1>2. s \in Injection(1 .. Len(s), Message \ {m})
  <2>1. \A i \in 1 .. Len(s) : s[i] \in Message \ {m}
    BY DEF Contains
  <2>2. s \in [1 .. Len(s) -> Message \ {m}]
    BY <2>1
  <2> QED BY <2>2 DEF Injection
<1>3. /\ IsFiniteSet(Message \ {m}) /\ Cardinality(Message \ {m}) = Cardinality(Message) - 1
      /\ Cardinality(Message) \in Nat
  BY <1>1, FS_RemoveElement, FS_CardinalityType
<1>4. Cardinality(1 .. Len(s)) <= Cardinality(Message \ {m})
  BY <1>2, <1>3, FS_Injection
<1>5. Cardinality(1 .. Len(s)) = Len(s)
  <2>1. 1 \in Int /\ Len(s) \in Int
    BY <1>1
  <2>2. Cardinality(1 .. Len(s)) = IF 1 > Len(s) THEN 0 ELSE Len(s) - 1 + 1
    BY <2>1, FS_Interval
  <2> QED BY <1>1, <2>2
<1> QED BY <1>1, <1>3, <1>4, <1>5

(* What the object holds once a message is accepted: what the drop policy  *)
(* leaves, and the message.                                                *)
LEMMA AcceptedObject ==
  ASSUME NEW q \in QueueType, NEW m \in Message,
         NEW x, x = [WithDrop(q) EXCEPT !.items = Append(@, m), !.lastRun = TRUE]
  PROVE  /\ DropCount(q) \in Nat
         /\ x.items = Append(Rest(q.items, DropCount(q)), m)
         /\ Len(q.items) < q.cap => DropCount(q) = 0 /\ x.overflow = q.overflow
<1> DEFINE n == DropCount(q)
           left == SubSeq(q.items, n + 1, Len(q.items))
           gone == SubSeq(q.items, 1, n)
           over == IF q.dropPolicy # "summarize" THEN q.overflow ELSE q.overflow \cup ToSet(gone)
           more == Append(left, m)
<1>1. q.items \in Seq(Message) /\ q.cap \in Nat \ {0} /\ Len(q.items) \in Nat
  BY DEF QueueType
<1>2. n \in Nat /\ (Len(q.items) < q.cap => n = 0)
  BY <1>1 DEF DropCount
<1>3. ASSUME n = 0 PROVE ToSet(gone) = {}
  <2>1. \A i \in 1 .. 0 : q.items[i] \in Message
    OBVIOUS
  <2>2. gone \in Seq(Message) /\ Len(gone) = 0
    BY <1>3, <2>1, SubSeqProperties
  <2> HIDE DEF gone
  <2> QED BY <2>2 DEF ToSet
<1>4. WithDrop(q) = [q EXCEPT !.items = left, !.overflow = over]
  <2>1. WithDrop(q) = IF q.dropPolicy # "summarize" THEN [q EXCEPT !.items = left]
                      ELSE [q EXCEPT !.items = left, !.overflow = q.overflow \cup ToSet(gone)]
    BY DEF WithDrop, QueueType
  <2> HIDE DEF left, gone, n
  <2>2. [q EXCEPT !.items = left] = [q EXCEPT !.items = left, !.overflow = q.overflow]
    BY DEF QueueType
  <2> QED BY <2>1, <2>2
<1> HIDE DEF left, over
<1>5. WithDrop(q).items = left /\ WithDrop(q).overflow = over
  BY <1>4 DEF QueueType
<1>6. x = [WithDrop(q) EXCEPT !.items = more, !.lastRun = TRUE]
  BY <1>5
<1> HIDE DEF more
<1>7. x.items = more /\ x.overflow = over
  BY <1>4, <1>5, <1>6 DEF QueueType
<1>8. ASSUME n = 0 PROVE over = q.overflow
  BY <1>3, <1>8 DEF over
<1> QED BY <1>2, <1>7, <1>8 DEF more, left, Rest

LEMMA EnqueueShape ==
  ASSUME IndInv, NEW m \in Message, NEW st \in Setting, NEW b,
         EnqueueFollowupRun(m, st, b)
  PROVE  /\ \E k \in Queue : Takes(m, k)
         /\ OneQueue(Now) => OneQueue(Now')
<1>1. PICK g, x, put : Accepting(m, st, b, g, x, put)
  BY EnqueueResult
<1> DEFINE done == Recheck(put, b)
           k == g.registered
           old == g.queue[k]
           n == DropCount(old)
<1>2. /\ Got(g, st) /\ k \in Queue /\ old \in QueueType /\ ~AlreadyQueued(m, old.items)
      /\ IsInjective(old.items) /\ (Len(old.items) < old.cap \/ old.dropPolicy # "new")
      /\ x = [WithDrop(old) EXCEPT !.items = Append(@, m), !.lastRun = TRUE]
      /\ RegistryInv(put, NextCreated) /\ NextCreated \in Nat /\ put.drain = g.drain
      /\ put.registered = k /\ put.queue = [g.queue EXCEPT ![k] = x] /\ Becomes(done)
      /\ g.queue \in [Queue -> QueueType] /\ old.cap = st.cap
      /\ old.dropPolicy = st.dropPolicy /\ g.drain = drain
  BY <1>1 DEF Accepting, Got, RegistryInv, RegistryType
<1>3. /\ n \in Nat /\ x.items = Append(Rest(old.items, n), m)
      /\ Len(old.items) < old.cap => n = 0 /\ x.overflow = old.overflow
  <2>1. /\ old \in QueueType
        /\ x = [WithDrop(old) EXCEPT !.items = Append(@, m), !.lastRun = TRUE]
    BY <1>2
  <2> HIDE DEF old
  <2>2. /\ DropCount(old) \in Nat
        /\ x.items = Append(Rest(old.items, DropCount(old)), m)
        /\ Len(old.items) < old.cap => DropCount(old) = 0 /\ x.overflow = old.overflow
    BY ONLY <2>1, m \in Message, AcceptedObject
  <2> QED BY <2>2
<1>4. ASSUME NoDrops PROVE Len(old.items) < old.cap
  <2>1. ~Contains(old.items, m)
    BY <1>2 DEF AlreadyQueued
  <2>2. old.items \in Seq(Message) /\ old.cap \in Nat /\ Len(old.items) \in Nat
    BY <1>2 DEF QueueType
  <2>3. Len(old.items) < Cardinality(Message)
    BY <1>2, <2>1, <2>2, RoomForOne
  <2>4. Cardinality(Message) \in Nat
    BY FollowupAssumption, FS_CardinalityType
  <2> QED BY <1>2, <1>4, <2>2, <2>3, <2>4 DEF NoDrops
<1>5. Rests(g, k)
  BY <1>2, GotRests
<1>6. Settles(put, done) /\ Forgets(put, done) /\ put \in RegistryType
  BY <1>2, RecheckKeepsInv, RecheckForgets DEF RegistryInv
<1> HIDE DEF old, done, n
<1>7. \A q \in Queue : put.queue[q] = IF q = k THEN x ELSE g.queue[q]
  BY <1>2
<1>8. queue' = done.queue /\ drain' = done.drain /\ Now' = done
  BY <1>2, <1>6, BecomesIs DEF Becomes, Settles
<1>9. ASSUME NEW q \in Queue, q # k PROVE Rests(Now', q)
  <2>1. Rests(g, q)
    BY <1>2, GotRests
  <2>2. Rests(put, q)
    BY <1>2, <1>7, <1>9, <2>1 DEF Rests
  <2> QED BY <1>2, <1>6, <2>2, SettledRests
<1>10. drain'[k] = drain[k] \/ drain'[k].at # "run"
  BY <1>2, <1>6, <1>8 DEF Settles
<1>11. queue'[k].items = x.items /\ queue'[k].overflow = x.overflow
  <2>1. k \in Queue /\ put.queue[k] = x
    BY <1>2, <1>7
  <2>2. done.queue[k].items = put.queue[k].items
        /\ done.queue[k].overflow = put.queue[k].overflow
    BY <1>6, <2>1 DEF Settles, SameQueues
  <2> QED BY <1>8, <2>1, <2>2
<1>12. m \notin recent /\ recent' = recent \cup {m} /\ delivered' = delivered
       /\ acceptedAt' = [acceptedAt EXCEPT ![m] = 1 + Cardinality(Accepted)]
  BY <1>2 DEF EnqueueFollowupRun, AlreadyQueued, Accepted
<1>13. /\ old.items \in {queue[k].items, <<>>}
       /\ old.items = queue[k].items \/ k # registered
       /\ old.overflow \subseteq queue[k].overflow
  BY <1>5 DEF Rests, old
<1>14. Takes(m, k)
  <2>1. NoDrops => n = 0 /\ queue'[k].overflow \subseteq queue[k].overflow
    BY <1>3, <1>4, <1>11, <1>13
  <2> QED BY <1>3, <1>9, <1>10, <1>11, <1>12, <1>13, <2>1 DEF Takes
<1>15. ASSUME OneQueue(Now) PROVE OneQueue(Now')
  <2>1. OneQueue(g)
    BY <1>2, <1>15, GotKeepsOne
  <2>2. OneQueue(put)
    BY <1>2, <1>7, <2>1 DEF OneQueue
  <2>3. OneQueue(done)
    BY <1>6, <2>2, SettlesKeepsOne
  <2> QED BY <1>8, <2>3
<1> QED BY <1>2, <1>14, <1>15

LEMMA DrainTurnShape ==
  ASSUME IndInv, NEW q \in Queue, DrainTurn(q)
  PROVE  (Quiet \/ Begins(q)) /\ (OneQueue(Now) => OneQueue(Now'))
<1>0. /\ drain[q].at = "debounce" /\ Paired(Now) /\ queue[q].draining
      /\ UNCHANGED <<acceptedAt, delivered, recent>>
  BY Objects DEF DrainTurn, RegistryInv, Paired, history
<1>1. CASE Becomes(EndDrain(Now, q))
  <2>1. Settles(Now, EndDrain(Now, q))
    BY <1>0, Objects, EndDrainSettles
  <2>2. OneQueue(Now) => Forgets(Now, EndDrain(Now, q))
    BY <1>0, Objects, EndDrainForgets
  <2> QED BY <1>0, <1>1, <2>1, <2>2, SettlingShape
<1>2. CASE ~Becomes(EndDrain(Now, q))
  <2>1. RunChosen(q)
    BY <1>2, RunChoice
  <2>2. PICK kind \in {"item", "summary", "collect"}, force \in BOOLEAN,
             batch \in {queue[q].items, NextItem(queue[q].items)},
             summary \in {{}, queue[q].overflow} :
               /\ StartRun(q, kind, batch, summary, force)
               /\ batch = queue[q].items \/ queue[q].items # <<>>
               /\ kind = "summary" => summary # {}
    BY <2>1 DEF RunChosen
  <2>3. Prefix(batch, queue[q].items)
    <3>1. queue[q].items \in Seq(Message) /\ Len(queue[q].items) \in Nat
      BY Objects
    <3>2. ASSUME queue[q].items # <<>> PROVE Prefix(NextItem(queue[q].items), queue[q].items)
      <4>1. Len(queue[q].items) >= 1
        BY <3>1, <3>2
      <4>2. \A i \in 1 .. 1 : queue[q].items[i] \in Message
        BY <3>1, <4>1
      <4>3. Len(NextItem(queue[q].items)) = 1 /\ NextItem(queue[q].items)[1] = queue[q].items[1]
        BY <4>2, SubSeqProperties DEF NextItem
      <4> QED BY <4>1, <4>3 DEF Prefix
    <3>3. Prefix(queue[q].items, queue[q].items)
      BY <3>1 DEF Prefix
    <3> QED BY <2>2, <3>2, <3>3
  <2>4. /\ Now'.registered = registered /\ Now'.queue = queue /\ queue' = queue
    BY <2>1 DEF Now, RunChosen
  <2>5. \A p \in Queue : drain'[p] =
          IF p = q THEN [at |-> "run", force |-> force, kind |-> kind,
                         batch |-> batch, summary |-> summary]
                   ELSE drain[p]
    BY <2>2, Objects DEF StartRun
  <2>6. OneQueue(Now) => OneQueue(Now')
    BY <2>4, Objects DEF OneQueue
  <2>7. Begins(q)
    BY <1>0, <2>2, <2>3, <2>4, <2>5 DEF Begins
  <2> QED BY <2>6, <2>7
<1> QED BY <1>1, <1>2

LEMMA RunSucceedsShape ==
  ASSUME IndInv, NEW q \in Queue, RunFollowupSucceeds(q)
  PROVE  Finishes(q) /\ (OneQueue(Now) => OneQueue(Now'))
<1> DEFINE put == [Now EXCEPT !.queue[q] = AfterRun(q)]
           done == LoopDrain(put, q)
           batch == drain[q].batch
<1>0. /\ drain[q].at = "run" /\ Becomes(done) /\ UNCHANGED <<acceptedAt, recent>>
      /\ delivered' = IF drain[q].kind = "summary" THEN delivered
                      ELSE [m \in Message |-> IF Contains(batch, m)
                                              THEN delivered[m] + 1 ELSE delivered[m]]
  BY DEF RunFollowupSucceeds
<1>1. /\ RegistryInv(put, created) /\ put.queue = [queue EXCEPT ![q] = AfterRun(q)]
      /\ put.drain = drain /\ put.registered = registered
      /\ AfterRun(q).draining = queue[q].draining
      /\ AfterRun(q).items = SubSeq(queue[q].items, Len(batch) + 1, Len(queue[q].items))
      /\ AfterRun(q).overflow \subseteq queue[q].overflow
  <2> HIDE DEF put
  <2>1. put = [Now EXCEPT !.queue[q] = AfterRun(q)]
    BY DEF put
  <2> QED BY <2>1, AfterRunResult
<1> HIDE DEF put
<1>2. /\ queue[q].draining /\ put.queue[q].draining /\ put.drain[q].at = "run"
      /\ \A p \in Queue : put.queue[p] = IF p = q THEN AfterRun(q) ELSE queue[p]
  <2>1. queue[q].draining
    BY <1>0, Objects DEF RegistryInv, Paired
  <2> QED BY <1>0, <1>1, <2>1, Objects
<1>3. put \in RegistryType /\ Paired(put)
  BY <1>1 DEF RegistryInv
<1>4. Settles(put, done) /\ done.drain[q].at # "run"
  BY <1>2, <1>3, LoopDrainSettles, LoopDrainForgets
<1>5. OneQueue(put) => Forgets(put, done)
  BY <1>2, <1>3, LoopDrainForgets
<1> HIDE DEF done
<1>6. Now' = done /\ queue' = done.queue /\ drain' = done.drain
  BY <1>0, <1>4, BecomesIs DEF Settles, Becomes
<1>7. ASSUME NEW p \in Queue, p # q PROVE Rests(Now', p)
  <2>1. Rests(put, p)
    BY <1>1, <1>2, <1>7 DEF Rests
  <2> QED BY <1>0, <1>4, <2>1, SettledRests
<1>8. queue'[q].items = AfterRun(q).items /\ queue'[q].overflow = AfterRun(q).overflow
  BY <1>2, <1>4, <1>6 DEF Settles, SameQueues
<1>9. Finishes(q)
  BY <1>0, <1>1, <1>4, <1>6, <1>7, <1>8 DEF Finishes, Rest
<1>10. ASSUME OneQueue(Now) PROVE OneQueue(Now')
  <2>1. OneQueue(put)
    <3>1. q = registered
      BY <1>2, <1>10, Objects DEF OneQueue
    <3> QED BY <1>1, <1>2, <1>10, <3>1, Objects DEF OneQueue
  <2>2. OneQueue(done)
    BY <1>3, <1>4, <1>5, <2>1, SettlesKeepsOne
  <2> QED BY <1>6, <2>2
<1> QED BY <1>9, <1>10

(* Every step of the queue.                                                *)
StepShape ==
  \/ Quiet
  \/ \E m \in Message, k \in Queue : Takes(m, k)
  \/ \E k \in Queue : Begins(k)
  \/ \E k \in Queue : Finishes(k)
  \/ Clears

LEMMA StepHasShape ==
  ASSUME IndInv, [Next]_vars
  PROVE  StepShape /\ (Clears \/ (OneQueue(Now) => OneQueue(Now')))
<1> DEFINE Shaped == StepShape /\ (Clears \/ (OneQueue(Now) => OneQueue(Now')))
<1>0. /\ Now \in RegistryType /\ Paired(Now)
      /\ \A q \in Queue : drain[q].at # "idle" => queue[q].draining
  BY Objects DEF RegistryInv, Paired
<1>00. ASSUME UNCHANGED <<registry, acceptedAt, delivered>>,
              recent' = recent \/ expiries < MaxExpiries
       PROVE  Shaped
  <2>1. Settles(Now, Now) /\ Forgets(Now, Now)
    BY <1>0 DEF Settles, SameQueues, Forgets
  <2>2. Becomes(Now)
    BY <1>00 DEF Becomes, Now, registry
  <2> QED BY <1>00, <2>1, <2>2, SettlingShape DEF StepShape
<1>1. ASSUME NEW m \in Message, NEW s \in Setting, NEW b \in BOOLEAN, SkipMessage(m, s, b)
      PROVE  Shaped
  BY <1>1, SkipShape DEF StepShape
<1>2. ASSUME NEW m \in Message, NEW s \in Setting, NEW b \in BOOLEAN,
             EnqueueFollowupRun(m, s, b)
      PROVE  Shaped
  BY <1>2, EnqueueShape DEF StepShape
<1>3. CASE RunStarts \/ AgentCommandEnds
  BY <1>00, <1>3 DEF RunStarts, AgentCommandEnds, history, bounds
<1>4. CASE RunEnds
  <2>1. Settles(Now, ScheduleFollowupDrain(Now)) /\ Forgets(Now, ScheduleFollowupDrain(Now))
    BY <1>0, ScheduleSettles, ScheduleForgets
  <2> QED BY <1>4, <2>1, SettlingShape DEF RunEnds, StepShape, history
<1>5. ASSUME NEW q \in Queue, DrainTurn(q) PROVE Shaped
  BY <1>5, DrainTurnShape DEF StepShape
<1>6. ASSUME NEW q \in Queue, RunFollowupSucceeds(q) PROVE Shaped
  BY <1>6, RunSucceedsShape DEF StepShape
<1>7. ASSUME NEW q \in Queue, RunFollowupFails(q) PROVE Shaped
  <2>1. queue[q].draining /\ Now.queue[q].draining
    BY <1>0, <1>7, Objects DEF RunFollowupFails
  <2>2. Settles(Now, EndDrain(Now, q))
    BY <1>0, EndDrainSettles
  <2>3. OneQueue(Now) => Forgets(Now, EndDrain(Now, q))
    BY <1>0, <2>1, EndDrainForgets
  <2>4. Becomes(EndDrain(Now, q)) /\ UNCHANGED <<acceptedAt, delivered, recent>>
    BY <1>7 DEF RunFollowupFails, history
  <2> QED BY <2>2, <2>3, <2>4, SettlingShape DEF StepShape
<1>8. CASE ClearSessionQueues
  <2>1. registered \in Queue
    <3>1. registered # 0 /\ registered \in 0 .. MaxQueue
      BY <1>8, Objects DEF ClearSessionQueues, RegistryType, Now
    <3> QED BY <3>1, FollowupAssumption DEF Queue
  <2>2. \A q \in Queue : queue'[q].items \in {queue[q].items, <<>>}
    <3> SUFFICES ASSUME NEW q \in Queue PROVE queue'[q].items \in {queue[q].items, <<>>}
      OBVIOUS
    <3>1. q # registered => queue'[q] = queue[q]
      BY <1>8, Objects DEF ClearSessionQueues
    <3>2. queue[registered] \in QueueType
      BY <2>1, Objects
    <3>3. queue'[registered].items = <<>>
      BY <1>8, <2>1, <3>2, Objects DEF ClearSessionQueues, QueueType
    <3> QED BY <3>1, <3>3
  <2>3. Clears
    BY <1>8, <2>2 DEF ClearSessionQueues, Clears
  <2> QED BY <2>3 DEF StepShape
<1>9. ASSUME NEW m \in Message, ExpireMessageId(m) PROVE Shaped
  BY <1>00, <1>9 DEF ExpireMessageId, history
<1>10. CASE UNCHANGED vars
  BY <1>00, <1>10 DEF vars, history
<1> QED
  BY <1>1, <1>2, <1>3, <1>4, <1>5, <1>6, <1>7, <1>8, <1>9, <1>10 DEF Next

-----------------------------------------------------------------------------
(* The message is in a prompt that is being answered, or on a queue.       *)
Runs(q, m) ==
  drain[q].at = "run" /\ drain[q].kind # "summary" /\ Contains(drain[q].batch, m)
Holds(q, m) == Contains(queue[q].items, m) \/ Runs(q, m)

(* As long as the dedupe cache forgets nothing a message is accepted once, *)
(* and is in at most one place until it is answered.                       *)
Counted ==
  \A m \in Message :
    /\ acceptedAt[m] <= Cardinality(Accepted)
    /\ delivered[m] <= 1
    /\ delivered[m] > 0 => acceptedAt[m] > 0
HeldOnce ==
  /\ \A q \in Queue, m \in Message : Holds(q, m) => acceptedAt[m] > 0 /\ delivered[m] = 0
  /\ \A p, q \in Queue, m \in Message : Holds(p, m) /\ Holds(q, m) => p = q

(* A queue is sorted by acceptance, and what a drain answers came before   *)
(* everything that stays on the queue when it is done.                     *)
InOrder(q) ==
  /\ \A i, j \in 1 .. Len(queue[q].items) :
       i < j => acceptedAt[queue[q].items[i]] < acceptedAt[queue[q].items[j]]
  /\ \A m \in Message : Runs(q, m) =>
       \A i \in 1 .. Len(queue[q].items) :
         i > Len(drain[q].batch) => acceptedAt[m] < acceptedAt[queue[q].items[i]]

OnceInv ==
  /\ acceptedAt \in [Message -> Nat] /\ delivered \in [Message -> Nat]
  /\ recent = Accepted /\ Counted /\ HeldOnce
  /\ \A q \in Queue : InOrder(q)

LEMMA AcceptedFinite ==
  IsFiniteSet(Accepted) /\ Cardinality(Accepted) \in Nat
<1>1. Accepted \in SUBSET Message
  BY DEF Accepted
<1> QED BY <1>1, FollowupAssumption, FS_Subset, FS_CardinalityType

(* A queue only loses messages at its head.                                *)
Shrinks(q) ==
  /\ \E n \in Nat : queue'[q].items = Rest(queue[q].items, n)
  /\ drain'[q] = drain[q] \/ drain'[q].at # "run"

LEMMA RestOfSeq ==
  ASSUME NEW s \in Seq(Message), NEW n \in Nat
  PROVE  /\ Rest(s, n) \in Seq(Message) /\ Len(Rest(s, n)) \in Nat
         /\ \A i \in 1 .. Len(Rest(s, n)) : i + n \in 1 .. Len(s) /\ Rest(s, n)[i] = s[i + n]
         /\ \A x : Contains(Rest(s, n), x) => Contains(s, x)
<1> DEFINE t == Rest(s, n)
<1>1. /\ t \in Seq(Message) /\ Len(t) = IF n <= Len(s) THEN Len(s) - n ELSE 0
      /\ \A i \in 1 .. Len(s) - n : t[i] = s[i + n]
  BY DropFirst DEF Rest
<1> HIDE DEF t
<1>2. Len(s) \in Nat /\ Len(t) \in Nat
  BY <1>1
<1>3. \A i \in 1 .. Len(t) : i + n \in 1 .. Len(s) /\ t[i] = s[i + n]
  BY <1>1, <1>2
<1>4. \A x : Contains(t, x) => Contains(s, x)
  BY <1>3 DEF Contains
<1> QED BY <1>1, <1>2, <1>3, <1>4 DEF t

LEMMA RestOfAll ==
  ASSUME NEW s \in Seq(Message)
  PROVE  Rest(s, 0) = s /\ Rest(s, Len(s)) = <<>>
<1>1. Len(s) \in Nat
  OBVIOUS
<1>2. /\ Rest(s, 0) \in Seq(Message) /\ Len(Rest(s, 0)) = Len(s)
      /\ \A i \in 1 .. Len(s) : Rest(s, 0)[i] = s[i]
  <2>1. /\ Rest(s, 0) \in Seq(Message)
        /\ Len(Rest(s, 0)) = IF 0 <= Len(s) THEN Len(s) - 0 ELSE 0
        /\ \A i \in 1 .. Len(s) - 0 : Rest(s, 0)[i] = s[i + 0]
    BY DropFirst DEF Rest
  <2>2. \A i \in 1 .. Len(s) : i \in 1 .. Len(s) - 0 /\ i + 0 = i
    BY <1>1
  <2> QED BY <1>1, <2>1, <2>2
<1>3. Rest(s, 0) = s
  BY <1>2, SeqEqual
<1>4. Rest(s, Len(s)) \in Seq(Message) /\ Len(Rest(s, Len(s))) = 0
  BY <1>1, DropFirst DEF Rest
<1>5. Rest(s, Len(s)) = <<>>
  BY <1>4, EmptySeq
<1> QED BY <1>3, <1>5

LEMMA RestsShrinks ==
  ASSUME IndInv, NEW q \in Queue, Rests(Now', q)
  PROVE  Shrinks(q)
<1>1. queue[q].items \in Seq(Message) /\ Len(queue[q].items) \in Nat
  BY Objects
<1>2. queue'[q].items \in {queue[q].items, <<>>}
      /\ (drain'[q] = drain[q] \/ drain'[q].at # "run")
  BY DEF Rests, Now
<1> QED BY <1>1, <1>2, RestOfAll DEF Shrinks

LEMMA ShrinksHolds ==
  ASSUME IndInv, NEW q \in Queue, Shrinks(q), NEW m
  PROVE  /\ Runs(q, m)' => Runs(q, m) /\ drain'[q] = drain[q]
         /\ Holds(q, m)' => Holds(q, m)
         /\ Contains(queue'[q].items, m) => Contains(queue[q].items, m)
<1>1. queue[q].items \in Seq(Message)
  BY Objects
<1>2. Contains(queue'[q].items, m) => Contains(queue[q].items, m)
  BY <1>1, RestOfSeq DEF Shrinks
<1>3. Runs(q, m)' => Runs(q, m) /\ drain'[q] = drain[q]
  BY DEF Shrinks, Runs
<1> QED BY <1>2, <1>3 DEF Holds

(* A queue that takes a message keeps a rest of what it held.              *)
LEMMA TakesBehind ==
  ASSUME IndInv, NEW m \in Message, NEW k \in Queue, Takes(m, k)
  PROVE  \E n \in Nat : queue'[k].items = Append(Rest(queue[k].items, n), m)
<1> DEFINE s == queue[k].items
<1>1. s \in Seq(Message) /\ Len(s) \in Nat
  BY Objects
<1>2. PICK old \in {s, <<>>}, n \in Nat : queue'[k].items = Append(Rest(old, n), m)
  BY DEF Takes
<1>3. CASE old = s
  BY <1>2, <1>3
<1>4. CASE old = <<>>
  <2>1. Rest(<<>>, n) = <<>>
    <3>1. <<>> \in Seq(Message) /\ Len(<<>>) = 0
      OBVIOUS
    <3>2. /\ Rest(<<>>, n) \in Seq(Message)
          /\ Len(Rest(<<>>, n)) = IF n <= 0 THEN 0 - n ELSE 0
      BY <3>1, DropFirst DEF Rest
    <3> QED BY <3>2, EmptySeq
  <2>2. Rest(s, Len(s)) = <<>>
    BY <1>1, RestOfAll
  <2> QED BY <1>1, <1>2, <1>4, <2>1, <2>2
<1> QED BY <1>2, <1>3, <1>4

LEMMA ShrinksInOrder ==
  ASSUME IndInv, NEW q \in Queue, Shrinks(q), InOrder(q),
         \A m \in Message : Holds(q, m) => acceptedAt'[m] = acceptedAt[m]
  PROVE  InOrder(q)'
<1> DEFINE s == queue[q].items
           t == queue'[q].items
<1>1. PICK n \in Nat : t = Rest(s, n)
  BY DEF Shrinks
<1>2. s \in Seq(Message) /\ Len(s) \in Nat
  BY Objects
<1> HIDE DEF s, t
<1>3. /\ Len(t) \in Nat
      /\ \A i \in 1 .. Len(t) : i + n \in 1 .. Len(s) /\ t[i] = s[i + n]
  BY <1>1, <1>2, RestOfSeq
<1>4. \A i \in 1 .. Len(s) : s[i] \in Message /\ Holds(q, s[i])
  BY <1>2 DEF Holds, Contains, s
<1>5. \A i \in 1 .. Len(t) : acceptedAt'[t[i]] = acceptedAt[s[i + n]]
  BY <1>3, <1>4
<1>6. ASSUME NEW i \in 1 .. Len(t), NEW j \in 1 .. Len(t), i < j
      PROVE  acceptedAt'[t[i]] < acceptedAt'[t[j]]
  <2>1. i + n < j + n
    BY <1>3, <1>6
  <2>2. acceptedAt[s[i + n]] < acceptedAt[s[j + n]]
    BY <1>3, <2>1 DEF InOrder, s
  <2> QED BY <1>5, <2>2
<1>7. ASSUME NEW m \in Message, Runs(q, m)', NEW i \in 1 .. Len(t), i > Len(drain'[q].batch)
      PROVE  acceptedAt'[m] < acceptedAt'[t[i]]
  <2>1. Runs(q, m) /\ drain'[q] = drain[q]
    BY <1>7, ShrinksHolds
  <2>2. Len(drain[q].batch) \in Nat
    <3>1. drain[q].batch \in Seq(Message)
      BY Objects DEF DrainType
    <3> QED BY <3>1
  <2>3. i + n > Len(drain[q].batch)
    BY <1>3, <1>7, <2>1, <2>2
  <2>4. acceptedAt[m] < acceptedAt[s[i + n]]
    BY <1>3, <2>1, <2>3 DEF InOrder, s
  <2>5. acceptedAt'[m] = acceptedAt[m]
    BY <2>1 DEF Holds
  <2> QED BY <1>5, <2>4, <2>5
<1> QED BY <1>6, <1>7 DEF InOrder, t

-----------------------------------------------------------------------------
(* A step that delivers and accepts nothing.                               *)
LEMMA ShrinkingOnce ==
  ASSUME IndInv, OnceInv, \A q \in Queue : Shrinks(q),
         UNCHANGED <<acceptedAt, delivered, recent>>
  PROVE  OnceInv'
<1>1. Accepted' = Accepted
  BY DEF Accepted
<1>2. \A q \in Queue, m \in Message : Holds(q, m)' => Holds(q, m)
  BY ShrinksHolds
<1>3. \A q \in Queue : InOrder(q)'
  BY ShrinksInOrder DEF OnceInv
<1>4. HeldOnce'
  BY <1>2 DEF OnceInv, HeldOnce
<1>5. Counted'
  BY <1>1 DEF OnceInv, Counted
<1> QED BY <1>1, <1>3, <1>4, <1>5 DEF OnceInv

LEMMA BeginsOnce ==
  ASSUME IndInv, OnceInv, NEW k \in Queue, Begins(k)
  PROVE  OnceInv'
<1>1. Accepted' = Accepted /\ UNCHANGED <<acceptedAt, delivered, recent, queue>>
  BY DEF Accepted, Begins
<1> DEFINE s == queue[k].items
           b == drain'[k].batch
<1>2. /\ s \in Seq(Message) /\ Len(s) \in Nat /\ Prefix(b, s)
      /\ \A i, j \in 1 .. Len(s) : i < j => acceptedAt[s[i]] < acceptedAt[s[j]]
  BY Objects DEF Begins, OnceInv, InOrder
<1> HIDE DEF s, b
<1>3. ASSUME NEW q \in Queue, q # k PROVE Shrinks(q)
  <2>1. queue[q].items = Rest(queue[q].items, 0)
    BY Objects, RestOfAll
  <2> QED BY <1>1, <1>3, <2>1 DEF Shrinks, Begins
<1>4. ASSUME NEW m \in Message, Runs(k, m)'
      PROVE  \E i \in 1 .. Len(s) : i <= Len(b) /\ s[i] = m
  <2>1. PICK i \in 1 .. Len(b) : b[i] = m
    BY <1>4 DEF Runs, Contains, b
  <2> QED BY <1>2, <2>1 DEF Prefix
<1>5. \A q \in Queue, m \in Message : Holds(q, m)' => Holds(q, m)
  <2> SUFFICES ASSUME NEW q \in Queue, NEW m \in Message, Holds(q, m)' PROVE Holds(q, m)
    OBVIOUS
  <2>1. CASE q # k
    BY <1>3, <2>1, ShrinksHolds
  <2>2. CASE q = k /\ ~Contains(s, m)
    BY <1>1, <1>4, <2>2 DEF Holds, Contains, s
  <2>3. CASE q = k /\ Contains(s, m)
    BY <2>3 DEF Holds, s
  <2> QED BY <2>1, <2>2, <2>3
<1>6. InOrder(k)'
  <2> SUFFICES ASSUME NEW m \in Message, Runs(k, m)', NEW i \in 1 .. Len(s), i > Len(b)
               PROVE  acceptedAt[m] < acceptedAt[s[i]]
    BY <1>1, <1>2 DEF InOrder, s, b
  <2>1. PICK j \in 1 .. Len(s) : j <= Len(b) /\ s[j] = m
    BY <1>4
  <2>2. j < i
    BY <1>2, <2>1 DEF Prefix
  <2> QED BY <1>2, <2>1, <2>2
<1>7. ASSUME NEW q \in Queue PROVE InOrder(q)'
  BY <1>1, <1>3, <1>6, ShrinksInOrder DEF OnceInv
<1>8. HeldOnce'
  BY <1>1, <1>5 DEF OnceInv, HeldOnce
<1>9. Counted'
  BY <1>1 DEF OnceInv, Counted
<1> QED BY <1>1, <1>7, <1>8, <1>9 DEF OnceInv

LEMMA FinishesOnce ==
  ASSUME IndInv, OnceInv, NEW k \in Queue, Finishes(k)
  PROVE  OnceInv'
<1>1. /\ Accepted' = Accepted /\ UNCHANGED <<acceptedAt, recent>>
      /\ drain[k].at = "run" /\ drain'[k].at # "run"
      /\ queue'[k].items = Rest(queue[k].items, Len(drain[k].batch))
      /\ queue[k].items \in Seq(Message) /\ Len(drain[k].batch) \in Nat
      /\ acceptedAt \in [Message -> Nat] /\ delivered \in [Message -> Nat]
  <2>1. drain[k].batch \in Seq(Message)
    BY Objects DEF DrainType
  <2> QED BY <2>1, Objects DEF Accepted, Finishes, OnceInv
<1>2. \A m \in Message : delivered'[m] = IF Runs(k, m) THEN delivered[m] + 1 ELSE delivered[m]
  BY <1>1 DEF Finishes, Runs
<1>3. delivered' \in [Message -> Nat]
  BY <1>1 DEF Finishes
<1>4. \A q \in Queue : Shrinks(q)
  <2>1. Shrinks(k)
    BY <1>1 DEF Shrinks
  <2> QED BY <2>1, RestsShrinks DEF Finishes
<1>5. \A q \in Queue : InOrder(q)'
  BY <1>1, <1>4, ShrinksInOrder DEF OnceInv
<1>6. \A q \in Queue, m \in Message : Holds(q, m)' => Holds(q, m)
  BY <1>4, ShrinksHolds
<1>7. ASSUME NEW q \in Queue, NEW m \in Message, Holds(q, m)', Runs(k, m) PROVE FALSE
  <2>1. q = k
    BY <1>6, <1>7 DEF OnceInv, HeldOnce, Holds
  <2>2. Contains(queue'[k].items, m)
    BY <1>1, <1>7, <2>1 DEF Holds, Runs
  <2> DEFINE t == Rest(queue[k].items, Len(drain[k].batch))
  <2>3. PICK i \in 1 .. Len(t) : t[i] = m
    BY <1>1, <2>2 DEF Contains
  <2>4. /\ i + Len(drain[k].batch) \in 1 .. Len(queue[k].items)
        /\ queue[k].items[i + Len(drain[k].batch)] = m
    BY <1>1, <2>3, RestOfSeq
  <2>5. i \in Nat \ {0}
    OBVIOUS
  <2>6. i + Len(drain[k].batch) > Len(drain[k].batch)
    BY <1>1, <2>5
  <2>7. acceptedAt[m] < acceptedAt[m]
    BY <1>7, <2>4, <2>6 DEF OnceInv, InOrder
  <2>8. acceptedAt[m] \in Nat
    BY <1>1
  <2> QED BY <2>7, <2>8
<1>8. HeldOnce'
  <2>1. ASSUME NEW q \in Queue, NEW m \in Message, Holds(q, m)'
        PROVE  acceptedAt'[m] > 0 /\ delivered'[m] = 0
    <3>1. ~Runs(k, m) /\ Holds(q, m)
      BY <1>6, <1>7, <2>1
    <3> QED BY <1>1, <1>2, <3>1 DEF OnceInv, HeldOnce
  <2>2. \A p, q \in Queue, m \in Message : Holds(p, m)' /\ Holds(q, m)' => p = q
    BY <1>6 DEF OnceInv, HeldOnce
  <2> QED BY <2>1, <2>2 DEF HeldOnce
<1>9. Counted'
  <2> SUFFICES ASSUME NEW m \in Message
               PROVE  /\ acceptedAt'[m] <= Cardinality(Accepted)'
                      /\ delivered'[m] <= 1
                      /\ delivered'[m] > 0 => acceptedAt'[m] > 0
    BY DEF Counted
  <2>1. /\ acceptedAt[m] <= Cardinality(Accepted) /\ delivered[m] \in Nat /\ delivered[m] <= 1
        /\ delivered[m] > 0 => acceptedAt[m] > 0
    BY <1>1 DEF OnceInv, Counted
  <2>2. Runs(k, m) => delivered[m] = 0 /\ acceptedAt[m] > 0
    BY DEF OnceInv, HeldOnce, Holds
  <2>3. acceptedAt'[m] = acceptedAt[m] /\ Cardinality(Accepted)' = Cardinality(Accepted)
    BY <1>1
  <2>4. CASE Runs(k, m)
    <3>1. delivered'[m] = 1
      BY <1>2, <2>1, <2>2, <2>4
    <3> QED BY <2>1, <2>2, <2>3, <2>4, <3>1
  <2>5. CASE ~Runs(k, m)
    <3>1. delivered'[m] = delivered[m]
      BY <1>2, <2>5
    <3> QED BY <2>1, <2>3, <3>1
  <2> QED BY <2>4, <2>5
<1> QED BY <1>1, <1>3, <1>5, <1>8, <1>9 DEF OnceInv

LEMMA TakesOnce ==
  ASSUME IndInv, OnceInv, NEW m \in Message, NEW k \in Queue, Takes(m, k)
  PROVE  OnceInv'
<1> DEFINE s == queue[k].items
           c == Cardinality(Accepted)
<1>1. /\ s \in Seq(Message) /\ Len(s) \in Nat /\ c \in Nat /\ IsFiniteSet(Accepted)
      /\ acceptedAt \in [Message -> Nat] /\ delivered \in [Message -> Nat]
      /\ recent = Accepted /\ Counted /\ HeldOnce /\ \A q \in Queue : InOrder(q)
  BY AcceptedFinite, Objects DEF OnceInv
<1>2. acceptedAt[m] = 0 /\ m \notin Accepted
  BY <1>1 DEF Takes, Accepted
<1>3. /\ acceptedAt' \in [Message -> Nat] /\ delivered' = delivered
      /\ \A x \in Message : acceptedAt'[x] = IF x = m THEN 1 + c ELSE acceptedAt[x]
  BY <1>1 DEF Takes
<1>4. Accepted' = Accepted \cup {m} /\ recent' = Accepted'
  <2>1. Accepted' = Accepted \cup {m}
    BY <1>1, <1>3 DEF Accepted
  <2> QED BY <1>1, <2>1 DEF Takes
<1>5. Cardinality(Accepted)' = c + 1
  BY <1>1, <1>2, <1>4, FS_AddElement
<1>6. \A q \in Queue, x \in Message :
        Holds(q, x) => x # m /\ acceptedAt'[x] = acceptedAt[x] /\ acceptedAt[x] <= c
  BY <1>1, <1>2, <1>3 DEF HeldOnce, Counted
<1>7. ASSUME NEW q \in Queue, q # k PROVE Shrinks(q)
  BY <1>7, RestsShrinks DEF Takes
<1>8. PICK n \in Nat : queue'[k].items = Append(Rest(s, n), m)
  BY TakesBehind
<1> DEFINE left == Rest(s, n)
           t == Append(left, m)
<1>9. /\ left \in Seq(Message) /\ Len(left) \in Nat
      /\ \A i \in 1 .. Len(left) : i + n \in 1 .. Len(s) /\ left[i] = s[i + n]
      /\ \A x : Contains(left, x) => Contains(s, x)
  BY <1>1, RestOfSeq
<1> HIDE DEF s, left
<1>10. /\ Len(t) = Len(left) + 1 /\ t[Len(left) + 1] = m
       /\ \A i \in 1 .. Len(left) : t[i] = s[i + n]
       /\ \A x : Contains(t, x) => Contains(s, x) \/ x = m
  <2>1. /\ Len(t) = Len(left) + 1 /\ t[Len(left) + 1] = m
        /\ \A i \in 1 .. Len(left) : t[i] = left[i]
    BY <1>9, AppendNew
  <2>2. \A i \in 1 .. Len(t) : i \in 1 .. Len(left) \/ i = Len(left) + 1
    BY <1>9, <2>1
  <2>3. \A x : Contains(t, x) => Contains(left, x) \/ x = m
    BY <2>1, <2>2 DEF Contains
  <2> QED BY <1>9, <2>1, <2>3
<1> HIDE DEF t
<1>11. \A i \in 1 .. Len(left) : /\ acceptedAt'[t[i]] = acceptedAt[s[i + n]]
                                 /\ acceptedAt[s[i + n]] \in Nat /\ acceptedAt[s[i + n]] <= c
  <2> SUFFICES ASSUME NEW i \in 1 .. Len(left)
               PROVE  /\ acceptedAt'[t[i]] = acceptedAt[s[i + n]]
                      /\ acceptedAt[s[i + n]] \in Nat /\ acceptedAt[s[i + n]] <= c
    OBVIOUS
  <2>1. s[i + n] \in Message /\ Holds(k, s[i + n])
    <3>1. i + n \in 1 .. Len(s) /\ s[i + n] \in Message
      BY <1>1, <1>9
    <3>2. Contains(s, s[i + n])
      BY <3>1 DEF Contains
    <3> QED BY <3>1, <3>2 DEF Holds, s
  <2> QED BY <1>1, <1>6, <1>10, <2>1
<1>12. acceptedAt'[t[Len(left) + 1]] = 1 + c
  BY <1>3, <1>10
<1>13. \A q \in Queue, x \in Message : Holds(q, x)' => Holds(q, x) \/ (q = k /\ x = m)
  <2> SUFFICES ASSUME NEW q \in Queue, NEW x \in Message, Holds(q, x)'
               PROVE  Holds(q, x) \/ (q = k /\ x = m)
    OBVIOUS
  <2>1. CASE q # k
    BY <1>7, <2>1, ShrinksHolds
  <2>2. CASE q = k /\ Contains(queue'[k].items, x)
    BY <1>8, <1>10, <2>2 DEF Holds, s, t, left
  <2>3. CASE q = k /\ Runs(k, x)'
    BY <2>3 DEF Takes, Holds, Runs
  <2> QED BY <2>1, <2>2, <2>3 DEF Holds
<1>14. HeldOnce'
  <2>1. ASSUME NEW q \in Queue, NEW x \in Message, Holds(q, x)'
        PROVE  acceptedAt'[x] > 0 /\ delivered'[x] = 0
    <3>1. CASE Holds(q, x)
      BY <1>1, <1>3, <1>6, <3>1 DEF HeldOnce
    <3>2. CASE x = m
      <4>1. delivered[m] \in Nat /\ ~(delivered[m] > 0)
        BY <1>1, <1>2 DEF Counted
      <4> QED BY <1>1, <1>3, <3>2, <4>1
    <3> QED BY <1>13, <2>1, <3>1, <3>2
  <2>2. ASSUME NEW p \in Queue, NEW q \in Queue, NEW x \in Message, Holds(p, x)', Holds(q, x)'
        PROVE  p = q
    BY <1>1, <1>6, <1>13, <2>2 DEF HeldOnce
  <2> QED BY <2>1, <2>2 DEF HeldOnce
<1>15. Counted'
  <2> SUFFICES ASSUME NEW x \in Message
               PROVE  /\ acceptedAt'[x] <= c + 1 /\ delivered'[x] <= 1
                      /\ delivered'[x] > 0 => acceptedAt'[x] > 0
    BY <1>5 DEF Counted
  <2>1. /\ acceptedAt[x] <= c /\ acceptedAt[x] \in Nat /\ delivered[x] <= 1
        /\ delivered[x] > 0 => acceptedAt[x] > 0
    BY <1>1 DEF Counted
  <2>2. c \in Nat /\ delivered' = delivered
        /\ acceptedAt'[x] = IF x = m THEN 1 + c ELSE acceptedAt[x]
    BY <1>1, <1>3
  <2> HIDE DEF c
  <2>3. CASE x = m
    BY <2>1, <2>2, <2>3
  <2>4. CASE x # m
    BY <2>1, <2>2, <2>4
  <2> QED BY <2>3, <2>4
<1>16. InOrder(k)'
  <2>1. queue'[k].items = t
    BY <1>8 DEF t, left
  <2>2. ASSUME NEW i \in 1 .. Len(t), NEW j \in 1 .. Len(t), i < j
        PROVE  acceptedAt'[t[i]] < acceptedAt'[t[j]]
    <3>1. i \in 1 .. Len(left) /\ (j \in 1 .. Len(left) \/ j = Len(left) + 1)
      <4>1. Len(left) \in Nat /\ Len(t) = Len(left) + 1
        BY <1>9, <1>10
      <4> QED BY <2>2, <4>1
    <3>2. CASE j \in 1 .. Len(left)
      <4>1. i + n < j + n
        BY <2>2
      <4>2. acceptedAt[s[i + n]] < acceptedAt[s[j + n]]
        BY <1>1, <1>9, <3>1, <3>2, <4>1 DEF InOrder, s
      <4> QED BY <1>11, <3>1, <3>2, <4>2
    <3>3. CASE j = Len(left) + 1
      <4>1. acceptedAt'[t[i]] = acceptedAt[s[i + n]] /\ acceptedAt[s[i + n]] <= c
            /\ acceptedAt[s[i + n]] \in Nat
        BY <1>11, <3>1
      <4> QED BY <1>1, <1>12, <3>3, <4>1
    <3> QED BY <3>1, <3>2, <3>3
  <2>3. ASSUME NEW x \in Message, Runs(k, x)',
               NEW i \in 1 .. Len(t), i > Len(drain'[k].batch)
        PROVE  acceptedAt'[x] < acceptedAt'[t[i]]
    <3>1. Runs(k, x) /\ drain'[k] = drain[k]
      BY <2>3 DEF Takes, Runs
    <3>2. acceptedAt'[x] = acceptedAt[x] /\ acceptedAt[x] <= c /\ acceptedAt[x] \in Nat
      BY <1>1, <1>6, <3>1 DEF Holds
    <3>3. i \in 1 .. Len(left) \/ i = Len(left) + 1
      BY <1>9, <1>10
    <3>4. CASE i \in 1 .. Len(left)
      <4>1. Len(drain[k].batch) \in Nat
        <5>1. drain[k].batch \in Seq(Message)
          BY Objects DEF DrainType
        <5> QED BY <5>1
      <4>2. i + n > Len(drain[k].batch)
        BY <2>3, <3>1, <4>1
      <4>3. acceptedAt[x] < acceptedAt[s[i + n]]
        BY <1>1, <1>9, <3>1, <3>4, <4>2 DEF InOrder, s
      <4> QED BY <1>11, <3>2, <3>4, <4>3
    <3>5. CASE i = Len(left) + 1
      BY <1>1, <1>12, <3>2, <3>5
    <3> QED BY <3>3, <3>4, <3>5
  <2> QED BY <2>1, <2>2, <2>3 DEF InOrder
<1>17. \A q \in Queue : InOrder(q)'
  <2>1. ASSUME NEW q \in Queue, q # k PROVE InOrder(q)'
    BY <1>1, <1>6, <1>7, <2>1, ShrinksInOrder
  <2> QED BY <1>16, <2>1
<1> QED BY <1>1, <1>3, <1>4, <1>14, <1>15, <1>17 DEF OnceInv

LEMMA OnceStep ==
  ASSUME MaxExpiries = 0, expiries \in Nat, IndInv, OnceInv, [Next]_vars
  PROVE  OnceInv'
<1>1. ASSUME Quiet PROVE OnceInv'
  <2>1. \A q \in Queue : Shrinks(q)
    BY <1>1, RestsShrinks DEF Quiet
  <2>2. UNCHANGED <<acceptedAt, delivered, recent>>
    BY <1>1 DEF Quiet
  <2> QED BY <2>1, <2>2, ShrinkingOnce
<1>2. ASSUME Clears PROVE OnceInv'
  <2> SUFFICES ASSUME NEW q \in Queue PROVE Shrinks(q)
    BY <1>2, ShrinkingOnce DEF Clears
  <2>1. queue[q].items \in Seq(Message) /\ Len(queue[q].items) \in Nat
    BY Objects
  <2> QED BY <1>2, <2>1, RestOfAll DEF Clears, Shrinks
<1> QED BY <1>1, <1>2, StepHasShape, TakesOnce, BeginsOnce, FinishesOnce DEF StepShape

LEMMA InitOnce == Init => OnceInv /\ OneQueue(Now) /\ clears \in Nat /\ expiries \in Nat
<1> SUFFICES ASSUME Init PROVE OnceInv /\ OneQueue(Now) /\ clears \in Nat /\ expiries \in Nat
  OBVIOUS
<1>1. /\ recent = {} /\ clears = 0 /\ expiries = 0
      /\ acceptedAt = [m \in Message |-> 0] /\ delivered = [m \in Message |-> 0]
  BY DEF Init
<1>2. \A q \in Queue : /\ queue[q].items = <<>> /\ queue[q].draining = FALSE
                       /\ drain[q].at = "idle"
  BY IdleDrainType DEF Init, NewQueue
<1>3. Accepted = {}
  BY <1>1 DEF Accepted
<1>4. Cardinality(Accepted) = 0
  BY <1>3, FS_EmptySet
<1>5. \A q \in Queue : \A m : ~Holds(q, m)
  BY <1>2 DEF Holds, Runs, Contains
<1>6. Counted /\ HeldOnce
  BY <1>1, <1>4, <1>5 DEF Counted, HeldOnce
<1>7. \A q \in Queue : InOrder(q)
  <2>1. \A q \in Queue : Len(queue[q].items) = 0
    BY <1>2
  <2> QED BY <2>1 DEF InOrder
<1>8. OneQueue(Now)
  BY <1>2 DEF OneQueue, Now
<1> QED BY <1>1, <1>3, <1>6, <1>7, <1>8 DEF OnceInv

LEMMA ContainsAppend ==
  ASSUME NEW s \in Seq(Message), NEW e \in Message, NEW x
  PROVE  Contains(Append(s, e), x) <=> Contains(s, x) \/ x = e
<1>1. /\ Len(Append(s, e)) = Len(s) + 1 /\ Len(s) \in Nat
      /\ \A i \in 1 .. Len(s) : Append(s, e)[i] = s[i]
      /\ Append(s, e)[Len(s) + 1] = e
  BY AppendNew
<1>2. \A i : i \in 1 .. Len(s) + 1 <=> i \in 1 .. Len(s) \/ i = Len(s) + 1
  BY <1>1
<1> QED BY <1>1, <1>2 DEF Contains


-----------------------------------------------------------------------------
Counters == clears \in Nat /\ expiries \in Nat
LEMMA CountersStep ==
  ASSUME Counters, [Next]_vars
  PROVE  Counters'
<1>1. ASSUME NEW m \in Message, NEW s \in Setting, NEW b \in BOOLEAN,
             SkipMessage(m, s, b) \/ EnqueueFollowupRun(m, s, b)
      PROVE  UNCHANGED <<clears, expiries>>
  BY <1>1 DEF SkipMessage, EnqueueFollowupRun
<1>2. ASSUME NEW q \in Queue,
             DrainTurn(q) \/ RunFollowupSucceeds(q) \/ RunFollowupFails(q)
      PROVE  UNCHANGED <<clears, expiries>>
  BY <1>2 DEF DrainTurn, RunFollowupSucceeds, RunFollowupFails, bounds
<1>3. CASE RunStarts \/ RunEnds \/ AgentCommandEnds \/ UNCHANGED vars
  BY <1>3 DEF RunStarts, RunEnds, AgentCommandEnds, vars, bounds, Counters
<1>4. CASE ClearSessionQueues
  BY <1>4 DEF ClearSessionQueues, Counters
<1>5. ASSUME NEW m \in Message, ExpireMessageId(m) PROVE Counters'
  BY <1>5 DEF ExpireMessageId, Counters
<1> QED BY <1>1, <1>2, <1>3, <1>4, <1>5 DEF Next, Counters

(* Without a clear the key's object is the one that holds the messages.    *)
LEMMA StepKeepsOne ==
  ASSUME MaxClears = 0, Counters, IndInv, OneQueue(Now), [Next]_vars
  PROVE  OneQueue(Now)'
<1>1. ~Clears
  BY DEF Clears, Counters
<1>2. OneQueue(Now')
  BY <1>1, StepHasShape
<1> QED BY <1>2 DEF OneQueue

Waits(m) == \E q \in Queue : Contains(queue[q].items, m)

(* What waits was accepted after everything that has been answered.        *)
Behind ==
  \A m, n \in Message : delivered[m] > 0 /\ Waits(n) => acceptedAt[m] < acceptedAt[n]

LEMMA BehindStep ==
  ASSUME MaxClears = 0, MaxExpiries = 0, Counters, IndInv, OnceInv, OneQueue(Now), Behind,
         [Next]_vars
  PROVE  Behind'
<1>0. StepShape /\ ~Clears /\ acceptedAt \in [Message -> Nat] /\ delivered \in [Message -> Nat]
      /\ recent = Accepted /\ Counted /\ HeldOnce /\ \A q \in Queue : InOrder(q)
  BY StepHasShape DEF Clears, Counters, OnceInv
<1>1. ASSUME \A q \in Queue : Shrinks(q) PROVE \A n : Waits(n)' => Waits(n)
  BY <1>1, ShrinksHolds DEF Waits
<1>2. CASE Quiet
  <2>1. \A n : Waits(n)' => Waits(n)
    BY <1>1, <1>2, RestsShrinks DEF Quiet
  <2> QED BY <1>2, <2>1 DEF Quiet, Behind
<1>3. ASSUME NEW k \in Queue, Begins(k) PROVE Behind'
  <2>1. \A n : Waits(n)' <=> Waits(n)
    BY <1>3 DEF Begins, Waits
  <2> QED BY <1>3, <2>1 DEF Begins, Behind
<1>4. ASSUME NEW m \in Message, NEW k \in Queue, Takes(m, k) PROVE Behind'
  <2> DEFINE c == Cardinality(Accepted)
  <2>1. PICK i \in Nat : queue'[k].items = Append(Rest(queue[k].items, i), m)
    BY <1>4, TakesBehind
  <2>2. \A n : Waits(n)' => Waits(n) \/ n = m
    <3> SUFFICES ASSUME NEW n, NEW q \in Queue, Contains(queue'[q].items, n)
                 PROVE  Waits(n) \/ n = m
      BY DEF Waits
    <3>1. CASE q # k
      BY <1>4, <3>1, RestsShrinks, ShrinksHolds DEF Takes, Waits
    <3>2. CASE q = k
      <4>1. queue[k].items \in Seq(Message)
        BY Objects
      <4>2. Rest(queue[k].items, i) \in Seq(Message)
            /\ (Contains(Rest(queue[k].items, i), n) => Contains(queue[k].items, n))
        BY <4>1, RestOfSeq
      <4>3. Contains(Rest(queue[k].items, i), n) \/ n = m
        BY <2>1, <3>2, <4>2, ContainsAppend
      <4> QED BY <4>2, <4>3 DEF Waits
    <3> QED BY <3>1, <3>2
  <2>3. /\ acceptedAt[m] = 0 /\ delivered' = delivered
        /\ \A x \in Message : acceptedAt'[x] = IF x = m THEN 1 + c ELSE acceptedAt[x]
    BY <1>0, <1>4 DEF Takes, Accepted
  <2> SUFFICES ASSUME NEW p \in Message, NEW n \in Message, delivered'[p] > 0, Waits(n)'
               PROVE  acceptedAt'[p] < acceptedAt'[n]
    BY DEF Behind
  <2>4. delivered[p] > 0 /\ p # m /\ acceptedAt'[p] = acceptedAt[p]
    BY <1>0, <2>3 DEF Counted
  <2>5. CASE n = m
    <3>1. acceptedAt'[n] = 1 + c /\ acceptedAt[p] <= c /\ acceptedAt[p] \in Nat /\ c \in Nat
      BY <1>0, <2>3, <2>5, AcceptedFinite DEF Counted
    <3> HIDE DEF c
    <3> QED BY <2>4, <3>1
  <2>6. CASE n # m
    <3>1. Waits(n) /\ acceptedAt'[n] = acceptedAt[n]
      BY <2>2, <2>3, <2>6
    <3> QED BY <2>4, <3>1 DEF Behind
  <2> QED BY <2>5, <2>6
<1>5. ASSUME NEW k \in Queue, Finishes(k) PROVE Behind'
  <2> SUFFICES ASSUME NEW p \in Message, NEW n \in Message, delivered'[p] > 0, Waits(n)'
               PROVE  acceptedAt[p] < acceptedAt[n]
    BY <1>5 DEF Behind, Finishes
  <2>1. queue[k].items \in Seq(Message) /\ Len(drain[k].batch) \in Nat
        /\ queue'[k].items = Rest(queue[k].items, Len(drain[k].batch))
        /\ drain[k].at = "run"
    <3>1. drain[k].batch \in Seq(Message)
      BY Objects DEF DrainType
    <3> QED BY <1>5, <3>1, Objects DEF Finishes
  <2>2. PICK q \in Queue : Contains(queue'[q].items, n)
    BY DEF Waits
  <2>3. Shrinks(q)
    BY <1>5, <2>1, RestsShrinks DEF Finishes, Shrinks
  <2>4. Contains(queue[q].items, n)
    BY <2>2, <2>3, ShrinksHolds
  <2>5. CASE ~Runs(k, p)
    <3>1. delivered[p] > 0
      BY <1>5, <2>1, <2>5 DEF Finishes, Runs
    <3> QED BY <2>4, <3>1 DEF Behind, Waits
  <2>6. CASE Runs(k, p)
    <3>1. k = registered
      BY <2>1, Objects DEF RegistryInv, Paired, OneQueue
    <3>2. queue[q].items # <<>>
      BY <2>4 DEF Contains
    <3>3. q = k
      BY <3>1, <3>2, Objects DEF OneQueue
    <3> DEFINE t == Rest(queue[k].items, Len(drain[k].batch))
    <3>4. PICK i \in 1 .. Len(t) : t[i] = n
      BY <2>1, <2>2, <3>3 DEF Contains
    <3>5. /\ i + Len(drain[k].batch) \in 1 .. Len(queue[k].items)
          /\ queue[k].items[i + Len(drain[k].batch)] = n
      BY <2>1, <3>4, RestOfSeq
    <3>6. i \in Nat \ {0}
      OBVIOUS
    <3>7. i + Len(drain[k].batch) > Len(drain[k].batch)
      BY <2>1, <3>6
    <3> QED BY <1>0, <2>6, <3>5, <3>7 DEF InOrder
  <2> QED BY <2>5, <2>6
<1> QED BY <1>0, <1>2, <1>3, <1>4, <1>5 DEF StepShape

(* The batch and the rest of its queue.                                    *)
Split(s, b, t) == Prefix(b, s) /\ t = SubSeq(s, Len(b) + 1, Len(s))
LEMMA ContainsRest ==
  ASSUME NEW s \in Seq(Message), NEW b \in Seq(Message), NEW t, Split(s, b, t)
  PROVE  /\ t \in Seq(Message) /\ Len(t) = Len(s) - Len(b)
         /\ \A i \in 1 .. Len(t) : i + Len(b) \in 1 .. Len(s) /\ t[i] = s[i + Len(b)]
         /\ \A x : Contains(s, x) => Contains(b, x) \/ Contains(t, x)
         /\ \A x : Contains(b, x) \/ Contains(t, x) => Contains(s, x)
         /\ IsInjective(s) => \A x : ~(Contains(b, x) /\ Contains(t, x))
<1>1. Len(s) \in Nat /\ Len(b) \in Nat /\ Len(b) <= Len(s)
      /\ \A i \in 1 .. Len(b) : b[i] = s[i]
  BY DEF Split, Prefix
<1>2. t \in Seq(Message) /\ Len(t) = Len(s) - Len(b)
      /\ \A i \in 1 .. Len(s) - Len(b) : t[i] = s[i + Len(b)]
  BY <1>1, DropFirst DEF Split
<1>3. \A i \in 1 .. Len(t) : i + Len(b) \in 1 .. Len(s) /\ t[i] = s[i + Len(b)]
  BY <1>1, <1>2
<1>4. ASSUME NEW x, Contains(s, x) PROVE Contains(b, x) \/ Contains(t, x)
  <2>1. PICK i \in 1 .. Len(s) : s[i] = x
    BY <1>4 DEF Contains
  <2>2. CASE i <= Len(b)
    <3>1. i \in 1 .. Len(b) /\ b[i] = x
      BY <1>1, <2>1, <2>2
    <3> QED BY <3>1 DEF Contains
  <2>3. CASE ~(i <= Len(b))
    <3>1. i - Len(b) \in 1 .. Len(t) /\ (i - Len(b)) + Len(b) = i
      BY <1>1, <1>2, <2>1, <2>3
    <3>2. t[i - Len(b)] = x
      BY <1>3, <2>1, <3>1
    <3> QED BY <3>1, <3>2 DEF Contains
  <2> QED BY <2>2, <2>3
<1>5. ASSUME NEW x, Contains(b, x) \/ Contains(t, x) PROVE Contains(s, x)
  <2>1. CASE Contains(b, x)
    <3>1. PICK i \in 1 .. Len(b) : b[i] = x
      BY <2>1 DEF Contains
    <3>2. i \in 1 .. Len(s) /\ s[i] = x
      BY <1>1, <3>1
    <3> QED BY <3>2 DEF Contains
  <2>2. CASE Contains(t, x)
    BY <1>3, <2>2 DEF Contains
  <2> QED BY <1>5, <2>1, <2>2
<1>6. ASSUME IsInjective(s), NEW x, Contains(b, x), Contains(t, x) PROVE FALSE
  <2>1. PICK i \in 1 .. Len(b) : b[i] = x
    BY <1>6 DEF Contains
  <2>2. PICK j \in 1 .. Len(t) : t[j] = x
    BY <1>6 DEF Contains
  <2>3. i \in DOMAIN s /\ j + Len(b) \in DOMAIN s /\ s[i] = s[j + Len(b)]
    BY <1>1, <1>3, <2>1, <2>2
  <2>4. i = j + Len(b)
    BY <1>6, <2>3 DEF IsInjective
  <2> QED BY <1>1, <1>2, <2>1, <2>2, <2>4
<1> QED BY <1>2, <1>3, <1>4, <1>5, <1>6


-----------------------------------------------------------------------------
(* While the queue discards nothing, what a drain runs is still at the     *)
(* head of its queue, and every accepted message waits or was answered.    *)
BatchAtHead ==
  \A q \in Queue : drain[q].at = "run" =>
    drain[q].kind # "summary" /\ Prefix(drain[q].batch, queue[q].items)
KeepInv ==
  /\ BatchAtHead /\ \A q \in Queue : queue[q].overflow = {}
  /\ acceptedAt \in [Message -> Nat] /\ delivered \in [Message -> Nat]
  /\ \A m \in Message : acceptedAt[m] > 0 => Waits(m) \/ delivered[m] > 0

LEMMA KeepStep ==
  ASSUME NoDrops, MaxClears = 0, Counters, IndInv, OneQueue(Now), KeepInv, [Next]_vars
  PROVE  KeepInv'
<1>0. /\ StepShape /\ ~Clears
      /\ acceptedAt \in [Message -> Nat] /\ delivered \in [Message -> Nat]
      /\ \A q \in Queue : queue[q].overflow = {}
      /\ \A q \in Queue : q # registered => queue[q].items = <<>>
      /\ \A q \in Queue : queue[q].items \in Seq(Message) /\ drain[q].batch \in Seq(Message)
  BY StepHasShape, Objects DEF Clears, Counters, KeepInv, OneQueue, DrainType
<1>1. ASSUME NEW q \in Queue, Rests(Now', q)
      PROVE  /\ queue'[q].items = queue[q].items /\ queue'[q].overflow = {}
             /\ drain'[q] = drain[q] \/ drain'[q].at # "run"
  BY <1>0, <1>1 DEF Rests, Now
<1>2. CASE Quiet
  <2>1. \A q \in Queue : /\ queue'[q].items = queue[q].items /\ queue'[q].overflow = {}
                         /\ drain'[q] = drain[q] \/ drain'[q].at # "run"
    BY <1>1, <1>2 DEF Quiet
  <2>2. BatchAtHead'
    BY <2>1 DEF KeepInv, BatchAtHead
  <2>3. \A m : Waits(m)' <=> Waits(m)
    BY <2>1 DEF Waits
  <2> QED BY <1>0, <1>2, <2>1, <2>2, <2>3 DEF KeepInv, Quiet
<1>3. ASSUME NEW k \in Queue, Begins(k) PROVE KeepInv'
  <2>1. queue' = queue /\ UNCHANGED <<acceptedAt, delivered>>
    BY <1>3 DEF Begins
  <2>2. BatchAtHead'
    <3> SUFFICES ASSUME NEW q \in Queue, drain'[q].at = "run"
                 PROVE  drain'[q].kind # "summary" /\ Prefix(drain'[q].batch, queue[q].items)
      BY <2>1 DEF BatchAtHead
    <3>1. CASE q = k
      BY <1>0, <1>3, <3>1 DEF Begins
    <3>2. CASE q # k
      BY <1>3, <3>2 DEF Begins, KeepInv, BatchAtHead
    <3> QED BY <3>1, <3>2
  <2>3. \A m : Waits(m)' <=> Waits(m)
    BY <2>1 DEF Waits
  <2> QED BY <1>0, <2>1, <2>2, <2>3 DEF KeepInv
<1>4. ASSUME NEW m \in Message, NEW k \in Queue, Takes(m, k) PROVE KeepInv'
  <2>1. queue'[k].items = Append(queue[k].items, m) /\ queue'[k].overflow = {}
    <3>1. PICK old \in {queue[k].items, <<>>}, n \in Nat :
                 /\ old = queue[k].items \/ k # registered
                 /\ queue'[k].items = Append(Rest(old, n), m)
                 /\ n = 0 /\ queue'[k].overflow \subseteq queue[k].overflow
      BY <1>4 DEF Takes
    <3>2. old = queue[k].items
      BY <1>0, <3>1
    <3>3. Rest(old, 0) = old
      BY <1>0, <3>2, RestOfAll
    <3> QED BY <1>0, <3>1, <3>2, <3>3
  <2>2. \A q \in Queue : q # k =>
          /\ queue'[q].items = queue[q].items /\ queue'[q].overflow = {}
          /\ drain'[q] = drain[q] \/ drain'[q].at # "run"
    BY <1>1, <1>4 DEF Takes
  <2>3. BatchAtHead'
    <3> SUFFICES ASSUME NEW q \in Queue, drain'[q].at = "run"
                 PROVE  drain'[q].kind # "summary" /\ Prefix(drain'[q].batch, queue'[q].items)
      BY DEF BatchAtHead
    <3>1. CASE q # k
      BY <2>2, <3>1 DEF KeepInv, BatchAtHead
    <3>2. CASE q = k
      <4> DEFINE s == queue[k].items
      <4>1. drain'[k] = drain[k] /\ drain[k].kind # "summary" /\ Prefix(drain[k].batch, s)
        BY <1>4, <3>2 DEF Takes, KeepInv, BatchAtHead
      <4>2. /\ Len(Append(s, m)) = Len(s) + 1 /\ Len(s) \in Nat
            /\ \A i \in 1 .. Len(s) : Append(s, m)[i] = s[i]
        BY <1>0, AppendNew
      <4> HIDE DEF s
      <4>3. Prefix(drain[k].batch, Append(s, m))
        BY <4>1, <4>2 DEF Prefix
      <4> QED BY <2>1, <3>2, <4>1, <4>3 DEF s
    <3> QED BY <3>1, <3>2
  <2>4. \A n : Waits(n) \/ n = m => Waits(n)'
    <3>1. \A n : Contains(queue'[k].items, n) <=> Contains(queue[k].items, n) \/ n = m
      BY <1>0, <2>1, ContainsAppend
    <3> QED BY <2>2, <3>1 DEF Waits
  <2>5. acceptedAt' \in [Message -> Nat] /\ delivered' = delivered
        /\ \A n \in Message : n # m => acceptedAt'[n] = acceptedAt[n]
    BY <1>0, <1>4, AcceptedFinite DEF Takes
  <2>6. \A n \in Message : acceptedAt'[n] > 0 => Waits(n)' \/ delivered'[n] > 0
    BY <2>4, <2>5 DEF KeepInv
  <2>7. \A q \in Queue : queue'[q].overflow = {}
    BY <2>1, <2>2
  <2> QED BY <1>0, <2>3, <2>5, <2>6, <2>7 DEF KeepInv
<1>5. ASSUME NEW k \in Queue, Finishes(k) PROVE KeepInv'
  <2> DEFINE s == queue[k].items
             b == drain[k].batch
             t == queue'[k].items
  <2>1. /\ drain[k].kind # "summary" /\ Split(s, b, t) /\ drain'[k].at # "run"
        /\ queue'[k].overflow = {} /\ acceptedAt' = acceptedAt
        /\ delivered' = [m \in Message |-> IF Contains(b, m) THEN delivered[m] + 1
                                           ELSE delivered[m]]
    BY <1>0, <1>5 DEF Finishes, KeepInv, BatchAtHead, Split, Rest
  <2>2. \A q \in Queue : q # k =>
          /\ queue'[q].items = queue[q].items /\ queue'[q].overflow = {}
          /\ drain'[q] = drain[q] \/ drain'[q].at # "run"
    BY <1>1, <1>5 DEF Finishes
  <2>3. BatchAtHead'
    <3> SUFFICES ASSUME NEW q \in Queue, drain'[q].at = "run"
                 PROVE  drain'[q].kind # "summary" /\ Prefix(drain'[q].batch, queue'[q].items)
      BY DEF BatchAtHead
    <3>1. q # k
      BY <2>1
    <3> QED BY <2>2, <3>1 DEF KeepInv, BatchAtHead
  <2>4. \A n : Waits(n) => Waits(n)' \/ Contains(b, n)
    <3>1. s \in Seq(Message) /\ b \in Seq(Message)
      BY <1>0
    <3> HIDE DEF s, b, t
    <3>2. \A n : Contains(s, n) => Contains(b, n) \/ Contains(t, n)
      BY <2>1, <3>1, ContainsRest
    <3> QED BY <2>2, <3>2 DEF Waits, s, t
  <2>5. delivered' \in [Message -> Nat]
    BY <1>0, <2>1
  <2> HIDE DEF b
  <2>6. ASSUME NEW n \in Message, acceptedAt[n] > 0 PROVE Waits(n)' \/ delivered'[n] > 0
    <3>1. /\ delivered[n] \in Nat /\ (Waits(n) \/ delivered[n] > 0)
          /\ delivered'[n] = IF Contains(b, n) THEN delivered[n] + 1 ELSE delivered[n]
      BY <1>0, <2>1, <2>6 DEF KeepInv
    <3>2. CASE Contains(b, n)
      BY <3>1, <3>2
    <3>3. CASE ~Contains(b, n)
      <4>1. delivered'[n] = delivered[n] /\ (Waits(n) => Waits(n)')
        BY <2>4, <3>1, <3>3
      <4> QED BY <3>1, <4>1
    <3> QED BY <3>2, <3>3
  <2>7. \A q \in Queue : queue'[q].overflow = {}
    BY <2>1, <2>2
  <2> QED BY <1>0, <2>1, <2>3, <2>5, <2>6, <2>7 DEF KeepInv
<1> QED BY <1>0, <1>2, <1>3, <1>4, <1>5 DEF StepShape

LEMMA InitKeep == Init => KeepInv /\ Behind
<1> SUFFICES ASSUME Init PROVE KeepInv /\ Behind
  OBVIOUS
<1>1. /\ acceptedAt = [m \in Message |-> 0] /\ delivered = [m \in Message |-> 0]
      /\ \A q \in Queue : queue[q].overflow = {} /\ drain[q].at = "idle"
  BY IdleDrainType DEF Init, NewQueue
<1> QED BY <1>1 DEF KeepInv, BatchAtHead, Behind

-----------------------------------------------------------------------------
(* A message whose id is in the dedupe cache is the prompt of at most one  *)
(* run that succeeds, however often it arrives, runs fail and are retried, *)
(* the drop policy cuts the queue short under a drain, and clears take the *)
(* object from it.                                                         *)
THEOREM DeliveredAtMostOnce ==
  ASSUME MaxExpiries = 0
  PROVE  Spec => []DeliveredOnce
<1> DEFINE Inv == IndInv /\ Counters /\ OnceInv
<1>1. Init => Inv
  BY InitInv, InitOnce DEF Counters
<1>2. Inv /\ [Next]_vars => Inv'
  BY StepKeepsInv, CountersStep, OnceStep DEF Counters
<1>3. Inv => DeliveredOnce
  BY DEF OnceInv, Counted, DeliveredOnce
<1> HIDE DEF Inv
<1> QED BY <1>1, <1>2, <1>3, PTL DEF Spec

(* Followups run in the order in which the messages were accepted, failed  *)
(* runs, their retries and drops included.  After a clear a drain that     *)
(* goes on with its old object forgets the key's new one, and a third is   *)
(* drained beside it.                                                      *)
THEOREM DeliveredInOrder ==
  ASSUME MaxClears = 0, MaxExpiries = 0
  PROVE  Spec => []DeliveryOrder
<1> DEFINE Inv == IndInv /\ Counters /\ OnceInv /\ OneQueue(Now) /\ Behind
<1>1. Init => Inv
  BY InitInv, InitOnce, InitKeep DEF Counters
<1>2. Inv /\ [Next]_vars => Inv'
  BY StepKeepsInv, CountersStep, OnceStep, StepKeepsOne, BehindStep DEF Counters
<1>3. Inv => DeliveryOrder
  BY DEF Behind, DeliveryOrder, Waits
<1> HIDE DEF Inv
<1> QED BY <1>1, <1>2, <1>3, PTL DEF Spec

(* No interleaving of arrivals with the run that drains the queue loses a  *)
(* message, as long as no drop policy bites and nobody clears the queue.   *)
THEOREM MessagesAreKept ==
  ASSUME NoDrops, MaxClears = 0
  PROVE  Spec => []NothingLost
<1> DEFINE Inv == IndInv /\ Counters /\ OneQueue(Now) /\ KeepInv
<1>1. Init => Inv
  BY InitInv, InitOnce, InitKeep DEF Counters
<1>2. Inv /\ [Next]_vars => Inv'
  BY StepKeepsInv, CountersStep, StepKeepsOne, KeepStep
<1>3. Inv => NothingLost
  <2> SUFFICES ASSUME Inv, NEW m \in Message, acceptedAt[m] > 0, ~(delivered[m] > 0)
               PROVE  \E q \in Queue : Live(q) /\ Contains(queue[q].items, m)
    BY DEF NothingLost
  <2>1. PICK q \in Queue : Contains(queue[q].items, m)
    BY DEF KeepInv, Waits
  <2>2. q = registered
    <3>1. ASSUME q # registered PROVE FALSE
      <4>1. queue[q].items = <<>>
        BY <3>1, Objects DEF OneQueue
      <4> QED BY <2>1, <4>1 DEF Contains
    <3> QED BY <3>1
  <2> QED BY <2>1, <2>2 DEF Live
<1> HIDE DEF Inv
<1> QED BY <1>1, <1>2, <1>3, PTL DEF Spec
=============================================================================
