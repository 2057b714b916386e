------------------------- MODULE CommandQueueProofs -------------------------
(***************************************************************************)
(* Proofs about CommandQueue, for every set of lanes, every finite set of  *)
(* tasks, every assignment of tasks to lanes and any number of restarts.   *)
(*                                                                         *)
(* The invariants are not inductive one by one: a lane is kept busy only   *)
(* because its active set is exact, that is exact only because an entry is *)
(* in the queue iff it is queued, and the cap is kept only because the     *)
(* entries of a queue are distinct, which follows from their arrival       *)
(* order.  Each part is stated over explicit arguments, so that it can     *)
(* also be said of the values a handler hands to drainLane.                *)
(***************************************************************************)
EXTENDS CommandQueue, FiniteSetTheorems, SequenceTheorems, TLAPS

(* The queue of a lane holds the queued entries of that lane, in order of  *)
(* arrival.                                                                *)
QueueInv(q, st, at) ==
  /\ \A l \in Lane : \A i \in 1 .. Len(q[l]) :
       LaneOf[q[l][i]] = l /\ st[q[l][i]] = "queued"
  /\ \A l \in Lane : \A i, j \in 1 .. Len(q[l]) :
       i < j => at[q[l][i]] < at[q[l][j]]
  /\ \A t \in Task : st[t] = "queued" =>
       \E i \in 1 .. Len(q[LaneOf[t]]) : q[LaneOf[t]][i] = t

(* A task has been started once iff it runs or ran to an end.              *)
StartsInv(st, n) ==
  \A t \in Task : n[t] = IF st[t] \in {"running", "resolved", "rejected"} THEN 1 ELSE 0

ActiveInv(act, st, g, gen) ==
  \A l \in Lane :
    act[l] = {t \in Task : LaneOf[t] = l /\ st[t] = "running" /\ g[t] = gen[l]}

OrderInv(st, n, at) ==
  \A t, u \in Task :
    LaneOf[t] = LaneOf[u] /\ st[t] = "queued" /\ n[u] > 0 => at[u] < at[t]

Arrived(l, at) == {u \in Task : LaneOf[u] = l /\ at[u] > 0}

(* Arrival stamps are handed out densely, and only to accepted entries.    *)
StampInv(st, at) ==
  /\ \A t \in Task : at[t] <= Cardinality(Arrived(LaneOf[t], at))
  /\ \A t \in Task : st[t] = "idle" => at[t] = 0

BusyInv(q, act, cap, L) ==
  \A l \in L : q[l] # <<>> => Cardinality(act[l]) >= cap[l]

GenInv == \A t \in Task : genOf[t] <= generation[LaneOf[t]]

-----------------------------------------------------------------------------
(* Dropping the first n elements of a sequence.                            *)
LEMMA SubSeqDrop ==
  ASSUME NEW s \in Seq(Task), NEW n \in 0 .. Len(s)
  PROVE  /\ SubSeq(s, n + 1, Len(s)) \in Seq(Task)
         /\ Len(SubSeq(s, n + 1, Len(s))) = Len(s) - n
         /\ \A i \in 1 .. Len(s) - n : SubSeq(s, n + 1, Len(s))[i] = s[i + n]
<1>1. \A i \in n + 1 .. Len(s) : s[i] \in Task
  OBVIOUS
<1>2. n + 1 \in Int /\ Len(s) \in Int
  OBVIOUS
<1> QED BY <1>1, <1>2, SubSeqProperties

(* Positions in the tail of a sequence are shifted positions.              *)
LEMMA IndexShift ==
  ASSUME NEW n \in Nat, NEW c \in Nat, NEW i \in 1 .. n - c
  PROVE  i + c \in 1 .. n
  OBVIOUS

(* What one run of the loop of pump() does to a lane: it fills the free    *)
(* slots, never more, and stops short of the end of the queue only when    *)
(* the cap is reached.                                                     *)
LEMMA PumpFillsLane ==
  ASSUME NEW q \in Seq(Task), NEW run \in SUBSET Task, NEW cap \in Nat \ {0},
         \A i, j \in 1 .. Len(q) : q[i] = q[j] => i = j,
         \A i \in 1 .. Len(q) : q[i] \notin run
  PROVE  \A n : n = PumpCount(q, run, cap) =>
           /\ n \in 0 .. Len(q)
           /\ n > 0 => Cardinality(run \cup {q[i] : i \in 1 .. n}) <= cap
           /\ n < Len(q) => Cardinality(run \cup {q[i] : i \in 1 .. n}) >= cap
<1> DEFINE n == PumpCount(q, run, cap)
           s == {q[i] : i \in 1 .. n}
           f == [i \in 1 .. n |-> q[i]]
<1>1. IsFiniteSet(run) /\ Cardinality(run) \in Nat
  BY TaskAssumption, FS_Subset, FS_CardinalityType
<1>2. /\ n \in 0 .. Len(q)
      /\ n > 0 => Cardinality(run) + n <= cap
      /\ n < Len(q) => Cardinality(run) + n >= cap
  BY <1>1 DEF PumpCount
<1> HIDE DEF n
<1>3. f \in Bijection(1 .. n, s)
  BY <1>2 DEF Bijection, Injection, Surjection, IsInjective
<1>4. IsFiniteSet(1 .. n) /\ Cardinality(1 .. n) = n
  BY <1>2, FS_Interval
<1>5. IsFiniteSet(s) /\ Cardinality(s) = n
  BY <1>3, <1>4, FS_Bijection DEF ExistsBijection
<1>6. run \cap s = {}
  BY <1>2
<1>7. Cardinality(run \cup s) = Cardinality(run) + n
  <2>1. Cardinality(run \cup s) = Cardinality(run) + Cardinality(s) - Cardinality(run \cap s)
    BY <1>1, <1>5, FS_Union
  <2>2. Cardinality({}) = 0
    BY FS_EmptySet
  <2> HIDE DEF s, f
  <2>3. Cardinality(run \cap s) = 0
    BY <1>6, <2>2, Zenon
  <2>4. n \in Int
    BY <1>2
  <2> QED BY <1>1, <1>5, <2>1, <2>3, <2>4
<1> QED BY <1>2, <1>7 DEF n

(* The values a handler hands to drainLane, before the loop of pump().     *)
DrainPre(L, q, act, st) ==
  /\ L \in SUBSET Lane
  /\ q \in [Lane -> Seq(Task)]
  /\ act \in [Lane -> SUBSET Task]
  /\ st \in [Task -> Status]
  /\ maxConcurrent' \in [Lane -> Nat \ {0}]
  /\ generation' \in [Lane -> Nat]
  /\ enqueuedAt' \in [Task -> Nat]
  /\ QueueInv(q, st, enqueuedAt')
  /\ StartsInv(st, starts)
  /\ ActiveInv(act, st, genOf, generation')
  /\ OrderInv(st, starts, enqueuedAt')
  /\ BusyInv(q, act, maxConcurrent', Lane \ L)

(* What holds after it.                                                    *)
DrainPost(act, st) ==
  /\ queue' \in [Lane -> Seq(Task)]
  /\ active' \in [Lane -> SUBSET Task]
  /\ status' \in [Task -> Status]
  /\ genOf' \in [Task -> Nat]
  /\ starts' \in [Task -> Nat]
  /\ QueueInv(queue', status', enqueuedAt')
  /\ StartsInv(status', starts')
  /\ ActiveInv(active', status', genOf', generation')
  /\ OrderInv(status', starts', enqueuedAt')
  /\ BusyInv(queue', active', maxConcurrent', Lane)
  /\ \A l \in Lane : active'[l] # act[l] =>
       Cardinality(active'[l]) <= maxConcurrent'[l]
  /\ \A l \in Lane : act[l] \subseteq active'[l]
  /\ \A t \in Task : status'[t] = st[t]
                       \/ (st[t] = "queued" /\ status'[t] = "running")
  /\ \A t \in Task : genOf'[t] = genOf[t] \/ genOf'[t] = generation'[LaneOf[t]]
  /\ \A t \in Task : st[t] # "queued" => genOf'[t] = genOf[t]
  /\ \A t \in Task : status'[t] # st[t] => genOf'[t] = generation'[LaneOf[t]]

(* What drainLane makes of the values a handler hands to it.  Every part   *)
(* of the invariant that holds of the staged values holds afterwards, and  *)
(* the drained lanes are busy or empty.                                    *)
LEMMA DrainLanesKeepsInv ==
  ASSUME NEW L, NEW q, NEW act, NEW st,
         TypeOK, DrainPre(L, q, act, st), DrainLanes(L, q, act, st)
  PROVE  DrainPost(act, st)
<1> USE DEF DrainPre
<1> DEFINE count == [l \in Lane |->
                       IF l \in L THEN PumpCount(q[l], act[l], maxConcurrent'[l]) ELSE 0]
           shifted == [l \in Lane |-> {q[l][i] : i \in 1 .. count[l]}]
           started(t) == \E l \in Lane : t \in shifted[l]
<1>1. \A l \in Lane : \A i, j \in 1 .. Len(q[l]) : q[l][i] = q[l][j] => i = j
  <2> SUFFICES ASSUME NEW l \in Lane, NEW i \in 1 .. Len(q[l]), NEW j \in 1 .. Len(q[l]),
                      i < j, q[l][i] = q[l][j]
               PROVE  FALSE
    OBVIOUS
  <2>1. q[l][i] \in Task /\ enqueuedAt'[q[l][i]] \in Nat
    OBVIOUS
  <2>2. enqueuedAt'[q[l][i]] < enqueuedAt'[q[l][j]]
    BY DEF QueueInv
  <2> QED BY <2>1, <2>2
<1>2. \A l \in Lane : \A i \in 1 .. Len(q[l]) : q[l][i] \notin act[l]
  BY DEF QueueInv, ActiveInv
<1>3. \A l \in Lane :
        /\ count[l] \in 0 .. Len(q[l])
        /\ count[l] > 0 => Cardinality(act[l] \cup shifted[l]) <= maxConcurrent'[l]
        /\ l \in L /\ count[l] < Len(q[l]) =>
             Cardinality(act[l] \cup shifted[l]) >= maxConcurrent'[l]
        /\ l \notin L => count[l] = 0
  <2> SUFFICES ASSUME NEW l \in Lane
               PROVE  /\ count[l] \in 0 .. Len(q[l])
                      /\ count[l] > 0 => Cardinality(act[l] \cup shifted[l]) <= maxConcurrent'[l]
                      /\ l \in L /\ count[l] < Len(q[l]) =>
                           Cardinality(act[l] \cup shifted[l]) >= maxConcurrent'[l]
                      /\ l \notin L => count[l] = 0
    OBVIOUS
  <2>1. CASE l \in L
    <3>1. q[l] \in Seq(Task) /\ act[l] \in SUBSET Task /\ maxConcurrent'[l] \in Nat \ {0}
      OBVIOUS
    <3>2. count[l] = PumpCount(q[l], act[l], maxConcurrent'[l])
      BY <2>1
    <3>3. shifted[l] = {q[l][i] : i \in 1 .. count[l]}
      OBVIOUS
    <3> HIDE DEF count, shifted
    <3> QED BY <1>1, <1>2, <2>1, <3>1, <3>2, <3>3, PumpFillsLane
  <2>2. CASE l \notin L
    BY <2>2
  <2> QED BY <2>1, <2>2
<1>4. /\ queue' = [l \in Lane |-> SubSeq(q[l], count[l] + 1, Len(q[l]))]
      /\ active' = [l \in Lane |-> act[l] \cup shifted[l]]
      /\ status' = [t \in Task |-> IF started(t) THEN "running" ELSE st[t]]
      /\ genOf' = [t \in Task |->
                     IF started(t) THEN generation'[LaneOf[t]] ELSE genOf[t]]
      /\ starts' = [t \in Task |-> IF started(t) THEN starts[t] + 1 ELSE starts[t]]
  BY DEF DrainLanes
<1>5. \A l \in Lane : shifted[l] = {q[l][i] : i \in 1 .. count[l]}
  OBVIOUS
<1> HIDE DEF count, shifted
<1>31. \A l \in Lane : count[l] \in Nat /\ Len(q[l]) \in Nat /\ count[l] <= Len(q[l])
  <2> TAKE l \in Lane
  <2>1. q[l] \in Seq(Task)
    OBVIOUS
  <2>2. count[l] \in 0 .. Len(q[l])
    BY <1>3
  <2> QED BY <2>1, <2>2
<1>6. \A l \in Lane : /\ Len(queue'[l]) = Len(q[l]) - count[l]
                      /\ queue'[l] \in Seq(Task)
                      /\ \A i \in 1 .. Len(queue'[l]) : queue'[l][i] = q[l][i + count[l]]
  <2> TAKE l \in Lane
  <2>1. q[l] \in Seq(Task) /\ count[l] \in 0 .. Len(q[l])
    BY <1>3
  <2>2. queue'[l] = SubSeq(q[l], count[l] + 1, Len(q[l]))
    BY <1>4
  <2>3. /\ SubSeq(q[l], count[l] + 1, Len(q[l])) \in Seq(Task)
        /\ Len(SubSeq(q[l], count[l] + 1, Len(q[l]))) = Len(q[l]) - count[l]
        /\ \A i \in 1 .. Len(q[l]) - count[l] :
             SubSeq(q[l], count[l] + 1, Len(q[l]))[i] = q[l][i + count[l]]
    BY <2>1, SubSeqDrop
  <2> QED BY <2>2, <2>3
<1>7. \A l \in Lane : \A i \in 1 .. count[l] : i \in 1 .. Len(q[l])
  BY <1>31
<1>8. \A l \in Lane : \A t \in shifted[l] :
        t \in Task /\ LaneOf[t] = l /\ st[t] = "queued"
  BY <1>5, <1>7 DEF QueueInv
<1> DEFINE S == {t \in Task : started(t)}
<1>9. \A t \in Task : /\ t \in S <=> t \in shifted[LaneOf[t]]
                      /\ t \in S => st[t] = "queued"
                      /\ \A l \in Lane : t \in shifted[l] => t \in S
  BY <1>8, LaneOfAssumption
<1>11. \A t \in Task : /\ status'[t] = IF t \in S THEN "running" ELSE st[t]
                       /\ genOf'[t] = IF t \in S THEN generation'[LaneOf[t]] ELSE genOf[t]
                       /\ starts'[t] = IF t \in S THEN starts[t] + 1 ELSE starts[t]
  BY <1>4
<1> HIDE DEF S
<1>12. \A l \in Lane : active'[l] = act[l] \cup shifted[l]
  BY <1>4
<1>13. queue' \in [Lane -> Seq(Task)]
  BY <1>4, <1>6
<1>14. active' \in [Lane -> SUBSET Task]
  BY <1>4, <1>8
<1>15. status' \in [Task -> Status]
  BY <1>4 DEF Status
<1>16. genOf' \in [Task -> Nat]
  BY <1>4, LaneOfAssumption DEF TypeOK
<1>17. starts' \in [Task -> Nat]
  BY <1>4 DEF TypeOK
<1>18. QueueInv(queue', status', enqueuedAt')
  <2>1. ASSUME NEW l \in Lane, NEW i \in 1 .. Len(queue'[l])
        PROVE  LaneOf[queue'[l][i]] = l /\ status'[queue'[l][i]] = "queued"
    <3>0. /\ Len(queue'[l]) = Len(q[l]) - count[l] /\ count[l] \in Nat /\ Len(q[l]) \in Nat
          /\ queue'[l][i] = q[l][i + count[l]]
      BY <1>6, <1>31
    <3>1. /\ i + count[l] \in 1 .. Len(q[l]) /\ i + count[l] > count[l]
          /\ queue'[l][i] = q[l][i + count[l]]
      BY <3>0, SMTT(20)
    <3> DEFINE t == q[l][i + count[l]]
    <3>2. t \in Task /\ LaneOf[t] = l /\ st[t] = "queued"
      BY <3>1 DEF QueueInv
    <3>3. t \notin shifted[l]
      <4> SUFFICES ASSUME NEW k \in 1 .. count[l], q[l][k] = t PROVE FALSE
        BY <1>5
      <4>1. k \in 1 .. Len(q[l]) /\ k = i + count[l]
        BY <1>1, <1>7, <3>1
      <4> QED BY <1>31, <3>1, <4>1
    <3> QED BY <1>9, <1>11, <3>1, <3>2, <3>3
  <2>2. ASSUME NEW l \in Lane, NEW i \in 1 .. Len(queue'[l]), NEW j \in 1 .. Len(queue'[l]), i < j
        PROVE  enqueuedAt'[queue'[l][i]] < enqueuedAt'[queue'[l][j]]
    <3>1. /\ i + count[l] \in 1 .. Len(q[l]) /\ queue'[l][i] = q[l][i + count[l]]
          /\ j + count[l] \in 1 .. Len(q[l]) /\ queue'[l][j] = q[l][j + count[l]]
          /\ i + count[l] < j + count[l]
      <4>1. /\ Len(queue'[l]) = Len(q[l]) - count[l] /\ count[l] \in Nat /\ Len(q[l]) \in Nat
            /\ queue'[l][i] = q[l][i + count[l]]
            /\ queue'[l][j] = q[l][j + count[l]]
        BY <1>6, <1>31
      <4>2. i + count[l] \in 1 .. Len(q[l]) /\ j + count[l] \in 1 .. Len(q[l])
        <5>1. i \in 1 .. Len(q[l]) - count[l] /\ j \in 1 .. Len(q[l]) - count[l]
          BY <4>1, Zenon
        <5> QED BY <4>1, <5>1, IndexShift
      <4>3. i \in Int /\ j \in Int /\ i + count[l] < j + count[l]
        BY <2>2, <4>1
      <4> QED BY <4>1, <4>2, <4>3
    <3> QED BY <3>1 DEF QueueInv
  <2>3. ASSUME NEW t \in Task, status'[t] = "queued"
        PROVE  \E i \in 1 .. Len(queue'[LaneOf[t]]) : queue'[LaneOf[t]][i] = t
    <3> DEFINE l == LaneOf[t]
    <3>1. l \in Lane
      BY LaneOfAssumption
    <3>2. st[t] = "queued" /\ t \notin shifted[l]
      BY <1>9, <1>11, <2>3
    <3>3. PICK j \in 1 .. Len(q[l]) : q[l][j] = t
      BY <3>1, <3>2 DEF QueueInv
    <3>4. j > count[l]
      BY <1>5, <1>31, <3>1, <3>2, <3>3
    <3>5. /\ j - count[l] \in 1 .. Len(queue'[l])
          /\ queue'[l][j - count[l]] = q[l][(j - count[l]) + count[l]]
          /\ (j - count[l]) + count[l] = j
      <4>1. /\ Len(queue'[l]) = Len(q[l]) - count[l] /\ count[l] \in Nat /\ Len(q[l]) \in Nat
            /\ \A i \in 1 .. Len(queue'[l]) : queue'[l][i] = q[l][i + count[l]]
        BY <1>6, <1>31, <3>1
      <4>2. j - count[l] \in 1 .. Len(queue'[l]) /\ (j - count[l]) + count[l] = j
        BY <3>4, <4>1
      <4> QED BY <4>1, <4>2
    <3> QED BY <3>3, <3>5
  <2> QED BY <2>1, <2>2, <2>3 DEF QueueInv
<1>19. StartsInv(status', starts')
  <2> SUFFICES ASSUME NEW t \in Task
               PROVE  starts'[t] = IF status'[t] \in {"running", "resolved", "rejected"}
                                   THEN 1 ELSE 0
    BY DEF StartsInv
  <2>1. CASE t \in S
    <3>1. st[t] = "queued" /\ status'[t] = "running" /\ starts'[t] = starts[t] + 1
      BY <1>9, <1>11, <2>1
    <3>2. starts[t] = 0
      BY <3>1 DEF StartsInv
    <3> QED BY <3>1, <3>2
  <2>2. CASE t \notin S
    BY <1>11, <2>2 DEF StartsInv
  <2> QED BY <2>1, <2>2
<1>20. ActiveInv(active', status', genOf', generation')
  <2> SUFFICES ASSUME NEW l \in Lane, NEW t \in Task
               PROVE  t \in active'[l] <=> /\ LaneOf[t] = l
                                           /\ status'[t] = "running"
                                           /\ genOf'[t] = generation'[l]
    BY <1>14 DEF ActiveInv
  <2>1. CASE t \in S
    <3>1. st[t] = "queued" /\ status'[t] = "running" /\ genOf'[t] = generation'[LaneOf[t]]
      BY <1>9, <1>11, <2>1
    <3>2. t \notin act[l]
      BY <3>1 DEF ActiveInv
    <3>3. t \in shifted[l] <=> LaneOf[t] = l
      BY <1>8, <1>9, <2>1
    <3> QED BY <1>12, <3>1, <3>2, <3>3
  <2>2. CASE t \notin S
    <3>1. status'[t] = st[t] /\ genOf'[t] = genOf[t]
      BY <1>11, <2>2
    <3>2. t \notin shifted[l]
      BY <1>9, <2>2
    <3>3. t \in act[l] <=> LaneOf[t] = l /\ st[t] = "running" /\ genOf[t] = generation'[l]
      BY DEF ActiveInv
    <3> QED BY <1>12, <3>1, <3>2, <3>3
  <2> QED BY <2>1, <2>2
<1>21. OrderInv(status', starts', enqueuedAt')
  <2> SUFFICES ASSUME NEW t \in Task, NEW u \in Task, LaneOf[t] = LaneOf[u],
                      status'[t] = "queued", starts'[u] > 0
               PROVE  enqueuedAt'[u] < enqueuedAt'[t]
    BY DEF OrderInv
  <2>1. st[t] = "queued" /\ t \notin S
    BY <1>11
  <2>2. CASE u \notin S
    BY <1>11, <2>1, <2>2 DEF OrderInv
  <2>3. CASE u \in S
    <3> DEFINE l == LaneOf[u]
    <3>1. l \in Lane
      BY LaneOfAssumption
    <3>2. PICK i \in 1 .. count[l] : q[l][i] = u
      BY <1>5, <1>9, <2>3, <3>1
    <3>3. PICK j \in 1 .. Len(q[l]) : q[l][j] = t
      BY <2>1 DEF QueueInv
    <3>4. j > count[l]
      <4>1. t \notin shifted[l]
        BY <1>9, <2>1
      <4>2. j \notin 1 .. count[l]
        BY <1>5, <3>1, <3>3, <4>1
      <4> QED BY <1>31, <3>1, <4>2
    <3>5. i \in 1 .. Len(q[l]) /\ i < j
      BY <1>7, <1>31, <3>1, <3>4
    <3> QED BY <3>1, <3>2, <3>3, <3>5 DEF QueueInv
  <2> QED BY <2>2, <2>3
<1>22. BusyInv(queue', active', maxConcurrent', Lane)
  <2> SUFFICES ASSUME NEW l \in Lane, queue'[l] # <<>>
               PROVE  Cardinality(active'[l]) >= maxConcurrent'[l]
    BY DEF BusyInv
  <2>1. queue'[l] \in Seq(Task) /\ Len(queue'[l]) > 0
    BY <1>6
  <2>2. count[l] < Len(q[l])
    BY <1>31, <1>6, <2>1
  <2>3. q[l] # <<>>
    BY <1>31, <2>2
  <2>4. CASE l \in L
    BY <1>3, <1>12, <2>2, <2>4
  <2>5. CASE l \notin L
    <3>1. count[l] = 0
      BY <1>3, <2>5
    <3>2. shifted[l] = {}
      <4>1. 1 .. count[l] = {}
        BY <3>1
      <4> QED BY <1>5, <4>1
    <3>3. active'[l] = act[l]
      BY <1>12, <3>2
    <3> QED BY <2>3, <2>5, <3>3 DEF BusyInv
  <2> QED BY <2>4, <2>5
<1>23. \A l \in Lane : active'[l] # act[l] => Cardinality(active'[l]) <= maxConcurrent'[l]
  <2> SUFFICES ASSUME NEW l \in Lane, active'[l] # act[l]
               PROVE  Cardinality(active'[l]) <= maxConcurrent'[l]
    OBVIOUS
  <2>1. count[l] # 0
    <3> SUFFICES ASSUME count[l] = 0 PROVE shifted[l] = {}
      BY <1>12
    <3>1. 1 .. count[l] = {}
      OBVIOUS
    <3> QED BY <1>5, <3>1
  <2>2. count[l] > 0
    BY <1>31, <2>1
  <2> QED BY <1>3, <1>12, <2>2
<1>24. \A l \in Lane : act[l] \subseteq active'[l]
  BY <1>12
<1>25. \A t \in Task : status'[t] = st[t] \/ (st[t] = "queued" /\ status'[t] = "running")
  BY <1>9, <1>11
<1>26. \A t \in Task : genOf'[t] = genOf[t] \/ genOf'[t] = generation'[LaneOf[t]]
  BY <1>11
<1>27. \A t \in Task : st[t] # "queued" => genOf'[t] = genOf[t]
  BY <1>9, <1>11
<1>28. \A t \in Task : status'[t] # st[t] => genOf'[t] = generation'[LaneOf[t]]
  BY <1>11
<1> QED
  BY <1>13, <1>14, <1>15, <1>16, <1>17, <1>18, <1>19,
     <1>20, <1>21, <1>22, <1>23, <1>24, <1>25, <1>26, <1>27, <1>28 DEF DrainPost

-----------------------------------------------------------------------------
(* The inductive invariant: types and the parts defined above.             *)
IndInv ==
  /\ TypeOK
  /\ QueueInv(queue, status, enqueuedAt)
  /\ StartsInv(status, starts)
  /\ ActiveInv(active, status, genOf, generation)
  /\ OrderInv(status, starts, enqueuedAt)
  /\ StampInv(status, enqueuedAt)
  /\ BusyInv(queue, active, maxConcurrent, Lane)
  /\ GenInv

(* The queue starts in the invariant: every lane is empty and idle.        *)
LEMMA InitIndInv == Init => IndInv
<1> SUFFICES ASSUME Init PROVE IndInv
  OBVIOUS
<1>1. TypeOK
  <2>0. <<>> \in Seq(Task)
    OBVIOUS
  <2>1. queue \in [Lane -> Seq(Task)]
    BY <2>0 DEF Init
  <2>4. active \in [Lane -> SUBSET Task] /\ gatewayDraining \in BOOLEAN
    BY DEF Init
  <2>5. maxConcurrent \in [Lane -> Nat \ {0}] /\ generation \in [Lane -> Nat]
    BY DEF Init
  <2>2. /\ status \in [Task -> Status]
        /\ genOf \in [Task -> Nat]
        /\ enqueuedAt \in [Task -> Nat]
        /\ starts \in [Task -> Nat]
    BY DEF Init, Status
  <2>3. waiter \in [Waiter -> [state : WaiterState, ids : SUBSET Task]]
    BY DEF Init, WaiterState
  <2> QED BY <2>1, <2>2, <2>3, <2>4, <2>5 DEF TypeOK
<1>2. QueueInv(queue, status, enqueuedAt)
  BY LaneOfAssumption DEF Init, QueueInv
<1>3. StartsInv(status, starts)
  BY DEF Init, StartsInv
<1>4. ActiveInv(active, status, genOf, generation)
  BY DEF Init, ActiveInv
<1>5. OrderInv(status, starts, enqueuedAt)
  BY DEF Init, OrderInv
<1>6. StampInv(status, enqueuedAt)
  <2>1. \A l : IsFiniteSet(Arrived(l, enqueuedAt)) /\ Cardinality(Arrived(l, enqueuedAt)) \in Nat
    BY TaskAssumption, FS_Subset, FS_CardinalityType DEF Arrived
  <2> QED BY <2>1 DEF Init, StampInv
<1>7. BusyInv(queue, active, maxConcurrent, Lane)
  BY DEF Init, BusyInv
<1>8. GenInv
  BY LaneOfAssumption DEF Init, GenInv
<1> QED BY <1>1, <1>2, <1>3, <1>4, <1>5, <1>6, <1>7, <1>8 DEF IndInv

(* What a position in a queue says about the entry it holds.               *)
LEMMA QueuedFacts ==
  ASSUME IndInv, NEW m \in Lane
  PROVE  /\ queue[m] \in Seq(Task)
         /\ Len(queue[m]) \in Nat
         /\ \A i \in 1 .. Len(queue[m]) :
              /\ queue[m][i] \in Task
              /\ LaneOf[queue[m][i]] = m
              /\ status[queue[m][i]] = "queued"
<1>1. queue[m] \in Seq(Task)
  BY DEF IndInv, TypeOK
<1>2. \A i \in 1 .. Len(queue[m]) : queue[m][i] \in Task
  BY <1>1
<1>3. \A i \in 1 .. Len(queue[m]) : LaneOf[queue[m][i]] = m /\ status[queue[m][i]] = "queued"
  BY DEF IndInv, QueueInv
<1> QED BY <1>1, <1>2, <1>3

(* A task only ever gets the generation its lane is in.                    *)
LEMMA GenKept ==
  ASSUME GenInv, generation' \in [Lane -> Nat],
         genOf \in [Task -> Nat], generation \in [Lane -> Nat],
         \A l \in Lane : generation[l] <= generation'[l],
         \A t \in Task : genOf'[t] = genOf[t] \/ genOf'[t] = generation'[LaneOf[t]]
  PROVE  GenInv'
<1> SUFFICES ASSUME NEW t \in Task PROVE genOf'[t] <= generation'[LaneOf[t]]
  BY DEF GenInv
<1>1. LaneOf[t] \in Lane /\ genOf[t] <= generation[LaneOf[t]]
  BY LaneOfAssumption DEF GenInv
<1>2. /\ generation[LaneOf[t]] \in Nat /\ generation'[LaneOf[t]] \in Nat
      /\ genOf[t] \in Nat /\ generation[LaneOf[t]] <= generation'[LaneOf[t]]
  BY <1>1
<1> QED BY <1>1, <1>2

(* Positions after Append: the old ones, and one for the new entry.        *)
LEMMA AppendIndex ==
  ASSUME NEW s \in Seq(Task), NEW e \in Task
  PROVE  \A i \in 1 .. Len(Append(s, e)) :
           \/ i = Len(s) + 1 /\ Append(s, e)[i] = e
           \/ i \in 1 .. Len(s) /\ Append(s, e)[i] = s[i]
<1>1. Len(s) \in Nat /\ Len(Append(s, e)) = Len(s) + 1
  OBVIOUS
<1>2. Append(s, e)[Len(s) + 1] = e /\ \A i \in 1 .. Len(s) : Append(s, e)[i] = s[i]
  BY AppendProperties
<1>3. \A i \in 1 .. Len(s) + 1 : i = Len(s) + 1 \/ i \in 1 .. Len(s)
  BY <1>1
<1> QED BY <1>1, <1>2, <1>3

(* enqueueCommandInLane: the new entry gets the largest stamp of its lane. *)
LEMMA EnqueueKeepsInv ==
  ASSUME IndInv, NEW t \in Task, EnqueueCommandInLane(t)
  PROVE  IndInv' /\ DrainPost(active, [status EXCEPT ![t] = "queued"])
<1> DEFINE l == LaneOf[t]
           k == 1 + Cardinality(Arrived(l, enqueuedAt))
           q == [queue EXCEPT ![l] = Append(@, t)]
           st == [status EXCEPT ![t] = "queued"]
<1>1. TypeOK /\ l \in Lane
  BY LaneOfAssumption DEF IndInv
<1>2. /\ status[t] = "idle"
      /\ enqueuedAt' = [enqueuedAt EXCEPT ![t] = k]
      /\ UNCHANGED <<maxConcurrent, generation, gatewayDraining, waiter>>
      /\ DrainLanes({l}, q, active, st)
  BY DEF EnqueueCommandInLane, Arrived
<1>3. \A m : IsFiniteSet(Arrived(m, enqueuedAt)) /\ Cardinality(Arrived(m, enqueuedAt)) \in Nat
  BY TaskAssumption, FS_Subset, FS_CardinalityType DEF Arrived
<1>4. k \in Nat /\ k > 0 /\ enqueuedAt' \in [Task -> Nat]
  BY <1>1, <1>2, <1>3 DEF TypeOK
<1>5. \A u \in Task : /\ u # t => enqueuedAt'[u] = enqueuedAt[u] /\ st[u] = status[u]
                      /\ enqueuedAt'[t] = k /\ st[t] = "queued"
  BY <1>1, <1>2 DEF TypeOK
<1>6. \A u \in Task : LaneOf[u] = l => enqueuedAt[u] \in Nat /\ enqueuedAt[u] < k
  BY <1>1, <1>3 DEF IndInv, StampInv, TypeOK
<1>7. /\ q \in [Lane -> Seq(Task)] /\ st \in [Task -> Status]
      /\ \A m \in Lane : m # l => q[m] = queue[m]
      /\ Len(q[l]) = Len(queue[l]) + 1
      /\ q[l][Len(queue[l]) + 1] = t
      /\ \A i \in 1 .. Len(queue[l]) : q[l][i] = queue[l][i]
  BY <1>1, AppendProperties DEF TypeOK, Status
<1>70. \A m \in Lane : \A i \in 1 .. Len(q[m]) :
         \/ m = l /\ i = Len(queue[l]) + 1 /\ q[m][i] = t
         \/ i \in 1 .. Len(queue[m]) /\ q[m][i] = queue[m][i]
  <2> SUFFICES ASSUME NEW m \in Lane, NEW i \in 1 .. Len(q[m])
               PROVE  \/ m = l /\ i = Len(queue[l]) + 1 /\ q[m][i] = t
                      \/ i \in 1 .. Len(queue[m]) /\ q[m][i] = queue[m][i]
    OBVIOUS
  <2>1. queue[m] \in Seq(Task)
    BY QueuedFacts
  <2>2. CASE m = l
    <3>1. q[m] = Append(queue[m], t)
      BY <1>1, <2>2 DEF TypeOK
    <3> HIDE DEF q, l
    <3> QED BY <2>1, <2>2, <3>1, AppendIndex
  <2>3. CASE m # l
    <3>1. q[m] = queue[m]
      BY <1>7, <2>3
    <3> QED BY <3>1
  <2> QED BY <2>2, <2>3
<1> HIDE DEF k, q, st
<1>8. QueueInv(q, st, enqueuedAt')
  <2>1. ASSUME NEW m \in Lane, NEW i \in 1 .. Len(q[m])
        PROVE  LaneOf[q[m][i]] = m /\ st[q[m][i]] = "queued"
    <3>1. CASE m = l /\ i = Len(queue[l]) + 1 /\ q[m][i] = t
      BY <1>5, <3>1
    <3>2. CASE i \in 1 .. Len(queue[m]) /\ q[m][i] = queue[m][i]
      BY <1>2, <1>5, <3>2, QueuedFacts
    <3> QED BY <1>70, <3>1, <3>2
  <2>2. ASSUME NEW m \in Lane, NEW i \in 1 .. Len(q[m]), NEW j \in 1 .. Len(q[m]), i < j
        PROVE  enqueuedAt'[q[m][i]] < enqueuedAt'[q[m][j]]
    <3>0. queue[m] \in Seq(Task) /\ Len(queue[m]) \in Nat /\ Len(q[m]) \in Nat
      BY <1>7, QueuedFacts
    <3>1. i # Len(queue[m]) + 1 \/ m # l
      <4>1. m = l => Len(q[m]) = Len(queue[m]) + 1
        BY <1>7
      <4> QED BY <2>2, <3>0, <4>1
    <3>2. i \in 1 .. Len(queue[m]) /\ q[m][i] = queue[m][i]
      BY <1>70, <3>1
    <3>3. queue[m][i] \in Task /\ LaneOf[queue[m][i]] = m /\ queue[m][i] # t
      BY <1>2, <3>2, QueuedFacts
    <3>4. enqueuedAt'[q[m][i]] = enqueuedAt[queue[m][i]]
      BY <1>5, <3>2, <3>3
    <3>5. CASE m = l /\ j = Len(queue[l]) + 1 /\ q[m][j] = t
      BY <1>5, <1>6, <3>3, <3>4, <3>5
    <3>6. CASE j \in 1 .. Len(queue[m]) /\ q[m][j] = queue[m][j]
      <4>1. queue[m][j] \in Task /\ queue[m][j] # t
        BY <1>2, <3>6, QueuedFacts
      <4>2. enqueuedAt[queue[m][i]] < enqueuedAt[queue[m][j]]
        BY <2>2, <3>2, <3>6 DEF IndInv, QueueInv
      <4> QED BY <1>5, <3>4, <3>6, <4>1, <4>2
    <3> QED BY <1>70, <3>5, <3>6
  <2>3. ASSUME NEW u \in Task, st[u] = "queued"
        PROVE  \E i \in 1 .. Len(q[LaneOf[u]]) : q[LaneOf[u]][i] = u
    <3>1. LaneOf[u] \in Lane /\ queue[LaneOf[u]] \in Seq(Task)
      BY <1>1, LaneOfAssumption DEF TypeOK
    <3>2. CASE u = t
      BY <1>1, <1>7, <3>1, <3>2
    <3>3. CASE u # t
      <4>1. PICK i \in 1 .. Len(queue[LaneOf[u]]) : queue[LaneOf[u]][i] = u
        BY <1>5, <2>3, <3>3 DEF IndInv, QueueInv
      <4>2. i \in 1 .. Len(q[LaneOf[u]]) /\ q[LaneOf[u]][i] = u
        BY <1>7, <3>1, <4>1
      <4> QED BY <4>2
    <3> QED BY <3>2, <3>3
  <2> QED BY <2>1, <2>2, <2>3 DEF QueueInv
<1>9. StartsInv(st, starts)
  BY <1>2, <1>5 DEF IndInv, StartsInv
<1>10. ActiveInv(active, st, genOf, generation')
  BY <1>2, <1>5 DEF IndInv, ActiveInv
<1>11. OrderInv(st, starts, enqueuedAt')
  <2> SUFFICES ASSUME NEW u \in Task, NEW v \in Task, LaneOf[u] = LaneOf[v],
                      st[u] = "queued", starts[v] > 0
               PROVE  enqueuedAt'[v] < enqueuedAt'[u]
    BY DEF OrderInv
  <2>1. v # t
    BY <1>2 DEF IndInv, StartsInv
  <2>2. CASE u = t
    BY <1>5, <1>6, <2>1, <2>2
  <2>3. CASE u # t
    BY <1>5, <2>1, <2>3 DEF IndInv, OrderInv
  <2> QED BY <2>2, <2>3
<1>12. BusyInv(q, active, maxConcurrent', Lane \ {l})
  BY <1>2, <1>7 DEF IndInv, BusyInv
<1>13. DrainPre({l}, q, active, st)
  BY <1>1, <1>2, <1>4, <1>7, <1>8, <1>9, <1>10, <1>11, <1>12 DEF DrainPre, TypeOK
<1>131. DrainPost(active, st)
  BY <1>1, <1>2, <1>13, DrainLanesKeepsInv
<1>132. TypeOK'
  BY <1>1, <1>2, <1>4, <1>131 DEF TypeOK, DrainPost
<1>14. StampInv(status', enqueuedAt')
  <2>1. ASSUME NEW u \in Task
        PROVE  enqueuedAt'[u] <= Cardinality(Arrived(LaneOf[u], enqueuedAt'))
    <3>1. CASE LaneOf[u] = l
      <4>1. t \notin Arrived(l, enqueuedAt)
        BY <1>2 DEF IndInv, StampInv, Arrived
      <4>2. Arrived(l, enqueuedAt') = Arrived(l, enqueuedAt) \cup {t}
        BY <1>1, <1>4, <1>5 DEF Arrived
      <4>3. Cardinality(Arrived(l, enqueuedAt')) = k
        BY <1>3, <4>1, <4>2, FS_AddElement DEF k
      <4> QED BY <1>4, <1>5, <1>6, <3>1, <4>3
    <3>2. CASE LaneOf[u] # l
      <4>1. Arrived(LaneOf[u], enqueuedAt') = Arrived(LaneOf[u], enqueuedAt)
        BY <1>5, <3>2 DEF Arrived
      <4> QED BY <1>5, <3>2, <4>1 DEF IndInv, StampInv
    <3> QED BY <3>1, <3>2
  <2>2. ASSUME NEW u \in Task, status'[u] = "idle"
        PROVE  enqueuedAt'[u] = 0
    BY <1>5, <1>131, <2>2 DEF IndInv, StampInv, DrainPost
  <2> QED BY <2>1, <2>2 DEF StampInv
<1>15. GenInv'
  BY <1>1, <1>2, <1>131, GenKept DEF IndInv, TypeOK, DrainPost
<1>16. IndInv'
  BY <1>2, <1>131, <1>132, <1>14, <1>15 DEF IndInv, DrainPost
<1> QED BY <1>131, <1>16 DEF st

(* notifyActiveTaskWaiters keeps the waiters well typed.                   *)
LEMMA NotifiedType ==
  ASSUME TypeOK, NEW act
  PROVE  /\ Notified(act) \in [Waiter -> [state : WaiterState, ids : SUBSET Task]]
         /\ \A w \in Waiter : Notified(act)[w].ids = waiter[w].ids
<1> SUFFICES ASSUME NEW w \in Waiter
             PROVE  /\ Notified(act)[w] \in [state : WaiterState, ids : SUBSET Task]
                    /\ Notified(act)[w].ids = waiter[w].ids
  BY DEF Notified
<1>1. waiter[w] \in [state : WaiterState, ids : SUBSET Task]
  BY DEF TypeOK
<1>2. [waiter[w] EXCEPT !.state = "drained"] \in [state : WaiterState, ids : SUBSET Task]
  BY <1>1 DEF WaiterState
<1>3. [waiter[w] EXCEPT !.state = "drained"].ids = waiter[w].ids
  BY <1>1
<1> QED BY <1>1, <1>2, <1>3 DEF Notified

(* What the handlers that end in drainLane have in common.                 *)
LEMMA DrainKeepsInv ==
  ASSUME IndInv, NEW L, NEW q, NEW act, NEW st,
         DrainPre(L, q, act, st), DrainLanes(L, q, act, st),
         \A l \in Lane : generation[l] <= generation'[l],
         enqueuedAt' = enqueuedAt,
         \A t \in Task : st[t] = "idle" => status[t] = "idle",
         gatewayDraining' \in BOOLEAN,
         waiter' \in [Waiter -> [state : WaiterState, ids : SUBSET Task]]
  PROVE  IndInv' /\ DrainPost(act, st)
<1>1. DrainPost(act, st)
  BY DrainLanesKeepsInv DEF IndInv
<1>2. TypeOK'
  BY <1>1 DEF DrainPre, DrainPost, TypeOK
<1>3. StampInv(status', enqueuedAt')
  BY <1>1 DEF IndInv, StampInv, DrainPost
<1>4. GenInv'
  BY <1>1, GenKept DEF IndInv, TypeOK, DrainPre, DrainPost
<1> QED BY <1>1, <1>2, <1>3, <1>4 DEF IndInv, DrainPost

(* The completion of a task of the current generation.                     *)
LEMMA CompleteCurrentKeepsInv ==
  ASSUME IndInv, NEW t \in Task, NEW o \in {"resolved", "rejected"}, CompleteCurrent(t, o)
  PROVE  /\ IndInv'
         /\ DrainPost([active EXCEPT ![LaneOf[t]] = @ \ {t}], [status EXCEPT ![t] = o])
<1> DEFINE l == LaneOf[t]
           freed == [active EXCEPT ![l] = @ \ {t}]
           st == [status EXCEPT ![t] = o]
<1>1. TypeOK /\ l \in Lane
  BY LaneOfAssumption DEF IndInv
<1>2. /\ status[t] = "running" /\ genOf[t] = generation[l]
      /\ waiter' = Notified(freed)
      /\ UNCHANGED <<maxConcurrent, generation, gatewayDraining, enqueuedAt>>
      /\ DrainLanes({l}, queue, freed, st)
  BY DEF CompleteCurrent
<1>3. /\ freed \in [Lane -> SUBSET Task] /\ st \in [Task -> Status]
      /\ \A m \in Lane : freed[m] = IF m = l THEN active[m] \ {t} ELSE active[m]
      /\ \A u \in Task : st[u] = IF u = t THEN o ELSE status[u]
  BY <1>1 DEF TypeOK, Status
<1> HIDE DEF freed, st
<1>4. QueueInv(queue, st, enqueuedAt')
  <2>1. \A m \in Lane : \A i \in 1 .. Len(queue[m]) :
          LaneOf[queue[m][i]] = m /\ st[queue[m][i]] = "queued"
    BY <1>2, <1>3, QueuedFacts
  <2>2. \A u \in Task : st[u] = "queued" => status[u] = "queued"
    BY <1>3
  <2> QED BY <1>2, <2>1, <2>2 DEF IndInv, QueueInv
<1>5. StartsInv(st, starts)
  <2> SUFFICES ASSUME NEW u \in Task
               PROVE  starts[u] = IF st[u] \in {"running", "resolved", "rejected"} THEN 1 ELSE 0
    BY DEF StartsInv
  <2> QED BY <1>2, <1>3 DEF IndInv, StartsInv
<1>6. ActiveInv(freed, st, genOf, generation')
  <2> SUFFICES ASSUME NEW m \in Lane, NEW u \in Task
               PROVE  u \in freed[m] <=> /\ LaneOf[u] = m /\ st[u] = "running"
                                         /\ genOf[u] = generation[m]
    BY <1>2, <1>3 DEF ActiveInv
  <2>1. u \in active[m] <=> LaneOf[u] = m /\ status[u] = "running" /\ genOf[u] = generation[m]
    BY DEF IndInv, ActiveInv
  <2> QED BY <1>3, <2>1
<1>7. OrderInv(st, starts, enqueuedAt')
  BY <1>2, <1>3 DEF IndInv, OrderInv
<1>8. BusyInv(queue, freed, maxConcurrent', Lane \ {l})
  BY <1>2, <1>3 DEF IndInv, BusyInv
<1>9. DrainPre({l}, queue, freed, st)
  BY <1>1, <1>2, <1>3, <1>4, <1>5, <1>6, <1>7, <1>8 DEF DrainPre, TypeOK
<1>10. waiter' \in [Waiter -> [state : WaiterState, ids : SUBSET Task]]
  BY <1>1, <1>2, NotifiedType
<1>11. /\ \A m \in Lane : generation[m] <= generation'[m]
       /\ gatewayDraining' \in BOOLEAN
  BY <1>1, <1>2 DEF TypeOK
<1>12. \A u \in Task : st[u] = "idle" => status[u] = "idle"
  BY <1>3
<1>13. IndInv' /\ DrainPost(freed, st)
  BY <1>2, <1>9, <1>10, <1>11, <1>12, DrainKeepsInv
<1> QED BY <1>13 DEF freed, st

(* setCommandLaneConcurrency: the raw argument is clamped, then drain.     *)
LEMMA SetConcurrencyKeepsInv ==
  ASSUME IndInv, NEW l \in Lane, NEW n \in Concurrency, SetCommandLaneConcurrency(l, n)
  PROVE  IndInv' /\ DrainPost(active, status)
<1>1. TypeOK /\ n \in Nat
  BY ConcurrencyAssumption DEF IndInv
<1>2. /\ maxConcurrent' = [maxConcurrent EXCEPT ![l] = IF n < 1 THEN 1 ELSE n]
      /\ UNCHANGED <<generation, gatewayDraining, enqueuedAt, waiter>>
      /\ DrainLanes({l}, queue, active, status)
  BY DEF SetCommandLaneConcurrency
<1>3. /\ maxConcurrent' \in [Lane -> Nat \ {0}]
      /\ \A m \in Lane : m # l => maxConcurrent'[m] = maxConcurrent[m]
  BY <1>1, <1>2 DEF TypeOK
<1>4. BusyInv(queue, active, maxConcurrent', Lane \ {l})
  BY <1>3 DEF IndInv, BusyInv
<1>5. DrainPre({l}, queue, active, status)
  BY <1>1, <1>2, <1>3, <1>4 DEF DrainPre, IndInv, TypeOK
<1>6. /\ \A m \in Lane : generation[m] <= generation'[m]
      /\ gatewayDraining' \in BOOLEAN
      /\ waiter' \in [Waiter -> [state : WaiterState, ids : SUBSET Task]]
  BY <1>1, <1>2 DEF TypeOK
<1> QED BY <1>2, <1>5, <1>6, DrainKeepsInv

(* resetAllLanes: fresh generations without active tasks, then drain.      *)
LEMMA ResetKeepsInv ==
  ASSUME IndInv, ResetAllLanes
  PROVE  IndInv' /\ DrainPost([l \in Lane |-> {}], status)
<1> DEFINE idle == [l \in Lane |-> {}]
           L == {l \in Lane : queue[l] # <<>>}
<1>1. TypeOK
  BY DEF IndInv
<1>2. /\ gatewayDraining' = FALSE
      /\ generation' = [l \in Lane |-> generation[l] + 1]
      /\ UNCHANGED <<maxConcurrent, enqueuedAt>>
      /\ DrainLanes(L, queue, idle, status)
      /\ waiter' = Notified(active')
  BY DEF ResetAllLanes
<1>3. /\ generation' \in [Lane -> Nat]
      /\ \A l \in Lane : generation[l] \in Nat /\ generation'[l] = generation[l] + 1
  BY <1>1, <1>2 DEF TypeOK
<1>4. ActiveInv(idle, status, genOf, generation')
  <2> SUFFICES ASSUME NEW l \in Lane, NEW t \in Task, LaneOf[t] = l, genOf[t] = generation'[l]
               PROVE  FALSE
    BY DEF ActiveInv
  <2>1. genOf[t] <= generation[l] /\ genOf[t] \in Nat
    BY <1>1 DEF IndInv, GenInv, TypeOK
  <2> QED BY <1>3, <2>1
<1>5. BusyInv(queue, idle, maxConcurrent', Lane \ L)
  BY DEF BusyInv
<1>6. DrainPre(L, queue, idle, status)
  BY <1>1, <1>2, <1>3, <1>4, <1>5 DEF DrainPre, IndInv, TypeOK
<1>7. waiter' \in [Waiter -> [state : WaiterState, ids : SUBSET Task]]
  BY <1>1, <1>2, NotifiedType
<1>8. \A l \in Lane : generation[l] <= generation'[l]
  BY <1>3
<1> HIDE DEF L
<1> QED BY <1>2, <1>6, <1>7, <1>8, DrainKeepsInv

(* A handler that changes neither a queue nor what runs: an entry may only *)
(* leave the idle or the running state for a settled one.                  *)
LEMMA SettleKeepsInv ==
  ASSUME IndInv, NEW t \in Task, NEW o \in Settled,
         \/ status[t] = "idle" /\ o = "refused"
         \/ /\ status[t] = "running" /\ genOf[t] # generation[LaneOf[t]]
            /\ o \in {"resolved", "rejected"},
         status' = [status EXCEPT ![t] = o],
         UNCHANGED <<queue, active, maxConcurrent, generation, gatewayDraining,
                     genOf, enqueuedAt, starts, waiter>>
  PROVE  IndInv'
<1>1. TypeOK
  BY DEF IndInv
<1>2. /\ status' \in [Task -> Status]
      /\ \A u \in Task : status'[u] = IF u = t THEN o ELSE status[u]
      /\ o # "queued" /\ o # "running" /\ o # "idle"
  BY <1>1 DEF TypeOK, Status, Settled
<1>3. TypeOK'
  BY <1>1, <1>2 DEF TypeOK
<1>4. QueueInv(queue', status', enqueuedAt')
  <2>1. \A m \in Lane : \A i \in 1 .. Len(queue[m]) :
          LaneOf[queue[m][i]] = m /\ status'[queue[m][i]] = "queued"
    BY <1>2, QueuedFacts
  <2>2. \A u \in Task : status'[u] = "queued" => status[u] = "queued"
    BY <1>2
  <2> QED BY <2>1, <2>2 DEF IndInv, QueueInv
<1>5. StartsInv(status', starts')
  <2> SUFFICES ASSUME NEW u \in Task
               PROVE  starts[u] = IF status'[u] \in {"running", "resolved", "rejected"}
                                  THEN 1 ELSE 0
    BY DEF StartsInv
  <2>1. starts[u] = IF status[u] \in {"running", "resolved", "rejected"} THEN 1 ELSE 0
    BY DEF IndInv, StartsInv
  <2> QED BY <1>2, <2>1
<1>6. ActiveInv(active', status', genOf', generation')
  <2> SUFFICES ASSUME NEW m \in Lane, NEW u \in Task
               PROVE  u \in active[m] <=> /\ LaneOf[u] = m /\ status'[u] = "running"
                                          /\ genOf[u] = generation[m]
    BY <1>3 DEF ActiveInv, TypeOK
  <2>1. u \in active[m] <=> LaneOf[u] = m /\ status[u] = "running" /\ genOf[u] = generation[m]
    BY DEF IndInv, ActiveInv
  <2> QED BY <1>2, <2>1
<1>7. OrderInv(status', starts', enqueuedAt')
  BY <1>2 DEF IndInv, OrderInv
<1>8. StampInv(status', enqueuedAt')
  BY <1>2 DEF IndInv, StampInv
<1>9. BusyInv(queue', active', maxConcurrent', Lane) /\ GenInv'
  BY DEF IndInv, BusyInv, GenInv
<1> QED BY <1>3, <1>4, <1>5, <1>6, <1>7, <1>8, <1>9 DEF IndInv

(* clearCommandLane: the queued entries settle and leave together.         *)
LEMMA ClearKeepsInv ==
  ASSUME IndInv, NEW l \in Lane, ClearCommandLane(l)
  PROVE  /\ IndInv'
         /\ \A t \in Task : status'[t] = status[t]
                              \/ (status[t] = "queued" /\ status'[t] = "cleared")
<1> DEFINE C == {t \in Task : \E i \in 1 .. Len(queue[l]) : queue[l][i] = t}
<1>1. TypeOK
  BY DEF IndInv
<1>2. /\ queue' = [queue EXCEPT ![l] = <<>>]
      /\ status' = [t \in Task |-> IF t \in C THEN "cleared" ELSE status[t]]
      /\ UNCHANGED <<active, maxConcurrent, generation, gatewayDraining,
                     genOf, enqueuedAt, starts, waiter>>
  BY DEF ClearCommandLane
<1>3. \A t \in C : t \in Task /\ status[t] = "queued" /\ LaneOf[t] = l
  BY QueuedFacts
<1>4. \A t \in Task : status[t] = "queued" /\ LaneOf[t] = l => t \in C
  BY DEF IndInv, QueueInv
<1> HIDE DEF C
<1>5. /\ status' \in [Task -> Status]
      /\ \A t \in Task : status'[t] = IF t \in C THEN "cleared" ELSE status[t]
  BY <1>1, <1>2 DEF TypeOK, Status
<1>6. /\ queue' \in [Lane -> Seq(Task)] /\ queue'[l] = <<>>
      /\ \A m \in Lane : m # l => queue'[m] = queue[m]
  <2>1. <<>> \in Seq(Task)
    OBVIOUS
  <2> QED BY <1>1, <1>2, <2>1 DEF TypeOK
<1>7. TypeOK'
  BY <1>1, <1>2, <1>5, <1>6 DEF TypeOK
<1>8. QueueInv(queue', status', enqueuedAt')
  <2>1. ASSUME NEW m \in Lane, NEW i \in 1 .. Len(queue'[m])
        PROVE  LaneOf[queue'[m][i]] = m /\ status'[queue'[m][i]] = "queued"
    <3>1. m # l /\ queue'[m] = queue[m]
      BY <1>6
    <3>2. i \in 1 .. Len(queue[m]) /\ queue'[m][i] = queue[m][i]
      BY <3>1
    <3>3. queue[m][i] \in Task /\ LaneOf[queue[m][i]] = m /\ status[queue[m][i]] = "queued"
      BY <3>2, QueuedFacts
    <3> QED BY <1>3, <1>5, <3>1, <3>2, <3>3
  <2>2. ASSUME NEW m \in Lane, NEW i \in 1 .. Len(queue'[m]), NEW j \in 1 .. Len(queue'[m]), i < j
        PROVE  enqueuedAt'[queue'[m][i]] < enqueuedAt'[queue'[m][j]]
    <3>1. queue'[m] = queue[m]
      BY <1>6
    <3> QED BY <1>2, <2>2, <3>1 DEF IndInv, QueueInv
  <2>3. ASSUME NEW t \in Task, status'[t] = "queued"
        PROVE  \E i \in 1 .. Len(queue'[LaneOf[t]]) : queue'[LaneOf[t]][i] = t
    <3>1. status[t] = "queued" /\ LaneOf[t] # l /\ LaneOf[t] \in Lane
      BY <1>4, <1>5, <2>3, LaneOfAssumption
    <3>2. queue'[LaneOf[t]] = queue[LaneOf[t]]
      BY <1>6, <3>1
    <3> QED BY <3>1, <3>2 DEF IndInv, QueueInv
  <2> QED BY <2>1, <2>2, <2>3 DEF QueueInv
<1>9. StartsInv(status', starts')
  <2> SUFFICES ASSUME NEW u \in Task
               PROVE  starts[u] = IF status'[u] \in {"running", "resolved", "rejected"}
                                  THEN 1 ELSE 0
    BY <1>2 DEF StartsInv
  <2>1. starts[u] = IF status[u] \in {"running", "resolved", "rejected"} THEN 1 ELSE 0
    BY DEF IndInv, StartsInv
  <2> QED BY <1>3, <1>5, <2>1
<1>10. ActiveInv(active', status', genOf', generation')
  <2> SUFFICES ASSUME NEW m \in Lane, NEW u \in Task
               PROVE  u \in active[m] <=> /\ LaneOf[u] = m /\ status'[u] = "running"
                                          /\ genOf[u] = generation[m]
    BY <1>2, <1>7 DEF ActiveInv, TypeOK
  <2>1. u \in active[m] <=> LaneOf[u] = m /\ status[u] = "running" /\ genOf[u] = generation[m]
    BY DEF IndInv, ActiveInv
  <2> QED BY <1>3, <1>5, <2>1
<1>11. OrderInv(status', starts', enqueuedAt')
  BY <1>2, <1>5 DEF IndInv, OrderInv
<1>12. StampInv(status', enqueuedAt')
  BY <1>2, <1>5 DEF IndInv, StampInv
<1>13. BusyInv(queue', active', maxConcurrent', Lane)
  BY <1>2, <1>6 DEF IndInv, BusyInv
<1>14. GenInv'
  BY <1>2 DEF IndInv, GenInv
<1> QED
  BY <1>3, <1>5, <1>7, <1>8, <1>9, <1>10, <1>11, <1>12, <1>13, <1>14 DEF IndInv

(* Every step that is not the end of drainLane in disguise leaves the      *)
(* queues and the running tasks alone.                                     *)
LEMMA WaiterStepKeepsInv ==
  ASSUME IndInv,
         UNCHANGED <<queue, active, maxConcurrent, generation,
                     status, genOf, enqueuedAt, starts>>,
         gatewayDraining' \in BOOLEAN,
         waiter' \in [Waiter -> [state : WaiterState, ids : SUBSET Task]]
  PROVE  IndInv'
  BY DEF IndInv, TypeOK, QueueInv, StartsInv, ActiveInv, OrderInv, StampInv, Arrived,
         BusyInv, GenInv

(* Registering a waiter is well typed.                                     *)
LEMMA WaitForActiveTasksType ==
  ASSUME TypeOK, NEW w \in Waiter, NEW b \in BOOLEAN, WaitForActiveTasks(w, b)
  PROVE  waiter' \in [Waiter -> [state : WaiterState, ids : SUBSET Task]]
  BY DEF WaitForActiveTasks, ActiveAtStart, WaiterResult, TypeOK, WaiterState

(* So is giving up on one.                                                 *)
LEMMA WaiterTimeoutType ==
  ASSUME TypeOK, NEW w \in Waiter, WaiterTimeout(w)
  PROVE  waiter' \in [Waiter -> [state : WaiterState, ids : SUBSET Task]]
  BY DEF WaiterTimeout, TypeOK, WaiterState

(* Every step of the queue keeps the invariant.                            *)
LEMMA NextKeepsInv == IndInv /\ [Next]_queueVars => IndInv'
<1> SUFFICES ASSUME IndInv, [Next]_queueVars PROVE IndInv'
  OBVIOUS
<1>0. TypeOK
  BY DEF IndInv
<1>1. ASSUME NEW t \in Task, RefuseEnqueue(t) PROVE IndInv'
  BY <1>1, SettleKeepsInv DEF RefuseEnqueue, Settled
<1>2. ASSUME NEW t \in Task, EnqueueCommandInLane(t) PROVE IndInv'
  BY <1>2, EnqueueKeepsInv
<1>3. ASSUME NEW t \in Task, NEW o \in {"resolved", "rejected"}, CompleteCurrent(t, o)
      PROVE  IndInv'
  BY <1>3, CompleteCurrentKeepsInv
<1>4. ASSUME NEW t \in Task, NEW o \in {"resolved", "rejected"}, CompleteStale(t, o)
      PROVE  IndInv'
  BY <1>4, SettleKeepsInv DEF CompleteStale, Settled
<1>5. ASSUME NEW l \in Lane, NEW n \in Concurrency, SetCommandLaneConcurrency(l, n)
      PROVE  IndInv'
  BY <1>5, SetConcurrencyKeepsInv
<1>6. ASSUME NEW l \in Lane, ClearCommandLane(l) PROVE IndInv'
  BY <1>6, ClearKeepsInv
<1>7. CASE MarkGatewayDraining
  BY <1>0, <1>7, WaiterStepKeepsInv DEF MarkGatewayDraining, TypeOK
<1>8. CASE ResetAllLanes
  BY <1>8, ResetKeepsInv
<1>9. ASSUME NEW w \in Waiter, NEW b \in BOOLEAN, WaitForActiveTasks(w, b) PROVE IndInv'
  <2>1. /\ UNCHANGED <<queue, active, maxConcurrent, generation,
                       status, genOf, enqueuedAt, starts>>
        /\ gatewayDraining' \in BOOLEAN
    BY <1>0, <1>9 DEF WaitForActiveTasks, TypeOK
  <2> QED BY <1>0, <1>9, <2>1, WaitForActiveTasksType, WaiterStepKeepsInv
<1>10. ASSUME NEW w \in Waiter, WaiterTimeout(w) PROVE IndInv'
  <2>1. /\ UNCHANGED <<queue, active, maxConcurrent, generation,
                       status, genOf, enqueuedAt, starts>>
        /\ gatewayDraining' \in BOOLEAN
    BY <1>0, <1>10 DEF WaiterTimeout, TypeOK
  <2> QED BY <1>0, <1>10, <2>1, WaiterTimeoutType, WaiterStepKeepsInv
<1>11. CASE UNCHANGED queueVars
  BY <1>0, <1>11, WaiterStepKeepsInv DEF queueVars, TypeOK
<1> QED
  BY <1>1, <1>2, <1>3, <1>4, <1>5, <1>6, <1>7, <1>8, <1>9, <1>10, <1>11 DEF Next

(* The invariant holds of every behaviour.                                 *)
LEMMA InvInvariant == Spec => []IndInv
  BY InitIndInv, NextKeepsInv, PTL DEF Spec

-----------------------------------------------------------------------------
(* Type correctness of every reachable state of the command queue.         *)
THEOREM TypeCorrect == Spec => []TypeOK
<1>1. IndInv => TypeOK
  BY DEF IndInv
<1> QED BY <1>1, InvInvariant, PTL

(* After any number of restarts the active set of a lane is exactly what   *)
(* runs in its current generation.                                         *)
THEOREM ActiveSetsAreExact == Spec => []ActiveIsCurrentGeneration
<1>1. IndInv => ActiveIsCurrentGeneration
  BY DEF IndInv, ActiveInv, ActiveIsCurrentGeneration
<1> QED BY <1>1, InvInvariant, PTL

(* drainLane is work conserving: a lane with queued entries has all its    *)
(* slots taken.                                                            *)
THEOREM LanesAreWorkConserving == Spec => []NoIdleLane
<1>1. IndInv => NoIdleLane
  BY DEF IndInv, BusyInv, NoIdleLane
<1> QED BY <1>1, InvInvariant, PTL

(* Every lane is first in, first out.                                      *)
THEOREM LanesAreFifo == Spec => []ArrivalOrder
<1>1. IndInv => ArrivalOrder
  BY DEF IndInv, OrderInv, ArrivalOrder
<1> QED BY <1>1, InvInvariant, PTL

(* No entry runs twice, and a rejected one never runs.                     *)
THEOREM EntriesRunAtMostOnce == Spec => []ExecutedAtMostOnce
<1>1. IndInv => ExecutedAtMostOnce
  BY DEF IndInv, StartsInv, ExecutedAtMostOnce
<1> QED BY <1>1, InvInvariant, PTL

(* pump() starts a task only on a lane that is below its cap.              *)
THEOREM StartsRespectCap == Spec => StartsWithinCap
<1> DEFINE Cap == \A l \in Lane : active'[l] \ active[l] # {} =>
                    Cardinality(active'[l]) <= maxConcurrent'[l]
<1>1. IndInv /\ [Next]_queueVars => [Cap]_queueVars
  <2> SUFFICES ASSUME IndInv, Next PROVE Cap
    OBVIOUS
  <2>1. ASSUME NEW act, NEW st, DrainPost(act, st),
               \A l \in Lane : act[l] \subseteq active[l]
        PROVE  Cap
    <3> SUFFICES ASSUME NEW l \in Lane, active'[l] \ active[l] # {}
                 PROVE  Cardinality(active'[l]) <= maxConcurrent'[l]
      OBVIOUS
    <3>1. active'[l] # act[l]
      BY <2>1
    <3> QED BY <2>1, <3>1 DEF DrainPost
  <2>2. ASSUME UNCHANGED active PROVE Cap
    BY <2>2
  <2>3. ASSUME NEW t \in Task, EnqueueCommandInLane(t) PROVE Cap
    BY <2>1, <2>3, EnqueueKeepsInv
  <2>4. ASSUME NEW t \in Task, NEW o \in {"resolved", "rejected"}, CompleteCurrent(t, o)
        PROVE  Cap
    <3>1. \A l \in Lane : [active EXCEPT ![LaneOf[t]] = @ \ {t}][l] \subseteq active[l]
      BY DEF IndInv, TypeOK
    <3>2. DrainPost([active EXCEPT ![LaneOf[t]] = @ \ {t}], [status EXCEPT ![t] = o])
      BY <2>4, CompleteCurrentKeepsInv
    <3> HIDE DEF Cap
    <3> QED BY <2>1, <3>1, <3>2
  <2>5. ASSUME NEW l \in Lane, NEW n \in Concurrency, SetCommandLaneConcurrency(l, n)
        PROVE  Cap
    BY <2>1, <2>5, SetConcurrencyKeepsInv
  <2>6. CASE ResetAllLanes
    <3>1. \A l \in Lane : [m \in Lane |-> {}][l] \subseteq active[l]
      OBVIOUS
    <3>2. DrainPost([l \in Lane |-> {}], status)
      BY <2>6, ResetKeepsInv
    <3> HIDE DEF Cap
    <3> QED BY <2>1, <3>1, <3>2
  <2> HIDE DEF Cap
  <2> QED BY <2>2, <2>3, <2>4, <2>5, <2>6
          DEF Next, RefuseEnqueue, CompleteStale, ClearCommandLane, MarkGatewayDraining,
              WaitForActiveTasks, WaiterTimeout
<1> QED BY <1>1, InvInvariant, PTL DEF Spec, StartsWithinCap

(* A promise of enqueueCommandInLane never settles a second time.          *)
THEOREM PromisesSettleOnce == Spec => SettlesOnce
<1> DEFINE Once == \A t \in Task : status[t] \in Settled => status'[t] = status[t]
<1>1. IndInv /\ [Next]_queueVars => [Once]_queueVars
  <2> SUFFICES ASSUME IndInv, Next PROVE Once
    OBVIOUS
  <2>0. status \in [Task -> Status]
    BY DEF IndInv, TypeOK
  <2>1. ASSUME NEW act, NEW st, DrainPost(act, st),
               \A t \in Task : status[t] \in Settled => st[t] = status[t]
        PROVE  Once
    BY <2>1 DEF DrainPost, Settled
  <2>2. ASSUME NEW t \in Task, RefuseEnqueue(t) PROVE Once
    BY <2>0, <2>2 DEF RefuseEnqueue, Settled
  <2>3. ASSUME NEW t \in Task, EnqueueCommandInLane(t) PROVE Once
    <3>1. status[t] = "idle" /\ DrainPost(active, [status EXCEPT ![t] = "queued"])
      BY <2>3, EnqueueKeepsInv DEF EnqueueCommandInLane
    <3>2. \A u \in Task : status[u] \in Settled => [status EXCEPT ![t] = "queued"][u] = status[u]
      BY <2>0, <3>1 DEF Settled
    <3> HIDE DEF Once
    <3> QED BY <2>1, <3>1, <3>2
  <2>4. ASSUME NEW t \in Task, NEW o \in {"resolved", "rejected"}, CompleteCurrent(t, o)
        PROVE  Once
    <3>1. /\ status[t] = "running"
          /\ DrainPost([active EXCEPT ![LaneOf[t]] = @ \ {t}], [status EXCEPT ![t] = o])
      BY <2>4, CompleteCurrentKeepsInv DEF CompleteCurrent
    <3>2. \A u \in Task : status[u] \in Settled => [status EXCEPT ![t] = o][u] = status[u]
      BY <2>0, <3>1 DEF Settled
    <3> HIDE DEF Once
    <3> QED BY <2>1, <3>1, <3>2
  <2>5. ASSUME NEW t \in Task, NEW o \in {"resolved", "rejected"}, CompleteStale(t, o)
        PROVE  Once
    BY <2>0, <2>5 DEF CompleteStale, Settled
  <2>6. ASSUME NEW l \in Lane, NEW n \in Concurrency, SetCommandLaneConcurrency(l, n)
        PROVE  Once
    BY <2>1, <2>6, SetConcurrencyKeepsInv
  <2>7. ASSUME NEW l \in Lane, ClearCommandLane(l) PROVE Once
    BY <2>7, ClearKeepsInv DEF Settled
  <2>8. CASE ResetAllLanes
    BY <2>1, <2>8, ResetKeepsInv
  <2>9. ASSUME UNCHANGED status PROVE Once
    BY <2>9
  <2> HIDE DEF Once
  <2> QED BY <2>2, <2>3, <2>4, <2>5, <2>6, <2>7, <2>8, <2>9
          DEF Next, MarkGatewayDraining, WaitForActiveTasks, WaiterTimeout
<1> QED BY <1>1, InvInvariant, PTL DEF Spec, SettlesOnce

-----------------------------------------------------------------------------
(* The waiters.  A snapshot holds only tasks that have started, so a later *)
(* pump() cannot touch them.                                               *)
SnapshotInv ==
  \A w \in Waiter : waiter[w].state \in {"waiting", "drained"} =>
    \A t \in waiter[w].ids : status[t] \in {"running", "resolved", "rejected"}

WaiterInv == SnapshotInv /\ NoMissedNotification /\ DrainedIsTrue

(* A step that starts tasks, settles tasks and raises generations keeps    *)
(* every truth already told to a waiter.                                   *)
LEMMA TruthKept ==
  ASSUME IndInv, IndInv', NEW t \in Task,
         status[t] \in {"running", "resolved", "rejected"},
         status'[t] = status[t] \/ status'[t] \in {"resolved", "rejected"},
         status[t] \in Settled => status'[t] = status[t],
         genOf'[t] = genOf[t],
         \A l \in Lane : generation[l] <= generation'[l]
  PROVE  /\ status'[t] \in {"running", "resolved", "rejected"}
         /\ status[t] \in Settled \/ genOf[t] # generation[LaneOf[t]] =>
              status'[t] \in Settled \/ genOf'[t] # generation'[LaneOf[t]]
<1>1. /\ LaneOf[t] \in Lane /\ genOf[t] \in Nat
      /\ generation[LaneOf[t]] \in Nat /\ generation'[LaneOf[t]] \in Nat
  BY LaneOfAssumption DEF IndInv, TypeOK
<1>2. genOf[t] <= generation[LaneOf[t]]
  BY DEF IndInv, GenInv
<1> QED BY <1>1, <1>2 DEF Settled

(* A step that ends in notifyActiveTaskWaiters, or that frees no slot.     *)
LEMMA NotifyKeepsWaiterInv ==
  ASSUME IndInv, IndInv', WaiterInv, NEW act,
         waiter' = Notified(act) \/ (waiter' = waiter /\ \A l \in Lane : active[l] \subseteq act[l]),
         \A l \in Lane : act[l] \subseteq active'[l],
         \A l \in Lane : generation[l] <= generation'[l],
         \A t \in Task : status[t] \in {"running", "resolved", "rejected"} =>
           /\ status'[t] = status[t] \/ status'[t] \in {"resolved", "rejected"}
           /\ status[t] \in Settled => status'[t] = status[t]
           /\ genOf'[t] = genOf[t],
         waiter' = waiter \/
         \A l \in Lane : \A t \in active[l] \ act[l] :
           status'[t] \in Settled \/ genOf'[t] # generation'[LaneOf[t]]
  PROVE  WaiterInv'
<1> SUFFICES ASSUME NEW w \in Waiter
             PROVE  /\ waiter'[w].state \in {"waiting", "drained"} =>
                         \A t \in waiter'[w].ids :
                           status'[t] \in {"running", "resolved", "rejected"}
                    /\ waiter'[w].state = "waiting" =>
                         HasPendingActiveTasks(waiter'[w].ids, active')
                    /\ waiter'[w].state = "drained" =>
                         \A t \in waiter'[w].ids :
                           status'[t] \in Settled \/ genOf'[t] # generation'[LaneOf[t]]
  BY DEF WaiterInv, SnapshotInv, NoMissedNotification, DrainedIsTrue, HasPendingActiveTasks
<1>1. waiter[w] \in [state : WaiterState, ids : SUBSET Task]
  BY DEF IndInv, TypeOK
<1>2. \/ waiter'[w] = waiter[w]
      \/ /\ waiter[w].state = "waiting" /\ waiter'[w].state = "drained"
         /\ waiter'[w].ids = waiter[w].ids /\ waiter' # waiter
         /\ ~HasPendingActiveTasks(waiter[w].ids, act)
  BY <1>1 DEF Notified
<1>3. waiter'[w].state = "waiting" =>
        /\ waiter'[w] = waiter[w]
        /\ HasPendingActiveTasks(waiter[w].ids, act)
  <2> SUFFICES ASSUME waiter'[w].state = "waiting"
               PROVE  /\ waiter'[w] = waiter[w]
                      /\ HasPendingActiveTasks(waiter[w].ids, act)
    OBVIOUS
  <2>1. waiter'[w] = waiter[w]
    BY <1>2
  <2>2. CASE waiter' = Notified(act)
    BY <1>1, <2>1, <2>2 DEF Notified
  <2>3. CASE waiter' = waiter /\ \A l \in Lane : active[l] \subseteq act[l]
    BY <2>1, <2>3 DEF WaiterInv, NoMissedNotification, HasPendingActiveTasks
  <2> QED BY <2>1, <2>2, <2>3
<1>4. waiter'[w].state = "waiting" => HasPendingActiveTasks(waiter'[w].ids, active')
  BY <1>3 DEF HasPendingActiveTasks
<1>5. ASSUME waiter[w].state \in {"waiting", "drained"}, NEW t \in waiter[w].ids
      PROVE  /\ t \in Task
             /\ status[t] \in {"running", "resolved", "rejected"}
             /\ status'[t] \in {"running", "resolved", "rejected"}
             /\ status[t] \in Settled \/ genOf[t] # generation[LaneOf[t]] =>
                  status'[t] \in Settled \/ genOf'[t] # generation'[LaneOf[t]]
  <2>1. t \in Task /\ status[t] \in {"running", "resolved", "rejected"}
    BY <1>1, <1>5 DEF WaiterInv, SnapshotInv
  <2> QED BY <2>1, TruthKept
<1>6. CASE waiter'[w] = waiter[w]
  BY <1>4, <1>5, <1>6 DEF WaiterInv, DrainedIsTrue
<1>7. CASE /\ waiter[w].state = "waiting" /\ waiter'[w].state = "drained"
           /\ waiter'[w].ids = waiter[w].ids /\ waiter' # waiter
           /\ ~HasPendingActiveTasks(waiter[w].ids, act)
  <2> SUFFICES ASSUME NEW t \in waiter[w].ids
               PROVE  status'[t] \in Settled \/ genOf'[t] # generation'[LaneOf[t]]
    BY <1>5, <1>7
  <2>1. /\ t \in Task /\ status[t] \in {"running", "resolved", "rejected"}
        /\ LaneOf[t] \in Lane
    BY <1>5, <1>7, LaneOfAssumption
  <2>2. t \notin act[LaneOf[t]]
    BY <1>7, <2>1 DEF HasPendingActiveTasks
  <2>3. CASE t \in active[LaneOf[t]]
    BY <1>7, <2>1, <2>2, <2>3
  <2>4. CASE t \notin active[LaneOf[t]]
    <3>1. status[t] \in Settled \/ genOf[t] # generation[LaneOf[t]]
      BY <2>1, <2>4 DEF IndInv, ActiveInv, Settled
    <3> QED BY <1>5, <1>7, <3>1
  <2> QED BY <2>3, <2>4
<1> QED BY <1>2, <1>6, <1>7

(* No waiter is registered at the start.                                   *)
LEMMA InitWaiterInv == Init => WaiterInv
  BY DEF Init, WaiterInv, SnapshotInv, NoMissedNotification, DrainedIsTrue

(* Every step keeps what is known about waiters, given the invariant.      *)
LEMMA NextKeepsWaiterInv ==
  IndInv /\ IndInv' /\ WaiterInv /\ [Next]_queueVars => WaiterInv'
<1> SUFFICES ASSUME IndInv, IndInv', WaiterInv, [Next]_queueVars PROVE WaiterInv'
  OBVIOUS
<1>0. /\ status \in [Task -> Status] /\ generation \in [Lane -> Nat]
      /\ waiter \in [Waiter -> [state : WaiterState, ids : SUBSET Task]]
      /\ active \in [Lane -> SUBSET Task]
  BY DEF IndInv, TypeOK
<1>1. ASSUME NEW t \in Task, RefuseEnqueue(t) PROVE WaiterInv'
  <2>1. \A u \in Task : status[u] \in {"running", "resolved", "rejected"} => status'[u] = status[u]
    BY <1>0, <1>1 DEF RefuseEnqueue
  <2>2. UNCHANGED <<active, waiter, genOf, generation>>
    BY <1>1 DEF RefuseEnqueue
  <2> QED BY <1>0, <2>1, <2>2, NotifyKeepsWaiterInv
<1>2. ASSUME NEW t \in Task, EnqueueCommandInLane(t) PROVE WaiterInv'
  <2> DEFINE st == [status EXCEPT ![t] = "queued"]
  <2>1. DrainPost(active, st) /\ status[t] = "idle" /\ UNCHANGED <<waiter, generation>>
    BY <1>2, EnqueueKeepsInv DEF EnqueueCommandInLane
  <2>2. \A u \in Task : status[u] \in {"running", "resolved", "rejected"} => st[u] = status[u]
    BY <1>0, <2>1
  <2> HIDE DEF st
  <2>3. \A u \in Task : status[u] \in {"running", "resolved", "rejected"} =>
          status'[u] = status[u] /\ genOf'[u] = genOf[u]
    BY <2>1, <2>2 DEF DrainPost
  <2>4. \A l \in Lane : active[l] \subseteq active'[l]
    BY <2>1 DEF DrainPost
  <2> QED BY <1>0, <2>1, <2>3, <2>4, NotifyKeepsWaiterInv
<1>3. ASSUME NEW t \in Task, NEW o \in {"resolved", "rejected"}, CompleteCurrent(t, o)
      PROVE  WaiterInv'
  <2> DEFINE st == [status EXCEPT ![t] = o]
             freed == [active EXCEPT ![LaneOf[t]] = @ \ {t}]
  <2>1. /\ DrainPost(freed, st) /\ status[t] = "running"
        /\ waiter' = Notified(freed) /\ UNCHANGED generation
    BY <1>3, CompleteCurrentKeepsInv DEF CompleteCurrent
  <2>2. /\ \A u \in Task : st[u] = IF u = t THEN o ELSE status[u]
        /\ \A l \in Lane : \A u \in active[l] \ freed[l] : u = t
    BY <1>0
  <2> HIDE DEF st, freed
  <2>3. \A u \in Task : status[u] \in {"running", "resolved", "rejected"} =>
          /\ status'[u] = IF u = t THEN o ELSE status[u]
          /\ genOf'[u] = genOf[u]
    BY <2>1, <2>2 DEF DrainPost
  <2>4. \A l \in Lane : freed[l] \subseteq active'[l]
    BY <2>1 DEF DrainPost
  <2>5. status'[t] \in Settled
    BY <2>1, <2>3 DEF Settled
  <2>6. \A u \in Task : status[u] \in {"running", "resolved", "rejected"} =>
           /\ status'[u] = status[u] \/ status'[u] \in {"resolved", "rejected"}
           /\ status[u] \in Settled => status'[u] = status[u]
           /\ genOf'[u] = genOf[u]
    BY <2>1, <2>3 DEF Settled
  <2>7. \A l \in Lane : generation[l] <= generation'[l]
    BY <1>0, <2>1
  <2> QED BY <2>1, <2>2, <2>4, <2>5, <2>6, <2>7, NotifyKeepsWaiterInv
<1>4. ASSUME NEW t \in Task, NEW o \in {"resolved", "rejected"}, CompleteStale(t, o)
      PROVE  WaiterInv'
  <2>1. \A u \in Task : status'[u] = IF u = t THEN o ELSE status[u]
    BY <1>0, <1>4 DEF CompleteStale
  <2>2. UNCHANGED <<active, waiter, genOf, generation>> /\ status[t] = "running"
    BY <1>4 DEF CompleteStale
  <2>3. \A u \in Task : status[u] \in {"running", "resolved", "rejected"} =>
           /\ status'[u] = status[u] \/ status'[u] \in {"resolved", "rejected"}
           /\ status[u] \in Settled => status'[u] = status[u]
           /\ genOf'[u] = genOf[u]
    BY <2>1, <2>2 DEF Settled
  <2> QED BY <1>0, <2>2, <2>3, NotifyKeepsWaiterInv
<1>5. ASSUME NEW l \in Lane, NEW n \in Concurrency, SetCommandLaneConcurrency(l, n)
      PROVE  WaiterInv'
  <2>1. DrainPost(active, status) /\ UNCHANGED <<waiter, generation>>
    BY <1>5, SetConcurrencyKeepsInv DEF SetCommandLaneConcurrency
  <2>2. \A u \in Task : status[u] \in {"running", "resolved", "rejected"} =>
          status'[u] = status[u] /\ genOf'[u] = genOf[u]
    BY <2>1 DEF DrainPost
  <2>3. \A m \in Lane : active[m] \subseteq active'[m]
    BY <2>1 DEF DrainPost
  <2> QED BY <1>0, <2>1, <2>2, <2>3, NotifyKeepsWaiterInv
<1>6. ASSUME NEW l \in Lane, ClearCommandLane(l) PROVE WaiterInv'
  <2>1. \A u \in Task : status[u] \in {"running", "resolved", "rejected"} => status'[u] = status[u]
    BY <1>6, ClearKeepsInv
  <2>2. UNCHANGED <<active, waiter, genOf, generation>>
    BY <1>6 DEF ClearCommandLane
  <2> QED BY <1>0, <2>1, <2>2, NotifyKeepsWaiterInv
<1>7. CASE ResetAllLanes
  <2>1. /\ DrainPost([l \in Lane |-> {}], status)
        /\ generation' = [l \in Lane |-> generation[l] + 1]
        /\ waiter' = Notified(active')
    BY <1>7, ResetKeepsInv DEF ResetAllLanes
  <2>2. \A u \in Task : status[u] \in {"running", "resolved", "rejected"} =>
          status'[u] = status[u] /\ genOf'[u] = genOf[u]
    BY <2>1 DEF DrainPost
  <2>3. \A l \in Lane : generation[l] <= generation'[l]
    BY <1>0, <2>1
  <2>4. ASSUME NEW l \in Lane, NEW t \in active[l] PROVE genOf'[t] # generation'[LaneOf[t]]
    <3>1. t \in Task /\ LaneOf[t] = l /\ status[t] = "running" /\ genOf[t] = generation[l]
      BY <1>0 DEF IndInv, ActiveInv
    <3>2. genOf'[t] = generation[l] /\ generation'[LaneOf[t]] = generation[l] + 1
      BY <2>1, <2>2, <3>1
    <3> QED BY <1>0, <3>2
  <2> QED BY <2>1, <2>2, <2>3, <2>4, NotifyKeepsWaiterInv
<1>8. ASSUME NEW w \in Waiter, NEW b \in BOOLEAN, WaitForActiveTasks(w, b) PROVE WaiterInv'
  <2> DEFINE ids == UNION {active[l] : l \in Lane}
             result == IF ids = {} THEN "drained" ELSE IF b THEN "waiting" ELSE "timeout"
  <2>1. /\ waiter' = [waiter EXCEPT ![w] = [state |-> result, ids |-> ids]]
        /\ UNCHANGED <<active, status, genOf, generation>>
    BY <1>8 DEF WaitForActiveTasks, ActiveAtStart, WaiterResult
  <2>2. waiter'[w].state = result /\ waiter'[w].ids = ids
    BY <1>0, <2>1
  <2>3. \A v \in Waiter : v # w => waiter'[v] = waiter[v]
    BY <1>0, <2>1
  <2>4. \A t \in ids : status[t] = "running"
    BY DEF IndInv, ActiveInv
  <2>5. result = "drained" => ids = {}
    OBVIOUS
  <2>6. result = "waiting" => HasPendingActiveTasks(ids, active)
    BY DEF HasPendingActiveTasks
  <2> HIDE DEF ids, result
  <2>7. SnapshotInv'
    BY <2>1, <2>2, <2>3, <2>4 DEF WaiterInv, SnapshotInv
  <2>8. NoMissedNotification'
    BY <2>1, <2>2, <2>3, <2>6 DEF WaiterInv, NoMissedNotification, HasPendingActiveTasks
  <2>9. DrainedIsTrue'
    BY <2>1, <2>2, <2>3, <2>5 DEF WaiterInv, DrainedIsTrue
  <2> QED BY <2>7, <2>8, <2>9 DEF WaiterInv
<1>9. ASSUME NEW w \in Waiter, WaiterTimeout(w) PROVE WaiterInv'
  <2>1. UNCHANGED <<active, status, genOf, generation>>
    BY <1>9 DEF WaiterTimeout
  <2>2. /\ waiter'[w].state = "timeout"
        /\ \A v \in Waiter : v # w => waiter'[v] = waiter[v]
    BY <1>0, <1>9 DEF WaiterTimeout
  <2> QED BY <2>1, <2>2
          DEF WaiterInv, SnapshotInv, NoMissedNotification, DrainedIsTrue, HasPendingActiveTasks
<1>10. ASSUME UNCHANGED <<active, status, genOf, generation, waiter>> PROVE WaiterInv'
  BY <1>10 DEF WaiterInv, SnapshotInv, NoMissedNotification, DrainedIsTrue,
               HasPendingActiveTasks
<1> QED
  BY <1>1, <1>2, <1>3, <1>4, <1>5, <1>6, <1>7, <1>8, <1>9, <1>10
  DEF Next, MarkGatewayDraining, queueVars

(* What is known about waiters holds of every behaviour.                   *)
LEMMA WaiterInvariant == Spec => []WaiterInv
  BY InvInvariant, InitWaiterInv, NextKeepsWaiterInv, PTL DEF Spec

(* No waiter sleeps through the completion it is waiting for.              *)
THEOREM NotificationsAreNotMissed == Spec => []NoMissedNotification
<1>1. WaiterInv => NoMissedNotification
  BY DEF WaiterInv
<1> QED BY <1>1, WaiterInvariant, PTL

(* { drained: true } is never reported early.                              *)
THEOREM DrainedReportsAreTrue == Spec => []DrainedIsTrue
<1>1. WaiterInv => DrainedIsTrue
  BY DEF WaiterInv
<1> QED BY <1>1, WaiterInvariant, PTL
=============================================================================
