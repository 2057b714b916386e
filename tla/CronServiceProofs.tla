------------------------- MODULE CronServiceProofs -------------------------
(***************************************************************************)
(* Proofs about CronService, for every set of jobs of every kind, any      *)
(* periods, backoffs, limits and bounds, any number of manual runs.        *)
(*                                                                         *)
(* The operators on the store come first: each keeps the records good      *)
(* (typed, and with a slot unless disabled or done), and says which        *)
(* markers, slots and switches it leaves alone.  The invariant then joins  *)
(* the store to who holds a job: a tick, the catch-up of a start and a     *)
(* manual run take a job up only where there is no marker, so a job whose  *)
(* marker was not removed under its run has one holder and its marker; and *)
(* the last holder takes the marker with it, so a marker has a holder.     *)
(* That needs to know which tick or start may have a batch at all, and it  *)
(* needs one service at a time: IndInv(FALSE) holds with any number of hot *)
(* reloads and types the file and every copy, IndInv(TRUE) holds without   *)
(* them (crashes included) and adds that the copy of the service agrees    *)
(* with the file and the markers with who holds a job.  Of the markers,    *)
(* what is left with reloads is what the ticks promise each other.         *)
(***************************************************************************)
EXTENDS CronService, FiniteSetTheorems, TLAPS

DoneType == [job : Job, startedAt : Time, endedAt : Time, status : Result]

(* What holds of the fields of a record at time t, the slot left aside.    *)
Typed(r, t) == r \in Record /\ r.base >= 1 /\ r.lastRun <= t

(* An enabled job without a slot is a one-shot that has succeeded, and one *)
(* that has succeeded is not set for its own time again: as long as nobody *)
(* merges the slot of one copy with the schedule of another.               *)
Succeeded(r) == r.lastStatus = "ok" /\ r.base <= r.lastRun
Slotted(r, j) ==
  /\ r.enabled /\ r.next = None => Kind[j] = "at" /\ Succeeded(r)
  /\ Stagger > 0 /\ Kind[j] = "at" /\ r.enabled /\ r.next = r.base => ~Succeeded(r)

Good(r, j, t, sole) == Typed(r, t) /\ (sole => Slotted(r, j))
GoodStore(st, t, sole) == \A j \in DOMAIN st : Good(st[j], j, t, sole)

(* Two copies of a store agree on everything but the markers, and the slots*)
(* of disabled jobs.                                                       *)
SameJob(q, r) ==
  q.enabled = r.enabled /\ q.base = r.base /\ q.lastRun = r.lastRun /\ q.lastStatus = r.lastStatus
Alike(c, st) ==
  /\ DOMAIN c = DOMAIN st
  /\ \A j \in DOMAIN st : SameJob(c[j], st[j]) /\ (st[j].enabled => c[j].next = st[j].next)

-----------------------------------------------------------------------------
(* The schedule.                                                           *)

(* The products and quotients the slots are made of.                       *)
LEMMA ProductIsPositive ==
  ASSUME NEW a \in Nat \ {0}, NEW b \in Nat \ {0}
  PROVE  a * b \in Nat \ {0}
  OBVIOUS

LEMMA QuotientIsNat ==
  ASSUME NEW a \in Nat, NEW b \in Nat \ {0}
  PROVE  a \div b \in Nat
  OBVIOUS

LEMMA PeriodOfJob ==
  ASSUME NEW j \in Job
  PROVE  Period[j] \in Nat \ {0} /\ Kind[j] \in {"at", "every", "cron"}
  BY PeriodAssumption, KindAssumption

LEMMA EverySlotIsTime ==
  ASSUME NEW a \in Nat \ {0}, NEW p \in Nat \ {0}, NEW t \in Nat
  PROVE  EverySlot(a, p, t) \in Nat \ {0}
  <1> DEFINE n == t - a + p - 1
             k == IF n \div p > 1 THEN n \div p ELSE 1
  <1>1. CASE t < a  BY <1>1 DEF EverySlot
  <1>2. CASE ~(t < a)
    <2>1. n \in Nat  BY <1>2
    <2>2. n \div p \in Nat  BY <2>1, QuotientIsNat
    <2>3. k \in Nat \ {0}  BY <2>2
    <2>4. p * k \in Nat \ {0}  BY <2>3, ProductIsPositive
    <2>5. EverySlot(a, p, t) = a + p * k  BY <1>2 DEF EverySlot
    <2> QED  BY <2>4, <2>5
  <1> QED  BY <1>1, <1>2

LEMMA CronSlotIsTime ==
  ASSUME NEW p \in Nat \ {0}, NEW t \in Nat
  PROVE  CronSlotAfter(p, t) \in Nat \ {0}
  <1>1. 1 + t \div p \in Nat \ {0}  BY QuotientIsNat
  <1> QED  BY <1>1, ProductIsPositive DEF CronSlotAfter

(* computeJobNextRunAtMs: no slot for a disabled job and a one-shot that   *)
(* has succeeded, a slot for any other.                                    *)
LEMMA ComputeSlot ==
  ASSUME NEW j \in Job, NEW r \in Record, r.base >= 1, NEW t \in Nat
  PROVE  LET c == ComputeJobNextRunAtMs(r, j, t)
         IN  /\ c \in Nat
             /\ r.enabled /\ c = None => Kind[j] = "at" /\ Succeeded(r)
             /\ r.enabled /\ Kind[j] = "at" /\ c = r.base => ~Succeeded(r)
  <1> DEFINE c == ComputeJobNextRunAtMs(r, j, t)
             p == Period[j]
  <1>1. p \in Nat \ {0} /\ Kind[j] \in {"at", "every", "cron"}  BY PeriodOfJob
  <1>2. /\ r.base \in Nat \ {0} /\ r.lastRun \in Nat /\ r.enabled \in BOOLEAN
    BY DEF Record, Stamp, None
  <1>3. CASE ~r.enabled
    <2>1. c = None  BY <1>3 DEF ComputeJobNextRunAtMs
    <2> QED  BY <2>1, <1>3 DEF None
  <1>4. CASE r.enabled /\ Kind[j] = "every"
    <2>1. EverySlot(r.base, p, t) \in Nat \ {0}  BY <1>1, <1>2, EverySlotIsTime
    <2>2. c = IF r.lastRun # None /\ r.lastRun + p > t
              THEN r.lastRun + p ELSE EverySlot(r.base, p, t)
      BY <1>4 DEF ComputeJobNextRunAtMs
    <2>3. c \in Nat \ {0}  BY <2>1, <2>2, <1>1, <1>2
    <2> QED  BY <2>3, <1>4 DEF None
  <1>5. CASE r.enabled /\ Kind[j] = "at"
    <2>1. c = IF Succeeded(r) THEN None ELSE r.base
      BY <1>5 DEF ComputeJobNextRunAtMs, Succeeded
    <2> QED  BY <2>1, <1>2, <1>5 DEF None
  <1>6. CASE r.enabled /\ Kind[j] = "cron"
    <2>1. c = CronSlotAfter(p, t)  BY <1>6 DEF ComputeJobNextRunAtMs
    <2>2. c \in Nat \ {0}  BY <2>1, <1>1, CronSlotIsTime
    <2> QED  BY <2>2, <1>6 DEF None
  <1> QED  BY <1>1, <1>3, <1>4, <1>5, <1>6

(* A record whose slot has just been computed.                             *)
LEMMA SlotIsGood ==
  ASSUME NEW sole \in BOOLEAN, NEW j \in Job, NEW r, NEW u \in Nat, NEW t \in Nat, Typed(r, u)
  PROVE  Good([r EXCEPT !.next = ComputeJobNextRunAtMs(r, j, t)], j, u, sole)
  <1> DEFINE c == ComputeJobNextRunAtMs(r, j, t)
             q == [r EXCEPT !.next = c]
  <1>1. /\ c \in Nat
        /\ r.enabled /\ c = None => Kind[j] = "at" /\ Succeeded(r)
        /\ r.enabled /\ Kind[j] = "at" /\ c = r.base => ~Succeeded(r)
    BY ComputeSlot DEF Typed
  <1> HIDE DEF c
  <1>2. /\ q \in Record /\ q.base = r.base /\ q.lastRun = r.lastRun
        /\ q.enabled = r.enabled /\ q.lastStatus = r.lastStatus /\ q.next = c
    BY <1>1 DEF Typed, Record, Stamp
  <1> QED  BY <1>1, <1>2 DEF Good, Typed, Slotted, Succeeded, c

(* The constants, as the provers like them.                                *)
LEMMA Constants ==
  /\ MaxAttempts \in Nat /\ RefireGap \in Nat /\ StuckRun \in Nat /\ MaxMissed \in Nat
  /\ Stagger \in Nat /\ MaxEdits \in Nat
  /\ RunConcurrency \in Nat \ {0} /\ BootTime \in Nat \ {0} /\ MaxService \in Nat \ {0}
  /\ MaxTime \in Nat \ {0} /\ BootTime <= MaxTime
  BY BoundAssumption

-----------------------------------------------------------------------------
(* The operators on the store.  Each keeps it good; what else a step needs *)
(* to know is which markers, slots and switches an operator leaves alone.  *)

(* The markers of st are markers of the store it was made from.            *)
NoNewMarker(st, from) ==
  /\ DOMAIN st \subseteq DOMAIN from
  /\ \A j \in DOMAIN st : st[j].running \in {from[j].running, None}

LEMMA NormalizeKeeps ==
  ASSUME NEW sole \in BOOLEAN, NEW j \in Job, NEW r, NEW t \in Nat, Good(r, j, t, sole)
  PROVE  LET q == NormalizeJobTickState(r, t)
         IN  /\ Good(q, j, t, sole)
             /\ SameJob(q, r)
             /\ q.running \in {r.running, None}
             /\ r.enabled => q.next = r.next
  <1> DEFINE q == NormalizeJobTickState(r, t)
  <1>1. r \in Record  BY DEF Good, Typed
  <1>2. /\ q \in Record
        /\ q.enabled = r.enabled /\ q.lastRun = r.lastRun /\ q.base = r.base
        /\ q.lastStatus = r.lastStatus
        /\ q.running \in {r.running, None}
        /\ r.enabled => q.next = r.next
    BY <1>1 DEF NormalizeJobTickState, Record, Stamp
  <1> HIDE DEF q
  <1>3. Good(q, j, t, sole)  BY <1>2 DEF Good, Typed, Slotted, Succeeded
  <1> QED  BY <1>2, <1>3 DEF q, SameJob

(* recomputeJobNextRunAtMs for some of the jobs of a store.                *)
LEMMA RecomputeKeeps ==
  ASSUME NEW sole \in BOOLEAN, NEW st, NEW t \in Nat, NEW J, DOMAIN st \subseteq Job,
         GoodStore(st, t, sole)
  PROVE  LET q == RecomputeJobs(st, t, J)
         IN  /\ DOMAIN q = DOMAIN st
             /\ GoodStore(q, t, sole)
             /\ \A j \in DOMAIN st : /\ q[j].running = st[j].running
                                     /\ SameJob(q[j], st[j])
                                     /\ j \notin J => q[j].next = st[j].next
  <1> DEFINE q == RecomputeJobs(st, t, J)
  <1>1. DOMAIN q = DOMAIN st  BY DEF RecomputeJobs
  <1>2. ASSUME NEW j \in DOMAIN st
        PROVE  /\ Good(q[j], j, t, sole)
               /\ q[j].running = st[j].running
               /\ SameJob(q[j], st[j])
               /\ j \notin J => q[j].next = st[j].next
    <2> DEFINE c == ComputeJobNextRunAtMs(st[j], j, t)
    <2>1. j \in Job /\ Good(st[j], j, t, sole) /\ Typed(st[j], t)  BY DEF GoodStore, Good
    <2>2. Good([st[j] EXCEPT !.next = c], j, t, sole)  BY <2>1, SlotIsGood
    <2>3. q[j] = IF st[j].enabled /\ j \in J THEN [st[j] EXCEPT !.next = c] ELSE st[j]
      BY DEF RecomputeJobs
    <2> HIDE DEF q, c
    <2>4. st[j] \in Record  BY <2>1 DEF Typed
    <2> QED  BY <2>1, <2>2, <2>3, <2>4 DEF Record, SameJob
  <1> QED  BY <1>1, <1>2 DEF GoodStore

LEMMA WalkKeeps ==
  ASSUME NEW sole \in BOOLEAN, NEW st, NEW t \in Nat, DOMAIN st \subseteq Job,
         GoodStore(st, t, sole)
  PROVE  LET q == WalkSchedulableJobs(st, t)
         IN  /\ DOMAIN q = DOMAIN st
             /\ GoodStore(q, t, sole)
             /\ NoNewMarker(q, st)
             /\ \A j \in DOMAIN st : /\ SameJob(q[j], st[j])
                                     /\ st[j].enabled => q[j].next = st[j].next
  <1> DEFINE q == WalkSchedulableJobs(st, t)
  <1>1. DOMAIN q = DOMAIN st /\ \A j \in DOMAIN st : q[j] = NormalizeJobTickState(st[j], t)
    BY DEF WalkSchedulableJobs
  <1> HIDE DEF q
  <1>2. ASSUME NEW j \in DOMAIN st
        PROVE  /\ Good(q[j], j, t, sole)
               /\ SameJob(q[j], st[j])
               /\ q[j].running \in {st[j].running, None}
               /\ st[j].enabled => q[j].next = st[j].next
    BY <1>1, NormalizeKeeps DEF GoodStore
  <1> QED  BY <1>1, <1>2 DEF GoodStore, NoNewMarker, q

LEMMA RecomputeNextRunsKeeps ==
  ASSUME NEW sole \in BOOLEAN, NEW st, NEW t \in Nat, DOMAIN st \subseteq Job,
         GoodStore(st, t, sole)
  PROVE  LET q == RecomputeNextRuns(st, t)
         IN  DOMAIN q = DOMAIN st /\ GoodStore(q, t, sole) /\ NoNewMarker(q, st)
  <1> DEFINE kept == WalkSchedulableJobs(st, t)
             q == RecomputeNextRuns(st, t)
             J == {j \in DOMAIN kept : kept[j].next = None \/ t >= kept[j].next}
  <1>1. DOMAIN kept = DOMAIN st /\ GoodStore(kept, t, sole) /\ NoNewMarker(kept, st)  BY WalkKeeps
  <1>2. q = RecomputeJobs(kept, t, J)  BY DEF RecomputeNextRuns
  <1> HIDE DEF kept, q, J
  <1>3. /\ DOMAIN q = DOMAIN kept /\ GoodStore(q, t, sole)
        /\ \A j \in DOMAIN kept : q[j].running = kept[j].running
    BY <1>1, <1>2, RecomputeKeeps
  <1> QED  BY <1>1, <1>3 DEF NoNewMarker, q

(* Maintenance leaves the slots of enabled jobs alone but for executed     *)
(* ones, which it moves on request: a job without one has no slot to get.  *)
LEMMA MaintenanceKeeps ==
  ASSUME NEW sole \in BOOLEAN, NEW st, NEW t \in Nat, NEW b \in BOOLEAN,
         DOMAIN st \subseteq Job, GoodStore(st, t, sole)
  PROVE  LET q == RecomputeNextRunsForMaintenance(st, t, b)
         IN  /\ DOMAIN q = DOMAIN st /\ GoodStore(q, t, sole) /\ NoNewMarker(q, st)
             /\ \A j \in DOMAIN st :
                  /\ SameJob(q[j], st[j])
                  /\ st[j].enabled /\ st[j].next # None =>
                       q[j].next = st[j].next \/ (b /\ st[j].lastRun >= st[j].next)
                  /\ sole /\ st[j].enabled /\ st[j].next = None => q[j].next = None
  <1> DEFINE kept == WalkSchedulableJobs(st, t)
             q == RecomputeNextRunsForMaintenance(st, t, b)
             J == {j \in DOMAIN kept : kept[j].next = None \/
                     (b /\ j \in {k \in DOMAIN kept : t >= kept[k].next /\ kept[k].running = None
                                                       /\ kept[k].lastRun >= kept[k].next})}
  <1>1. /\ DOMAIN kept = DOMAIN st /\ GoodStore(kept, t, sole) /\ NoNewMarker(kept, st)
        /\ \A j \in DOMAIN st : /\ SameJob(kept[j], st[j])
                                /\ st[j].enabled => kept[j].next = st[j].next
    BY WalkKeeps
  <1>2. q = RecomputeJobs(kept, t, J)  BY DEF RecomputeNextRunsForMaintenance
  <1> HIDE DEF q, kept
  <1>3. /\ DOMAIN q = DOMAIN kept /\ GoodStore(q, t, sole)
        /\ \A j \in DOMAIN kept : /\ q[j].running = kept[j].running
                                  /\ SameJob(q[j], kept[j])
                                  /\ j \notin J => q[j].next = kept[j].next
    <2> HIDE DEF J
    <2> QED  BY <1>1, <1>2, RecomputeKeeps
  <1>4. ASSUME NEW j \in DOMAIN st, st[j].enabled, st[j].next # None
        PROVE  q[j].next = st[j].next \/ (b /\ st[j].lastRun >= st[j].next)
    BY <1>1, <1>3, <1>4 DEF SameJob
  <1>5. ASSUME NEW j \in DOMAIN st, sole, st[j].enabled, st[j].next = None
        PROVE  q[j].next = None
    <2>1. kept[j].enabled /\ kept[j].next = None /\ Good(kept[j], j, t, sole)
      BY <1>1, <1>5 DEF GoodStore, SameJob
    <2>2. Kind[j] = "at" /\ Succeeded(kept[j]) /\ kept[j] \in Record
      BY <1>5, <2>1 DEF Good, Typed, Slotted
    <2>3. ComputeJobNextRunAtMs(kept[j], j, t) = None
      BY <2>1, <2>2 DEF ComputeJobNextRunAtMs, Succeeded
    <2>4. j \in J /\ j \in DOMAIN kept  BY <2>1, <1>1
    <2> HIDE DEF J
    <2>5. q[j] = [kept[j] EXCEPT !.next = ComputeJobNextRunAtMs(kept[j], j, t)]
      BY <1>2, <2>1, <2>4 DEF RecomputeJobs
    <2> QED  BY <2>2, <2>3, <2>5 DEF Record
  <1>6. \A j \in DOMAIN st : SameJob(q[j], st[j])  BY <1>1, <1>3 DEF SameJob
  <1> HIDE DEF J
  <1> QED  BY <1>1, <1>3, <1>4, <1>5, <1>6 DEF NoNewMarker, q

(* Nothing gets its first slot from maintenance.                           *)
LEMMA MaintenanceArmsNothing ==
  ASSUME NEW st, NEW t \in Nat, NEW b \in BOOLEAN, DOMAIN st \subseteq Job,
         GoodStore(st, t, TRUE), Armed(RecomputeNextRunsForMaintenance(st, t, b))
  PROVE  Armed(st)
  <1> DEFINE q == RecomputeNextRunsForMaintenance(st, t, b)
  <1>1. /\ DOMAIN q = DOMAIN st
        /\ \A j \in DOMAIN st : /\ SameJob(q[j], st[j])
                                /\ st[j].enabled /\ st[j].next = None => q[j].next = None
    <2> DEFINE sole == TRUE
    <2>1. sole \in BOOLEAN /\ sole /\ GoodStore(st, t, sole)  OBVIOUS
    <2> HIDE DEF sole, q
    <2>2. /\ DOMAIN q = DOMAIN st
          /\ \A j \in DOMAIN st :
               SameJob(q[j], st[j]) /\ (sole /\ st[j].enabled /\ st[j].next = None => q[j].next = None)
      BY <2>1, MaintenanceKeeps DEF q
    <2> QED  BY <2>1, <2>2
  <1> HIDE DEF q
  <1>2. PICK j \in DOMAIN q : q[j].enabled /\ q[j].next # None  BY DEF Armed, q
  <1> QED  BY <1>1, <1>2 DEF Armed, SameJob

(* A read or a preflight changes nothing in the copy that the file and the *)
(* copy have to agree on.                                                  *)
LEMMA MaintenanceIsAlike ==
  ASSUME NEW c, NEW st, NEW t \in Nat, DOMAIN c \subseteq Job, GoodStore(c, t, TRUE), Alike(c, st)
  PROVE  Alike(RecomputeNextRunsForMaintenance(c, t, FALSE), st)
  <1> DEFINE no == FALSE
             q == RecomputeNextRunsForMaintenance(c, t, no)
  <1>0. no \in BOOLEAN /\ ~no  OBVIOUS
  <1> HIDE DEF no
  <1>1. /\ DOMAIN q = DOMAIN c
        /\ \A j \in DOMAIN c : SameJob(q[j], c[j]) /\ (c[j].enabled => q[j].next = c[j].next)
    BY <1>0, MaintenanceKeeps
  <1> HIDE DEF q
  <1>2. Alike(q, st)  BY <1>1 DEF Alike, SameJob
  <1> QED  BY <1>2 DEF q, no

LEMMA MarkedKeeps ==
  ASSUME NEW sole \in BOOLEAN, NEW st, NEW J, NEW m \in Nat, NEW t \in Nat, GoodStore(st,
         t, sole)
  PROVE  LET q == Marked(st, J, m)
         IN  /\ DOMAIN q = DOMAIN st /\ GoodStore(q, t, sole)
             /\ \A j \in DOMAIN st :
                  /\ q[j].running = IF j \in J THEN m ELSE st[j].running
                  /\ SameJob(q[j], st[j]) /\ q[j].next = st[j].next
  <1> DEFINE q == Marked(st, J, m)
  <1>1. /\ DOMAIN q = DOMAIN st
        /\ \A j \in DOMAIN st :
             q[j] = IF j \in J THEN [st[j] EXCEPT !.running = m] ELSE st[j]
    BY DEF Marked
  <1> HIDE DEF q
  <1>2. ASSUME NEW j \in DOMAIN st
        PROVE  /\ Good(q[j], j, t, sole)
               /\ q[j].running = IF j \in J THEN m ELSE st[j].running
               /\ SameJob(q[j], st[j]) /\ q[j].next = st[j].next
    <2>1. Good(st[j], j, t, sole) /\ st[j] \in Record  BY DEF GoodStore, Good, Typed
    <2>2. /\ q[j] \in Record
          /\ q[j].running = IF j \in J THEN m ELSE st[j].running
          /\ q[j].enabled = st[j].enabled /\ q[j].next = st[j].next
          /\ q[j].base = st[j].base /\ q[j].lastRun = st[j].lastRun
          /\ q[j].lastStatus = st[j].lastStatus
      BY <1>1, <2>1 DEF Record, Stamp
    <2> QED  BY <2>1, <2>2 DEF Good, Typed, Slotted, Succeeded, SameJob
  <1> QED  BY <1>1, <1>2 DEF GoodStore, q

LEMMA BackoffIsTime ==
  ASSUME NEW n \in Nat \ {0}
  PROVE  ErrorBackoffMs(n) \in Nat \ {0}
  <1> DEFINE i == IF n < Len(Backoff) THEN n ELSE Len(Backoff)
  <1>1. i \in 1 .. Len(Backoff)  BY BackoffAssumption
  <1> QED  BY <1>1, BackoffAssumption DEF ErrorBackoffMs

(* applyJobResult: the marker goes, and an enabled job has a slot again    *)
(* unless it is a one-shot that is done.                                   *)
LEMMA ResultIsGood ==
  ASSUME NEW sole \in BOOLEAN, NEW j \in Job, NEW r, NEW t \in Nat, Good(r, j, t, sole),
         NEW res \in DoneType,
         res.startedAt <= t, NEW b \in BOOLEAN
  PROVE  LET q == ApplyJobResult(r, j, res, b)
         IN  Good(q, j, t, sole) /\ q.running = None /\ q.base = r.base
  <1> DEFINE q == ApplyJobResult(r, j, res, b)
             failed == res.status \in {"transient", "permanent"}
             errors == IF ~failed THEN 0 ELSE IF r.errors < ErrorCap THEN r.errors + 1 ELSE ErrorCap
             ran == [r EXCEPT !.running = None, !.lastRun = res.startedAt, !.errors = errors,
                              !.lastStatus = IF failed THEN "error" ELSE res.status]
             ran2 == [ran EXCEPT !.lastRun = r.lastRun]
             natural == IF b /\ Kind[j] = "every"
                        THEN ComputeJobNextRunAtMs(ran2, j, res.endedAt)
                        ELSE ComputeJobNextRunAtMs(ran, j, res.endedAt)
             retry == res.endedAt + ErrorBackoffMs(errors)
  <1>1. /\ r \in Record /\ res.startedAt \in Nat \ {0} /\ res.endedAt \in Nat \ {0}
        /\ res.status \in Result /\ r.base >= 1 /\ r.lastRun <= t /\ r.errors \in Nat
        /\ r.enabled \in BOOLEAN
    BY Constants DEF Good, Typed, DoneType, Time, Record
  <1>2. ErrorCap \in Nat \ {0}  BY Constants, BackoffAssumption DEF ErrorCap
  <1>3. errors \in Nat /\ (failed => errors \in Nat \ {0})  BY <1>1, <1>2
  <1>4. failed => retry \in Nat \ {0}  BY <1>1, <1>3, BackoffIsTime
  <1> HIDE DEF errors
  <1>5. /\ ran \in Record /\ ran.base = r.base /\ ran.enabled = r.enabled
        /\ ran.lastRun = res.startedAt /\ ran.running = None
        /\ ran.lastStatus = IF failed THEN "error" ELSE res.status
    BY <1>1, <1>3 DEF Record, Stamp, Result, None
  <1>6. /\ ran2 \in Record /\ ran2.base = r.base /\ ran2.enabled = r.enabled
    BY <1>1, <1>3 DEF Record, Stamp, Result, None
  <1> HIDE DEF ran, ran2
  <1>7. /\ natural \in Nat
        /\ r.enabled /\ Kind[j] # "at" => natural # None
    BY <1>1, <1>5, <1>6, ComputeSlot
  <1>8. q = CASE Kind[j] = "at" /\ res.status = "transient" /\ errors <= MaxAttempts ->
                   [ran EXCEPT !.next = retry]
              [] Kind[j] = "at" /\ ~(res.status = "transient" /\ errors <= MaxAttempts) ->
                   [ran EXCEPT !.enabled = FALSE, !.next = None]
              [] Kind[j] # "at" /\ ~r.enabled -> [ran EXCEPT !.next = None]
              [] Kind[j] # "at" /\ r.enabled /\ failed -> [ran EXCEPT !.next = Later(natural, retry)]
              [] Kind[j] = "every" /\ r.enabled /\ ~failed -> [ran EXCEPT !.next = natural]
              [] Kind[j] = "cron" /\ r.enabled /\ ~failed ->
                   [ran EXCEPT !.next = Later(natural, res.endedAt + RefireGap)]
    BY DEF ApplyJobResult, ran, ran2, errors
  <1> HIDE DEF q, natural, retry, failed
  <1>9. Kind[j] \in {"at", "every", "cron"}  BY PeriodOfJob
  <1>10. CASE Kind[j] = "at" /\ res.status = "transient" /\ errors <= MaxAttempts
    <2>1. q = [ran EXCEPT !.next = retry]  BY <1>8, <1>10
    <2>2. failed /\ retry \in Nat \ {0}  BY <1>10, <1>4 DEF failed
    <2>3. /\ q \in Record /\ q.base = r.base /\ q.next = retry /\ q.running = None
          /\ q.lastRun = res.startedAt /\ q.lastStatus = "error"
      BY <2>1, <2>2, <1>5 DEF Record, Stamp
    <2> QED  BY <2>2, <2>3, <1>1 DEF Good, Typed, Slotted, Succeeded, None, q
  <1>11. CASE Kind[j] = "at" /\ ~(res.status = "transient" /\ errors <= MaxAttempts)
    <2>1. q = [ran EXCEPT !.enabled = FALSE, !.next = None]  BY <1>8, <1>11
    <2>2. /\ q \in Record /\ q.base = r.base /\ ~q.enabled /\ q.running = None
          /\ q.lastRun = res.startedAt
      BY <2>1, <1>5 DEF Record, Stamp, None
    <2> QED  BY <2>2, <1>1 DEF Good, Typed, Slotted, q
  <1>12. CASE Kind[j] # "at" /\ ~r.enabled
    <2>1. q = [ran EXCEPT !.next = None]  BY <1>8, <1>12
    <2>2. /\ q \in Record /\ q.base = r.base /\ ~q.enabled /\ q.running = None
          /\ q.lastRun = res.startedAt
      BY <2>1, <1>5, <1>12 DEF Record, Stamp, None
    <2> QED  BY <2>2, <1>1 DEF Good, Typed, Slotted, q
  <1>13. CASE Kind[j] # "at" /\ r.enabled
    <2> DEFINE n == IF failed THEN Later(natural, retry)
                    ELSE IF Kind[j] = "every" THEN natural
                    ELSE Later(natural, res.endedAt + RefireGap)
    <2>1. n \in Nat \ {0}  BY <1>1, <1>4, <1>7, <1>13, Constants DEF Later, None
    <2>2. q = [ran EXCEPT !.next = n]  BY <1>8, <1>9, <1>13
    <2> HIDE DEF n
    <2>3. /\ q \in Record /\ q.base = r.base /\ q.next = n /\ q.running = None
          /\ q.lastRun = res.startedAt
      BY <2>1, <2>2, <1>5 DEF Record, Stamp
    <2> QED  BY <2>1, <2>3, <1>1, <1>13 DEF Good, Typed, Slotted, None, q
  <1> QED  BY <1>9, <1>10, <1>11, <1>12, <1>13

(* The results of a batch: the jobs with a result lose their marker or are *)
(* deleted, the others are left alone.                                     *)
HasResult(results, j) == \E res \in results : res.job = j
Results(results, t) == results \subseteq DoneType /\ \A res \in results : res.startedAt <= t

LEMMA OutcomesKeep ==
  ASSUME NEW sole \in BOOLEAN, NEW st, NEW t \in Nat, NEW b \in BOOLEAN, NEW results,
         DOMAIN st \subseteq Job, GoodStore(st, t, sole), Results(results, t)
  PROVE  LET q == ApplyOutcomes(st, results, b)
         IN  /\ DOMAIN q \subseteq DOMAIN st /\ GoodStore(q, t, sole) /\ NoNewMarker(q, st)
             /\ \A j \in DOMAIN q :
                  /\ q[j].base = st[j].base
                  /\ HasResult(results, j) => q[j].running = None
                  /\ ~HasResult(results, j) => q[j] = st[j]
  <1> DEFINE q == ApplyOutcomes(st, results, b)
  <1>1. DOMAIN q \subseteq DOMAIN st  BY DEF ApplyOutcomes
  <1>2. ASSUME NEW j \in DOMAIN q
        PROVE  /\ Good(q[j], j, t, sole) /\ q[j].base = st[j].base
               /\ HasResult(results, j) => q[j].running = None
               /\ ~HasResult(results, j) => q[j] = st[j]
    <2>1. j \in Job /\ Good(st[j], j, t, sole)  BY <1>1 DEF GoodStore
    <2>2. CASE HasResult(results, j)
      <3> DEFINE res == CHOOSE res \in results : res.job = j
      <3>1. res \in results  BY <2>2 DEF HasResult
      <3>2. q[j] = ApplyJobResult(st[j], j, res, b)  BY <2>2 DEF ApplyOutcomes, HasResult
      <3> HIDE DEF q, res
      <3>3. res \in DoneType /\ res.startedAt <= t  BY <3>1 DEF Results
      <3>4. Good(q[j], j, t, sole) /\ q[j].running = None /\ q[j].base = st[j].base
        BY <2>1, <3>2, <3>3, ResultIsGood
      <3> QED  BY <2>2, <3>4
    <2>3. CASE ~HasResult(results, j)
      <3>1. q[j] = st[j]  BY <2>3 DEF ApplyOutcomes, HasResult
      <3> QED  BY <2>1, <2>3, <3>1
    <2> QED  BY <2>2, <2>3
  <1> HIDE DEF q
  <1>3. GoodStore(q, t, sole) /\ NoNewMarker(q, st)  BY <1>1, <1>2 DEF GoodStore, NoNewMarker
  <1> QED  BY <1>1, <1>2, <1>3 DEF q

(* A place in a sequence is a positive number.                             *)
LEMMA PlaceIsPositive ==
  ASSUME NEW n, NEW k \in 1 .. n
  PROVE  k \in Nat \ {0}
  OBVIOUS

(* The slots of the deferred jobs lie ahead, so none is the time a one-shot*)
(* that has succeeded was set for.                                         *)
LEMMA SpreadKeeps ==
  ASSUME NEW sole \in BOOLEAN, NEW st, now \in Nat \ {0}, DOMAIN st \subseteq Job,
         GoodStore(st, now, sole)
  PROVE  LET q == Spread(st)
         IN  /\ DOMAIN q = DOMAIN st /\ GoodStore(q, now, sole)
             /\ \A j \in DOMAIN st : q[j].running = st[j].running
  <1> DEFINE still == SelectSeq(deferred, LAMBDA j : j \in DOMAIN st /\ st[j].enabled)
             q == Spread(st)
             place(j) == CHOOSE k \in 1 .. Len(still) : still[k] = j
             listed(j) == \E k \in 1 .. Len(still) : still[k] = j
  <1>1. /\ DOMAIN q = DOMAIN st
        /\ \A j \in DOMAIN st :
             q[j] = IF listed(j) THEN [st[j] EXCEPT !.next = now + Stagger * place(j)] ELSE st[j]
    BY DEF Spread
  <1>2. ASSUME NEW j \in DOMAIN st, listed(j)
        PROVE  place(j) \in Nat \ {0}
    <2>1. place(j) \in 1 .. Len(still)  BY <1>2
    <2> HIDE DEF place, still
    <2> QED  BY <2>1, PlaceIsPositive
  <1> HIDE DEF q, place, listed, still
  <1>3. ASSUME NEW j \in DOMAIN st
        PROVE  Good(q[j], j, now, sole) /\ q[j].running = st[j].running
    <2>1. j \in Job /\ Good(st[j], j, now, sole) /\ st[j] \in Record  BY DEF GoodStore, Good, Typed
    <2>2. CASE listed(j)
      <3> DEFINE n == now + Stagger * place(j)
      <3>1. place(j) \in Nat \ {0}  BY <1>2, <2>2
      <3>2. Stagger * place(j) \in Nat /\ (Stagger > 0 => Stagger * place(j) > 0)
        BY <3>1, Constants
      <3>3. n \in Nat \ {0} /\ (Stagger > 0 => n > now)  BY <3>2
      <3>4. q[j] = [st[j] EXCEPT !.next = n]  BY <1>1, <2>2
      <3> HIDE DEF n
      <3>5. /\ q[j] \in Record /\ q[j].next = n /\ q[j].running = st[j].running
            /\ q[j].base = st[j].base /\ q[j].lastRun = st[j].lastRun
            /\ q[j].enabled = st[j].enabled /\ q[j].lastStatus = st[j].lastStatus
            /\ q[j].base \in Nat /\ q[j].lastRun \in Nat
        BY <2>1, <3>3, <3>4 DEF Record, Stamp, None
      <3> QED  BY <2>1, <3>3, <3>5 DEF Good, Typed, Slotted, Succeeded, None
    <2>3. CASE ~listed(j)  BY <1>1, <2>1, <2>3
    <2> QED  BY <2>2, <2>3
  <1> QED  BY <1>1, <1>3 DEF GoodStore, q

LEMMA NewRecordIsGood ==
  ASSUME NEW sole \in BOOLEAN, NEW j \in Job, NEW t \in Nat \ {0}, NEW u \in Nat
  PROVE  Good(NewRecord(j, t), j, u, sole) /\ NewRecord(j, t).running = None
  <1> DEFINE r == [enabled |-> TRUE, base |-> IF Kind[j] = "at" THEN t + 1 ELSE t, next |-> None,
                   running |-> None, lastRun |-> None, lastStatus |-> "none", errors |-> 0]
             c == ComputeJobNextRunAtMs(r, j, t)
  <1>1. Typed(r, u) /\ r.running = None  BY DEF Typed, Record, Stamp, None
  <1>2. NewRecord(j, t) = [r EXCEPT !.next = c]  BY DEF NewRecord
  <1>3. Good([r EXCEPT !.next = c], j, u, sole)  BY <1>1, SlotIsGood
  <1> HIDE DEF c
  <1>4. [r EXCEPT !.next = c].running = None  OBVIOUS
  <1> QED  BY <1>2, <1>3, <1>4

(* update: a new time for a one-shot is after every run so far.            *)
LEMMA PatchedIsGood ==
  ASSUME NEW sole \in BOOLEAN, NEW j \in Job, NEW r, now \in Nat \ {0}, Good(r, j, now,
         sole), NEW p \in Patch
  PROVE  Good(Patched(r, j, p), j, now, sole) /\ Patched(r, j, p).running \in {r.running, None}
  <1> DEFINE q == CASE p = "enable" -> [r EXCEPT !.enabled = TRUE]
                    [] p = "disable" -> [r EXCEPT !.enabled = FALSE]
                    [] p = "schedule" -> [r EXCEPT !.base = IF Kind[j] = "at" THEN now + 1 ELSE now]
                    [] p = "edit" -> r
             c == ComputeJobNextRunAtMs(q, j, now)
             again == [q EXCEPT !.next = c]
             off == [q EXCEPT !.next = None, !.running = None]
  <1>1. r \in Record /\ r.base \in Nat /\ r.base >= 1 /\ r.lastRun <= now
    BY DEF Good, Typed, Record, Stamp, None
  <1>2. p \in {"enable", "disable", "schedule", "edit"}  BY DEF Patch
  <1>3. q \in Record /\ Typed(q, now) /\ q.running = r.running
    <2>1. CASE p = "enable"  BY <2>1, <1>1 DEF Typed, Record
    <2>2. CASE p = "disable"  BY <2>2, <1>1 DEF Typed, Record
    <2>3. CASE p = "schedule"  BY <2>3, <1>1 DEF Typed, Record, Stamp
    <2>4. CASE p = "edit"  BY <2>4, <1>1 DEF Typed, Record
    <2> QED  BY <1>2, <2>1, <2>2, <2>3, <2>4
  <1>4. p = "edit" => q = r  OBVIOUS
  <1>5. Patched(r, j, p) = IF p = "edit" THEN IF q.enabled /\ q.next = None THEN again ELSE q
                           ELSE IF q.enabled THEN again ELSE off
    BY DEF Patched
  <1> HIDE DEF q
  <1>6. Good(again, j, now, sole)  BY <1>3, SlotIsGood
  <1>7. again.running = r.running
    <2> HIDE DEF c
    <2> QED  BY <1>3 DEF Record
  <1>8. ~q.enabled => Good(off, j, now, sole) /\ off.running = None
    <2>1. off \in Record /\ off.base = q.base /\ off.lastRun = q.lastRun
          /\ off.enabled = q.enabled /\ off.running = None
      BY <1>3 DEF Record, Stamp
    <2> QED  BY <2>1, <1>3 DEF Good, Typed, Slotted
  <1> HIDE DEF again, off
  <1> QED  BY <1>3, <1>4, <1>5, <1>6, <1>7, <1>8

-----------------------------------------------------------------------------
(* The inductive invariant.                                                *)

(* Who has decided to execute a job and has not applied the result.        *)
Holders(j) == {w \in Runner : \/ j \in batch[w].todo
                              \/ \E e \in batch[w].live \cup batch[w].done : e.job = j}
Callers(j) == {m \in Manual : manual[m].job = j /\ manual[m].phase \in {"run", "finish"}}
Idle(w) == batch[w].todo = {} /\ batch[w].live = {} /\ batch[w].done = {}

(* The file and the copies.                                                *)
StoresOK(sole) ==
  /\ DOMAIN copy = Service
  /\ DOMAIN store \subseteq Job \ fresh /\ GoodStore(store, now, sole)
  /\ \A s \in Service : DOMAIN copy[s] \subseteq Job \ fresh /\ GoodStore(copy[s], now, sole)

(* Only the service the gateway holds is started, and only a tick or a     *)
(* start that runs jobs has a batch.                                       *)
ControlInv ==
  /\ \A s \in Service : s # current => boot[s] = "off"
  /\ \A s \in Service : tick[s] # "run" => Idle(<<s, "tick">>)
  /\ \A s \in Service : boot[s] # "run" => Idle(<<s, "boot">>)

(* Nothing has been started in the future, and what a manual run holds is  *)
(* known in the phase that uses it.                                        *)
StartedInv ==
  /\ \A w \in Runner : \A e \in batch[w].live \cup batch[w].done : e.startedAt <= now
  /\ \A m \in Manual :
       /\ manual[m].phase \in {"reserve", "run", "finish"} => manual[m].startedAt \in 1 .. now
       /\ manual[m].phase = "finish" => manual[m].endedAt \in Time /\ manual[m].status \in Result

(* Without a hot reload nobody works beside the service the gateway holds, *)
(* nor before its first section has loaded the file; from then on its copy *)
(* and the file agree.                                                     *)
OnlyCurrentWorks ==
  /\ \A s \in Service : s # current \/ boot[s] = "clear" => ~timer[s] /\ tick[s] = "idle"
  /\ boot[current] = "clear" => \A m \in Manual : manual[m].phase \in {"idle", "over"}
CopyInv == boot[current] # "clear" => Alike(copy[current], store)

(* Then a job that kept its marker has one executor, and the marker is in  *)
(* the file and in memory.                                                 *)
Alone(j) ==
  /\ \A v, w \in Holders(j) : v = w
  /\ \A m, n \in Callers(j) : m = n
  /\ Holders(j) = {} \/ Callers(j) = {}
Mark(st, j) == j \in DOMAIN st /\ st[j].running # None
HasMarker(j) == InFile(j) \/ InMemory(j)
MarkerInv(j) == j \in unmarked \/ (Alone(j) /\ (InFlight(j) => InFile(j) /\ InMemory(j)))

SoleInv ==
  /\ OnlyCurrentWorks
  /\ CopyInv
  /\ \A j \in Job : MarkerInv(j)
  /\ MarkerHasRun

IndInv(sole) ==
  /\ CronTypeOK
  /\ StoresOK(sole)
  /\ ControlInv
  /\ StartedInv
  /\ sole => SoleInv

-----------------------------------------------------------------------------
(* How a step moves the holders and the marker of a job: it takes the job  *)
(* up with a marker where there was none, or nobody is added; and the last *)
(* holder leaves no marker behind.                                         *)
Taken(j) ==
  /\ ~(InFile(j) /\ InMemory(j))
  /\ InFile(j)' /\ InMemory(j)'
  /\ \/ Callers(j)' \subseteq Callers(j) /\ \E w \in Runner : Holders(j)' \subseteq Holders(j) \cup {w}
     \/ Holders(j)' \subseteq Holders(j) /\ \E m \in Manual : Callers(j)' \subseteq Callers(j) \cup {m}
Followed(j) ==
  boot'[current'] # "clear" /\ HasMarker(j)' =>
    InFlight(j)' \/ (boot[current] # "clear" /\ HasMarker(j) /\ ~InFlight(j))
Moved(j) ==
  /\ Taken(j) \/ (Holders(j)' \subseteq Holders(j) /\ Callers(j)' \subseteq Callers(j))
  /\ Followed(j)

(* What each step has to show without a hot reload.                        *)
SoleStep == OnlyCurrentWorks' /\ CopyInv' /\ \A j \in Job : Moved(j)

LEMMA InFlightHeld ==
  ASSUME NEW j
  PROVE  InFlight(j) <=> (Holders(j) # {} \/ Callers(j) # {})
  BY DEF InFlight, Holders, Callers

LEMMA InFlightHeldNext ==
  ASSUME NEW j
  PROVE  InFlight(j)' <=> (Holders(j)' # {} \/ Callers(j)' # {})
  BY DEF InFlight, Holders, Callers

(* Why the markers are kept: a job is taken up only without a marker, and  *)
(* then nobody holds it, unless its marker has been lost.                  *)
LEMMA MarkersKept ==
  ASSUME SoleInv, RecordUnmarked, \A j \in Job : Moved(j)
  PROVE  (\A j \in Job : MarkerInv(j)') /\ MarkerHasRun'
  <1>1. ASSUME NEW j \in Job, j \notin unmarked'
        PROVE  Alone(j)' /\ (InFlight(j)' => InFile(j)' /\ InMemory(j)')
    <2>1. MarkerInv(j) /\ Moved(j)  BY DEF SoleInv
    <2>2. InFlight(j)' => /\ j \notin unmarked
                          /\ InFile(j) => InFile(j)'
                          /\ InMemory(j) => InMemory(j)'
      BY <1>1 DEF RecordUnmarked
    <2>3. CASE Holders(j)' = {} /\ Callers(j)' = {}
      BY <2>3, InFlightHeldNext DEF Alone
    <2>4. CASE ~(Holders(j)' = {} /\ Callers(j)' = {})
      <3>1. InFlight(j)'  BY <2>4, InFlightHeldNext
      <3>2. Alone(j) /\ (InFlight(j) => InFile(j) /\ InMemory(j))
        BY <2>1, <2>2, <3>1 DEF MarkerInv
      <3>3. CASE Taken(j)
        <4>1. Holders(j) = {} /\ Callers(j) = {}  BY <3>2, <3>3, InFlightHeld DEF Taken
        <4>2. Alone(j)'
          BY <3>3, <4>1 DEF Taken, Alone
        <4> QED  BY <4>2, <3>3 DEF Taken
      <3>4. CASE Holders(j)' \subseteq Holders(j) /\ Callers(j)' \subseteq Callers(j)
        <4>1. InFlight(j)  BY <2>4, <3>4, InFlightHeld
        <4>2. InFile(j)' /\ InMemory(j)'  BY <4>1, <3>2, <2>2, <3>1
        <4> QED  BY <4>2, <3>2, <3>4 DEF Alone
      <3> QED  BY <2>1, <3>3, <3>4 DEF Moved
    <2> QED  BY <2>3, <2>4
  <1>2. ASSUME NEW j \in Job PROVE MarkerInv(j)'
    BY <1>1 DEF MarkerInv
  <1>3. ASSUME boot'[current'] # "clear", NEW j \in Job, HasMarker(j)'
        PROVE  InFlight(j)'
    <2>1. Followed(j)  BY DEF Moved
    <2>2. boot[current] # "clear" /\ HasMarker(j) => InFlight(j)
      BY DEF SoleInv, MarkerHasRun, HasMarker
    <2> QED  BY <1>3, <2>1, <2>2 DEF Followed
  <1>4. MarkerHasRun'  BY <1>3 DEF MarkerHasRun, HasMarker
  <1> QED  BY <1>2, <1>4

(* A step that leaves the batches and the calls alone, and sets no marker. *)
LEMMA QuietMoves ==
  ASSUME \A j \in Job : HasMarker(j)' => HasMarker(j), batch' = batch, manual' = manual,
         boot'[current'] # "clear" => boot[current] # "clear" \/ \A j \in Job : ~HasMarker(j)'
  PROVE  \A j \in Job : Moved(j)
  <1> TAKE j \in Job
  <1>1. Holders(j)' = Holders(j) /\ Callers(j)' = Callers(j) /\ (InFlight(j)' <=> InFlight(j))
    BY DEF Holders, Callers, InFlight
  <1> QED  BY <1>1 DEF Moved, Followed

(* The steps that leave the file and the copies alone.                     *)
LEMMA SameMarkers ==
  ASSUME store' = store, copy' = copy, current' = current
  PROVE  \A j \in Job : (InFile(j)' <=> InFile(j)) /\ (InMemory(j)' <=> InMemory(j))
  BY DEF InFile, InMemory

(* The parts of the invariant that speak of the batches and the calls.     *)
LEMMA SameWork ==
  ASSUME StartedInv, batch' = batch, manual' = manual, now' = now
  PROVE  StartedInv'
  BY DEF StartedInv

OtherTypeOK ==
  /\ now \in Time
  /\ current \in Service
  /\ timer \in [Service -> BOOLEAN]
  /\ tick \in [Service -> {"idle", "collect", "run", "finally"}]
  /\ boot \in [Service -> {"off", "clear", "plan", "run", "recompute", "on"}]
  /\ skip \subseteq Job
  /\ batch \in [Runner -> Batch]
  /\ attached \in [Service -> BOOLEAN]
  /\ deferred \in Seq(Job)
  /\ manual \in [Manual -> Call]
  /\ edits \in 0 .. MaxEdits

LEMMA Combine ==
  ASSUME NEW sole \in BOOLEAN, IndInv(sole), RecordUnmarked, OtherTypeOK', StoresOK(sole)',
         ControlInv', StartedInv', sole => SoleStep
  PROVE  IndInv(sole)'
  <1>1. unmarked' \subseteq Job  BY DEF RecordUnmarked
  <1>2. CronTypeOK'
    <2>1. ASSUME NEW st \in {store'} \cup {copy'[s] : s \in Service}
          PROVE  DOMAIN st \subseteq Job \ fresh' /\ \A j \in DOMAIN st : st[j] \in Record
      BY DEF StoresOK, GoodStore, Good, Typed
    <2> QED  BY <1>1, <2>1 DEF CronTypeOK, OtherTypeOK, StoresOK
  <1>3. ASSUME sole PROVE SoleInv'
    <2>1. (\A j \in Job : MarkerInv(j)') /\ MarkerHasRun'
      BY <1>3, MarkersKept DEF IndInv, SoleStep
    <2> QED  BY <1>3, <2>1 DEF SoleStep, SoleInv
  <1> QED  BY <1>2, <1>3 DEF IndInv

LEMMA TypeFacts ==
  ASSUME NEW sole \in BOOLEAN, IndInv(sole)
  PROVE  /\ OtherTypeOK /\ DOMAIN store \subseteq Job /\ DOMAIN store \cap fresh = {}
         /\ now \in Nat \ {0} /\ GoodStore(store, now, sole)
         /\ DOMAIN copy = Service /\ current \in Service
         /\ \A s \in Service : /\ DOMAIN copy[s] \subseteq Job
                               /\ DOMAIN copy[s] \cap fresh = {}
                               /\ GoodStore(copy[s], now, sole)
         /\ \A s \in Service : <<s, "tick">> \in Runner /\ <<s, "boot">> \in Runner
         /\ \A w \in Runner : batch[w] \in Batch
         /\ \A m \in Manual : manual[m] \in Call
  <1>1. OtherTypeOK  BY DEF IndInv, CronTypeOK, OtherTypeOK
  <1>2. StoresOK(sole)  BY DEF IndInv
  <1>3. now \in Nat \ {0}  BY <1>1, Constants DEF OtherTypeOK, Time
  <1> QED  BY <1>1, <1>2, <1>3 DEF StoresOK, OtherTypeOK, Runner

(* How the file and the copies change.                                     *)
LEMMA PersistFacts ==
  ASSUME NEW s \in Service, NEW st, DOMAIN copy = Service, Persist(s, st)
  PROVE  /\ store' = st /\ DOMAIN copy' = Service /\ copy'[s] = st
         /\ \A u \in Service : u # s => copy'[u] = copy[u]
  BY DEF Persist

LEMMA PersistOK ==
  ASSUME NEW sole \in BOOLEAN, IndInv(sole), NEW s \in Service, NEW st, Persist(s, st),
         now' = now, fresh' \subseteq fresh, DOMAIN st \subseteq Job \ fresh',
         GoodStore(st, now, sole)
  PROVE  StoresOK(sole)'
  <1>1. /\ store' = st /\ DOMAIN copy' = Service /\ copy'[s] = st
        /\ \A u \in Service : u # s => copy'[u] = copy[u]
    BY TypeFacts, PersistFacts
  <1>2. StoresOK(sole)  BY DEF IndInv
  <1>3. ASSUME NEW u \in Service
        PROVE  DOMAIN copy'[u] \subseteq Job \ fresh' /\ GoodStore(copy'[u], now, sole)
    BY <1>1, <1>2 DEF StoresOK
  <1> QED  BY <1>1, <1>3 DEF StoresOK

LEMMA CopyChangeOK ==
  ASSUME NEW sole \in BOOLEAN, IndInv(sole), NEW s \in Service, NEW c, store' = store,
         copy' = [copy EXCEPT ![s] = c], now' = now, fresh' = fresh,
         DOMAIN c \subseteq DOMAIN copy[s], GoodStore(c, now, sole)
  PROVE  /\ StoresOK(sole)' /\ copy'[s] = c
         /\ \A u \in Service : u # s => copy'[u] = copy[u]
  <1>1. /\ DOMAIN copy' = Service /\ copy'[s] = c
        /\ \A u \in Service : u # s => copy'[u] = copy[u]
    BY TypeFacts
  <1>2. StoresOK(sole)  BY DEF IndInv
  <1>3. ASSUME NEW u \in Service
        PROVE  DOMAIN copy'[u] \subseteq Job \ fresh' /\ GoodStore(copy'[u], now, sole)
    BY <1>1, <1>2 DEF StoresOK
  <1> QED  BY <1>1, <1>2, <1>3 DEF StoresOK

LEMMA SameStoresOK ==
  ASSUME NEW sole \in BOOLEAN, IndInv(sole), store' = store, copy' = copy, now' = now,
         fresh' = fresh
  PROVE  StoresOK(sole)'
  <1>1. StoresOK(sole)  BY DEF IndInv
  <1> QED  BY <1>1 DEF StoresOK

(* After a save of the service the gateway holds, file and memory are one. *)
LEMMA PersistOne ==
  ASSUME DOMAIN copy = Service, current \in Service, current' = current,
         NEW st, Persist(current, st)
  PROVE  /\ CopyInv'
         /\ \A j \in Job : (InFile(j)' <=> Mark(st, j)) /\ (InMemory(j)' <=> Mark(st, j))
  <1>1. store' = st /\ copy'[current] = st  BY PersistFacts
  <1>2. Alike(st, st)  BY DEF Alike, SameJob
  <1> QED  BY <1>1, <1>2 DEF CopyInv, InFile, InMemory, Mark

LEMMA PersistQuiet ==
  ASSUME DOMAIN copy = Service, current \in Service, current' = current,
         NEW st, Persist(current, st), NEW from \in {store, copy[current]},
         \A j \in Job : Mark(st, j) => Mark(from, j)
  PROVE  \A j \in Job : HasMarker(j)' => HasMarker(j)
  <1>1. \A j \in Job : HasMarker(j)' => Mark(from, j)  BY PersistOne DEF HasMarker
  <1>2. \A j \in Job : Mark(from, j) => HasMarker(j)  BY DEF HasMarker, Mark, InFile, InMemory
  <1> QED  BY <1>1, <1>2

LEMMA NoNewMarks ==
  ASSUME NEW st, NEW from, NoNewMarker(st, from)
  PROVE  \A j \in Job : Mark(st, j) => Mark(from, j)
  BY DEF NoNewMarker, Mark

(* Without a reload, whoever ticks is the service the gateway holds.       *)
LEMMA TickIsCurrent ==
  ASSUME SoleInv, NEW s \in Service, timer[s] \/ tick[s] # "idle"
  PROVE  s = current /\ boot[current] # "clear"
  BY DEF SoleInv, OnlyCurrentWorks

LEMMA OnlyCurrentStill ==
  ASSUME SoleInv, current' = current, boot'[current] # "clear",
         \A s \in Service : s # current => timer'[s] = timer[s] /\ tick'[s] = tick[s]
  PROVE  OnlyCurrentWorks'
  BY DEF SoleInv, OnlyCurrentWorks

LEMMA StartIsCurrent ==
  ASSUME ControlInv, NEW s \in Service, boot[s] # "off"
  PROVE  s = current
  BY DEF ControlInv

(* A save that sets no marker, and a step that saves nothing.              *)
LEMMA QuietSave ==
  ASSUME SoleInv, DOMAIN copy = Service, current \in Service, current' = current,
         NEW st, NEW from \in {store, copy[current]}, Persist(current, st),
         \A j \in Job : Mark(st, j) => Mark(from, j), batch' = batch, manual' = manual,
         boot[current] # "clear", boot'[current] # "clear",
         \A s \in Service : s # current => timer'[s] = timer[s] /\ tick'[s] = tick[s]
  PROVE  SoleStep
  <1>1. \A j \in Job : HasMarker(j)' => HasMarker(j)  BY PersistQuiet
  <1>2. \A j \in Job : Moved(j)  BY <1>1, QuietMoves
  <1>3. CopyInv'  BY PersistOne
  <1>4. OnlyCurrentWorks'  BY OnlyCurrentStill
  <1> QED  BY <1>2, <1>3, <1>4 DEF SoleStep

LEMMA QuietStill ==
  ASSUME SoleInv, current' = current, store' = store, copy' = copy, batch' = batch,
         manual' = manual, boot'[current] # "clear" => boot[current] # "clear",
         OnlyCurrentWorks'
  PROVE  SoleStep
  <1>1. \A j \in Job : HasMarker(j)' => HasMarker(j)  BY SameMarkers DEF HasMarker
  <1>2. \A j \in Job : Moved(j)  BY <1>1, QuietMoves
  <1>3. CopyInv'  BY DEF SoleInv, CopyInv
  <1> QED  BY <1>2, <1>3 DEF SoleStep

-----------------------------------------------------------------------------
(* The steps that leave the batches and the calls alone.                   *)

LEMMA StillKeeps ==
  ASSUME NEW sole \in BOOLEAN, IndInv(sole), RecordUnmarked, store' = store, copy' = copy,
         batch' = batch, manual' = manual, now' = now, boot' = boot, current' = current,
         fresh' = fresh, OtherTypeOK', \A u \in Service : tick'[u] = "run" <=> tick[u] = "run",
         sole => OnlyCurrentWorks'
  PROVE  IndInv(sole)'
  <1>1. ControlInv'  BY DEF IndInv, ControlInv, Idle
  <1>2. StoresOK(sole)'  BY SameStoresOK
  <1>3. StartedInv'  BY SameWork DEF IndInv
  <1>4. sole => SoleStep  BY QuietStill DEF IndInv
  <1> QED  BY <1>1, <1>2, <1>3, <1>4, Combine

LEMMA TimerKeeps ==
  ASSUME NEW sole \in BOOLEAN, IndInv(sole), RecordUnmarked, NEW s \in Service,
         OnTimerBusy(s) \/ OnTimer(s) \/ TickFinally(s)
  PROVE  IndInv(sole)'
  <1>1. /\ store' = store /\ copy' = copy /\ batch' = batch /\ manual' = manual /\ now' = now
        /\ boot' = boot /\ current' = current /\ fresh' = fresh
        /\ timer[s] \/ tick[s] # "idle"
        /\ \A u \in Service : tick'[u] = "run" <=> tick[u] = "run"
        /\ \A u \in Service : u # s => timer'[u] = timer[u] /\ tick'[u] = tick[u]
    BY TypeFacts DEF OnTimerBusy, OnTimer, TickFinally, OtherTypeOK
  <1>2. OtherTypeOK'
    <2>1. OtherTypeOK /\ Armed(copy[s]) \in BOOLEAN  BY TypeFacts DEF Armed
    <2>2. timer' \in [Service -> BOOLEAN]
      BY <2>1 DEF OnTimerBusy, OnTimer, TickFinally, OtherTypeOK
    <2>3. tick' \in [Service -> {"idle", "collect", "run", "finally"}]
      BY <2>1 DEF OnTimerBusy, OnTimer, TickFinally, OtherTypeOK
    <2> QED  BY <2>1, <2>2, <2>3 DEF OnTimerBusy, OnTimer, TickFinally, OtherTypeOK
  <1>3. sole => OnlyCurrentWorks'
    <2>1. sole => SoleInv  BY DEF IndInv
    <2>2. sole => s = current /\ boot[current] # "clear"  BY <2>1, <1>1, TickIsCurrent
    <2> QED  BY <1>1, <2>1, <2>2, OnlyCurrentStill
  <1> QED  BY <1>1, <1>2, <1>3, StillKeeps

(* The calls that save the copy of the service the gateway holds, changed  *)
(* by an operator that sets no marker.                                     *)
LEMMA SaveKeeps ==
  ASSUME NEW sole \in BOOLEAN, IndInv(sole), RecordUnmarked, Serving,
         NEW st, Persist(current, st), GoodStore(st, now, sole),
         DOMAIN st \subseteq Job \ fresh', fresh' \subseteq fresh,
         \A j \in Job : Mark(st, j) => Mark(copy[current], j),
         batch' = batch, manual' = manual, now' = now, boot' = boot, current' = current,
         tick' = tick, attached' = attached, skip' = skip, deferred' = deferred,
         edits' \in 0 .. MaxEdits, timer' \in [Service -> BOOLEAN],
         \A u \in Service : u # current => timer'[u] = timer[u]
  PROVE  IndInv(sole)'
  <1>1. OtherTypeOK'  BY TypeFacts DEF OtherTypeOK
  <1>2. ControlInv'  BY DEF IndInv, ControlInv, Idle
  <1>3. StoresOK(sole)'  BY TypeFacts, PersistOK
  <1>4. StartedInv'  BY SameWork DEF IndInv
  <1>5. ASSUME sole PROVE SoleStep
    <2>1. SoleInv  BY <1>5 DEF IndInv
    <2>2. DOMAIN copy = Service /\ current \in Service  BY TypeFacts
    <2>3. copy[current] \in {store, copy[current]}  OBVIOUS
    <2> QED  BY <2>1, <2>2, <2>3, QuietSave DEF Serving
  <1> QED  BY <1>1, <1>2, <1>3, <1>4, <1>5, Combine

LEMMA EnsureLoadedForReadKeeps ==
  ASSUME NEW sole \in BOOLEAN, IndInv(sole), RecordUnmarked, EnsureLoadedForRead
  PROVE  IndInv(sole)'
  <1> DEFINE no == FALSE
             c == copy[current]
             q == RecomputeNextRunsForMaintenance(c, now, no)
  <1>1. /\ Serving /\ PersistChange(current, q)
        /\ batch' = batch /\ manual' = manual /\ now' = now /\ boot' = boot
        /\ current' = current /\ tick' = tick /\ attached' = attached /\ skip' = skip
        /\ deferred' = deferred /\ edits' = edits /\ timer' = timer /\ fresh' = fresh
    BY DEF EnsureLoadedForRead, Own
  <1>2. current \in Service /\ no \in BOOLEAN /\ DOMAIN c \subseteq Job \ fresh /\ OtherTypeOK
    BY TypeFacts
  <1>3. DOMAIN q = DOMAIN c /\ GoodStore(q, now, sole) /\ NoNewMarker(q, c)
    BY <1>2, TypeFacts, MaintenanceKeeps
  <1> HIDE DEF q, no
  <1>4. CASE Persist(current, q)
    <2>1. \A j \in Job : Mark(q, j) => Mark(c, j)  BY <1>3, NoNewMarks
    <2> QED  BY <1>1, <1>2, <1>3, <1>4, <2>1, SaveKeeps DEF OtherTypeOK
  <1>5. CASE UNCHANGED <<store, copy>>
    <2>1. OtherTypeOK'  BY <1>1, <1>2 DEF OtherTypeOK
    <2>2. sole => OnlyCurrentWorks'
      BY <1>1 DEF IndInv, SoleInv, OnlyCurrentWorks
    <2> QED  BY <1>1, <1>5, <2>1, <2>2, StillKeeps
  <1> QED  BY <1>1, <1>4, <1>5 DEF PersistChange

LEMMA AddKeeps ==
  ASSUME NEW sole \in BOOLEAN, IndInv(sole), RecordUnmarked, NEW j \in Job, Add(j)
  PROVE  IndInv(sole)'
  <1> DEFINE c == copy[current]
             st == [k \in DOMAIN c \cup {j} |-> IF k = j THEN NewRecord(j, now) ELSE c[k]]
             q == RecomputeNextRuns(st, now)
  <1>1. Persist(current, q) /\ Serving /\ j \in fresh /\ fresh' = fresh \ {j}
    BY DEF Add, Own
  <1>2. Good(NewRecord(j, now), j, now, sole) /\ NewRecord(j, now).running = None
    BY TypeFacts, NewRecordIsGood
  <1>3. /\ DOMAIN c \subseteq Job /\ DOMAIN c \cap fresh = {} /\ GoodStore(c, now, sole)
        /\ now \in Nat
    BY TypeFacts
  <1> HIDE DEF c
  <1>4. /\ DOMAIN st = DOMAIN c \cup {j} /\ DOMAIN st \subseteq Job
        /\ GoodStore(st, now, sole) /\ st[j].running = None
        /\ \A k \in DOMAIN c : k # j => st[k] = c[k]
    BY <1>2, <1>3 DEF GoodStore
  <1> HIDE DEF st
  <1>5. DOMAIN q = DOMAIN st /\ GoodStore(q, now, sole) /\ NoNewMarker(q, st)
    BY <1>3, <1>4, RecomputeNextRunsKeeps
  <1> HIDE DEF q
  <1>6. \A k \in Job : Mark(q, k) => Mark(c, k)
    BY <1>4, <1>5 DEF Mark, NoNewMarker
  <1>7. DOMAIN q \subseteq Job \ fresh'  BY <1>1, <1>3, <1>4, <1>5
  <1>8. timer' \in [Service -> BOOLEAN] /\ \A u \in Service : u # current => timer'[u] = timer[u]
    BY TypeFacts DEF Add, OtherTypeOK, Armed
  <1>9. /\ batch' = batch /\ manual' = manual /\ now' = now /\ boot' = boot
        /\ current' = current /\ tick' = tick /\ attached' = attached /\ skip' = skip
        /\ deferred' = deferred /\ edits' \in 0 .. MaxEdits
    BY TypeFacts DEF Add, OtherTypeOK
  <1> QED  BY <1>1, <1>5, <1>6, <1>7, <1>8, <1>9, SaveKeeps DEF c

LEMMA UpdateKeeps ==
  ASSUME NEW sole \in BOOLEAN, IndInv(sole), RecordUnmarked, NEW j \in Job,
         NEW p \in Patches, Update(j, p)
  PROVE  IndInv(sole)'
  <1> DEFINE c == copy[current]
             r == Patched(c[j], j, p)
             st == [c EXCEPT ![j] = r]
  <1>1. Persist(current, st) /\ Serving /\ j \in DOMAIN c  BY DEF Update, Own
  <1>2. /\ DOMAIN c \subseteq Job /\ DOMAIN c \cap fresh = {} /\ GoodStore(c, now, sole)
        /\ now \in Nat \ {0}
    BY TypeFacts
  <1>3. Good(r, j, now, sole) /\ r.running \in {c[j].running, None}
    BY <1>1, <1>2, PatchedIsGood, ChoiceAssumption DEF GoodStore
  <1> HIDE DEF r, c
  <1>4. DOMAIN st = DOMAIN c /\ GoodStore(st, now, sole)  BY <1>2, <1>3 DEF GoodStore
  <1>5. \A k \in Job : Mark(st, k) => Mark(c, k)  BY <1>1, <1>3 DEF Mark
  <1> HIDE DEF st
  <1>6. timer' \in [Service -> BOOLEAN] /\ \A u \in Service : u # current => timer'[u] = timer[u]
    BY TypeFacts DEF Update, OtherTypeOK, Armed
  <1>7. /\ batch' = batch /\ manual' = manual /\ now' = now /\ boot' = boot
        /\ current' = current /\ tick' = tick /\ attached' = attached /\ skip' = skip
        /\ deferred' = deferred /\ edits' \in 0 .. MaxEdits /\ fresh' = fresh
    BY TypeFacts, Constants DEF Update, OtherTypeOK
  <1>8. DOMAIN st \subseteq Job \ fresh' /\ fresh' \subseteq fresh  BY <1>2, <1>4, <1>7
  <1> QED  BY <1>1, <1>4, <1>5, <1>6, <1>7, <1>8, SaveKeeps DEF c

LEMMA RemoveKeeps ==
  ASSUME NEW sole \in BOOLEAN, IndInv(sole), RecordUnmarked, NEW j \in Job, Remove(j)
  PROVE  IndInv(sole)'
  <1> DEFINE c == copy[current]
             st == [k \in DOMAIN c \ {j} |-> c[k]]
  <1>1. Persist(current, st) /\ Serving  BY DEF Remove, Own
  <1>2. DOMAIN c \subseteq Job /\ DOMAIN c \cap fresh = {} /\ GoodStore(c, now, sole)
    BY TypeFacts
  <1> HIDE DEF c
  <1>3. DOMAIN st \subseteq DOMAIN c /\ GoodStore(st, now, sole)  BY <1>2 DEF GoodStore
  <1>4. \A k \in Job : Mark(st, k) => Mark(c, k)  BY DEF Mark
  <1> HIDE DEF st
  <1>5. timer' \in [Service -> BOOLEAN] /\ \A u \in Service : u # current => timer'[u] = timer[u]
    BY TypeFacts DEF Remove, OtherTypeOK, Armed
  <1>6. /\ batch' = batch /\ manual' = manual /\ now' = now /\ boot' = boot
        /\ current' = current /\ tick' = tick /\ attached' = attached /\ skip' = skip
        /\ deferred' = deferred /\ edits' \in 0 .. MaxEdits /\ fresh' = fresh
    BY TypeFacts, Constants DEF Remove, OtherTypeOK
  <1>7. DOMAIN st \subseteq Job \ fresh' /\ fresh' \subseteq fresh  BY <1>2, <1>3, <1>6
  <1> QED  BY <1>1, <1>3, <1>4, <1>5, <1>6, <1>7, SaveKeeps DEF c

LEMMA AdvanceKeeps ==
  ASSUME NEW sole \in BOOLEAN, IndInv(sole), RecordUnmarked, Advance
  PROVE  IndInv(sole)'
  <1>1. /\ now \in Nat /\ now' = now + 1 /\ now' \in Time /\ store' = store /\ copy' = copy
        /\ batch' = batch /\ manual' = manual /\ boot' = boot /\ current' = current
        /\ fresh' = fresh /\ tick' = tick /\ timer' = timer
    BY TypeFacts, Constants DEF Advance, OtherTypeOK, Time
  <1>2. OtherTypeOK'  BY <1>1, TypeFacts DEF Advance, OtherTypeOK
  <1>3. ControlInv'  BY <1>1 DEF IndInv, ControlInv, Idle
  <1>4. ASSUME NEW st, GoodStore(st, now, sole) PROVE GoodStore(st, now', sole)
    <2>1. ASSUME NEW j \in DOMAIN st PROVE Good(st[j], j, now', sole)
      <3>1. Good(st[j], j, now, sole)  BY <1>4 DEF GoodStore
      <3>2. st[j].lastRun \in Nat  BY <3>1 DEF Good, Typed, Record, Stamp, None
      <3> QED  BY <3>1, <3>2, <1>1 DEF Good, Typed
    <2> QED  BY <2>1 DEF GoodStore
  <1>5. StoresOK(sole)'
    <2>1. StoresOK(sole)  BY DEF IndInv
    <2> QED  BY <1>1, <1>4, <2>1 DEF StoresOK
  <1>6. StartedInv'
    <2>1. ASSUME NEW w \in Runner, NEW e \in batch[w].live \cup batch[w].done
          PROVE  e.startedAt <= now'
      <3>1. e.startedAt \in Nat  BY TypeFacts, Constants DEF Batch, Time
      <3>2. e.startedAt <= now  BY DEF IndInv, StartedInv
      <3> QED  BY <3>1, <3>2, <1>1
    <2>2. ASSUME NEW m \in Manual
          PROVE  /\ manual[m].phase \in {"reserve", "run", "finish"} =>
                      manual[m].startedAt \in 1 .. now'
                 /\ manual[m].phase = "finish" =>
                      manual[m].endedAt \in Time /\ manual[m].status \in Result
      BY <1>1 DEF IndInv, StartedInv
    <2> QED  BY <1>1, <2>1, <2>2 DEF StartedInv
  <1>7. ASSUME sole PROVE SoleStep
    <2>1. SoleInv  BY <1>7 DEF IndInv
    <2>2. OnlyCurrentWorks'  BY <1>1, <2>1 DEF SoleInv, OnlyCurrentWorks
    <2> QED  BY <1>1, <2>1, <2>2, QuietStill
  <1> QED  BY <1>2, <1>3, <1>5, <1>6, <1>7, Combine

LEMMA StartClearKeeps ==
  ASSUME NEW sole \in BOOLEAN, IndInv(sole), RecordUnmarked, NEW s \in Service, StartClear(s)
  PROVE  IndInv(sole)'
  <1> DEFINE q == Marked(store, skip', None)
  <1>1. /\ boot[s] = "clear" /\ boot' = [boot EXCEPT ![s] = "plan"]
        /\ skip' = {j \in DOMAIN store : store[j].running # None}
        /\ Persist(s, q)
        /\ batch' = batch /\ manual' = manual /\ now' = now /\ current' = current
        /\ fresh' = fresh /\ tick' = tick /\ timer' = timer
    BY DEF StartClear
  <1>2. /\ DOMAIN q = DOMAIN store /\ GoodStore(q, now, sole)
        /\ \A j \in DOMAIN store : q[j].running = IF j \in skip' THEN None ELSE store[j].running
    BY TypeFacts, MarkedKeeps DEF None
  <1> HIDE DEF q
  <1>3. \A j \in Job : ~Mark(q, j)  BY <1>1, <1>2 DEF Mark
  <1>4. s = current  BY <1>1, StartIsCurrent DEF IndInv
  <1>5. OtherTypeOK'  BY <1>1, TypeFacts DEF StartClear, OtherTypeOK
  <1>6. \A u \in Service : boot'[u] = IF u = s THEN "plan" ELSE boot[u]
    BY <1>1, TypeFacts DEF OtherTypeOK
  <1>7. ControlInv'  BY <1>1, <1>6 DEF IndInv, ControlInv, Idle
  <1>8. StoresOK(sole)'
    <2>1. DOMAIN q \subseteq Job \ fresh' /\ fresh' \subseteq fresh  BY <1>1, <1>2, TypeFacts
    <2> QED  BY <1>1, <1>2, <2>1, PersistOK
  <1>9. StartedInv'  BY <1>1, SameWork DEF IndInv
  <1>10. ASSUME sole PROVE SoleStep
    <2>1. SoleInv /\ DOMAIN copy = Service /\ current \in Service
      BY <1>10, TypeFacts DEF IndInv
    <2>2. CopyInv' /\ \A j \in Job : ~HasMarker(j)'
      BY <1>1, <1>3, <1>4, <2>1, PersistOne DEF HasMarker
    <2>3. \A j \in Job : Moved(j)  BY <1>1, <2>2, QuietMoves
    <2>4. OnlyCurrentWorks'  BY <1>1, <1>4, <1>6, <2>1, OnlyCurrentStill
    <2> QED  BY <2>2, <2>3, <2>4 DEF SoleStep
  <1> QED  BY <1>5, <1>7, <1>8, <1>9, <1>10, Combine

LEMMA StartRecomputeKeeps ==
  ASSUME NEW sole \in BOOLEAN, IndInv(sole), RecordUnmarked, NEW s \in Service,
         StartRecompute(s)
  PROVE  IndInv(sole)'
  <1> DEFINE c == copy[s]
             q == RecomputeNextRuns(c, now)
  <1>1. /\ boot[s] = "recompute" /\ boot' = [boot EXCEPT ![s] = "on"]
        /\ PersistChange(s, q) /\ skip' = {}
        /\ timer' = [timer EXCEPT ![s] = Armed(copy'[s])]
        /\ batch' = batch /\ manual' = manual /\ now' = now /\ current' = current
        /\ fresh' = fresh /\ tick' = tick /\ attached' = attached /\ deferred' = deferred
        /\ edits' = edits
    BY DEF StartRecompute
  <1>2. DOMAIN c \subseteq Job /\ DOMAIN c \cap fresh = {} /\ GoodStore(c, now, sole)
    BY TypeFacts
  <1>3. DOMAIN q = DOMAIN c /\ GoodStore(q, now, sole) /\ NoNewMarker(q, c)
    BY <1>2, TypeFacts, RecomputeNextRunsKeeps
  <1> HIDE DEF q
  <1>4. s = current  BY <1>1, StartIsCurrent DEF IndInv
  <1>5. OtherTypeOK' /\ \A u \in Service : u # s => timer'[u] = timer[u]
    <2>1. Armed(copy'[s]) \in BOOLEAN  BY DEF Armed
    <2> QED  BY <1>1, <2>1, TypeFacts DEF OtherTypeOK
  <1>6. \A u \in Service : boot'[u] = IF u = s THEN "on" ELSE boot[u]
    BY <1>1, TypeFacts DEF OtherTypeOK
  <1>7. ControlInv'  BY <1>1, <1>6 DEF IndInv, ControlInv, Idle
  <1>8. StartedInv'  BY <1>1, SameWork DEF IndInv
  <1>9. DOMAIN q \subseteq Job \ fresh' /\ fresh' \subseteq fresh  BY <1>1, <1>2, <1>3
  <1>10. StoresOK(sole)'
    <2>1. CASE Persist(s, q)  BY <1>1, <1>3, <1>9, <2>1, PersistOK
    <2>2. CASE UNCHANGED <<store, copy>>  BY <1>1, <2>2, SameStoresOK
    <2> QED  BY <1>1, <2>1, <2>2 DEF PersistChange
  <1>11. ASSUME sole PROVE SoleStep
    <2>1. SoleInv /\ DOMAIN copy = Service /\ current \in Service
      BY <1>11, TypeFacts DEF IndInv
    <2>2. /\ boot[current] # "clear" /\ boot'[current] # "clear"
          /\ \A u \in Service : u # current => timer'[u] = timer[u] /\ tick'[u] = tick[u]
      BY <1>1, <1>4, <1>5, <1>6, <2>1
    <2>3. CASE Persist(s, q)
      <3>1. \A j \in Job : Mark(q, j) => Mark(c, j)  BY <1>3, NoNewMarks
      <3>2. c \in {store, copy[current]}  BY <1>4
      <3> HIDE DEF c
      <3> QED  BY <1>1, <1>4, <2>1, <2>2, <2>3, <3>1, <3>2, QuietSave
    <2>4. CASE UNCHANGED <<store, copy>>
      <3>1. OnlyCurrentWorks'  BY <1>1, <2>1, <2>2, OnlyCurrentStill
      <3> QED  BY <1>1, <2>1, <2>2, <2>4, <3>1, QuietStill
    <2> QED  BY <1>1, <2>3, <2>4 DEF PersistChange
  <1> QED  BY <1>5, <1>7, <1>8, <1>10, <1>11, Combine

LEMMA NextService ==
  ASSUME current \in Service, current < MaxService
  PROVE  current + 1 \in Service /\ current + 1 # current
  BY Constants DEF Service

LEMMA ReloadKeeps ==
  ASSUME NEW sole \in BOOLEAN, IndInv(sole), RecordUnmarked, Reload, ~sole
  PROVE  IndInv(sole)'
  <1>1. /\ boot[current] = "on"
        /\ boot' = [boot EXCEPT ![current] = "off", ![current + 1] = "clear"]
        /\ current < MaxService /\ current' = current + 1
        /\ store' = store /\ copy' = copy /\ batch' = batch /\ manual' = manual /\ now' = now
        /\ fresh' = fresh /\ tick' = tick
    BY DEF Reload
  <1>2. current \in Service /\ current + 1 \in Service /\ current + 1 # current
    BY <1>1, TypeFacts, NextService DEF OtherTypeOK
  <1>3. OtherTypeOK'
    BY <1>1, <1>2, TypeFacts DEF Reload, OtherTypeOK
  <1>4. \A u \in Service : boot'[u] = IF u = current + 1 THEN "clear"
                                      ELSE IF u = current THEN "off" ELSE boot[u]
    BY <1>1, <1>2, TypeFacts DEF OtherTypeOK
  <1>5. ControlInv'  BY <1>1, <1>2, <1>4 DEF IndInv, ControlInv, Idle
  <1>6. StoresOK(sole)'  BY <1>1, SameStoresOK
  <1>7. StartedInv'  BY <1>1, SameWork DEF IndInv
  <1> QED  BY <1>3, <1>5, <1>6, <1>7, Combine

LEMMA NoCallIsCall ==
  ASSUME NEW p \in {"idle", "reserve", "run", "finish", "over"}
  PROVE  NoCall(p) \in Call /\ NoCall(p).phase = p
  <1>1. (CHOOSE j \in Job : TRUE) \in Job  BY JobAssumption
  <1> QED  BY <1>1 DEF NoCall, Call, Stamp, None

(* The process ends: what is left is the file.                             *)
LEMMA CrashKeeps ==
  ASSUME NEW sole \in BOOLEAN, IndInv(sole), RecordUnmarked, Crash
  PROVE  IndInv(sole)'
  <1> DEFINE back(m) == IF manual[m].phase = "idle" THEN "idle" ELSE "over"
  <1>1. /\ boot' = [u \in Service |-> IF u = current + 1 THEN "clear" ELSE "off"]
        /\ current < MaxService /\ current' = current + 1
        /\ store' = store /\ batch' = [w \in Runner |-> NoBatch] /\ now' = now
        /\ manual' = [m \in Manual |-> NoCall(back(m))]
        /\ fresh' = fresh /\ copy' = [u \in Service |-> NoJobs]
        /\ timer' = [u \in Service |-> FALSE] /\ tick' = [u \in Service |-> "idle"]
    BY DEF Crash
  <1>2. current \in Service /\ current + 1 \in Service /\ current + 1 # current
    BY <1>1, TypeFacts, NextService DEF OtherTypeOK
  <1>3. /\ manual' \in [Manual -> Call]
        /\ \A m \in Manual : manual'[m].phase \in {"idle", "over"}
    BY <1>1, NoCallIsCall
  <1>4. \A w \in Runner : batch'[w].todo = {} /\ batch'[w].live = {} /\ batch'[w].done = {}
    BY <1>1 DEF NoBatch
  <1>5. OtherTypeOK'
    <2>1. batch' \in [Runner -> Batch]  BY <1>1 DEF NoBatch, Batch
    <2>2. deferred' \in Seq(Job)  BY DEF Crash
    <2> QED  BY <1>1, <1>2, <1>3, <2>1, <2>2, TypeFacts DEF Crash, OtherTypeOK
  <1>6. ControlInv'  BY <1>1, <1>2, <1>4 DEF ControlInv, Idle, Runner
  <1>7. StartedInv'  BY <1>3, <1>4 DEF StartedInv
  <1>8. StoresOK(sole)'
    <2>1. StoresOK(sole)  BY DEF IndInv
    <2>2. DOMAIN NoJobs = {}  BY DEF NoJobs
    <2> QED  BY <1>1, <2>1, <2>2 DEF StoresOK, GoodStore
  <1>9. SoleStep
    <2>1. ASSUME NEW j \in Job PROVE Moved(j)
      <3>1. Holders(j)' = {} /\ Callers(j)' = {}  BY <1>3, <1>4 DEF Holders, Callers
      <3>2. boot'[current'] = "clear"  BY <1>1, <1>2
      <3> QED  BY <3>1, <3>2 DEF Moved, Followed
    <2>2. OnlyCurrentWorks'  BY <1>1, <1>3 DEF OnlyCurrentWorks
    <2>3. CopyInv'  BY <1>1, <1>2 DEF CopyInv
    <2> QED  BY <2>1, <2>2, <2>3 DEF SoleStep
  <1> QED  BY <1>5, <1>6, <1>7, <1>8, <1>9, Combine

-----------------------------------------------------------------------------
(* The steps of a tick or a start that runs jobs.                          *)

Held(w, j) == j \in batch[w].todo \/ \E e \in batch[w].live \cup batch[w].done : e.job = j

(* A step of the batch of w, by the fields of the batch.                   *)
BatchStep(w, todo, live, done) ==
  /\ batch' \in [Runner -> Batch]
  /\ batch'[w].todo = todo /\ batch'[w].live = live /\ batch'[w].done = done
  /\ \A v \in Runner : v # w => batch'[v] = batch[v]

LEMMA BatchStepHolders ==
  ASSUME NEW w \in Runner, NEW todo, NEW live, NEW done, BatchStep(w, todo, live, done),
         manual' = manual, NEW j
  PROVE  /\ Callers(j)' = Callers(j)
         /\ Holders(j)' \subseteq Holders(j) \cup {w}
         /\ \A v \in Runner : v # w => (v \in Holders(j)' <=> v \in Holders(j))
         /\ w \in Holders(j)' <=> (j \in todo \/ \E e \in live \cup done : e.job = j)
         /\ w \in Holders(j) <=> Held(w, j)
  <1>1. Callers(j)' = Callers(j)  BY DEF Callers
  <1>2. \A v \in Runner : v # w => (v \in Holders(j)' <=> v \in Holders(j))
    BY DEF BatchStep, Holders
  <1>3. w \in Holders(j)' <=> (j \in todo \/ \E e \in live \cup done : e.job = j)
    BY DEF BatchStep, Holders
  <1>4. w \in Holders(j) <=> Held(w, j)  BY DEF Holders, Held
  <1>5. Holders(j)' \subseteq Runner  BY DEF Holders
  <1> QED  BY <1>1, <1>2, <1>3, <1>4, <1>5

(* A step that keeps the holders, and marks at most jobs that are held.    *)
LEMMA HeldMoves ==
  ASSUME NEW j \in Job, Holders(j)' = Holders(j), Callers(j)' = Callers(j),
         HasMarker(j)' => HasMarker(j) \/ InFlight(j),
         boot'[current'] # "clear" => boot[current] # "clear"
  PROVE  Moved(j)
  <1>1. InFlight(j)' <=> InFlight(j)  BY InFlightHeld, InFlightHeldNext
  <1> QED  BY <1>1 DEF Moved, Followed

LEMMA BatchFields ==
  ASSUME NEW w \in Runner, batch \in [Runner -> Batch]
  PROVE  /\ batch[w].todo \in SUBSET Job
         /\ batch[w].live \in SUBSET [job : Job, startedAt : Time]
         /\ batch[w].done \in SUBSET DoneType
  BY DEF Batch, DoneType

LEMMA JobEndsFacts ==
  ASSUME NEW sole \in BOOLEAN, IndInv(sole), NEW w \in Runner, NEW e \in batch[w].live,
         NEW status \in Outcome,
         JobEnds(w, e, status)
  PROVE  BatchStep(w, batch[w].todo, batch[w].live \ {e},
                   batch[w].done \cup {[job |-> e.job, startedAt |-> e.startedAt,
                                        endedAt |-> now, status |-> status]})
  <1> DEFINE d == [job |-> e.job, startedAt |-> e.startedAt, endedAt |-> now, status |-> status]
  <1>1. batch \in [Runner -> Batch] /\ now \in Time  BY TypeFacts DEF OtherTypeOK
  <1>2. d \in DoneType  BY <1>1, BatchFields, ChoiceAssumption DEF DoneType
  <1>3. batch' = [batch EXCEPT ![w].live = @ \ {e}, ![w].done = @ \cup {d}]
    BY DEF JobEnds
  <1> HIDE DEF d
  <1>4. batch' \in [Runner -> Batch]  BY <1>1, <1>2, <1>3 DEF Batch, DoneType
  <1>5. /\ batch'[w].todo = batch[w].todo
        /\ batch'[w].live = batch[w].live \ {e}
        /\ batch'[w].done = batch[w].done \cup {d}
        /\ \A v \in Runner : v # w => batch'[v] = batch[v]
    BY <1>1, <1>3 DEF Batch
  <1> QED  BY <1>4, <1>5 DEF BatchStep, d

LEMMA JobEndsKeeps ==
  ASSUME NEW sole \in BOOLEAN, IndInv(sole), RecordUnmarked, NEW w \in Runner, SomeJobEnds(w)
  PROVE  IndInv(sole)'
  <1>1. PICK e \in batch[w].live, status \in Outcome : JobEnds(w, e, status)
    BY DEF SomeJobEnds
  <1> DEFINE d == [job |-> e.job, startedAt |-> e.startedAt, endedAt |-> now, status |-> status]
  <1>2. BatchStep(w, batch[w].todo, batch[w].live \ {e}, batch[w].done \cup {d})
    BY <1>1, JobEndsFacts
  <1>3. /\ store' = store /\ copy' = copy /\ manual' = manual /\ now' = now /\ boot' = boot
        /\ current' = current /\ fresh' = fresh /\ tick' = tick /\ timer' = timer
    BY <1>1 DEF JobEnds
  <1>4. OtherTypeOK'  BY <1>1, <1>2, TypeFacts DEF JobEnds, OtherTypeOK, BatchStep
  <1>5. d.job = e.job /\ d.startedAt = e.startedAt  OBVIOUS
  <1> HIDE DEF d
  <1>6. ControlInv'
    <2>1. ASSUME NEW v \in Runner, Idle(v) PROVE Idle(v)'
      BY <1>1, <1>2, <2>1 DEF Idle, BatchStep
    <2> QED  BY <1>3, <2>1, TypeFacts DEF IndInv, ControlInv
  <1>7. StartedInv'
    <2>1. ASSUME NEW v \in Runner, NEW x \in batch'[v].live \cup batch'[v].done
          PROVE  x.startedAt <= now
      BY <1>2, <1>5 DEF IndInv, StartedInv, BatchStep
    <2> QED  BY <1>3, <2>1 DEF IndInv, StartedInv
  <1>8. StoresOK(sole)'  BY <1>3, SameStoresOK
  <1>9. ASSUME sole PROVE SoleStep
    <2>1. SoleInv  BY <1>9 DEF IndInv
    <2>2. ASSUME NEW j \in Job PROVE Moved(j)
      <3>1. /\ Callers(j)' = Callers(j)
            /\ \A v \in Runner : v # w => (v \in Holders(j)' <=> v \in Holders(j))
            /\ w \in Holders(j)' <=>
                 (j \in batch[w].todo \/
                  \E x \in (batch[w].live \ {e}) \cup (batch[w].done \cup {d}) : x.job = j)
            /\ w \in Holders(j) <=> Held(w, j)
        BY <1>2, <1>3, BatchStepHolders
      <3>2. w \in Holders(j)' <=> w \in Holders(j)  BY <1>5, <3>1 DEF Held
      <3>3. Holders(j)' = Holders(j)  BY <3>1, <3>2 DEF Holders
      <3>4. HasMarker(j)' => HasMarker(j)  BY <1>3, SameMarkers DEF HasMarker
      <3> QED  BY <1>3, <3>1, <3>3, <3>4, HeldMoves
    <2>3. OnlyCurrentWorks' /\ CopyInv'
      BY <1>3, <2>1 DEF SoleInv, OnlyCurrentWorks, CopyInv
    <2> QED  BY <2>2, <2>3 DEF SoleStep
  <1> QED  BY <1>4, <1>6, <1>7, <1>8, <1>9, Combine

(* A job is started: it moves from the waiting ones to the live ones, and  *)
(* its marker in memory may get a new time.                                *)
LEMMA StartsJob ==
  ASSUME NEW sole \in BOOLEAN, IndInv(sole), RecordUnmarked, NEW w \in Runner, NEW j \in Job,
         j \in batch[w].todo,
         BatchStep(w, batch[w].todo \ {j},
                   batch[w].live \cup {[job |-> j, startedAt |-> now]}, batch[w].done),
         NEW s \in Service, sole => s = current, store' = store, DOMAIN copy' = Service,
         copy'[s] = copy[s] \/ copy'[s] = Marked(copy[s], {j}, now),
         \A u \in Service : u # s => copy'[u] = copy[u],
         manual' = manual, now' = now, boot' = boot, current' = current, fresh' = fresh,
         tick' = tick, timer' = timer, skip' = skip, attached' = attached,
         deferred' = deferred, edits' = edits
  PROVE  IndInv(sole)'
  <1> DEFINE e == [job |-> j, startedAt |-> now]
             c == copy[s]
             d == copy'[s]
  <1>1. BatchStep(w, batch[w].todo \ {j}, batch[w].live \cup {e}, batch[w].done)  OBVIOUS
  <1>2. OtherTypeOK'  BY TypeFacts DEF OtherTypeOK, BatchStep
  <1>3. e.job = j /\ e.startedAt = now /\ now \in Nat /\ now # None
    BY TypeFacts DEF None
  <1>4. /\ GoodStore(c, now, sole) /\ DOMAIN c \subseteq Job \ fresh
        /\ d = c \/ d = Marked(c, {j}, now)
    BY TypeFacts
  <1> HIDE DEF e, c, d
  <1>5. /\ DOMAIN d = DOMAIN c /\ GoodStore(d, now, sole)
        /\ \A k \in DOMAIN c : /\ k # j => d[k].running = c[k].running
                               /\ SameJob(d[k], c[k]) /\ d[k].next = c[k].next
    <2>1. CASE d = c  BY <1>4, <2>1 DEF SameJob
    <2>2. CASE d = Marked(c, {j}, now)  BY <1>3, <1>4, <2>2, MarkedKeeps
    <2> QED  BY <1>4, <2>1, <2>2
  <1>6. ControlInv'
    <2>1. ASSUME NEW v \in Runner, Idle(v) PROVE Idle(v)'
      BY <1>1, <2>1 DEF Idle, BatchStep
    <2> QED  BY <2>1, TypeFacts DEF IndInv, ControlInv
  <1>7. StartedInv'
    <2>1. ASSUME NEW v \in Runner, NEW x \in batch'[v].live \cup batch'[v].done
          PROVE  x.startedAt <= now
      BY <1>1, <1>3 DEF IndInv, StartedInv, BatchStep
    <2> QED  BY <2>1 DEF IndInv, StartedInv
  <1>8. StoresOK(sole)'
    <2>1. StoresOK(sole)  BY DEF IndInv
    <2>2. ASSUME NEW u \in Service
          PROVE  DOMAIN copy'[u] \subseteq Job \ fresh' /\ GoodStore(copy'[u], now', sole)
      <3>1. CASE u = s  BY <1>4, <1>5, <3>1 DEF d
      <3>2. CASE u # s  BY <2>1, <3>2 DEF StoresOK
      <3> QED  BY <3>1, <3>2
    <2> QED  BY <2>1, <2>2 DEF StoresOK
  <1>9. ASSUME sole PROVE SoleStep
    <2>1. SoleInv /\ s = current  BY <1>9 DEF IndInv
    <2>2. ASSUME NEW k \in Job PROVE Moved(k)
      <3>1. /\ Callers(k)' = Callers(k)
            /\ \A v \in Runner : v # w => (v \in Holders(k)' <=> v \in Holders(k))
            /\ w \in Holders(k)' <=>
                 (k \in batch[w].todo \ {j} \/
                  \E x \in (batch[w].live \cup {e}) \cup batch[w].done : x.job = k)
            /\ w \in Holders(k) <=> Held(w, k)
        BY <1>1, BatchStepHolders
      <3>2. w \in Holders(k)' <=> w \in Holders(k)  BY <1>3, <3>1 DEF Held
      <3>3. Holders(k)' = Holders(k)  BY <3>1, <3>2 DEF Holders
      <3>4. k = j => InFlight(k)  BY DEF InFlight
      <3>5. HasMarker(k)' => HasMarker(k) \/ InFlight(k)
        BY <1>5, <2>1, <3>4 DEF HasMarker, InFile, InMemory, c, d
      <3> QED  BY <3>1, <3>3, <3>5, HeldMoves
    <2>3. OnlyCurrentWorks'  BY <2>1 DEF SoleInv, OnlyCurrentWorks
    <2>4. CopyInv'  BY <1>5, <2>1 DEF SoleInv, CopyInv, Alike, SameJob, c, d
    <2> QED  BY <2>2, <2>3, <2>4 DEF SoleStep
  <1> QED  BY <1>2, <1>6, <1>7, <1>8, <1>9, Combine

LEMMA RunDueJobKeeps ==
  ASSUME NEW sole \in BOOLEAN, IndInv(sole), RecordUnmarked, NEW s \in Service,
         NEW j \in Job, RunDueJob(s, j)
  PROVE  IndInv(sole)'
  <1> DEFINE w == <<s, "tick">>
             e == [job |-> j, startedAt |-> now]
  <1>1. w \in Runner /\ batch \in [Runner -> Batch] /\ now \in Time /\ DOMAIN copy = Service
    BY TypeFacts DEF OtherTypeOK
  <1>2. /\ j \in batch[w].todo
        /\ batch' = [batch EXCEPT ![w].todo = @ \ {j}, ![w].live = @ \cup {e}]
        /\ copy' = [copy EXCEPT ![s] = IF attached[s] THEN Marked(@, {j}, now) ELSE @]
        /\ manual' = manual /\ now' = now /\ boot' = boot /\ current' = current
        /\ fresh' = fresh /\ tick' = tick /\ timer' = timer /\ skip' = skip
        /\ attached' = attached /\ deferred' = deferred /\ edits' = edits /\ store' = store
        /\ tick[s] = "run"
    BY DEF RunDueJob
  <1>3. e \in [job : Job, startedAt : Time]  BY <1>1
  <1> HIDE DEF w, e
  <1>4. BatchStep(w, batch[w].todo \ {j}, batch[w].live \cup {e}, batch[w].done)
    <2>1. batch' \in [Runner -> Batch]  BY <1>1, <1>2, <1>3 DEF Batch
    <2> QED  BY <1>1, <1>2, <2>1 DEF Batch, BatchStep
  <1>5. /\ DOMAIN copy' = Service /\ \A u \in Service : u # s => copy'[u] = copy[u]
        /\ copy'[s] = copy[s] \/ copy'[s] = Marked(copy[s], {j}, now)
    BY <1>1, <1>2
  <1>6. sole => s = current  BY <1>2, TickIsCurrent DEF IndInv
  <1> QED  BY <1>1, <1>2, <1>4, <1>5, <1>6, StartsJob DEF e

LEMMA RunStartupCatchupCandidateKeeps ==
  ASSUME NEW sole \in BOOLEAN, IndInv(sole), RecordUnmarked, NEW s \in Service, NEW j \in Job,
         RunStartupCatchupCandidate(s, j)
  PROVE  IndInv(sole)'
  <1> DEFINE w == <<s, "boot">>
             e == [job |-> j, startedAt |-> now]
  <1>1. w \in Runner /\ batch \in [Runner -> Batch] /\ now \in Time /\ DOMAIN copy = Service
    BY TypeFacts DEF OtherTypeOK
  <1>2. /\ j \in batch[w].todo /\ batch[w].live = {}
        /\ batch' = [batch EXCEPT ![w].todo = @ \ {j}, ![w].live = {e}]
        /\ store' = store /\ copy' = copy
        /\ manual' = manual /\ now' = now /\ boot' = boot /\ current' = current
        /\ fresh' = fresh /\ tick' = tick /\ timer' = timer /\ skip' = skip
        /\ attached' = attached /\ deferred' = deferred /\ edits' = edits
        /\ boot[s] = "run"
    BY DEF RunStartupCatchupCandidate
  <1>3. e \in [job : Job, startedAt : Time]  BY <1>1
  <1> HIDE DEF w, e
  <1>4. BatchStep(w, batch[w].todo \ {j}, batch[w].live \cup {e}, batch[w].done)
    <2>1. batch' \in [Runner -> Batch]  BY <1>1, <1>2, <1>3 DEF Batch
    <2>2. batch[w].live \cup {e} = {e}  BY <1>2
    <2> QED  BY <1>1, <1>2, <2>1, <2>2 DEF Batch, BatchStep
  <1>5. s = current  BY <1>2, StartIsCurrent DEF IndInv
  <1> QED  BY <1>1, <1>2, <1>4, <1>5, StartsJob DEF e

(* Jobs without a marker are marked and taken up by a runner that had none.*)
LEMMA TakesJobs ==
  ASSUME NEW sole \in BOOLEAN, IndInv(sole), NEW w \in Runner, Idle(w),
         NEW from \in {store, copy[current]},
         NEW J \in SUBSET DOMAIN from, \A j \in J : from[j].running = None,
         BatchStep(w, J, batch[w].live, batch[w].done),
         Persist(current, Marked(from, J, now)), current' = current,
         manual' = manual, boot'[current] # "clear" => boot[current] # "clear"
  PROVE  \A j \in Job : Moved(j)
  <1> TAKE j \in Job
  <1> DEFINE st == Marked(from, J, now)
  <1>1. /\ DOMAIN copy = Service /\ current \in Service /\ now \in Nat /\ now # None
        /\ GoodStore(from, now, sole)
    BY TypeFacts DEF None
  <1>2. /\ DOMAIN st = DOMAIN from
        /\ \A k \in DOMAIN from : st[k].running = IF k \in J THEN now ELSE from[k].running
    BY <1>1, MarkedKeeps
  <1>3. Persist(current, st)  OBVIOUS
  <1> HIDE DEF st
  <1>4. (InFile(j)' <=> Mark(st, j)) /\ (InMemory(j)' <=> Mark(st, j))
    BY <1>1, <1>3, PersistOne
  <1>5. Mark(from, j) => HasMarker(j)  BY DEF HasMarker, Mark, InFile, InMemory
  <1>6. InFile(j) /\ InMemory(j) => Mark(from, j)  BY DEF Mark, InFile, InMemory
  <1>7. /\ Callers(j)' = Callers(j)
        /\ Holders(j)' \subseteq Holders(j) \cup {w}
        /\ \A v \in Runner : v # w => (v \in Holders(j)' <=> v \in Holders(j))
        /\ w \in Holders(j)' <=> (j \in J \/ \E e \in batch[w].live \cup batch[w].done : e.job = j)
        /\ w \in Holders(j) <=> Held(w, j)
    BY BatchStepHolders
  <1>8. CASE j \in J
    <2>1. ~Mark(from, j) /\ Mark(st, j)  BY <1>1, <1>2, <1>8 DEF Mark
    <2>2. Taken(j)  BY <1>4, <1>6, <1>7, <2>1 DEF Taken
    <2>3. InFlight(j)'  BY <1>7, <1>8, InFlightHeldNext
    <2> QED  BY <2>2, <2>3 DEF Moved, Followed
  <1>9. CASE j \notin J
    <2>1. w \notin Holders(j)' /\ w \notin Holders(j)  BY <1>7, <1>9 DEF Idle, Held
    <2>2. Holders(j)' = Holders(j)  BY <1>7, <2>1 DEF Holders
    <2>3. HasMarker(j)' => HasMarker(j)  BY <1>2, <1>4, <1>5, <1>9 DEF HasMarker, Mark
    <2> QED  BY <1>7, <2>2, <2>3, HeldMoves
  <1> QED  BY <1>8, <1>9

LEMMA CollectDueJobsKeeps ==
  ASSUME NEW sole \in BOOLEAN, IndInv(sole), RecordUnmarked, NEW s \in Service,
         CollectDueJobs(s)
  PROVE  IndInv(sole)'
  <1> DEFINE w == <<s, "tick">>
             yes == TRUE
             due == {j \in DOMAIN store : IsDue(store[j], now)}
             kept == RecomputeNextRunsForMaintenance(store, now, yes)
             marks == Marked(store, due, now)
             st == IF due = {} THEN kept ELSE marks
  <1>1. /\ w \in Runner /\ batch \in [Runner -> Batch] /\ now \in Time /\ tick[s] = "collect"
        /\ yes \in BOOLEAN
    BY TypeFacts DEF OtherTypeOK, CollectDueJobs
  <1>2. /\ batch' = [batch EXCEPT ![w].todo = due]
        /\ tick' = [tick EXCEPT ![s] = IF due = {} THEN "finally" ELSE "run"]
        /\ Persist(s, st)
        /\ manual' = manual /\ now' = now /\ boot' = boot /\ current' = current /\ fresh' = fresh
        /\ timer' = timer
    BY DEF CollectDueJobs
  <1>3. Idle(w)  BY <1>1 DEF IndInv, ControlInv
  <1>4. due \in SUBSET DOMAIN store /\ \A j \in due : store[j].running = None
    BY DEF IsDue
  <1>5. due \in SUBSET Job  BY <1>4, TypeFacts
  <1> HIDE DEF w, due, yes
  <1>6. DOMAIN kept = DOMAIN store /\ GoodStore(kept, now, sole) /\ NoNewMarker(kept, store)
    BY <1>1, TypeFacts, MaintenanceKeeps
  <1>7. DOMAIN marks = DOMAIN store /\ GoodStore(marks, now, sole)
    BY TypeFacts, MarkedKeeps
  <1> HIDE DEF kept, marks
  <1>8. DOMAIN st = DOMAIN store /\ GoodStore(st, now, sole)  BY <1>6, <1>7
  <1> HIDE DEF st
  <1>9. BatchStep(w, due, batch[w].live, batch[w].done)
    <2>1. batch' \in [Runner -> Batch]  BY <1>1, <1>2, <1>5 DEF Batch
    <2> QED  BY <1>1, <1>2, <2>1 DEF Batch, BatchStep
  <1>10. OtherTypeOK'
    BY <1>2, <1>9, TypeFacts DEF OtherTypeOK, BatchStep, CollectDueJobs
  <1>11. \A u \in Service : tick'[u] = IF u # s THEN tick[u]
                                       ELSE IF due = {} THEN "finally" ELSE "run"
    BY <1>2, TypeFacts DEF OtherTypeOK
  <1>12. ControlInv'
    <2>1. ASSUME NEW v \in Runner, Idle(v), v # w PROVE Idle(v)'
      BY <1>9, <2>1 DEF Idle, BatchStep
    <2>2. due = {} => Idle(w)'  BY <1>3, <1>9 DEF Idle, BatchStep
    <2>3. \A u \in Service : <<u, "boot">> # w /\ (u # s => <<u, "tick">> # w)  BY DEF w
    <2>4. \A u \in Service : tick'[u] # "run" => Idle(<<u, "tick">>)'
      <3> TAKE u \in Service
      <3>1. CASE u = s  BY <2>2, <1>11, <3>1 DEF w
      <3>2. CASE u # s  BY <2>1, <1>11, <2>3, <3>2, TypeFacts DEF IndInv, ControlInv
      <3> QED  BY <3>1, <3>2
    <2> QED  BY <1>2, <2>1, <2>3, <2>4, TypeFacts DEF IndInv, ControlInv
  <1>13. StartedInv'
    <2>1. \A v \in Runner : batch'[v].live = batch[v].live /\ batch'[v].done = batch[v].done
      BY <1>9 DEF BatchStep
    <2> QED  BY <1>2, <2>1 DEF IndInv, StartedInv
  <1>14. StoresOK(sole)'
    <2>1. DOMAIN st \subseteq Job \ fresh' /\ fresh' \subseteq fresh  BY <1>2, <1>8, TypeFacts
    <2> QED  BY <1>2, <1>8, <2>1, PersistOK
  <1>15. ASSUME sole PROVE SoleStep
    <2>1. SoleInv /\ DOMAIN copy = Service /\ current \in Service
      BY <1>15, TypeFacts DEF IndInv
    <2>2. s = current /\ boot[current] # "clear"  BY <1>1, <2>1, TickIsCurrent
    <2>3. Persist(current, st) /\ store \in {store, copy[current]}  BY <1>2, <2>2
    <2>4. CopyInv'  BY <1>2, <2>1, <2>3, PersistOne
    <2>5. OnlyCurrentWorks'  BY <1>2, <1>11, <2>1, <2>2, OnlyCurrentStill
    <2>6. CASE due # {}
      <3>1. Persist(current, Marked(store, due, now))  BY <2>3, <2>6 DEF st, marks
      <3>2. \A j \in Job : Moved(j)
        BY <1>1, <1>2, <1>3, <1>4, <1>9, <2>2, <2>3, <3>1, TakesJobs
      <3> QED  BY <2>4, <2>5, <3>2 DEF SoleStep
    <2>7. CASE due = {}
      <3>1. \A j \in Job : Mark(st, j) => Mark(store, j)  BY <1>6, <2>7, NoNewMarks DEF st
      <3>2. \A j \in Job : HasMarker(j)' => HasMarker(j)
        BY <1>2, <2>1, <2>3, <3>1, PersistQuiet
      <3>3. ASSUME NEW j \in Job PROVE Moved(j)
        <4>1. /\ Callers(j)' = Callers(j)
              /\ \A v \in Runner : v # w => (v \in Holders(j)' <=> v \in Holders(j))
              /\ w \in Holders(j)' <=>
                   (j \in due \/ \E e \in batch[w].live \cup batch[w].done : e.job = j)
              /\ w \in Holders(j) <=> Held(w, j)
          BY <1>1, <1>2, <1>9, BatchStepHolders
        <4>2. Holders(j)' = Holders(j)  BY <1>3, <2>7, <4>1 DEF Holders, Held, Idle
        <4> QED  BY <1>2, <3>2, <4>1, <4>2, HeldMoves
      <3> QED  BY <2>4, <2>5, <3>3 DEF SoleStep
    <2> QED  BY <2>6, <2>7
  <1> QED  BY <1>10, <1>12, <1>13, <1>14, <1>15, Combine

(* The places a sequence of n jobs is cut at.                              *)
LEMMA TailIsSeq ==
  ASSUME NEW n \in Nat, NEW S \in SUBSET Job, NEW order \in [1 .. n -> S], NEW a \in 0 .. n
  PROVE  SubSeq(order, a + 1, n) \in Seq(Job)
  <1>1. order \in Seq(Job) /\ Len(order) = n  OBVIOUS
  <1> QED  BY <1>1

LEMMA PlanStartupCatchupKeeps ==
  ASSUME NEW sole \in BOOLEAN, IndInv(sole), RecordUnmarked, NEW s \in Service,
         PlanStartupCatchup(s)
  PROVE  IndInv(sole)'
  <1> DEFINE w == <<s, "boot">>
             mine == copy[s]
             missed == {j \in DOMAIN mine : IsMissed(mine[j], j, now)}
             n == Cardinality(missed)
             atOnce == IF n < MaxMissed THEN n ELSE MaxMissed
             candidates(order) == {order[i] : i \in 1 .. atOnce}
  <1>1. /\ w \in Runner /\ batch \in [Runner -> Batch] /\ now \in Time /\ boot[s] = "plan"
        /\ DOMAIN mine \subseteq Job \ fresh /\ GoodStore(mine, now, sole)
    BY TypeFacts DEF OtherTypeOK, PlanStartupCatchup
  <1>2. PICK order \in [1 .. n -> missed] :
           /\ IF missed = {} THEN UNCHANGED <<store, copy>>
              ELSE Persist(s, Marked(mine, candidates(order), now))
           /\ batch' = [batch EXCEPT ![w].todo = candidates(order)]
           /\ deferred' = SubSeq(order, atOnce + 1, n)
    BY DEF PlanStartupCatchup
  <1>3. /\ boot' = [boot EXCEPT ![s] = IF missed = {} THEN "recompute" ELSE "run"]
        /\ manual' = manual /\ now' = now /\ tick' = tick /\ current' = current /\ fresh' = fresh
        /\ timer' = timer
    BY DEF PlanStartupCatchup
  <1>4. Idle(w) /\ s = current  BY <1>1, StartIsCurrent DEF IndInv, ControlInv
  <1>5. missed \in SUBSET DOMAIN mine /\ missed \in SUBSET Job
        /\ \A j \in missed : mine[j].running = None
    BY <1>1 DEF IsMissed
  <1>6. n \in Nat /\ atOnce \in 0 .. n
    <2>1. IsFiniteSet(missed)  BY <1>5, JobAssumption, FS_Subset
    <2> HIDE DEF missed
    <2> QED  BY <2>1, FS_CardinalityType, Constants
  <1> DEFINE C == candidates(order)
             marks == Marked(mine, C, now)
  <1> HIDE DEF missed, n, atOnce, mine
  <1>7. C \subseteq missed  BY <1>2, <1>6
  <1>8. deferred' \in Seq(Job)  BY <1>2, <1>5, <1>6, TailIsSeq
  <1>9. /\ IF missed = {} THEN UNCHANGED <<store, copy>> ELSE Persist(s, marks)
        /\ batch' = [batch EXCEPT ![w].todo = C]
    BY <1>2
  <1> HIDE DEF w, candidates, C
  <1>10. /\ C \in SUBSET DOMAIN mine /\ C \in SUBSET Job
         /\ \A j \in C : mine[j].running = None
    BY <1>5, <1>7
  <1>11. BatchStep(w, C, batch[w].live, batch[w].done)
    <2>1. batch' \in [Runner -> Batch]  BY <1>1, <1>9, <1>10 DEF Batch
    <2> QED  BY <1>1, <1>9, <2>1 DEF Batch, BatchStep
  <1>12. OtherTypeOK'
    BY <1>3, <1>8, <1>11, TypeFacts DEF OtherTypeOK, BatchStep, PlanStartupCatchup
  <1>13. DOMAIN marks = DOMAIN mine /\ GoodStore(marks, now, sole)
    BY <1>1, TypeFacts, MarkedKeeps
  <1> HIDE DEF marks
  <1>14. \A u \in Service : boot'[u] = IF u # s THEN boot[u]
                                       ELSE IF missed = {} THEN "recompute" ELSE "run"
    BY <1>3, TypeFacts DEF OtherTypeOK
  <1>15. ControlInv'
    <2>1. ASSUME NEW v \in Runner, Idle(v), v # w PROVE Idle(v)'
      BY <1>11, <2>1 DEF Idle, BatchStep
    <2>2. missed = {} => Idle(w)'  BY <1>4, <1>7, <1>11 DEF Idle, BatchStep
    <2>3. \A u \in Service : <<u, "tick">> # w /\ (u # s => <<u, "boot">> # w)  BY DEF w
    <2>4. \A u \in Service : boot'[u] # "run" => Idle(<<u, "boot">>)'
      <3> TAKE u \in Service
      <3>1. CASE u = s  BY <2>2, <1>14, <3>1 DEF w
      <3>2. CASE u # s  BY <2>1, <2>3, <1>14, <3>2, TypeFacts DEF IndInv, ControlInv
      <3> QED  BY <3>1, <3>2
    <2>5. \A u \in Service : tick'[u] # "run" => Idle(<<u, "tick">>)'
      BY <1>3, <2>1, <2>3, TypeFacts DEF IndInv, ControlInv
    <2>6. \A u \in Service : u # current' => boot'[u] = "off"
      BY <1>1, <1>3, <1>14 DEF IndInv, ControlInv
    <2> QED  BY <2>4, <2>5, <2>6 DEF ControlInv
  <1>16. StartedInv'
    <2>1. \A v \in Runner : batch'[v].live = batch[v].live /\ batch'[v].done = batch[v].done
      BY <1>11 DEF BatchStep
    <2> QED  BY <1>3, <2>1 DEF IndInv, StartedInv
  <1>17. StoresOK(sole)'
    <2>1. DOMAIN marks \subseteq Job \ fresh' /\ fresh' \subseteq fresh  BY <1>1, <1>3, <1>13
    <2>2. CASE missed = {}  BY <1>3, <1>9, <2>2, SameStoresOK
    <2>3. CASE missed # {}  BY <1>3, <1>9, <1>13, <2>1, <2>3, PersistOK
    <2> QED  BY <2>2, <2>3
  <1>18. ASSUME sole PROVE SoleStep
    <2>1. SoleInv /\ DOMAIN copy = Service /\ current \in Service
      BY <1>18, TypeFacts DEF IndInv
    <2>2. boot[current] # "clear" /\ boot'[current] # "clear"  BY <1>1, <1>4, <1>14
    <2>3. OnlyCurrentWorks'  BY <1>3, <2>1, <2>2, OnlyCurrentStill
    <2>4. CASE missed # {}
      <3>1. Persist(current, marks) /\ mine \in {store, copy[current]}
        BY <1>4, <1>9, <2>4 DEF mine
      <3>2. CopyInv'  BY <1>3, <2>1, <3>1, PersistOne
      <3>3. Persist(current, Marked(mine, C, now))  BY <3>1 DEF marks
      <3>4. \A j \in Job : Moved(j)
        BY <1>1, <1>3, <1>4, <1>10, <1>11, <2>2, <3>1, <3>3, TakesJobs
      <3> QED  BY <2>3, <3>2, <3>4 DEF SoleStep
    <2>5. CASE missed = {}
      <3>1. store' = store /\ copy' = copy  BY <1>9, <2>5
      <3>2. CopyInv'  BY <1>3, <2>1, <2>2, <3>1 DEF SoleInv, CopyInv
      <3>3. ASSUME NEW j \in Job PROVE Moved(j)
        <4>1. /\ Callers(j)' = Callers(j)
              /\ \A v \in Runner : v # w => (v \in Holders(j)' <=> v \in Holders(j))
              /\ w \in Holders(j)' <=>
                   (j \in C \/ \E e \in batch[w].live \cup batch[w].done : e.job = j)
              /\ w \in Holders(j) <=> Held(w, j)
          BY <1>1, <1>3, <1>11, BatchStepHolders
        <4>2. Holders(j)' = Holders(j)  BY <1>4, <1>7, <2>5, <4>1 DEF Holders, Held, Idle
        <4>3. HasMarker(j)' => HasMarker(j)  BY <1>3, <3>1, SameMarkers DEF HasMarker
        <4> QED  BY <1>3, <2>2, <4>1, <4>2, <4>3, HeldMoves
      <3> QED  BY <2>3, <3>2, <3>3 DEF SoleStep
    <2> QED  BY <2>4, <2>5
  <1> QED  BY <1>12, <1>15, <1>16, <1>17, <1>18, Combine

(* The results of a batch that has ended are applied: the runner lets go   *)
(* of its jobs.                                                            *)
LEMMA BatchIsOver ==
  ASSUME NEW w \in Runner, batch \in [Runner -> Batch], batch' = [batch EXCEPT ![w] = NoBatch]
  PROVE  BatchStep(w, {}, {}, {})
  BY DEF BatchStep, NoBatch, Batch

(* The markers of these jobs go with it.                                   *)
LEMMA AppliesBatch ==
  ASSUME DOMAIN copy = Service, current \in Service, current' = current,
         NEW w \in Runner, BatchEnded(w), BatchStep(w, {}, {}, {}), manual' = manual,
         NEW st, NEW from \in {store, copy[current]}, Persist(current, st),
         NoNewMarker(st, from),
         \A j \in DOMAIN st : HasResult(batch[w].done, j) => st[j].running = None,
         boot[current] # "clear"
  PROVE  \A j \in Job : Moved(j)
  <1> TAKE j \in Job
  <1>1. /\ Callers(j)' = Callers(j)
        /\ \A v \in Runner : v # w => (v \in Holders(j)' <=> v \in Holders(j))
        /\ w \notin Holders(j)'
        /\ w \in Holders(j) <=> Held(w, j)
    BY BatchStepHolders
  <1>2. Holders(j)' \subseteq Holders(j)  BY <1>1 DEF Holders
  <1>3. \A k \in Job : Mark(st, k) => Mark(from, k)  BY NoNewMarks
  <1>4. HasMarker(j)' => HasMarker(j)  BY <1>3, PersistQuiet
  <1>5. HasMarker(j)' => Mark(st, j)  BY PersistOne DEF HasMarker
  <1>6. ASSUME HasMarker(j)', InFlight(j) PROVE InFlight(j)'
    <2>1. ~Held(w, j)  BY <1>5, <1>6 DEF Held, BatchEnded, Mark, HasResult
    <2>2. Holders(j)' = Holders(j)  BY <1>1, <2>1 DEF Holders
    <2> QED  BY <1>1, <1>6, <2>2, InFlightHeld, InFlightHeldNext
  <1> QED  BY <1>1, <1>2, <1>4, <1>6 DEF Moved, Followed

(* The results in a batch have the type of results, and are of the past.   *)
LEMMA DoneAreResults ==
  ASSUME NEW sole \in BOOLEAN, IndInv(sole), NEW w \in Runner
  PROVE  Results(batch[w].done, now)
  <1>1. batch[w].done \in SUBSET DoneType  BY TypeFacts, BatchFields DEF OtherTypeOK
  <1> QED  BY <1>1 DEF Results, IndInv, StartedInv

(* What both sections that apply a batch do to the store they start from.  *)
LEMMA BatchOutcomesKeep ==
  ASSUME NEW sole \in BOOLEAN, IndInv(sole), NEW w \in Runner, NEW st,
         DOMAIN st \subseteq Job, GoodStore(st, now, sole), NEW no \in BOOLEAN
  PROVE  LET q == ApplyOutcomes(st, batch[w].done, no)
         IN  /\ DOMAIN q \subseteq DOMAIN st /\ GoodStore(q, now, sole) /\ NoNewMarker(q, st)
             /\ \A j \in DOMAIN q :
                  /\ HasResult(batch[w].done, j) => q[j].running = None
                  /\ ~HasResult(batch[w].done, j) => q[j] = st[j]
  <1> DEFINE R == batch[w].done
             q == ApplyOutcomes(st, R, no)
  <1>1. Results(R, now) /\ now \in Nat  BY DoneAreResults, TypeFacts
  <1> HIDE DEF R
  <1>2. /\ DOMAIN q \subseteq DOMAIN st /\ GoodStore(q, now, sole) /\ NoNewMarker(q, st)
        /\ \A j \in DOMAIN q : /\ HasResult(R, j) => q[j].running = None
                               /\ ~HasResult(R, j) => q[j] = st[j]
    BY <1>1, OutcomesKeep
  <1> QED  BY <1>2 DEF R

LEMMA ApplyTickResultsKeeps ==
  ASSUME NEW sole \in BOOLEAN, IndInv(sole), RecordUnmarked, NEW s \in Service,
         ApplyTickResults(s)
  PROVE  IndInv(sole)'
  <1> DEFINE w == <<s, "tick">>
             no == FALSE
             q == ApplyOutcomes(store, batch[w].done, no)
             kept == RecomputeNextRunsForMaintenance(q, now, no)
  <1>1. w \in Runner /\ batch \in [Runner -> Batch] /\ no \in BOOLEAN /\ now \in Nat
        /\ DOMAIN store \subseteq Job /\ DOMAIN store \cap fresh = {} /\ GoodStore(store, now, sole)
    BY TypeFacts DEF OtherTypeOK
  <1>2. /\ BatchEnded(w) /\ batch' = [batch EXCEPT ![w] = NoBatch] /\ Persist(s, kept)
        /\ tick[s] = "run" /\ tick' = [tick EXCEPT ![s] = "finally"] /\ timer' = timer
        /\ manual' = manual /\ now' = now /\ boot' = boot /\ current' = current /\ fresh' = fresh
    BY DEF ApplyTickResults
  <1> HIDE DEF w, no
  <1>3. /\ DOMAIN q \subseteq DOMAIN store /\ GoodStore(q, now, sole) /\ NoNewMarker(q, store)
        /\ \A j \in DOMAIN q : HasResult(batch[w].done, j) => q[j].running = None
    <2>1. q = ApplyOutcomes(store, batch[w].done, no)  OBVIOUS
    <2> HIDE DEF q
    <2> QED  BY <1>1, <2>1, BatchOutcomesKeep
  <1> HIDE DEF q
  <1>4. DOMAIN kept = DOMAIN q /\ GoodStore(kept, now, sole) /\ NoNewMarker(kept, q)
    BY <1>1, <1>3, MaintenanceKeeps
  <1> HIDE DEF kept
  <1>5. /\ NoNewMarker(kept, store)
        /\ \A j \in DOMAIN kept : HasResult(batch[w].done, j) => kept[j].running = None
    BY <1>3, <1>4 DEF NoNewMarker
  <1>6. BatchStep(w, {}, {}, {})  BY <1>1, <1>2, BatchIsOver
  <1>7. OtherTypeOK'
    BY <1>2, <1>6, TypeFacts DEF OtherTypeOK, BatchStep, ApplyTickResults
  <1>8. \A u \in Service : u # s => tick'[u] = tick[u]
    BY <1>2, TypeFacts DEF OtherTypeOK
  <1>9. ControlInv'
    <2>1. ASSUME NEW v \in Runner PROVE Idle(v) \/ v = w => Idle(v)'
      BY <1>6 DEF Idle, BatchStep
    <2> QED  BY <1>2, <1>8, <2>1, TypeFacts DEF IndInv, ControlInv, w
  <1>10. StartedInv'
    <2>1. \A v \in Runner : /\ batch'[v].live \subseteq batch[v].live
                            /\ batch'[v].done \subseteq batch[v].done
      BY <1>6 DEF BatchStep
    <2> QED  BY <1>2, <2>1 DEF IndInv, StartedInv
  <1>11. StoresOK(sole)'
    <2>1. DOMAIN kept \subseteq Job \ fresh' /\ fresh' \subseteq fresh  BY <1>1, <1>2, <1>3, <1>4
    <2> QED  BY <1>2, <1>4, <2>1, PersistOK
  <1>12. ASSUME sole PROVE SoleStep
    <2>1. SoleInv /\ DOMAIN copy = Service /\ current \in Service
      BY <1>12, TypeFacts DEF IndInv
    <2>2. s = current /\ boot[current] # "clear"  BY <1>2, <2>1, TickIsCurrent
    <2>3. Persist(current, kept) /\ store \in {store, copy[current]}  BY <1>2, <2>2
    <2>4. CopyInv'  BY <1>2, <2>1, <2>3, PersistOne
    <2>5. OnlyCurrentWorks'  BY <1>2, <1>8, <2>1, <2>2, OnlyCurrentStill
    <2>6. \A j \in Job : Moved(j)
      BY <1>1, <1>2, <1>5, <1>6, <2>1, <2>2, <2>3, AppliesBatch
    <2> QED  BY <2>4, <2>5, <2>6 DEF SoleStep
  <1> QED  BY <1>7, <1>9, <1>10, <1>11, <1>12, Combine

LEMMA ApplyStartupCatchupOutcomesKeeps ==
  ASSUME NEW sole \in BOOLEAN, IndInv(sole), RecordUnmarked, NEW s \in Service,
         ApplyStartupCatchupOutcomes(s)
  PROVE  IndInv(sole)'
  <1> DEFINE w == <<s, "boot">>
             mine == copy[s]
             no == FALSE
             q == ApplyOutcomes(mine, batch[w].done, no)
             kept == RecomputeNextRunsForMaintenance(Spread(q), now, no)
  <1>1. w \in Runner /\ batch \in [Runner -> Batch] /\ no \in BOOLEAN /\ now \in Nat \ {0}
        /\ DOMAIN mine \subseteq Job /\ DOMAIN mine \cap fresh = {} /\ GoodStore(mine, now, sole)
    BY TypeFacts DEF OtherTypeOK
  <1>2. /\ BatchEnded(w) /\ batch' = [batch EXCEPT ![w] = NoBatch] /\ Persist(s, kept)
        /\ boot[s] = "run" /\ boot' = [boot EXCEPT ![s] = "recompute"] /\ deferred' = <<>>
        /\ manual' = manual /\ now' = now /\ tick' = tick /\ current' = current /\ fresh' = fresh
        /\ timer' = timer
    BY DEF ApplyStartupCatchupOutcomes
  <1>3. s = current  BY <1>2, StartIsCurrent DEF IndInv
  <1>4. mine \in {store, copy[current]}  BY <1>3
  <1> HIDE DEF w, no, mine
  <1>5. /\ DOMAIN q \subseteq DOMAIN mine /\ GoodStore(q, now, sole) /\ NoNewMarker(q, mine)
        /\ \A j \in DOMAIN q : HasResult(batch[w].done, j) => q[j].running = None
    <2>1. /\ q = ApplyOutcomes(mine, batch[w].done, no) /\ w \in Runner /\ no \in BOOLEAN
          /\ DOMAIN mine \subseteq Job /\ GoodStore(mine, now, sole)
      BY <1>1
    <2> HIDE DEF q
    <2> QED  BY <2>1, BatchOutcomesKeep DEF mine
  <1> HIDE DEF q
  <1>6. /\ DOMAIN Spread(q) = DOMAIN q /\ GoodStore(Spread(q), now, sole)
        /\ \A j \in DOMAIN q : Spread(q)[j].running = q[j].running
    BY <1>1, <1>5, SpreadKeeps
  <1>7. DOMAIN kept = DOMAIN q /\ GoodStore(kept, now, sole) /\ NoNewMarker(kept, Spread(q))
    BY <1>1, <1>5, <1>6, MaintenanceKeeps
  <1> HIDE DEF kept
  <1>8. /\ NoNewMarker(kept, mine)
        /\ \A j \in DOMAIN kept : HasResult(batch[w].done, j) => kept[j].running = None
    BY <1>5, <1>6, <1>7 DEF NoNewMarker
  <1>9. \A u \in Service : boot'[u] = IF u = s THEN "recompute" ELSE boot[u]
    BY <1>2, TypeFacts DEF OtherTypeOK
  <1>10. BatchStep(w, {}, {}, {})  BY <1>1, <1>2, BatchIsOver
  <1>11. OtherTypeOK'
    BY <1>2, <1>10, TypeFacts DEF OtherTypeOK, BatchStep, ApplyStartupCatchupOutcomes
  <1>12. ControlInv'
    <2>1. ASSUME NEW v \in Runner PROVE Idle(v) \/ v = w => Idle(v)'
      BY <1>10 DEF Idle, BatchStep
    <2> QED  BY <1>2, <1>9, <2>1, TypeFacts DEF IndInv, ControlInv, w
  <1>13. StartedInv'
    <2>1. \A v \in Runner : /\ batch'[v].live \subseteq batch[v].live
                            /\ batch'[v].done \subseteq batch[v].done
      BY <1>10 DEF BatchStep
    <2> QED  BY <1>2, <2>1 DEF IndInv, StartedInv
  <1>14. StoresOK(sole)'
    <2>1. DOMAIN kept \subseteq Job \ fresh' /\ fresh' \subseteq fresh  BY <1>1, <1>2, <1>5, <1>7
    <2> QED  BY <1>2, <1>7, <2>1, PersistOK
  <1>15. ASSUME sole PROVE SoleStep
    <2>1. SoleInv /\ DOMAIN copy = Service /\ current \in Service
      BY <1>15, TypeFacts DEF IndInv
    <2>2. boot[current] # "clear" /\ boot'[current] # "clear"  BY <1>2, <1>3, <1>9
    <2>3. Persist(current, kept)  BY <1>2, <1>3
    <2>4. CopyInv'  BY <1>2, <2>1, <2>3, PersistOne
    <2>5. OnlyCurrentWorks'  BY <1>2, <2>1, <2>2, OnlyCurrentStill
    <2>6. \A j \in Job : Moved(j)
      BY <1>1, <1>2, <1>4, <1>8, <1>10, <2>1, <2>2, <2>3, AppliesBatch
    <2> QED  BY <2>4, <2>5, <2>6 DEF SoleStep
  <1> QED  BY <1>11, <1>12, <1>13, <1>14, <1>15, Combine

-----------------------------------------------------------------------------
(* The steps of a manual run.                                              *)

(* A step of one call; the batches are left alone.                         *)
CallStep(m) ==
  /\ batch' = batch /\ now' = now /\ boot' = boot /\ current' = current /\ fresh' = fresh
  /\ tick' = tick /\ skip' = skip /\ deferred' = deferred /\ edits' = edits
  /\ attached' \in [Service -> BOOLEAN] /\ timer' \in [Service -> BOOLEAN]
  /\ \A s \in Service : s # current => timer'[s] = timer[s]
  /\ manual' \in [Manual -> Call]
  /\ \A n \in Manual : n # m => manual'[n] = manual[n]

LEMMA CallStepHolders ==
  ASSUME NEW m \in Manual, CallStep(m), NEW j
  PROVE  /\ Holders(j)' = Holders(j)
         /\ \A n \in Manual : n # m => (n \in Callers(j)' <=> n \in Callers(j))
         /\ m \in Callers(j)' <=> (manual'[m].job = j /\ manual'[m].phase \in {"run", "finish"})
         /\ m \in Callers(j) <=> (manual[m].job = j /\ manual[m].phase \in {"run", "finish"})
         /\ Callers(j)' \subseteq Manual /\ Callers(j) \subseteq Manual
  BY DEF CallStep, Holders, Callers

LEMMA CallStepKeeps ==
  ASSUME NEW sole \in BOOLEAN, IndInv(sole), RecordUnmarked, NEW m \in Manual, CallStep(m),
         StoresOK(sole)',
         manual'[m].phase \in {"reserve", "run", "finish"} => manual'[m].startedAt \in 1 .. now,
         manual'[m].phase = "finish" => manual'[m].endedAt \in Time /\ manual'[m].status \in Result,
         Serving \/ manual[m].phase \notin {"idle", "over"},
         sole => CopyInv' /\ \A j \in Job : Moved(j)
  PROVE  IndInv(sole)'
  <1>1. OtherTypeOK'  BY TypeFacts DEF CallStep, OtherTypeOK
  <1>2. ControlInv'  BY DEF IndInv, ControlInv, Idle, CallStep
  <1>3. StartedInv'  BY DEF IndInv, StartedInv, CallStep
  <1>4. ASSUME sole PROVE SoleStep
    <2>1. SoleInv  BY <1>4 DEF IndInv
    <2>2. boot[current] # "clear"  BY <2>1 DEF SoleInv, OnlyCurrentWorks, Serving
    <2>3. OnlyCurrentWorks'  BY <2>1, <2>2, OnlyCurrentStill DEF CallStep
    <2> QED  BY <1>4, <2>3 DEF SoleStep
  <1> QED  BY <1>1, <1>2, <1>3, <1>4, Combine

LEMMA RunPreflightKeeps ==
  ASSUME NEW sole \in BOOLEAN, IndInv(sole), RecordUnmarked, NEW m \in Manual,
         NEW j \in Job, NEW force \in BOOLEAN,
         RunPreflight(m, j, force)
  PROVE  IndInv(sole)'
  <1> DEFINE no == FALSE
             mine == copy[current]
             kept == RecomputeNextRunsForMaintenance(mine, now, no)
             runnable == kept[j].running = None /\ (force \/ IsDue(kept[j], now))
             c == [NoCall("reserve") EXCEPT !.job = j, !.force = force, !.startedAt = now]
  <1>1. /\ copy' = [copy EXCEPT ![current] = kept] /\ store' = store
        /\ manual[m].phase = "idle" /\ Serving /\ now' = now /\ fresh' = fresh
        /\ manual' = [manual EXCEPT ![m] = IF runnable THEN c ELSE NoCall("over")]
    BY DEF RunPreflight, Own
  <1>2. /\ current \in Service /\ no \in BOOLEAN /\ now \in Nat
        /\ DOMAIN mine \subseteq Job /\ GoodStore(mine, now, sole)
    BY TypeFacts
  <1>3. DOMAIN kept = DOMAIN mine /\ GoodStore(kept, now, sole) /\ NoNewMarker(kept, mine)
    BY <1>2, MaintenanceKeeps
  <1>4. ASSUME sole PROVE CopyInv => Alike(kept, store)
    <2>1. GoodStore(mine, now, TRUE)  BY <1>2, <1>4 DEF GoodStore, Good
    <2>2. CopyInv => Alike(mine, store)  BY <1>1 DEF CopyInv, Serving
    <2> QED  BY <1>2, <2>1, <2>2, MaintenanceIsAlike
  <1> HIDE DEF kept, runnable, no
  <1>5. NoCall("reserve") \in Call /\ NoCall("over") \in Call /\ NoCall("over").phase = "over"
        /\ NoCall("reserve").phase = "reserve"
    BY NoCallIsCall
  <1>6. c \in Call /\ c.phase = "reserve" /\ c.startedAt = now
    BY <1>5, TypeFacts DEF Call, Stamp
  <1> HIDE DEF c
  <1>7. /\ manual' \in [Manual -> Call]
        /\ manual'[m].phase \in {"reserve", "over"}
        /\ manual'[m].phase = "reserve" => manual'[m].startedAt = now
        /\ \A n \in Manual : n # m => manual'[n] = manual[n]
    BY <1>1, <1>5, <1>6, TypeFacts DEF OtherTypeOK
  <1>8. CallStep(m)  BY <1>7, TypeFacts DEF RunPreflight, CallStep, OtherTypeOK
  <1>9. StoresOK(sole)' /\ copy'[current] = kept
    <2>1. DOMAIN kept \subseteq DOMAIN copy[current] /\ GoodStore(kept, now, sole)
      BY <1>3
    <2>2. copy' = [copy EXCEPT ![current] = kept]  BY <1>1
    <2> QED  BY <1>1, <1>2, <2>1, <2>2, CopyChangeOK
  <1>10. ASSUME sole PROVE CopyInv' /\ \A k \in Job : Moved(k)
    <2>1. CopyInv'  BY <1>1, <1>4, <1>8, <1>9, <1>10 DEF IndInv, SoleInv, CopyInv, CallStep
    <2>2. ASSUME NEW k \in Job PROVE Moved(k)
      <3>1. Holders(k)' = Holders(k)  BY <1>8, CallStepHolders
      <3>2. Callers(k)' = Callers(k)
        <4>1. m \notin Callers(k) /\ m \notin Callers(k)'  BY <1>1, <1>7 DEF Callers
        <4> QED  BY <1>8, <4>1, CallStepHolders
      <3>3. Mark(kept, k) => Mark(mine, k)  BY <1>3, NoNewMarks
      <3>4. HasMarker(k)' => HasMarker(k)
        BY <1>1, <1>8, <1>9, <3>3 DEF HasMarker, InFile, InMemory, Mark, CallStep
      <3>5. boot'[current'] # "clear" => boot[current] # "clear"  BY <1>8 DEF CallStep
      <3> QED  BY <3>1, <3>2, <3>4, <3>5, HeldMoves
    <2> QED  BY <2>1, <2>2
  <1>11. now \in 1 .. now  BY TypeFacts
  <1> QED  BY <1>1, <1>7, <1>8, <1>9, <1>10, <1>11, CallStepKeeps

LEMMA RunReserveKeeps ==
  ASSUME NEW sole \in BOOLEAN, IndInv(sole), RecordUnmarked, NEW m \in Manual, RunReserve(m)
  PROVE  IndInv(sole)'
  <1> DEFINE j == manual[m].job
             mine == copy[current]
             c == [manual[m] EXCEPT !.phase = "run"]
             at == manual[m].startedAt
  <1>1. manual[m].phase = "reserve" /\ manual[m] \in Call /\ manual \in [Manual -> Call]
    BY TypeFacts DEF RunReserve, OtherTypeOK
  <1>2. j \in Job /\ at \in 1 .. now /\ at \in Nat \ {0} /\ now \in Nat
    <2>1. at \in 1 .. now  BY <1>1 DEF IndInv, StartedInv
    <2> QED  BY <1>1, <2>1, TypeFacts DEF Call
  <1>3. c \in Call /\ c.phase = "run" /\ c.startedAt = at /\ c.job = j
    BY <1>1 DEF Call
  <1>4. NoCall("over") \in Call /\ NoCall("over").phase = "over"  BY NoCallIsCall
  <1>5. /\ boot' = boot /\ current' = current /\ now' = now /\ fresh' = fresh
        /\ current \in Service /\ DOMAIN copy = Service /\ GoodStore(mine, now, sole)
        /\ DOMAIN mine \subseteq Job \ fresh
    BY TypeFacts DEF RunReserve
  <1>6. CASE j \in DOMAIN mine /\ mine[j].running = None
    <2> DEFINE J == {j}
               st == Marked(mine, J, at)
    <2>1. manual' = [manual EXCEPT ![m] = c] /\ Persist(current, st)
      BY <1>6 DEF RunReserve, Own
    <2> HIDE DEF c
    <2>2. manual' \in [Manual -> Call] /\ manual'[m] = c
          /\ \A n \in Manual : n # m => manual'[n] = manual[n]
      BY <1>1, <1>3, <2>1
    <2>3. CallStep(m)  BY <2>2, TypeFacts DEF RunReserve, CallStep, OtherTypeOK
    <2>4. /\ DOMAIN st = DOMAIN mine /\ GoodStore(st, now, sole)
          /\ \A k \in DOMAIN mine : st[k].running = IF k = j THEN at ELSE mine[k].running
      <3> HIDE DEF J, at, mine
      <3>1. /\ DOMAIN st = DOMAIN mine /\ GoodStore(st, now, sole)
            /\ \A k \in DOMAIN mine : st[k].running = IF k \in J THEN at ELSE mine[k].running
        BY <1>2, <1>5, MarkedKeeps
      <3> QED  BY <3>1 DEF J
    <2> HIDE DEF st
    <2>5. StoresOK(sole)'  BY <1>5, <2>1, <2>4, PersistOK
    <2>6. CopyInv'  BY <1>5, <2>1, PersistOne
    <2>7. ASSUME NEW k \in Job PROVE Moved(k)
      <3>1. /\ Holders(k)' = Holders(k)
            /\ \A n \in Manual : n # m => (n \in Callers(k)' <=> n \in Callers(k))
            /\ m \in Callers(k)' <=> k = j
            /\ m \notin Callers(k)
            /\ Callers(k)' \subseteq Manual /\ Callers(k) \subseteq Manual
        BY <1>1, <1>3, <2>2, <2>3, CallStepHolders
      <3>2. (InFile(k)' <=> Mark(st, k)) /\ (InMemory(k)' <=> Mark(st, k))
        BY <1>5, <2>1, PersistOne
      <3>3. CASE k = j
        <4>1. ~InMemory(k) /\ InFile(k)' /\ InMemory(k)'
          BY <1>2, <1>6, <2>4, <3>2, <3>3 DEF InMemory, Mark, None
        <4>2. Callers(k)' \subseteq Callers(k) \cup {m}  BY <3>1
        <4>3. Taken(k)  BY <3>1, <4>1, <4>2 DEF Taken
        <4>4. InFlight(k)'  BY <3>1, <3>3, InFlightHeldNext
        <4> QED  BY <4>3, <4>4 DEF Moved, Followed
      <3>4. CASE k # j
        <4>1. Callers(k)' = Callers(k)  BY <3>1, <3>4
        <4>2. HasMarker(k)' => HasMarker(k)
          BY <2>4, <3>2, <3>4 DEF HasMarker, InMemory, Mark
        <4> QED  BY <1>5, <3>1, <4>1, <4>2, HeldMoves
      <3> QED  BY <3>3, <3>4
    <2> QED  BY <1>1, <1>2, <1>3, <2>2, <2>3, <2>5, <2>6, <2>7, CallStepKeeps
  <1>7. CASE ~(j \in DOMAIN mine /\ mine[j].running = None)
    <2>1. manual' = [manual EXCEPT ![m] = NoCall("over")] /\ store' = store /\ copy' = copy
      BY <1>7 DEF RunReserve, Own
    <2>2. manual' \in [Manual -> Call] /\ manual'[m].phase = "over"
          /\ \A n \in Manual : n # m => manual'[n] = manual[n]
      BY <1>1, <1>4, <2>1
    <2>3. CallStep(m)  BY <2>2, TypeFacts DEF RunReserve, CallStep, OtherTypeOK
    <2>4. StoresOK(sole)'  BY <1>5, <2>1, SameStoresOK
    <2>5. sole => CopyInv'  BY <1>5, <2>1 DEF IndInv, SoleInv, CopyInv
    <2>6. ASSUME NEW k \in Job PROVE Moved(k)
      <3>1. m \notin Callers(k) /\ m \notin Callers(k)'  BY <1>1, <2>2 DEF Callers
      <3>2. Callers(k)' = Callers(k) /\ Holders(k)' = Holders(k)
        BY <2>3, <3>1, CallStepHolders
      <3>3. HasMarker(k)' => HasMarker(k)  BY <1>5, <2>1, SameMarkers DEF HasMarker
      <3> QED  BY <1>5, <3>2, <3>3, HeldMoves
    <2> QED  BY <1>1, <2>2, <2>3, <2>4, <2>5, <2>6, CallStepKeeps
  <1> QED  BY <1>6, <1>7

LEMMA ManualRunEndsKeeps ==
  ASSUME NEW sole \in BOOLEAN, IndInv(sole), RecordUnmarked, NEW m \in Manual,
         NEW status \in Outcome,
         ManualRunEnds(m, status)
  PROVE  IndInv(sole)'
  <1>1. /\ manual[m].phase = "run" /\ manual[m] \in Call /\ manual \in [Manual -> Call]
        /\ manual' = [manual EXCEPT ![m].phase = "finish", ![m].endedAt = now, ![m].status = status]
        /\ status \in Result /\ now \in Nat /\ now \in Time
        /\ store' = store /\ copy' = copy /\ boot' = boot /\ current' = current
        /\ now' = now /\ fresh' = fresh
    BY TypeFacts, ChoiceAssumption DEF ManualRunEnds, OtherTypeOK
  <1>2. /\ manual' \in [Manual -> Call]
        /\ manual'[m].phase = "finish" /\ manual'[m].job = manual[m].job
        /\ manual'[m].startedAt = manual[m].startedAt
        /\ manual'[m].endedAt = now /\ manual'[m].status = status
        /\ \A n \in Manual : n # m => manual'[n] = manual[n]
    BY <1>1 DEF Call, Stamp
  <1>3. CallStep(m)  BY <1>2, TypeFacts DEF ManualRunEnds, CallStep, OtherTypeOK
  <1>4. manual[m].startedAt \in 1 .. now  BY <1>1 DEF IndInv, StartedInv
  <1>5. StoresOK(sole)'  BY <1>1, SameStoresOK
  <1>6. sole => CopyInv'  BY <1>1 DEF IndInv, SoleInv, CopyInv
  <1>7. ASSUME NEW k \in Job PROVE Moved(k)
    <2>1. m \in Callers(k) <=> m \in Callers(k)'  BY <1>1, <1>2 DEF Callers
    <2>2. Callers(k)' = Callers(k) /\ Holders(k)' = Holders(k)
      BY <1>3, <2>1, CallStepHolders
    <2>3. HasMarker(k)' => HasMarker(k)  BY <1>1, SameMarkers DEF HasMarker
    <2> QED  BY <1>1, <2>2, <2>3, HeldMoves
  <1> QED  BY <1>1, <1>2, <1>3, <1>4, <1>5, <1>6, <1>7, CallStepKeeps

(* What a manual run merges into the file: with one service the schedule   *)
(* it keeps is the one its own copy has.                                   *)
LEMMA MergeKeeps ==
  ASSUME NEW sole \in BOOLEAN, NEW ran, NEW j \in Job, now \in Nat, DOMAIN store \subseteq Job,
         GoodStore(store, now, sole),
         j \in DOMAIN ran => Good(ran[j], j, now, sole) /\ ran[j].running = None,
         sole /\ j \in DOMAIN ran /\ j \in DOMAIN store => ran[j].base = store[j].base
  PROVE  LET q == MergeManualRun(ran, j)
         IN  /\ DOMAIN q = {i \in DOMAIN store : i = j => i \in DOMAIN ran}
             /\ GoodStore(q, now, sole) /\ NoNewMarker(q, store)
             /\ j \in DOMAIN q => q[j].running = None
             /\ \A k \in DOMAIN q : k # j => q[k] = store[k]
  <1> DEFINE q == MergeManualRun(ran, j)
  <1>1. /\ DOMAIN q = {i \in DOMAIN store : i = j => i \in DOMAIN ran}
        /\ \A k \in DOMAIN q :
             q[k] = IF k = j THEN [ran[j] EXCEPT !.base = store[j].base] ELSE store[k]
    BY DEF MergeManualRun
  <1> HIDE DEF q
  <1>2. ASSUME NEW k \in DOMAIN q, k = j
        PROVE  Good(q[k], k, now, sole) /\ q[k].running = None
    <2> DEFINE a == ran[j]
               b == store[j].base
    <2>1. /\ Good(a, j, now, sole) /\ a.running = None /\ a \in Record
          /\ b \in Nat /\ b >= 1 /\ (sole => a.base = b)
      BY <1>1, <1>2 DEF GoodStore, Good, Typed, Record, Stamp, None
    <2>2. q[k] = [a EXCEPT !.base = b]  BY <1>1, <1>2
    <2> HIDE DEF a, b
    <2>3. /\ q[k] \in Record /\ q[k].base = b /\ q[k].running = None
          /\ q[k].enabled = a.enabled /\ q[k].next = a.next /\ q[k].lastRun = a.lastRun
          /\ q[k].lastStatus = a.lastStatus
      BY <2>1, <2>2 DEF Record, Stamp
    <2> QED  BY <1>2, <2>1, <2>3 DEF Good, Typed, Slotted, Succeeded
  <1>3. ASSUME NEW k \in DOMAIN q, k # j
        PROVE  Good(q[k], k, now, sole) /\ q[k] = store[k]
    BY <1>1, <1>3 DEF GoodStore
  <1> QED  BY <1>1, <1>2, <1>3 DEF GoodStore, NoNewMarker, q

(* The call whose result is applied, and what the result is.               *)
ResultOf(m) == [job |-> manual[m].job, startedAt |-> manual[m].startedAt,
                endedAt |-> manual[m].endedAt, status |-> manual[m].status]
MergedBy(m) ==
  MergeManualRun(ApplyOutcomes(copy[current], {ResultOf(m)}, manual[m].force), manual[m].job)

LEMMA ResultIsTyped ==
  ASSUME NEW sole \in BOOLEAN, IndInv(sole), NEW m \in Manual, manual[m].phase = "finish"
  PROVE  /\ ResultOf(m) \in DoneType /\ ResultOf(m).startedAt <= now
         /\ ResultOf(m).job = manual[m].job /\ manual[m].job \in Job
         /\ manual[m].force \in BOOLEAN
  <1>1. manual[m] \in Call  BY TypeFacts
  <1>2. manual[m].job \in Job /\ manual[m].force \in BOOLEAN  BY <1>1 DEF Call
  <1>3. /\ manual[m].startedAt \in 1 .. now /\ manual[m].endedAt \in Time
        /\ manual[m].status \in Result
    BY DEF IndInv, StartedInv
  <1>4. manual[m].startedAt \in Time  BY <1>3, TypeFacts, Constants DEF OtherTypeOK, Time
  <1> QED  BY <1>2, <1>3, <1>4, TypeFacts DEF DoneType, ResultOf

LEMMA MergedKeeps ==
  ASSUME NEW sole \in BOOLEAN, IndInv(sole), NEW m \in Manual, manual[m].phase = "finish"
  PROVE  LET q == MergedBy(m)
             j == manual[m].job
         IN  /\ DOMAIN q \subseteq DOMAIN store
             /\ GoodStore(q, now, sole) /\ NoNewMarker(q, store)
             /\ j \in DOMAIN q => q[j].running = None
             /\ \A k \in DOMAIN q : k # j => q[k] = store[k]
  <1> DEFINE j == manual[m].job
             mine == copy[current]
             res == ResultOf(m)
             R == {res}
             b == manual[m].force
             ran == ApplyOutcomes(mine, R, b)
  <1>1. res \in DoneType /\ res.startedAt <= now /\ res.job = j /\ j \in Job /\ b \in BOOLEAN
    BY ResultIsTyped
  <1>2. /\ now \in Nat /\ DOMAIN store \subseteq Job /\ GoodStore(store, now, sole)
        /\ DOMAIN mine \subseteq Job /\ GoodStore(mine, now, sole)
    BY TypeFacts
  <1>3. sole => Alike(mine, store)
    <2>1. sole => SoleInv  BY DEF IndInv
    <2> QED  BY <2>1 DEF SoleInv, OnlyCurrentWorks, CopyInv
  <1>4. MergedBy(m) = MergeManualRun(ran, j)  BY DEF MergedBy
  <1> HIDE DEF res, b, mine, j
  <1>5. Results(R, now) /\ HasResult(R, j)  BY <1>1 DEF Results, HasResult
  <1> HIDE DEF R
  <1>6. /\ DOMAIN ran \subseteq DOMAIN mine /\ GoodStore(ran, now, sole)
        /\ j \in DOMAIN ran => ran[j].running = None /\ ran[j].base = mine[j].base
    <2>1. ran = ApplyOutcomes(mine, R, b)  OBVIOUS
    <2> HIDE DEF ran
    <2> QED  BY <1>1, <1>2, <1>5, <2>1, OutcomesKeep
  <1> HIDE DEF ran
  <1>7. /\ j \in DOMAIN ran => Good(ran[j], j, now, sole) /\ ran[j].running = None
        /\ sole /\ j \in DOMAIN ran /\ j \in DOMAIN store => ran[j].base = store[j].base
    BY <1>3, <1>6 DEF GoodStore, Alike, SameJob
  <1> DEFINE q == MergeManualRun(ran, j)
  <1>8. /\ DOMAIN q = {i \in DOMAIN store : i = j => i \in DOMAIN ran}
        /\ GoodStore(q, now, sole) /\ NoNewMarker(q, store)
        /\ j \in DOMAIN q => q[j].running = None
        /\ \A k \in DOMAIN q : k # j => q[k] = store[k]
    BY <1>1, <1>2, <1>7, MergeKeeps
  <1> HIDE DEF q
  <1> QED  BY <1>4, <1>8 DEF q, j

LEMMA FinishPreparedManualRunKeeps ==
  ASSUME NEW sole \in BOOLEAN, IndInv(sole), RecordUnmarked, NEW m \in Manual,
         FinishPreparedManualRun(m)
  PROVE  IndInv(sole)'
  <1> DEFINE j == manual[m].job
             yes == TRUE
             q == MergedBy(m)
             kept == RecomputeNextRunsForMaintenance(q, now, yes)
  <1>1. /\ manual[m].phase = "finish" /\ manual[m] \in Call /\ manual \in [Manual -> Call]
        /\ manual' = [manual EXCEPT ![m] = NoCall("over")]
        /\ boot' = boot /\ current' = current /\ now' = now /\ fresh' = fresh
        /\ \/ Persist(current, kept)
           \/ UNCHANGED <<store, copy>> /\ j \notin DOMAIN copy[current]
    BY TypeFacts DEF FinishPreparedManualRun, OtherTypeOK, Own, MergedBy, ResultOf
  <1>2. /\ now \in Nat /\ yes \in BOOLEAN /\ current \in Service /\ DOMAIN copy = Service
        /\ DOMAIN store \subseteq Job /\ DOMAIN store \cap fresh = {}
    BY TypeFacts
  <1> HIDE DEF yes
  <1>3. /\ DOMAIN q \subseteq DOMAIN store /\ GoodStore(q, now, sole) /\ NoNewMarker(q, store)
        /\ j \in DOMAIN q => q[j].running = None
    BY <1>1, MergedKeeps
  <1> HIDE DEF q
  <1>4. DOMAIN kept = DOMAIN q /\ GoodStore(kept, now, sole) /\ NoNewMarker(kept, q)
    <2>1. DOMAIN q \subseteq Job  BY <1>2, <1>3
    <2> QED  BY <1>2, <1>3, <2>1, MaintenanceKeeps
  <1> HIDE DEF kept
  <1>5. NoCall("over") \in Call /\ NoCall("over").phase = "over"  BY NoCallIsCall
  <1>6. /\ manual' \in [Manual -> Call] /\ manual'[m].phase = "over"
        /\ \A n \in Manual : n # m => manual'[n] = manual[n]
    BY <1>1, <1>5
  <1>7. CallStep(m)
    <2>1. /\ attached' \in [Service -> BOOLEAN] /\ timer' \in [Service -> BOOLEAN]
          /\ \A u \in Service : u # current => timer'[u] = timer[u]
      <3>1. Armed(store') \in BOOLEAN  BY DEF Armed
      <3> QED  BY <3>1, TypeFacts DEF FinishPreparedManualRun, OtherTypeOK
    <2> QED  BY <1>6, <2>1, TypeFacts DEF FinishPreparedManualRun, CallStep, OtherTypeOK
  <1>8. StoresOK(sole)'
    <2>1. CASE Persist(current, kept)
      <3>1. DOMAIN kept \subseteq Job \ fresh' /\ fresh' \subseteq fresh
        BY <1>1, <1>2, <1>3, <1>4
      <3> QED  BY <1>1, <1>2, <1>4, <2>1, <3>1, PersistOK
    <2>2. CASE UNCHANGED <<store, copy>>  BY <1>1, <2>2, SameStoresOK
    <2> QED  BY <1>1, <2>1, <2>2
  <1>9. ASSUME sole PROVE CopyInv' /\ \A k \in Job : Moved(k)
    <2>1. CopyInv /\ boot[current] # "clear"
      BY <1>1, <1>9 DEF IndInv, SoleInv, OnlyCurrentWorks
    <2>2. CopyInv'
      <3>1. CASE Persist(current, kept)  BY <1>1, <1>2, <3>1, PersistOne
      <3>2. CASE UNCHANGED <<store, copy>>  BY <1>1, <2>1, <3>2 DEF CopyInv
      <3> QED  BY <1>1, <3>1, <3>2
    <2>3. ASSUME NEW k \in Job PROVE HasMarker(k)' => HasMarker(k) /\ k # j
      <3>1. CASE Persist(current, kept)
        <4>1. HasMarker(k)' => Mark(kept, k)  BY <1>1, <1>2, <3>1, PersistOne DEF HasMarker
        <4>2. Mark(kept, k) => InFile(k) /\ k # j
          BY <1>3, <1>4 DEF NoNewMarker, Mark, InFile
        <4> QED  BY <4>1, <4>2 DEF HasMarker
      <3>2. CASE UNCHANGED <<store, copy>> /\ j \notin DOMAIN copy[current]
        <4>1. HasMarker(k)' => HasMarker(k)  BY <1>1, <3>2, SameMarkers DEF HasMarker
        <4>2. ~HasMarker(j)
          BY <2>1, <3>2 DEF CopyInv, Alike, HasMarker, InFile, InMemory
        <4> QED  BY <4>1, <4>2
      <3> QED  BY <1>1, <3>1, <3>2
    <2>4. ASSUME NEW k \in Job PROVE Moved(k)
      <3>1. /\ Holders(k)' = Holders(k)
            /\ \A n \in Manual : n # m => (n \in Callers(k)' <=> n \in Callers(k))
            /\ m \in Callers(k) <=> k = j
            /\ m \notin Callers(k)'
            /\ Callers(k)' \subseteq Manual /\ Callers(k) \subseteq Manual
        BY <1>1, <1>6, <1>7, CallStepHolders
      <3>2. Callers(k)' \subseteq Callers(k)  BY <3>1
      <3>3. k # j => Callers(k)' = Callers(k)  BY <3>1
      <3>4. k # j => (InFlight(k)' <=> InFlight(k))
        BY <3>1, <3>3, InFlightHeld, InFlightHeldNext
      <3> QED  BY <1>1, <2>1, <2>3, <3>1, <3>2, <3>4 DEF Moved, Followed
    <2> QED  BY <2>2, <2>4
  <1> QED  BY <1>1, <1>6, <1>7, <1>8, <1>9, CallStepKeeps

-----------------------------------------------------------------------------
(* The invariant holds initially and is kept by every step.                *)

LEMMA InitIsInd ==
  ASSUME NEW sole \in BOOLEAN, CronInit
  PROVE  IndInv(sole)
  <1>1. /\ \A j \in InitialJobs : Good(NewRecord(j, 1), j, now, sole)
                                  /\ NewRecord(j, 1).running = None
        /\ DOMAIN store = InitialJobs /\ InitialJobs \subseteq Job
        /\ \A j \in InitialJobs : store[j] = NewRecord(j, 1)
        /\ now \in Time
    BY NewRecordIsGood, JobAssumption, Constants DEF CronInit, Time
  <1>2. GoodStore(store, now, sole)  BY <1>1 DEF GoodStore
  <1>3. 1 \in Service  BY Constants DEF Service
  <1>4. /\ manual \in [Manual -> Call]
        /\ \A m \in Manual : manual[m].phase = "idle"
    BY NoCallIsCall DEF CronInit
  <1>5. /\ batch \in [Runner -> Batch]
        /\ \A w \in Runner : batch[w].todo = {} /\ batch[w].live = {} /\ batch[w].done = {}
    BY DEF CronInit, NoBatch, Batch
  <1>6. deferred \in Seq(Job)  BY DEF CronInit
  <1>7. /\ DOMAIN copy = Service /\ \A s \in Service : DOMAIN copy[s] = {}
        /\ fresh = Job \ InitialJobs
    BY DEF CronInit, NoJobs
  <1>8. StoresOK(sole)  BY <1>1, <1>2, <1>7 DEF StoresOK, GoodStore
  <1>9. CronTypeOK
    <2>1. ASSUME NEW st \in {store} \cup {copy[s] : s \in Service}
          PROVE  DOMAIN st \subseteq Job \ fresh /\ \A j \in DOMAIN st : st[j] \in Record
      BY <1>8 DEF StoresOK, GoodStore, Good, Typed
    <2> QED  BY <1>1, <1>3, <1>4, <1>5, <1>6, <1>7, <2>1, Constants DEF CronInit, CronTypeOK
  <1>10. boot[current] = "clear" /\ ControlInv
    BY <1>3, <1>5 DEF CronInit, ControlInv, Idle, Runner
  <1>11. StartedInv  BY <1>4, <1>5 DEF StartedInv
  <1>12. SoleInv
    <2>1. OnlyCurrentWorks  BY <1>4, <1>10 DEF CronInit, OnlyCurrentWorks
    <2>2. CopyInv /\ MarkerHasRun  BY <1>10 DEF CopyInv, MarkerHasRun
    <2>3. ASSUME NEW j \in Job PROVE MarkerInv(j)
      <3>1. Holders(j) = {} /\ Callers(j) = {}  BY <1>4, <1>5 DEF Holders, Callers
      <3> QED  BY <3>1, InFlightHeld DEF MarkerInv, Alone
    <2> QED  BY <2>1, <2>2, <2>3 DEF SoleInv
  <1> QED  BY <1>8, <1>9, <1>10, <1>11, <1>12 DEF IndInv

LEMMA StutterKeepsInd ==
  ASSUME NEW sole \in BOOLEAN, IndInv(sole), UNCHANGED cronVars
  PROVE  IndInv(sole)'
  <1>1. CronTypeOK' /\ StoresOK(sole)' /\ ControlInv' /\ StartedInv'
    BY DEF cronVars, IndInv, CronTypeOK, StoresOK, ControlInv, StartedInv, Idle
  <1>2. ASSUME sole PROVE SoleInv'
    <2>1. OnlyCurrentWorks' /\ CopyInv'
      BY <1>2 DEF cronVars, IndInv, SoleInv, OnlyCurrentWorks, CopyInv
    <2>2. \A j \in Job : MarkerInv(j)'
      BY <1>2 DEF cronVars, IndInv, SoleInv, MarkerInv, Alone, Holders, Callers, InFlight,
                  InFile, InMemory
    <2>3. MarkerHasRun'
      BY <1>2 DEF cronVars, IndInv, SoleInv, MarkerHasRun, InFlight, InFile, InMemory
    <2> QED  BY <2>1, <2>2, <2>3 DEF SoleInv
  <1> QED  BY <1>1, <1>2 DEF IndInv

LEMMA NextKeepsInd ==
  ASSUME NEW sole \in BOOLEAN, IndInv(sole), [CronNext]_cronVars, sole => [~Reload]_cronVars
  PROVE  IndInv(sole)'
  <1>1. CASE UNCHANGED cronVars  BY <1>1, StutterKeepsInd
  <1>2. ASSUME CronStep, RecordUnmarked, sole => ~Reload PROVE IndInv(sole)'
    <2>1. ASSUME NEW s \in Service, TickStep(s) PROVE IndInv(sole)'
      BY <1>2, <2>1, TimerKeeps, CollectDueJobsKeeps, RunDueJobKeeps, ApplyTickResultsKeeps
         DEF TickStep
    <2>2. ASSUME NEW s \in Service, StartStep(s) PROVE IndInv(sole)'
      BY <1>2, <2>2, StartClearKeeps, PlanStartupCatchupKeeps, RunStartupCatchupCandidateKeeps,
         ApplyStartupCatchupOutcomesKeeps, StartRecomputeKeeps
         DEF StartStep
    <2>3. ASSUME NEW s \in Service, OnTimerBusy(s) PROVE IndInv(sole)'
      BY <1>2, <2>3, TimerKeeps
    <2>4. ASSUME NEW w \in Runner, SomeJobEnds(w) PROVE IndInv(sole)'
      BY <1>2, <2>4, JobEndsKeeps
    <2>5. ASSUME NEW m \in Manual, NEW j \in Job, NEW force \in BOOLEAN,
                 RunPreflight(m, j, force)
          PROVE  IndInv(sole)'
      BY <1>2, <2>5, RunPreflightKeeps
    <2>6. ASSUME NEW m \in Manual, RunReserve(m) PROVE IndInv(sole)'
      BY <1>2, <2>6, RunReserveKeeps
    <2>7. ASSUME NEW m \in Manual, NEW r \in Outcome, ManualRunEnds(m, r) PROVE IndInv(sole)'
      BY <1>2, <2>7, ManualRunEndsKeeps
    <2>8. ASSUME NEW m \in Manual, FinishPreparedManualRun(m) PROVE IndInv(sole)'
      BY <1>2, <2>8, FinishPreparedManualRunKeeps
    <2>9. ASSUME NEW j \in Job, Add(j) PROVE IndInv(sole)'  BY <1>2, <2>9, AddKeeps
    <2>10. ASSUME NEW j \in Job, NEW p \in Patches, Update(j, p) PROVE IndInv(sole)'
      BY <1>2, <2>10, UpdateKeeps
    <2>11. ASSUME NEW j \in Job, Remove(j) PROVE IndInv(sole)'  BY <1>2, <2>11, RemoveKeeps
    <2>12. CASE EnsureLoadedForRead  BY <1>2, <2>12, EnsureLoadedForReadKeeps
    <2>13. CASE Advance  BY <1>2, <2>13, AdvanceKeeps
    <2>14. CASE Reload  BY <1>2, <2>14, ReloadKeeps
    <2>15. CASE Crash  BY <1>2, <2>15, CrashKeeps
    <2> QED
      BY <1>2, <2>1, <2>2, <2>3, <2>4, <2>5, <2>6, <2>7, <2>8, <2>9, <2>10, <2>11, <2>12,
         <2>13, <2>14, <2>15
         DEF CronStep
  <1> QED  BY <1>1, <1>2 DEF CronNext

(* With hot reloads the stores and the batches keep their types, without   *)
(* them the markers, the slots and the two copies keep what they promise.  *)
TypeInv == IndInv(FALSE)
OneServiceInv == IndInv(TRUE)

LEMMA EveryServiceInvariant == CronSpec => []TypeInv
  <1>1. ASSUME NEW sole \in BOOLEAN, ~sole, IndInv(sole), [CronNext]_cronVars PROVE IndInv(sole)'
    BY <1>1, NextKeepsInd
  <1>2. TypeInv /\ [CronNext]_cronVars => TypeInv'  BY <1>1 DEF TypeInv
  <1>3. CronInit => TypeInv  BY InitIsInd DEF TypeInv
  <1> QED  BY <1>2, <1>3, PTL DEF CronSpec

LEMMA OneServiceInvariant == CronSpec /\ [][~Reload]_cronVars => []OneServiceInv
  <1>1. ASSUME NEW sole \in BOOLEAN, IndInv(sole), [CronNext]_cronVars, [~Reload]_cronVars
        PROVE  IndInv(sole)'
    BY <1>1, NextKeepsInd
  <1>2. OneServiceInv /\ [CronNext]_cronVars /\ [~Reload]_cronVars => OneServiceInv'
    BY <1>1 DEF OneServiceInv
  <1>3. CronInit => OneServiceInv  BY InitIsInd DEF OneServiceInv
  <1> QED  BY <1>2, <1>3, PTL DEF CronSpec

(* Every variable of the cron service keeps its type, whatever is reloaded.*)
THEOREM CronTypeCorrect == CronSpec => []CronTypeOK
  <1>1. TypeInv => CronTypeOK  BY DEF TypeInv, IndInv
  <1> QED  BY <1>1, EveryServiceInvariant, PTL

-----------------------------------------------------------------------------
(* The markers.                                                            *)

LEMMA AtMostOne ==
  ASSUME NEW S, NEW T, T \subseteq S, \A a, b \in S : a = b
  PROVE  Cardinality(T) \in {0, 1} /\ (S = {} => Cardinality(T) = 0)
  <1>1. CASE T = {}  BY <1>1, FS_EmptySet
  <1>2. CASE T # {}
    <2>1. PICK a \in T : TRUE  BY <1>2
    <2>2. T = {a}  BY <2>1
    <2> QED  BY <2>2, FS_Singleton
  <1> QED  BY <1>1, <1>2

(* The marker excludes, as long as the service is not replaced under a     *)
(* tick: whatever ticks, catch-ups, manual runs, edits and crashes do, two *)
(* executions of a job overlap only after the marker was removed under the *)
(* first.                                                                  *)
THEOREM MarkerExcludes == CronSpec /\ [][~Reload]_cronVars => []OverlapNeedsLostMarker
  <1>1. ASSUME SoleInv PROVE OverlapNeedsLostMarker
    <2> SUFFICES ASSUME NEW j \in Job, j \notin unmarked PROVE ~(Executions(j) > 1)
      BY DEF OverlapNeedsLostMarker
    <2> DEFINE L == {w \in Runner : \E e \in batch[w].live : e.job = j}
               M == {m \in Manual : manual[m].job = j /\ manual[m].phase = "run"}
    <2>1. Alone(j)  BY <1>1 DEF SoleInv, MarkerInv
    <2>2. L \subseteq Holders(j)  BY DEF Holders
    <2>3. M \subseteq Callers(j)  BY DEF Callers
    <2>4. Executions(j) = Cardinality(L) + Cardinality(M)  BY DEF Executions
    <2> HIDE DEF L, M
    <2>5. Cardinality(L) \in {0, 1} /\ (Holders(j) = {} => Cardinality(L) = 0)
      BY <2>1, <2>2, AtMostOne DEF Alone
    <2>6. Cardinality(M) \in {0, 1} /\ (Callers(j) = {} => Cardinality(M) = 0)
      BY <2>1, <2>3, AtMostOne DEF Alone
    <2>7. Holders(j) = {} \/ Callers(j) = {}  BY <2>1 DEF Alone
    <2> QED  BY <2>4, <2>5, <2>6, <2>7
  <1>2. OneServiceInv => OverlapNeedsLostMarker  BY <1>1 DEF OneServiceInv, IndInv
  <1> QED  BY <1>2, OneServiceInvariant, PTL

(* No marker outlives its run within one life of the gateway, as long as   *)
(* the service is not replaced under a tick.                               *)
THEOREM MarkersAreOwned == CronSpec /\ [][~Reload]_cronVars => []MarkerHasRun
  <1>1. OneServiceInv => MarkerHasRun  BY DEF OneServiceInv, IndInv, SoleInv
  <1> QED  BY <1>1, OneServiceInvariant, PTL

-----------------------------------------------------------------------------
(* Ticks, with any number of hot reloads: each reads the file before it    *)
(* takes a job up and saves its markers, so at most one holds a job that   *)
(* has not lost its marker, and the marker is in the file.                 *)

TickHolders(j) == {s \in Service : <<s, "tick">> \in Holders(j)}
TickInv(j) ==
  j \in unmarked \/ /\ \A s, u \in TickHolders(j) : s = u
                    /\ TickHolders(j) # {} => InFile(j)

(* A tick takes the job up and leaves its marker in the file.              *)
TickTakes(j) ==
  /\ ~InFile(j) /\ InFile(j)'
  /\ \E s \in Service : TickHolders(j)' \subseteq TickHolders(j) \cup {s}

LEMMA TickStays ==
  ASSUME NEW j \in Job, TickInv(j), RecordUnmarked,
         TickHolders(j)' \subseteq TickHolders(j) \/ TickTakes(j)
  PROVE  TickInv(j)'
  <1> SUFFICES ASSUME j \notin unmarked', TickHolders(j)' # {}
               PROVE  (\A s, u \in TickHolders(j)' : s = u) /\ InFile(j)'
    BY DEF TickInv
  <1>1. InFlight(j)'
    <2>1. Holders(j)' # {}  BY DEF TickHolders
    <2> QED  BY <2>1, InFlightHeldNext
  <1>2. j \notin unmarked /\ (InFile(j) => InFile(j)')  BY <1>1 DEF RecordUnmarked
  <1>3. (\A s, u \in TickHolders(j) : s = u) /\ (TickHolders(j) # {} => InFile(j))
    BY <1>2 DEF TickInv
  <1>4. CASE TickHolders(j)' \subseteq TickHolders(j)  BY <1>2, <1>3, <1>4
  <1>5. CASE TickTakes(j)
    <2>1. TickHolders(j) = {}  BY <1>3, <1>5 DEF TickTakes
    <2> QED  BY <2>1, <1>5 DEF TickTakes
  <1> QED  BY <1>4, <1>5

(* The steps that leave the batches of the ticks alone.                    *)
LEMMA TicksUntouched ==
  ASSUME \A s \in Service : batch'[<<s, "tick">>] = batch[<<s, "tick">>], NEW j
  PROVE  TickHolders(j)' \subseteq TickHolders(j)
  BY DEF TickHolders, Holders, Runner

LEMMA TickRunnerSteps ==
  ASSUME NEW w \in Runner, NEW todo, NEW live, NEW done, BatchStep(w, todo, live, done),
         NEW j, j \in todo \/ (\E e \in live \cup done : e.job = j) => Held(w, j)
  PROVE  TickHolders(j)' \subseteq TickHolders(j)
  <1>1. ASSUME NEW v \in Runner, v \in Holders(j)' PROVE v \in Holders(j)
    BY <1>1 DEF BatchStep, Holders, Held
  <1> QED  BY <1>1 DEF TickHolders, Holders

LEMMA TickStepOfTicks ==
  ASSUME NEW sole \in BOOLEAN, IndInv(sole), NEW s \in Service, TickStep(s), NEW j \in Job
  PROVE  TickHolders(j)' \subseteq TickHolders(j) \/ TickTakes(j)
  <1> DEFINE w == <<s, "tick">>
  <1>1. w \in Runner /\ batch \in [Runner -> Batch] /\ now \in Nat \ {0} /\ now \in Time
    BY TypeFacts DEF OtherTypeOK
  <1>2. CASE OnTimer(s) \/ TickFinally(s)
    BY <1>2, TicksUntouched DEF OnTimer, TickFinally
  <1>3. CASE CollectDueJobs(s)
    <2> DEFINE due == {k \in DOMAIN store : IsDue(store[k], now)}
    <2>1. batch' = [batch EXCEPT ![w].todo = due]  BY <1>3 DEF CollectDueJobs
    <2>2. due # {} => store' = Marked(store, due, now)  BY <1>3 DEF CollectDueJobs, Persist
    <2>3. \A k \in due : k \in DOMAIN store /\ store[k].running = None  BY DEF IsDue
    <2>4. due \subseteq Job  BY TypeFacts
    <2> HIDE DEF w, due
    <2>5. BatchStep(w, due, batch[w].live, batch[w].done)
      <3>1. batch' \in [Runner -> Batch]  BY <1>1, <2>1, <2>4 DEF Batch
      <3> QED  BY <1>1, <2>1, <3>1 DEF Batch, BatchStep
    <2>6. CASE j \notin due
      BY <1>1, <2>5, <2>6, TickRunnerSteps DEF Held
    <2>7. CASE j \in due
      <3>1. ~InFile(j)  BY <2>3, <2>7 DEF InFile
      <3>2. InFile(j)'
        <4>1. DOMAIN store' = DOMAIN store /\ store'[j].running = now
          BY <1>1, <2>2, <2>3, <2>7, TypeFacts, MarkedKeeps
        <4> QED  BY <1>1, <2>3, <2>7, <4>1 DEF InFile, None
      <3>3. TickHolders(j)' \subseteq TickHolders(j) \cup {s}
        <4>1. \A v \in Runner : v # w => (v \in Holders(j)' <=> v \in Holders(j))
          BY <2>5 DEF BatchStep, Holders
        <4>2. ASSUME NEW u \in Service, u # s PROVE <<u, "tick">> # w /\ <<u, "tick">> \in Runner
          BY <4>2 DEF w, Runner
        <4> QED  BY <4>1, <4>2 DEF TickHolders
      <3> QED  BY <3>1, <3>2, <3>3 DEF TickTakes
    <2> QED  BY <2>6, <2>7
  <1>4. ASSUME NEW k \in Job, RunDueJob(s, k) PROVE TickHolders(j)' \subseteq TickHolders(j)
    <2> DEFINE e == [job |-> k, startedAt |-> now]
    <2>1. /\ k \in batch[w].todo
          /\ batch' = [batch EXCEPT ![w].todo = @ \ {k}, ![w].live = @ \cup {e}]
      BY <1>4 DEF RunDueJob
    <2>2. e \in [job : Job, startedAt : Time] /\ e.job = k  BY <1>1
    <2> HIDE DEF w, e
    <2>3. BatchStep(w, batch[w].todo \ {k}, batch[w].live \cup {e}, batch[w].done)
      <3>1. batch' \in [Runner -> Batch]  BY <1>1, <2>1, <2>2 DEF Batch
      <3> QED  BY <1>1, <2>1, <3>1 DEF Batch, BatchStep
    <2>4. j \in batch[w].todo \ {k} \/ (\E x \in (batch[w].live \cup {e}) \cup batch[w].done : x.job = j)
          => Held(w, j)
      BY <2>1, <2>2 DEF Held
    <2> QED  BY <1>1, <2>3, <2>4, TickRunnerSteps
  <1>5. CASE ApplyTickResults(s)
    <2>1. batch' = [batch EXCEPT ![w] = NoBatch]  BY <1>5 DEF ApplyTickResults
    <2> HIDE DEF w
    <2>2. BatchStep(w, {}, {}, {})  BY <1>1, <2>1, BatchIsOver
    <2> QED  BY <1>1, <2>2, TickRunnerSteps
  <1> QED  BY <1>2, <1>3, <1>4, <1>5 DEF TickStep

LEMMA StepOfTicks ==
  ASSUME NEW sole \in BOOLEAN, IndInv(sole), CronStep, NEW j \in Job
  PROVE  TickHolders(j)' \subseteq TickHolders(j) \/ TickTakes(j)
  <1>1. ASSUME batch' = batch PROVE TickHolders(j)' \subseteq TickHolders(j)
    BY <1>1, TicksUntouched
  <1>2. ASSUME NEW s \in Service, StartStep(s) PROVE TickHolders(j)' \subseteq TickHolders(j)
    <2> DEFINE w == <<s, "boot">>
    <2>1. batch \in [Runner -> Batch]  BY TypeFacts DEF OtherTypeOK
    <2>2. ASSUME NEW b, batch' = [batch EXCEPT ![w] = b]
          PROVE  TickHolders(j)' \subseteq TickHolders(j)
      <3>1. \A v \in Runner : v # w => batch'[v] = batch[v]  BY <2>1, <2>2
      <3>2. \A u \in Service : <<u, "tick">> \in Runner /\ <<u, "tick">> # w  BY DEF Runner
      <3> HIDE DEF w
      <3> QED  BY <3>1, <3>2, TicksUntouched
    <2>3. CASE PlanStartupCatchup(s)
      <3>1. \E C : batch' = [batch EXCEPT ![w] = [@ EXCEPT !.todo = C]]
        BY <2>3 DEF PlanStartupCatchup
      <3> QED  BY <3>1, <2>2
    <2>4. ASSUME NEW k \in Job, RunStartupCatchupCandidate(s, k)
          PROVE  TickHolders(j)' \subseteq TickHolders(j)
      <3>1. \E b : batch' = [batch EXCEPT ![w] = b]
        BY <2>4 DEF RunStartupCatchupCandidate
      <3> QED  BY <3>1, <2>2
    <2>5. CASE ApplyStartupCatchupOutcomes(s)
      BY <2>2, <2>5 DEF ApplyStartupCatchupOutcomes
    <2>6. StartClear(s) \/ StartRecompute(s) => batch' = batch  BY DEF StartClear, StartRecompute
    <2> QED  BY <1>1, <1>2, <2>3, <2>4, <2>5, <2>6 DEF StartStep
  <1>3. ASSUME NEW w \in Runner, SomeJobEnds(w) PROVE TickHolders(j)' \subseteq TickHolders(j)
    <2>1. PICK e \in batch[w].live, status \in Outcome : JobEnds(w, e, status)
      BY <1>3 DEF SomeJobEnds
    <2> DEFINE d == [job |-> e.job, startedAt |-> e.startedAt, endedAt |-> now, status |-> status]
    <2>2. BatchStep(w, batch[w].todo, batch[w].live \ {e}, batch[w].done \cup {d})
      BY <2>1, JobEndsFacts
    <2>3. d.job = e.job  OBVIOUS
    <2> HIDE DEF d
    <2> QED  BY <2>2, <2>3, TickRunnerSteps DEF Held
  <1>4. CASE Crash
    <2>1. \A v \in Runner : batch'[v].todo = {} /\ batch'[v].live = {} /\ batch'[v].done = {}
      BY <1>4 DEF Crash, NoBatch
    <2>2. Holders(j)' = {}  BY <2>1 DEF Holders
    <2> QED  BY <2>2 DEF TickHolders
  <1>5. \A s \in Service : OnTimerBusy(s) => batch' = batch  BY DEF OnTimerBusy
  <1>6. \A m \in Manual, k \in Job, force \in BOOLEAN : RunPreflight(m, k, force) => batch' = batch
    BY DEF RunPreflight
  <1>7. \A m \in Manual : RunReserve(m) \/ FinishPreparedManualRun(m) => batch' = batch
    BY DEF RunReserve, FinishPreparedManualRun
  <1>8. \A m \in Manual, r \in Outcome : ManualRunEnds(m, r) => batch' = batch
    BY DEF ManualRunEnds
  <1>9. \A k \in Job : Add(k) \/ Remove(k) => batch' = batch  BY DEF Add, Remove
  <1>10. \A k \in Job, p \in Patches : Update(k, p) => batch' = batch  BY DEF Update
  <1>11. EnsureLoadedForRead \/ Advance \/ Reload => batch' = batch
    BY DEF EnsureLoadedForRead, Advance, Reload
  <1> QED
    BY <1>1, <1>2, <1>3, <1>4, <1>5, <1>6, <1>7, <1>8, <1>9, <1>10, <1>11, TickStepOfTicks
       DEF CronStep

(* Whatever is reloaded, and however many services work on the file: the   *)
(* ticks of two of them overlap on a job only after its marker was removed *)
(* under a run.                                                            *)
THEOREM TicksExclude == CronSpec => []TicksNeedLostMarker
  <1>1. ASSUME \A j \in Job : TickInv(j) PROVE TicksNeedLostMarker
    <2> SUFFICES ASSUME NEW j \in Job, j \notin unmarked PROVE ~(TickExecutions(j) > 1)
      BY DEF TicksNeedLostMarker
    <2> DEFINE L == {s \in Service : \E e \in batch[<<s, "tick">>].live : e.job = j}
    <2>1. \A s, u \in TickHolders(j) : s = u  BY <1>1 DEF TickInv
    <2>2. L \subseteq TickHolders(j)  BY DEF TickHolders, Holders, Runner
    <2>3. TickExecutions(j) = Cardinality(L)  BY DEF TickExecutions
    <2> HIDE DEF L
    <2>4. Cardinality(L) \in {0, 1}  BY <2>1, <2>2, AtMostOne
    <2> QED  BY <2>3, <2>4
  <1>2. ASSUME CronInit, NEW j \in Job PROVE TickInv(j)
    BY <1>2 DEF CronInit, NoBatch, TickInv, TickHolders, Holders
  <1>3. ASSUME NEW sole \in BOOLEAN, ~sole, IndInv(sole), \A j \in Job : TickInv(j),
               [CronNext]_cronVars, NEW j \in Job
        PROVE  TickInv(j)'
    <2>1. CASE UNCHANGED cronVars
      BY <1>3, <2>1 DEF cronVars, TickInv, TickHolders, Holders, InFile
    <2>2. CASE CronStep /\ RecordUnmarked
      BY <1>3, <2>2, StepOfTicks, TickStays
    <2> QED  BY <1>3, <2>1, <2>2 DEF CronNext
  <1>4. TypeInv /\ (\A j \in Job : TickInv(j)) /\ [CronNext]_cronVars => \A j \in Job : TickInv(j)'
    BY <1>3 DEF TypeInv
  <1>5. CronInit => \A j \in Job : TickInv(j)  BY <1>2
  <1>6. (\A j \in Job : TickInv(j)) => TicksNeedLostMarker  BY <1>1
  <1> DEFINE T == \A j \in Job : TickInv(j)
  <1>7. CronInit => T  BY <1>5
  <1>8. TypeInv /\ T /\ [CronNext]_cronVars => T'  BY <1>4
  <1>9. T => TicksNeedLostMarker  BY <1>6
  <1> HIDE DEF T
  <1> QED  BY <1>7, <1>8, <1>9, EveryServiceInvariant, PTL DEF CronSpec

-----------------------------------------------------------------------------
(* What a tick and a startup take up.                                      *)

(* What a runner takes up is enabled in the file, and the runner sees its  *)
(* slot there.                                                             *)
SeesStored(v, j) ==
  /\ j \in DOMAIN store /\ store[j].enabled
  /\ SeenBy(v, j).next = store[j].next /\ SeenBy(v, j).base = store[j].base

LEMMA CollectTakes ==
  ASSUME NEW sole \in BOOLEAN, sole, IndInv(sole), NEW s \in Service, CollectDueJobs(s),
         NEW v \in Runner,
         NEW j \in batch'[v].todo \ batch[v].todo
  PROVE  SeesStored(v, j)
  <1> DEFINE w == <<s, "tick">>
             due == {k \in DOMAIN store : IsDue(store[k], now)}
  <1>1. w \in Runner /\ batch \in [Runner -> Batch]  BY TypeFacts DEF OtherTypeOK
  <1>2. batch' = [batch EXCEPT ![w].todo = due]  BY DEF CollectDueJobs
  <1> HIDE DEF w, due
  <1>3. batch'[v].todo = IF v = w THEN due ELSE batch[v].todo  BY <1>1, <1>2 DEF Batch
  <1>4. j \in due /\ v = w  BY <1>3
  <1> QED  BY <1>4 DEF due, w, IsDue, SeesStored, SeenBy

LEMMA PlanTakes ==
  ASSUME NEW sole \in BOOLEAN, sole, IndInv(sole), NEW s \in Service, PlanStartupCatchup(s),
         NEW v \in Runner,
         NEW j \in batch'[v].todo \ batch[v].todo
  PROVE  SeesStored(v, j)
  <1> DEFINE w == <<s, "boot">>
             missed == {k \in DOMAIN copy[s] : IsMissed(copy[s][k], k, now)}
             n == Cardinality(missed)
             atOnce == IF n < MaxMissed THEN n ELSE MaxMissed
             candidates(order) == {order[i] : i \in 1 .. atOnce}
  <1>1. w \in Runner /\ batch \in [Runner -> Batch]  BY TypeFacts DEF OtherTypeOK
  <1>2. PICK order \in [1 .. n -> missed] :
           batch' = [batch EXCEPT ![w].todo = candidates(order)]
    BY DEF PlanStartupCatchup
  <1>3. n \in Nat /\ atOnce \in 0 .. n
    <2>1. IsFiniteSet(missed)  BY TypeFacts, JobAssumption, FS_Subset
    <2> HIDE DEF missed
    <2> QED  BY <2>1, FS_CardinalityType, Constants
  <1> HIDE DEF missed, n, atOnce
  <1>4. candidates(order) \subseteq missed  BY <1>2, <1>3
  <1> HIDE DEF w, candidates
  <1>5. batch'[v].todo = IF v = w THEN candidates(order) ELSE batch[v].todo
    BY <1>1, <1>2 DEF Batch
  <1>6. j \in missed /\ v = w  BY <1>4, <1>5
  <1>7. s = current /\ boot[s] = "plan"  BY StartIsCurrent DEF IndInv, PlanStartupCatchup
  <1>8. Alike(copy[s], store)  BY <1>7 DEF IndInv, SoleInv, CopyInv
  <1>9. j \in DOMAIN copy[s] /\ copy[s][j].enabled  BY <1>6 DEF missed, IsMissed
  <1>10. SeenBy(v, j) = copy[s][j]  BY <1>6 DEF w, SeenBy
  <1> QED  BY <1>8, <1>9, <1>10 DEF SeesStored, Alike, SameJob

(* Only these two add to what a runner has to do.                          *)
LEMMA OnlyEnabledAreTaken ==
  ASSUME NEW sole \in BOOLEAN, sole, IndInv(sole), CronStep, NEW v \in Runner,
         NEW j \in batch'[v].todo \ batch[v].todo
  PROVE  SeesStored(v, j)
  <1>1. batch \in [Runner -> Batch]  BY TypeFacts DEF OtherTypeOK
  <1>2. ASSUME batch' = batch PROVE FALSE  BY <1>2
  <1>3. ASSUME NEW s \in Service, TickStep(s) PROVE SeesStored(v, j)
    <2> DEFINE w == <<s, "tick">>
    <2>1. w \in Runner  BY TypeFacts
    <2>2. ASSUME NEW k \in Job, RunDueJob(s, k) PROVE FALSE
      <3>1. batch' = [batch EXCEPT ![w].todo = @ \ {k},
                                   ![w].live = @ \cup {[job |-> k, startedAt |-> now]}]
        BY <2>2 DEF RunDueJob
      <3> HIDE DEF w
      <3>2. batch'[v].todo = IF v = w THEN batch[v].todo \ {k} ELSE batch[v].todo
        BY <1>1, <2>1, <3>1 DEF Batch
      <3> QED  BY <3>2
    <2>3. ASSUME ApplyTickResults(s) PROVE FALSE
      <3>1. batch' = [batch EXCEPT ![w] = NoBatch]  BY <2>3 DEF ApplyTickResults
      <3> HIDE DEF w
      <3>2. batch'[v].todo = IF v = w THEN {} ELSE batch[v].todo
        BY <1>1, <2>1, <3>1 DEF NoBatch
      <3> QED  BY <3>2
    <2>4. OnTimer(s) \/ TickFinally(s) => batch' = batch  BY DEF OnTimer, TickFinally
    <2> QED  BY <1>2, <1>3, <2>2, <2>3, <2>4, CollectTakes DEF TickStep
  <1>4. ASSUME NEW s \in Service, StartStep(s) PROVE SeesStored(v, j)
    <2> DEFINE w == <<s, "boot">>
    <2>1. w \in Runner  BY TypeFacts
    <2>2. ASSUME NEW k \in Job, RunStartupCatchupCandidate(s, k) PROVE FALSE
      <3>1. batch' = [batch EXCEPT ![w].todo = @ \ {k},
                                   ![w].live = {[job |-> k, startedAt |-> now]}]
        BY <2>2 DEF RunStartupCatchupCandidate
      <3> HIDE DEF w
      <3>2. batch'[v].todo = IF v = w THEN batch[v].todo \ {k} ELSE batch[v].todo
        BY <1>1, <2>1, <3>1 DEF Batch
      <3> QED  BY <3>2
    <2>3. ASSUME ApplyStartupCatchupOutcomes(s) PROVE FALSE
      <3>1. batch' = [batch EXCEPT ![w] = NoBatch]  BY <2>3 DEF ApplyStartupCatchupOutcomes
      <3> HIDE DEF w
      <3>2. batch'[v].todo = IF v = w THEN {} ELSE batch[v].todo
        BY <1>1, <2>1, <3>1 DEF NoBatch
      <3> QED  BY <3>2
    <2>4. StartClear(s) \/ StartRecompute(s) => batch' = batch  BY DEF StartClear, StartRecompute
    <2> QED  BY <1>2, <1>4, <2>2, <2>3, <2>4, PlanTakes DEF StartStep
  <1>5. ASSUME NEW w \in Runner, SomeJobEnds(w) PROVE FALSE
    <2>1. PICK e \in batch[w].live, status \in Outcome : JobEnds(w, e, status)
      BY <1>5 DEF SomeJobEnds
    <2>2. batch'[v].todo = batch[v].todo  BY <2>1, JobEndsFacts DEF BatchStep
    <2> QED  BY <2>2
  <1>6. ASSUME Crash PROVE FALSE
    BY <1>6 DEF Crash, NoBatch
  <1>7. \A s \in Service : OnTimerBusy(s) => batch' = batch  BY DEF OnTimerBusy
  <1>8. \A m \in Manual, k \in Job, force \in BOOLEAN : RunPreflight(m, k, force) => batch' = batch
    BY DEF RunPreflight
  <1>9. \A m \in Manual : RunReserve(m) \/ FinishPreparedManualRun(m) => batch' = batch
    BY DEF RunReserve, FinishPreparedManualRun
  <1>10. \A m \in Manual, r \in Outcome : ManualRunEnds(m, r) => batch' = batch
    BY DEF ManualRunEnds
  <1>11. \A k \in Job : Add(k) \/ Remove(k) => batch' = batch  BY DEF Add, Remove
  <1>12. \A k \in Job, p \in Patches : Update(k, p) => batch' = batch  BY DEF Update
  <1>13. EnsureLoadedForRead \/ Advance \/ Reload => batch' = batch
    BY DEF EnsureLoadedForRead, Advance, Reload
  <1> QED
    BY <1>2, <1>3, <1>4, <1>5, <1>6, <1>7, <1>8, <1>9, <1>10, <1>11, <1>12, <1>13 DEF CronStep

(* Issues 11452 and 13845, for every set of jobs: a one-shot that has      *)
(* succeeded is never taken up again on the time it is set for, as long as *)
(* deferred jobs are spread out at all and the service is not replaced     *)
(* under a tick.                                                           *)
THEOREM OneShotsAreNotRepeated ==
  ASSUME Stagger > 0
  PROVE  CronSpec /\ [][~Reload]_cronVars => OneShotNotRepeated
  <1> DEFINE A ==
        \A w \in Runner : \A j \in batch'[w].todo \ batch[w].todo :
          Kind[j] = "at" /\ SeenBy(w, j).next = SeenBy(w, j).base
          => /\ j \in DOMAIN store
             /\ ~(store[j].lastStatus = "ok" /\ store[j].base <= store[j].lastRun)
  <1>1. ASSUME NEW sole \in BOOLEAN, sole, IndInv(sole), CronNext PROVE A
    <2> SUFFICES ASSUME NEW w \in Runner, NEW j \in batch'[w].todo \ batch[w].todo,
                        Kind[j] = "at", SeenBy(w, j).next = SeenBy(w, j).base
                 PROVE  j \in DOMAIN store /\ ~Succeeded(store[j])
      BY DEF Succeeded
    <2>1. SeesStored(w, j)  BY <1>1, OnlyEnabledAreTaken DEF CronNext
    <2>2. Good(store[j], j, now, sole)  BY <1>1, <2>1, TypeFacts DEF GoodStore, SeesStored
    <2> QED  BY <1>1, <2>1, <2>2 DEF Good, Slotted, SeesStored
  <1>2. OneServiceInv /\ [CronNext]_cronVars => [A]_cronVars  BY <1>1 DEF OneServiceInv
  <1> QED  BY <1>2, OneServiceInvariant, PTL DEF CronSpec, OneShotNotRepeated

-----------------------------------------------------------------------------
(* Due slots.                                                              *)

SlotKept(j) == store'[j].next = store[j].next \/ store[j].lastRun >= store[j].next

(* Maintenance on a store that has the record of the job.                  *)
LEMMA MaintenanceKeepsSlots ==
  ASSUME NEW sole \in BOOLEAN, NEW st, DOMAIN st \subseteq Job, GoodStore(st, now, sole),
         now \in Nat, NEW b \in BOOLEAN, store' = RecomputeNextRunsForMaintenance(st, now, b),
         NEW j \in DOMAIN store, j \in DOMAIN store', IsDue(store[j], now),
         j \in DOMAIN st => SameJob(st[j], store[j]) /\ st[j].next = store[j].next
  PROVE  SlotKept(j)
  <1>1. /\ DOMAIN store' = DOMAIN st
        /\ \A k \in DOMAIN st : st[k].enabled /\ st[k].next # None =>
             store'[k].next = st[k].next \/ (b /\ st[k].lastRun >= st[k].next)
    BY MaintenanceKeeps
  <1> QED  BY <1>1 DEF SlotKept, IsDue, SameJob

LEMMA TickKeepsSlots ==
  ASSUME NEW sole \in BOOLEAN, IndInv(sole), NEW j \in DOMAIN store, j \in DOMAIN store',
         IsDue(store[j], now), ~InFlight(j),
         NEW s \in Service, TickStep(s)
  PROVE  SlotKept(j)
  <1>1. CASE OnTimer(s) \/ TickFinally(s) \/ \E k \in Job : RunDueJob(s, k)
    BY <1>1 DEF OnTimer, TickFinally, RunDueJob, SlotKept
  <1>2. CASE CollectDueJobs(s)
    <2> DEFINE due == {k \in DOMAIN store : IsDue(store[k], now)}
    <2>1. due # {}  OBVIOUS
    <2>2. store' = Marked(store, due, now)  BY <1>2, <2>1 DEF CollectDueJobs, Persist
    <2> HIDE DEF due
    <2> QED  BY <2>2, TypeFacts, MarkedKeeps DEF SlotKept
  <1>3. CASE ApplyTickResults(s)
    <2> DEFINE w == <<s, "tick">>
               no == FALSE
               q == ApplyOutcomes(store, batch[w].done, no)
    <2>1. w \in Runner /\ no \in BOOLEAN  BY TypeFacts
    <2>2. ~HasResult(batch[w].done, j)  BY <2>1 DEF HasResult, InFlight
    <2>3. store' = RecomputeNextRunsForMaintenance(q, now, no)
      BY <1>3 DEF ApplyTickResults, Persist
    <2> HIDE DEF no, w
    <2>4. /\ DOMAIN q \subseteq DOMAIN store /\ GoodStore(q, now, sole)
          /\ j \in DOMAIN q => q[j] = store[j]
      <3>1. q = ApplyOutcomes(store, batch[w].done, no)  OBVIOUS
      <3> HIDE DEF q
      <3> QED  BY <2>1, <2>2, <3>1, TypeFacts, BatchOutcomesKeep
    <2> HIDE DEF q
    <2>5. DOMAIN q \subseteq Job /\ now \in Nat  BY <2>4, TypeFacts
    <2> QED  BY <2>1, <2>3, <2>4, <2>5, MaintenanceKeepsSlots DEF SameJob
  <1> QED  BY <1>1, <1>2, <1>3 DEF TickStep

LEMMA ManualKeepsSlots ==
  ASSUME NEW sole \in BOOLEAN, IndInv(sole), NEW j \in DOMAIN store, j \in DOMAIN store',
         IsDue(store[j], now), ~InFlight(j),
         NEW m \in Manual, FinishPreparedManualRun(m)
  PROVE  SlotKept(j)
  <1> DEFINE yes == TRUE
             q == MergedBy(m)
  <1>1. manual[m].phase = "finish" /\ manual[m].job # j
    BY DEF FinishPreparedManualRun, InFlight
  <1>2. store' = store \/ store' = RecomputeNextRunsForMaintenance(q, now, yes)
    BY DEF FinishPreparedManualRun, Persist, MergedBy, ResultOf, Own
  <1>3. yes \in BOOLEAN /\ now \in Nat /\ DOMAIN store \subseteq Job  BY TypeFacts
  <1> HIDE DEF yes
  <1>4. /\ DOMAIN q \subseteq DOMAIN store /\ GoodStore(q, now, sole)
        /\ j \in DOMAIN q => q[j] = store[j]
    BY <1>1, MergedKeeps
  <1> HIDE DEF q
  <1>5. DOMAIN q \subseteq Job  BY <1>3, <1>4
  <1> QED  BY <1>2, <1>3, <1>4, <1>5, MaintenanceKeepsSlots DEF SlotKept, SameJob

(* What a call of the service saves is its copy.                           *)
LEMMA OwnIsAlike ==
  ASSUME NEW sole \in BOOLEAN, sole, IndInv(sole), Serving
  PROVE  Alike(copy[current], store)
  BY DEF IndInv, SoleInv, CopyInv, Serving

LEMMA ReserveKeepsSlots ==
  ASSUME NEW sole \in BOOLEAN, IndInv(sole), NEW m \in Manual, RunReserve(m)
  PROVE  \/ store' = store
         \/ /\ DOMAIN store' = DOMAIN copy[current]
            /\ \A k \in DOMAIN copy[current] : /\ store'[k].next = copy[current][k].next
                                              /\ store'[k].enabled = copy[current][k].enabled
  <1> DEFINE mine == copy[current]
             J == {manual[m].job}
             at == manual[m].startedAt
  <1>1. UNCHANGED <<store, copy>> \/ Persist(current, Marked(mine, J, at))
    BY DEF RunReserve, Own
  <1>2. at \in Nat
    <2>1. manual[m] \in Call  BY TypeFacts
    <2> QED  BY <2>1 DEF Call, Stamp, None
  <1>3. GoodStore(mine, now, sole) /\ now \in Nat  BY TypeFacts
  <1>4. CASE Persist(current, Marked(mine, J, at))
    <2>1. store' = Marked(mine, J, at)  BY <1>4 DEF Persist
    <2> HIDE DEF J, at, mine
    <2>2. /\ DOMAIN store' = DOMAIN mine
          /\ \A k \in DOMAIN mine : store'[k].next = mine[k].next /\ SameJob(store'[k], mine[k])
      BY <1>2, <1>3, <2>1, MarkedKeeps
    <2> QED  BY <2>2 DEF mine, SameJob
  <1> QED  BY <1>1, <1>4

LEMMA CallsKeepSlots ==
  ASSUME NEW sole \in BOOLEAN, sole, IndInv(sole), NEW j \in DOMAIN store, j \in DOMAIN store',
         IsDue(store[j], now),
         EnsureLoadedForRead \/ \E m \in Manual : RunReserve(m)
  PROVE  SlotKept(j)
  <1> DEFINE mine == copy[current]
             no == FALSE
  <1>1. /\ DOMAIN mine \subseteq Job /\ GoodStore(mine, now, sole) /\ now \in Nat
        /\ no \in BOOLEAN
    BY TypeFacts
  <1>2. Serving
    <2>1. \A m \in Manual : RunReserve(m) => manual[m].phase = "reserve"  BY DEF RunReserve
    <2> QED  BY <2>1 DEF EnsureLoadedForRead, Serving, IndInv, SoleInv, OnlyCurrentWorks
  <1>3. Alike(mine, store)  BY <1>2, OwnIsAlike
  <1>4. j \in DOMAIN mine /\ SameJob(mine[j], store[j]) /\ mine[j].next = store[j].next
    BY <1>3 DEF Alike, IsDue
  <1>5. CASE EnsureLoadedForRead
    <2>1. store' = store \/ store' = RecomputeNextRunsForMaintenance(mine, now, no)
      BY <1>5 DEF EnsureLoadedForRead, PersistChange, Persist, Own
    <2>2. CASE store' = RecomputeNextRunsForMaintenance(mine, now, no)
      <3> HIDE DEF mine, no
      <3> QED  BY <1>1, <1>4, <2>2, MaintenanceKeepsSlots
    <2>3. CASE store' = store  BY <2>3 DEF SlotKept
    <2> QED  BY <2>1, <2>2, <2>3
  <1>6. ASSUME NEW m \in Manual, RunReserve(m) PROVE SlotKept(j)
    BY <1>4, <1>6, ReserveKeepsSlots DEF SlotKept
  <1> QED  BY <1>5, <1>6

LEMMA StepKeepsSlots ==
  ASSUME NEW sole \in BOOLEAN, sole, IndInv(sole), CronStep, NEW j \in DOMAIN store,
         j \in DOMAIN store', IsDue(store[j], now),
         ~InFlight(j), edits' = edits, fresh' = fresh, boot' = boot
  PROVE  SlotKept(j)
  <1>1. store' = store => SlotKept(j)  BY DEF SlotKept
  <1>2. ASSUME NEW s \in Service, StartStep(s) PROVE SlotKept(j)
    <2>1. ASSUME NEW x, x # boot[s], boot' = [boot EXCEPT ![s] = x] PROVE FALSE
      BY <2>1, TypeFacts DEF OtherTypeOK
    <2>2. CASE StartClear(s)
      <3>1. boot[s] = "clear" /\ boot' = [boot EXCEPT ![s] = "plan"]  BY <2>2 DEF StartClear
      <3> QED  BY <2>1, <3>1
    <2>3. CASE PlanStartupCatchup(s)
      <3>1. /\ boot[s] = "plan"
            /\ boot' = [boot EXCEPT ![s] = "recompute"] \/ boot' = [boot EXCEPT ![s] = "run"]
        BY <2>3 DEF PlanStartupCatchup
      <3> QED  BY <2>1, <3>1
    <2>4. CASE ApplyStartupCatchupOutcomes(s)
      <3>1. boot[s] = "run" /\ boot' = [boot EXCEPT ![s] = "recompute"]
        BY <2>4 DEF ApplyStartupCatchupOutcomes
      <3> QED  BY <2>1, <3>1
    <2>5. CASE StartRecompute(s)
      <3>1. boot[s] = "recompute" /\ boot' = [boot EXCEPT ![s] = "on"]
        BY <2>5 DEF StartRecompute
      <3> QED  BY <2>1, <3>1
    <2>6. \A k \in Job : RunStartupCatchupCandidate(s, k) => store' = store
      BY DEF RunStartupCatchupCandidate
    <2> QED  BY <1>1, <1>2, <2>2, <2>3, <2>4, <2>5, <2>6 DEF StartStep
  <1>3. \A s \in Service : OnTimerBusy(s) => store' = store  BY DEF OnTimerBusy
  <1>4. ASSUME NEW w \in Runner, SomeJobEnds(w) PROVE store' = store
    BY <1>4 DEF SomeJobEnds, JobEnds
  <1>5. \A m \in Manual, k \in Job, force \in BOOLEAN : RunPreflight(m, k, force) => store' = store
    BY DEF RunPreflight
  <1>6. \A m \in Manual, r \in Outcome : ManualRunEnds(m, r) => store' = store
    BY DEF ManualRunEnds
  <1>7. ASSUME NEW k \in Job, Add(k) PROVE FALSE  BY <1>7 DEF Add
  <1>8. ASSUME edits' = edits + 1 PROVE FALSE  BY <1>8, TypeFacts, Constants DEF OtherTypeOK
  <1>9. \A k \in Job, p \in Patches : Update(k, p) => edits' = edits + 1  BY DEF Update
  <1>10. \A k \in Job : Remove(k) => edits' = edits + 1  BY DEF Remove
  <1>11. Advance \/ Reload \/ Crash => store' = store  BY DEF Advance, Reload, Crash
  <1> QED
    BY <1>1, <1>2, <1>3, <1>4, <1>5, <1>6, <1>7, <1>8, <1>9, <1>10, <1>11,
       TickKeepsSlots, ManualKeepsSlots, CallsKeepSlots
       DEF CronStep

(* Issues 13992 and 17852: no tick, manual run of another job or read ever *)
(* moves the slot of a due job past its execution, as long as the service  *)
(* is not replaced under a tick.                                           *)
THEOREM DueSlotsAreNotLost == CronSpec /\ [][~Reload]_cronVars => DueSlotsAreKept
  <1> DEFINE A ==
        \A j \in DOMAIN store \cap DOMAIN store' :
          /\ IsDue(store[j], now) /\ ~InFlight(j)
          /\ edits' = edits /\ fresh' = fresh /\ boot' = boot
          => store'[j].next = store[j].next \/ store[j].lastRun >= store[j].next
  <1>1. ASSUME NEW sole \in BOOLEAN, sole, IndInv(sole), CronNext PROVE A
    BY <1>1, StepKeepsSlots DEF CronNext, SlotKept
  <1>2. OneServiceInv /\ [CronNext]_cronVars => [A]_cronVars  BY <1>1 DEF OneServiceInv
  <1> QED  BY <1>2, OneServiceInvariant, PTL DEF CronSpec, DueSlotsAreKept

-----------------------------------------------------------------------------
(* The timer of the service the gateway holds.                             *)

LEMMA ArmedAlike ==
  ASSUME NEW c, NEW st, Alike(c, st)
  PROVE  Armed(c) <=> Armed(st)
  BY DEF Alike, SameJob, Armed

(* What the step finds and what it leaves, without a hot reload.           *)
AwakeStep(sole) == sole \in BOOLEAN /\ sole /\ IndInv(sole) /\ IndInv(sole)' /\ SchedulerAwake

LEMMA AwakeFacts ==
  ASSUME NEW sole, AwakeStep(sole)
  PROVE  /\ boot[current] = "on" => (Armed(store) <=> Armed(copy[current]))
         /\ boot'[current'] = "on" => (Armed(store') <=> Armed(copy'[current']))
         /\ \A s \in Service : timer[s] \/ tick[s] # "idle" => s = current
         /\ \A s \in Service : boot[s] # "off" => s = current
  <1>1. SoleInv /\ SoleInv' /\ ControlInv  BY DEF AwakeStep, IndInv
  <1>2. boot[current] = "on" => Alike(copy[current], store)  BY <1>1 DEF SoleInv, CopyInv
  <1>3. boot'[current'] = "on" => Alike(copy'[current'], store')  BY <1>1 DEF SoleInv, CopyInv
  <1> QED  BY <1>1, <1>2, <1>3, ArmedAlike DEF SoleInv, OnlyCurrentWorks, ControlInv

(* A step that leaves the timers and the ticks alone and arms nothing.     *)
LEMMA UnarmedStep ==
  ASSUME NEW sole, AwakeStep(sole), timer' = timer, current' = current,
         tick'[current] # "finally" => tick[current] # "finally",
         boot'[current] = "on" => boot[current] = "on",
         Armed(store') => Armed(store) \/ Armed(copy[current])
  PROVE  SchedulerAwake'
  <1>1. /\ boot[current] = "on" => (Armed(store) <=> Armed(copy[current]))
        /\ boot'[current] = "on" => (Armed(store') <=> Armed(copy'[current]))
    BY AwakeFacts
  <1> QED  BY <1>1 DEF AwakeStep, SchedulerAwake

(* A step that ends with armTimer of the service the gateway holds.        *)
LEMMA ArmingStep ==
  ASSUME NEW sole, AwakeStep(sole), current' = current,
         \/ timer' = [timer EXCEPT ![current] = Armed(store')]
         \/ timer' = [timer EXCEPT ![current] = Armed(copy'[current])]
  PROVE  SchedulerAwake'
  <1>1. current \in Service /\ timer \in [Service -> BOOLEAN]
    BY TypeFacts DEF AwakeStep, OtherTypeOK
  <1>2. boot'[current] = "on" => (Armed(store') <=> Armed(copy'[current]))  BY AwakeFacts
  <1> QED  BY <1>1, <1>2 DEF SchedulerAwake

LEMMA TickKeepsAwake ==
  ASSUME NEW sole, AwakeStep(sole), NEW s \in Service, TickStep(s) \/ OnTimerBusy(s)
  PROVE  SchedulerAwake'
  <1>1. s = current
    <2>1. timer[s] \/ tick[s] # "idle"
      BY DEF TickStep, OnTimerBusy, OnTimer, CollectDueJobs, RunDueJob, ApplyTickResults, TickFinally
    <2> QED  BY <2>1, AwakeFacts
  <1>2. /\ timer \in [Service -> BOOLEAN]
        /\ tick \in [Service -> {"idle", "collect", "run", "finally"}]
    BY TypeFacts DEF AwakeStep, OtherTypeOK
  <1>3. CASE OnTimerBusy(s) \/ OnTimer(s)
    <2>1. timer'[s] /\ current' = current  BY <1>2, <1>3 DEF OnTimerBusy, OnTimer
    <2> QED  BY <1>1, <2>1 DEF SchedulerAwake
  <1>4. CASE TickFinally(s)
    <2>1. timer' = [timer EXCEPT ![current] = Armed(copy'[current])] /\ current' = current
      BY <1>1, <1>4 DEF TickFinally
    <2> QED  BY <2>1, ArmingStep
  <1>5. ASSUME tick'[s] = "finally", current' = current PROVE SchedulerAwake'
    BY <1>1, <1>5 DEF SchedulerAwake
  <1>6. CASE ApplyTickResults(s)  BY <1>2, <1>5, <1>6 DEF ApplyTickResults
  <1>7. CASE CollectDueJobs(s)
    <2> DEFINE due == {k \in DOMAIN store : IsDue(store[k], now)}
    <2>1. /\ tick[s] = "collect"
          /\ tick' = [tick EXCEPT ![s] = IF due = {} THEN "finally" ELSE "run"]
          /\ timer' = timer /\ current' = current /\ boot' = boot
      BY <1>7 DEF CollectDueJobs
    <2>2. due # {} => Armed(store)  BY DEF IsDue, Armed
    <2> HIDE DEF due
    <2>3. CASE due = {}  BY <1>2, <1>5, <2>1, <2>3
    <2>4. CASE due # {}  BY <1>1, <2>1, <2>2, <2>4, UnarmedStep
    <2> QED  BY <2>3, <2>4
  <1>8. ASSUME NEW j \in Job, RunDueJob(s, j) PROVE SchedulerAwake'
    BY <1>8, UnarmedStep DEF RunDueJob
  <1> QED  BY <1>3, <1>4, <1>6, <1>7, <1>8 DEF TickStep

LEMMA StartKeepsAwake ==
  ASSUME NEW sole, AwakeStep(sole), NEW s \in Service, StartStep(s)
  PROVE  SchedulerAwake'
  <1>1. s = current
    <2>1. boot[s] # "off"
      BY DEF StartStep, StartClear, PlanStartupCatchup, RunStartupCatchupCandidate,
             ApplyStartupCatchupOutcomes, StartRecompute
    <2> QED  BY <2>1, AwakeFacts
  <1>2. boot \in [Service -> {"off", "clear", "plan", "run", "recompute", "on"}]
    BY TypeFacts DEF AwakeStep, OtherTypeOK
  <1>3. ASSUME boot'[s] # "on", current' = current PROVE SchedulerAwake'
    BY <1>1, <1>3 DEF SchedulerAwake
  <1>4. CASE StartClear(s)  BY <1>2, <1>3, <1>4 DEF StartClear
  <1>5. CASE PlanStartupCatchup(s)
    <2>1. /\ boot' = [boot EXCEPT ![s] = "recompute"] \/ boot' = [boot EXCEPT ![s] = "run"]
          /\ current' = current
      BY <1>5 DEF PlanStartupCatchup
    <2> QED  BY <1>2, <1>3, <2>1
  <1>6. ASSUME NEW j \in Job, RunStartupCatchupCandidate(s, j) PROVE SchedulerAwake'
    BY <1>2, <1>3, <1>6 DEF RunStartupCatchupCandidate
  <1>7. CASE ApplyStartupCatchupOutcomes(s)
    BY <1>2, <1>3, <1>7 DEF ApplyStartupCatchupOutcomes
  <1>8. CASE StartRecompute(s)
    <2>1. timer' = [timer EXCEPT ![current] = Armed(copy'[current])] /\ current' = current
      BY <1>1, <1>8 DEF StartRecompute
    <2> QED  BY <2>1, ArmingStep
  <1> QED  BY <1>4, <1>5, <1>6, <1>7, <1>8 DEF StartStep

LEMMA CallsKeepAwake ==
  ASSUME NEW sole, AwakeStep(sole), NEW m \in Manual,
         \/ \E j \in Job, force \in BOOLEAN : RunPreflight(m, j, force)
         \/ RunReserve(m)
         \/ \E r \in Outcome : ManualRunEnds(m, r)
         \/ FinishPreparedManualRun(m)
  PROVE  SchedulerAwake'
  <1>1. CASE \/ \E j \in Job, force \in BOOLEAN : RunPreflight(m, j, force)
             \/ \E r \in Outcome : ManualRunEnds(m, r)
    BY <1>1, UnarmedStep DEF RunPreflight, ManualRunEnds
  <1>2. CASE RunReserve(m)
    <2>1. timer' = timer /\ tick' = tick /\ current' = current /\ boot' = boot
      BY <1>2 DEF RunReserve
    <2>2. \/ store' = store
          \/ /\ DOMAIN store' = DOMAIN copy[current]
             /\ \A k \in DOMAIN copy[current] : /\ store'[k].next = copy[current][k].next
                                               /\ store'[k].enabled = copy[current][k].enabled
      BY <1>2, ReserveKeepsSlots DEF AwakeStep
    <2>3. Armed(store') => Armed(store) \/ Armed(copy[current])  BY <2>2 DEF Armed
    <2> QED  BY <2>1, <2>3, UnarmedStep
  <1>3. CASE FinishPreparedManualRun(m)
    <2>1. current' = current /\ \/ timer' = [timer EXCEPT ![current] = Armed(store')]
                                \/ store' = store /\ timer' = timer /\ tick' = tick /\ boot' = boot
      BY <1>3 DEF FinishPreparedManualRun
    <2> QED  BY <2>1, ArmingStep, UnarmedStep
  <1> QED  BY <1>1, <1>2, <1>3

LEMMA StepKeepsAwake ==
  ASSUME NEW sole, AwakeStep(sole), CronStep, ~Reload
  PROVE  SchedulerAwake'
  <1>1. ASSUME NEW w \in Runner, SomeJobEnds(w) PROVE SchedulerAwake'
    BY <1>1, UnarmedStep DEF SomeJobEnds, JobEnds
  <1>2. ASSUME NEW j \in Job, Add(j) \/ Remove(j) PROVE SchedulerAwake'
    BY <1>2, ArmingStep DEF Add, Remove
  <1>3. ASSUME NEW j \in Job, NEW p \in Patches, Update(j, p) PROVE SchedulerAwake'
    BY <1>3, ArmingStep DEF Update
  <1>4. CASE EnsureLoadedForRead
    <2> DEFINE mine == copy[current]
    <2>1. /\ store' = store \/ store' = RecomputeNextRunsForMaintenance(mine, now, FALSE)
          /\ timer' = timer /\ tick' = tick /\ current' = current /\ boot' = boot
      BY <1>4 DEF EnsureLoadedForRead, PersistChange, Persist, Own
    <2>2. DOMAIN mine \subseteq Job /\ GoodStore(mine, now, TRUE) /\ now \in Nat
      <3>1. DOMAIN mine \subseteq Job /\ GoodStore(mine, now, sole) /\ now \in Nat /\ sole
        BY TypeFacts DEF AwakeStep
      <3> QED  BY <3>1 DEF GoodStore, Good
    <2>3. Armed(store') => Armed(store) \/ Armed(mine)
      <3> HIDE DEF mine
      <3> QED  BY <2>1, <2>2, MaintenanceArmsNothing
    <2> QED  BY <2>1, <2>3, UnarmedStep
  <1>5. CASE Advance  BY <1>5, UnarmedStep DEF Advance
  <1>6. CASE Crash
    <2>1. current \in Service /\ current + 1 \in Service
      BY <1>6, TypeFacts, NextService DEF AwakeStep, OtherTypeOK, Crash
    <2>2. boot'[current'] = "clear"  BY <1>6, <2>1 DEF Crash
    <2> QED  BY <2>2 DEF SchedulerAwake
  <1> QED
    BY <1>1, <1>2, <1>3, <1>4, <1>5, <1>6, TickKeepsAwake, StartKeepsAwake, CallsKeepAwake
       DEF CronStep

(* Issue 12025, as long as the service is not replaced under a tick:       *)
(* whatever ticks, results, edits, manual runs and crashes do, a service   *)
(* that has started has a timer as long as some job has a slot.            *)
THEOREM SchedulerStaysAwake == CronSpec /\ [][~Reload]_cronVars => []SchedulerAwake
  <1>1. ASSUME CronInit PROVE SchedulerAwake
    <2>1. current = 1 /\ 1 \in Service  BY <1>1, Constants DEF CronInit, Service
    <2>2. boot[current] = "clear"  BY <1>1, <2>1 DEF CronInit
    <2> QED  BY <2>2 DEF SchedulerAwake
  <1>2. ASSUME NEW sole \in BOOLEAN, sole, IndInv(sole), IndInv(sole)', SchedulerAwake,
               [CronNext]_cronVars, [~Reload]_cronVars
        PROVE  SchedulerAwake'
    <2>1. CASE UNCHANGED cronVars  BY <1>2, <2>1 DEF cronVars, SchedulerAwake, Armed
    <2>2. CASE CronStep /\ ~Reload
      <3>1. AwakeStep(sole)  BY <1>2 DEF AwakeStep
      <3> QED  BY <2>2, <3>1, StepKeepsAwake
    <2> QED  BY <1>2, <2>1, <2>2 DEF CronNext
  <1>3. OneServiceInv /\ OneServiceInv' /\ SchedulerAwake /\ [CronNext]_cronVars /\ [~Reload]_cronVars
        => SchedulerAwake'
    BY <1>2 DEF OneServiceInv
  <1>4. CronInit => SchedulerAwake  BY <1>1
  <1> QED  BY <1>3, <1>4, OneServiceInvariant, PTL DEF CronSpec
=============================================================================
