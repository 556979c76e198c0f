---------------------------- MODULE MiddlewareProofs ----------------------------
(***************************************************************************)
(* The guarantees of the middleware chain, for every set of tasks, every   *)
(* chain of stages and every interleaving of their steps.                  *)
(*                                                                         *)
(* Each stage's state has an invariant of its own; what joins them is that *)
(* a step of the chain moves at most one stage (the lemmas ...Moves) and   *)
(* that a message keeps its source on the way.                             *)
(***************************************************************************)
EXTENDS MiddlewareChain, LoopLemmas, FiniteSetTheorems, TLAPS

-------------------------------------------------------------------------------
(* The clock. *)

ClockOk == now \in 0 .. MaxTime

(* The clock and the tasks never leave their ranges. *)
LEMMA ClockStep ==
    ASSUME ClockOk, [Next]_vars
    PROVE  ClockOk' /\ now \in Nat /\ now' \in Nat /\ now <= now'
<1>1. CASE Time
  BY <1>1, ClockAssumption DEF ClockOk, Time, Tick
<1>2. CASE now' = now
  BY <1>2, ClockAssumption DEF ClockOk
<1>3. ASSUME ~Time PROVE now' = now
  <2>1. CASE UNCHANGED vars
    BY <2>1 DEF vars
  <2>2. CASE FlushPending
    BY <2>2 DEF FlushPending
  <2>3. ASSUME NEW t \in Task,
               \/ Bring(t) \/ PureStage(t) \/ ThrottleStage(t) \/ DedupStage(t)
               \/ SamplerStage(t) \/ AggregatorStage(t)
        PROVE  now' = now
    BY <2>3 DEF Bring, PureStage, ThrottleStage, DedupStage, SamplerStage, AggregatorStage
  <2> QED
    BY <1>3, <2>1, <2>2, <2>3 DEF Next
<1> QED
  BY <1>1, <1>2, <1>3

-------------------------------------------------------------------------------
(* The deduplicator. *)

(* A step of the chain is one of check()'s steps or leaves its state alone. *)
LEMMA DedupMoves ==
    ASSUME [Next]_vars
    PROVE  \/ UNCHANGED dedupVars
           \/ /\ now' = now
              /\ \E t \in Task : \/ DedupAdvances(t)
                                 \/ \E id : FirstSight(t, id) \/ Duplicate(t, id)
<1>1. CASE UNCHANGED vars
  BY <1>1 DEF vars
<1>2. CASE FlushPending \/ Time
  BY <1>2 DEF FlushPending, Time
<1>3. ASSUME NEW t \in Task,
             Bring(t) \/ PureStage(t) \/ ThrottleStage(t) \/ SamplerStage(t) \/ AggregatorStage(t)
      PROVE  UNCHANGED dedupVars
  BY <1>3 DEF Bring, PureStage, ThrottleStage, SamplerStage, AggregatorStage
<1>4. ASSUME NEW t \in Task, DedupStage(t)
      PROVE  /\ now' = now
             /\ \/ DedupAdvances(t)
                \/ \E id : FirstSight(t, id) \/ Duplicate(t, id)
  BY <1>4 DEF DedupStage
<1> QED
  BY <1>1, <1>2, <1>3, <1>4 DEF Next

Admission == [read : Nat, at : Nat]

(* What check() knows of an id: the reading of its last admission, unless  *)
(* the entry was cleaned up, and then a whole window has passed.           *)
Remembered ==
    /\ DOMAIN seen \subseteq DOMAIN admitted
    /\ \A id \in DOMAIN admitted :
         /\ admitted[id] \in Seq(Admission) /\ admitted[id] # <<>>
         /\ IF id \in DOMAIN seen
            THEN seen[id] = admitted[id][Len(admitted[id])].read
            ELSE now - admitted[id][Len(admitted[id])].read >= Ttl

DedupInv ==
    /\ check \in [Task -> {"idle", "count", "reset", "cleanup", "lock"}]
    /\ reading \in [Task -> Nat]
    /\ \A t \in Task : reading[t] <= now
    /\ Remembered
    /\ DuplicateWindow

(* How many tasks are about to reset the count. *)
Resetting == {t \in Task : check[t] = "reset"}

CountInv ==
    /\ ops_since_cleanup \in Nat
    /\ ops_since_cleanup <= CleanupInterval + Cardinality(Resetting)

(* The tasks between the count and its reset are finitely many. *)
LEMMA ResettingFinite == IsFiniteSet(Resetting) /\ Cardinality(Resetting) \in Nat
                         /\ Cardinality(Resetting) <= Cardinality(Task)
<1>1. Resetting \in SUBSET Task /\ IsFiniteSet(Task)
  BY ClockAssumption DEF Resetting
<1>2. IsFiniteSet(Resetting) /\ Cardinality(Resetting) <= Cardinality(Task)
  BY <1>1, FS_Subset
<1> QED
  BY <1>2, FS_CardinalityType

(* The reset is a store after the fetch_add; each task in between accounts *)
(* for one operation beyond the interval.                                  *)
LEMMA CountStep ==
    ASSUME DedupInv, CountInv, [Next]_vars
    PROVE  CountInv'
<1>0. /\ ops_since_cleanup \in Nat /\ CleanupInterval \in Nat
      /\ check \in [Task -> {"idle", "count", "reset", "cleanup", "lock"}]
  BY DedupAssumption DEF CountInv, DedupInv
<1>a. PICK n \in Nat : n = Cardinality(Resetting)
  BY ResettingFinite
<1>1. CASE UNCHANGED dedupVars
  BY <1>1 DEF dedupVars, CountInv, Resetting
<1>2. ASSUME NEW t \in Task, DedupAdvances(t) PROVE CountInv'
  <2>1. CASE ReadNow(t)
    <3>1. Resetting' = Resetting /\ ops_since_cleanup' = ops_since_cleanup
      BY <1>0, <2>1 DEF ReadNow, Resetting
    <3> QED
      BY <3>1 DEF CountInv
  <2>2. CASE CountOp(t) /\ ops_since_cleanup >= CleanupInterval
    <3>1. /\ t \notin Resetting /\ Resetting' = Resetting \union {t}
          /\ ops_since_cleanup' = ops_since_cleanup + 1
      BY <1>0, <2>2 DEF CountOp, Resetting
    <3>2. Cardinality(Resetting') = n + 1
      BY <1>a, <3>1, ResettingFinite, FS_AddElement
    <3> QED
      BY <1>0, <1>a, <3>1, <3>2 DEF CountInv
  <2>3. CASE CountOp(t) /\ ~(ops_since_cleanup >= CleanupInterval)
    <3>1. Resetting' = Resetting /\ ops_since_cleanup' = ops_since_cleanup + 1
      BY <1>0, <2>3 DEF CountOp, Resetting
    <3> QED
      BY <1>0, <1>a, <2>3, <3>1 DEF CountInv
  <2>4. CASE ResetOps(t)
    <3>1. ops_since_cleanup' = 0 /\ Resetting' = Resetting \ {t}
      BY <1>0, <2>4 DEF ResetOps, Resetting
    <3>2. Cardinality(Resetting') \in Nat
      BY <3>1, ResettingFinite, FS_RemoveElement, FS_CardinalityType
    <3> QED
      BY <1>0, <3>1, <3>2 DEF CountInv
  <2>5. CASE Cleanup(t)
    <3>1. Resetting' = Resetting /\ ops_since_cleanup' = ops_since_cleanup
      BY <1>0, <2>5 DEF Cleanup, Resetting
    <3> QED
      BY <3>1 DEF CountInv
  <2> QED
    BY <1>2, <2>1, <2>2, <2>3, <2>4, <2>5 DEF DedupAdvances
<1>3. ASSUME NEW t \in Task, NEW id, FirstSight(t, id) \/ Duplicate(t, id) PROVE CountInv'
  <2>1. Resetting' = Resetting /\ ops_since_cleanup' = ops_since_cleanup
    BY <1>0, <1>3 DEF FirstSight, Duplicate, LeaveCheck, Resetting
  <2> QED
    BY <2>1 DEF CountInv
<1> QED
  BY <1>1, <1>2, <1>3, DedupMoves

(* Every step of the deduplicator keeps its invariant. *)
LEMMA DedupStep ==
    ASSUME ClockOk, DedupInv, [Next]_vars
    PROVE  DedupInv'
<1>0. /\ now \in Nat /\ now' \in Nat /\ now <= now' /\ Ttl \in Nat
      /\ check \in [Task -> {"idle", "count", "reset", "cleanup", "lock"}]
      /\ reading \in [Task -> Nat] /\ \A t \in Task : reading[t] <= now
  BY ClockStep, DedupAssumption DEF DedupInv
<1>a. \A id \in DOMAIN admitted :
        /\ Len(admitted[id]) \in Nat \ {0}
        /\ admitted[id][Len(admitted[id])].read \in Nat
  <2> SUFFICES ASSUME NEW id \in DOMAIN admitted
               PROVE  /\ Len(admitted[id]) \in Nat \ {0}
                      /\ admitted[id][Len(admitted[id])].read \in Nat
    OBVIOUS
  <2>1. PICK s \in Seq(Admission) : s = admitted[id] /\ s # <<>>
    BY DEF DedupInv, Remembered
  <2>2. Len(s) \in Nat \ {0}
    BY <2>1, EmptySeq, LenProperties
  <2>3. s[Len(s)] \in Admission
    BY <2>2, ElementOfSeq
  <2> QED
    BY <2>1, <2>2, <2>3 DEF Admission
<1>1. CASE UNCHANGED dedupVars
  <2>1. Remembered'
    BY <1>0, <1>1, <1>a DEF DedupInv, Remembered, dedupVars
  <2> QED
    BY <1>0, <1>1, <2>1 DEF DedupInv, DuplicateWindow, dedupVars
<1>2. ASSUME NEW t \in Task, now' = now, ReadNow(t) \/ CountOp(t) \/ ResetOps(t)
      PROVE  DedupInv'
  <2>1. UNCHANGED <<seen, admitted>>
    BY <1>2 DEF ReadNow, CountOp, ResetOps
  <2>2. check' \in [Task -> {"idle", "count", "reset", "cleanup", "lock"}]
    BY <1>0, <1>2 DEF ReadNow, CountOp, ResetOps
  <2>3. reading' \in [Task -> Nat] /\ \A u \in Task : reading'[u] <= now'
    BY <1>0, <1>2 DEF ReadNow, CountOp, ResetOps
  <2> QED
    BY <1>2, <2>1, <2>2, <2>3 DEF DedupInv, Remembered, DuplicateWindow
<1>3. ASSUME NEW t \in Task, now' = now, Cleanup(t) PROVE DedupInv'
  <2>1. /\ UNCHANGED <<reading, admitted>>
        /\ check' = [check EXCEPT ![t] = "lock"]
        /\ seen' = Restrict(seen, {id \in DOMAIN seen : Fresh(seen[id], reading[t])})
    BY <1>3 DEF Cleanup
  <2>2. /\ DOMAIN seen' = {id \in DOMAIN seen : Fresh(seen[id], reading[t])}
        /\ \A id \in DOMAIN seen' : seen'[id] = seen[id]
    BY <2>1 DEF Restrict
  <2>3. ASSUME NEW id \in DOMAIN admitted, id \notin DOMAIN seen'
        PROVE  now - admitted[id][Len(admitted[id])].read >= Ttl
    <3>1. CASE id \in DOMAIN seen
      <4>1. ~(reading[t] - seen[id] < Ttl)
        BY <2>2, <2>3, <3>1 DEF Fresh
      <4>2. seen[id] = admitted[id][Len(admitted[id])].read
        BY <3>1 DEF DedupInv, Remembered
      <4>3. PICK r \in Nat, l \in Nat :
              r = reading[t] /\ l = admitted[id][Len(admitted[id])].read /\ r <= now
        BY <1>0, <1>a
      <4> QED
        BY <1>0, <4>1, <4>2, <4>3
    <3>2. CASE id \notin DOMAIN seen
      BY <3>2 DEF DedupInv, Remembered
    <3> QED
      BY <3>1, <3>2
  <2>4. Remembered'
    BY <1>3, <2>1, <2>2, <2>3 DEF DedupInv, Remembered
  <2> QED
    BY <1>0, <1>3, <2>1, <2>4 DEF DedupInv, DuplicateWindow
<1>4. ASSUME NEW t \in Task, NEW id, now' = now, Duplicate(t, id) PROVE DedupInv'
  <2>1. UNCHANGED <<seen, admitted>> /\ LeaveCheck(t)
    BY <1>4 DEF Duplicate
  <2> QED
    BY <1>0, <1>4, <2>1 DEF DedupInv, Remembered, DuplicateWindow, LeaveCheck
<1>5. ASSUME NEW t \in Task, NEW id, now' = now, FirstSight(t, id) PROVE DedupInv'
  <2>1. PICK r \in Nat : r = reading[t] /\ r <= now
    BY <1>0
  <2>2. PICK e \in Admission : e = [read |-> r, at |-> now] /\ e.read = r /\ e.at = now
    <3>1. now \in Nat
      BY <1>0
    <3>2. [read |-> r, at |-> now] \in Admission
      BY <3>1 DEF Admission
    <3> QED
      BY <3>2
  <2>3. PICK old \in Seq(Admission) : old = Admissions(id)
    BY EmptySeq DEF Admissions, DedupInv, Remembered
  <2>4. PICK new \in Seq(Admission) : new = Append(old, e)
    BY AppendProperties
  <2>5. /\ Len(old) \in Nat /\ Len(new) = Len(old) + 1 /\ new # <<>>
        /\ \A i \in 1 .. Len(old) : new[i] = old[i]
        /\ new[Len(old) + 1] = e
    BY <2>4, AppendProperties, LenProperties
  <2>6. /\ seen' = Insert(seen, id, r) /\ admitted' = Insert(admitted, id, new)
        /\ LeaveCheck(t)
        /\ ~(id \in DOMAIN seen /\ Fresh(seen[id], r))
    BY <1>5, <2>1, <2>2, <2>3, <2>4 DEF FirstSight
  <2>7. /\ DOMAIN seen' = DOMAIN seen \union {id} /\ seen'[id] = r
        /\ \A i \in DOMAIN seen \ {id} : seen'[i] = seen[i]
        /\ DOMAIN admitted' = DOMAIN admitted \union {id} /\ admitted'[id] = new
        /\ \A i \in DOMAIN admitted \ {id} : admitted'[i] = admitted[i]
    BY <2>6 DEF Insert
  <2>8. Remembered'
    <3>1. DOMAIN seen' \subseteq DOMAIN admitted'
      BY <2>7 DEF DedupInv, Remembered
    <3>2. admitted'[id] \in Seq(Admission) /\ admitted'[id] # <<>>
          /\ seen'[id] = admitted'[id][Len(admitted'[id])].read
      BY <2>2, <2>5, <2>7
    <3>3. \A i \in DOMAIN admitted \ {id} :
            /\ admitted[i] \in Seq(Admission) /\ admitted[i] # <<>>
            /\ IF i \in DOMAIN seen
               THEN seen[i] = admitted[i][Len(admitted[i])].read
               ELSE now - admitted[i][Len(admitted[i])].read >= Ttl
      BY DEF DedupInv, Remembered
    <3> QED
      BY <1>5, <2>7, <3>1, <3>2, <3>3 DEF Remembered
  <2>9. ASSUME NEW i \in 2 .. Len(new) PROVE new[i].at - new[i - 1].read >= Ttl
    <3>1. CASE i <= Len(old)
      <4>1. id \in DOMAIN admitted /\ old = admitted[id]
        <5>1. CASE id \in DOMAIN admitted
          BY <2>3, <5>1 DEF Admissions
        <5>2. CASE id \notin DOMAIN admitted
          BY <2>3, <2>9, <3>1, <5>2, EmptySeq DEF Admissions
        <5> QED
          BY <5>1, <5>2
      <4>2. new[i] = old[i] /\ new[i - 1] = old[i - 1] /\ i \in 2 .. Len(old)
        BY <2>5, <2>9, <3>1
      <4> QED
        BY <4>1, <4>2 DEF DedupInv, DuplicateWindow
    <3>2. CASE i = Len(old) + 1
      <4>1. Len(old) >= 1 /\ new[i] = e /\ new[i - 1] = old[Len(old)]
        BY <2>5, <2>9, <3>2
      <4>2. id \in DOMAIN admitted /\ old = admitted[id]
        <5>1. CASE id \in DOMAIN admitted
          BY <2>3, <5>1 DEF Admissions
        <5>2. CASE id \notin DOMAIN admitted
          BY <2>3, <4>1, <5>2, EmptySeq DEF Admissions
        <5> QED
          BY <5>1, <5>2
      <4>3. PICK l \in Nat : l = old[Len(old)].read
        BY <1>a, <4>2
      <4>4. now - l >= Ttl
        <5>1. CASE id \in DOMAIN seen
          <6>1. seen[id] = l
            BY <4>2, <4>3, <5>1 DEF DedupInv, Remembered
          <6>2. ~(r - l < Ttl)
            BY <2>6, <5>1, <6>1 DEF Fresh
          <6> QED
            BY <1>0, <2>1, <6>2
        <5>2. CASE id \notin DOMAIN seen
          BY <4>2, <4>3, <5>2 DEF DedupInv, Remembered
        <5> QED
          BY <5>1, <5>2
      <4> QED
        BY <2>2, <4>1, <4>3, <4>4
    <3> QED
      BY <2>5, <2>9, <3>1, <3>2
  <2>10. DuplicateWindow'
    <3>1. \A x \in DOMAIN admitted \ {id} : \A i \in 2 .. Len(admitted[x]) :
            admitted[x][i].at - admitted[x][i - 1].read >= Ttl
      BY DEF DedupInv, DuplicateWindow
    <3> QED
      BY <2>7, <2>9, <3>1 DEF DuplicateWindow
  <2>11. /\ check' \in [Task -> {"idle", "count", "reset", "cleanup", "lock"}]
         /\ reading' \in [Task -> Nat] /\ \A u \in Task : reading'[u] <= now'
    BY <1>0, <1>5, <2>6 DEF LeaveCheck
  <2> QED
    BY <2>8, <2>10, <2>11 DEF DedupInv
<1> QED
  BY <1>1, <1>2, <1>3, <1>4, <1>5, DedupMoves DEF DedupAdvances

-------------------------------------------------------------------------------
(* The throttle. *)

(* A step of the chain serves a source, notes that it has no bucket yet,   *)
(* or leaves the throttle alone.                                           *)
LEMMA ThrottleMoves ==
    ASSUME [Next]_vars, \A t \in Task : at[t] # 0 => hand[t].source \in Source
    PROVE  \/ UNCHANGED throttleVars
           \/ /\ now' = now
              /\ \E t \in Task, s \in Source :
                   Miss(t, s) \/ \E ok \in BOOLEAN : ThrottleAnswers(t, s, ok)
<1>1. CASE UNCHANGED vars
  BY <1>1 DEF vars
<1>2. CASE FlushPending \/ Time
  BY <1>2 DEF FlushPending, Time
<1>3. ASSUME NEW t \in Task,
             Bring(t) \/ PureStage(t) \/ DedupStage(t) \/ SamplerStage(t) \/ AggregatorStage(t)
      PROVE  UNCHANGED throttleVars
  BY <1>3 DEF Bring, PureStage, DedupStage, SamplerStage, AggregatorStage
<1>4. ASSUME NEW t \in Task, ThrottleStage(t)
      PROVE  /\ now' = now /\ hand[t].source \in Source
             /\ \/ Miss(t, hand[t].source)
                \/ \E ok \in BOOLEAN : ThrottleAnswers(t, hand[t].source, ok)
  BY <1>4 DEF ThrottleStage, AtStage
<1> QED
  BY <1>1, <1>2, <1>3, <1>4 DEF Next

Bucket == [tokens : Nat, last_refill : Nat, created : Nat, last_access : Nat]

(* A bucket's account: what was granted and what is left never exceed the  *)
(* burst and one token for each interval refilled; the intervals refilled  *)
(* are whole and have passed.                                              *)
Solvent(b, granted, created) ==
    /\ b \in Bucket
    /\ b.created = created /\ created <= now
    /\ \E q \in Nat : /\ b.last_refill = q * RefillNanos
                      /\ b.last_refill <= now - created
                      /\ granted + b.tokens <= Burst + q

ThrottleInv ==
    /\ since \in [Source -> Nat] /\ grants \in [Source -> Nat]
    /\ DOMAIN buckets \subseteq Source
    /\ \A s \in DOMAIN buckets : Solvent(buckets[s], grants[s], since[s])
    /\ IsFiniteSet(DOMAIN buckets)
    /\ SourcesBounded

(* Arithmetic. *)
LEMMA DivBounds ==
    ASSUME NEW a \in Nat, NEW d \in Nat \ {0}
    PROVE  a \div d \in Nat /\ (a \div d) * d <= a
OBVIOUS

(* Whole intervals that fit into a time are counted by the division. *)
LEMMA DivAtLeast ==
    ASSUME NEW a \in Nat, NEW q \in Nat, NEW d \in Nat \ {0}, q * d <= a
    PROVE  q <= a \div d
OBVIOUS

(* Intervals before and after a point add up. *)
LEMMA TimesSum ==
    ASSUME NEW a \in Nat, NEW b \in Nat, NEW d \in Nat
    PROVE  (a + b) * d = a * d + b * d
OBVIOUS

(* try_acquire() on a solvent bucket leaves a solvent bucket. *)
LEMMA AcquireSolvent ==
    ASSUME NEW b, NEW g \in Nat, NEW c \in Nat, now \in Nat, Solvent(b, g, c)
    PROVE  Solvent(Acquired(b), g + (IF Grants(b) THEN 1 ELSE 0), c)
<1>0. Burst \in Nat /\ RefillNanos \in Nat \ {0} /\ now \in Nat /\ c <= now
  BY ThrottleAssumption DEF Solvent
<1>1. PICK n \in Nat, l \in Nat, a \in Nat, q \in Nat :
        /\ b = [tokens |-> n, last_refill |-> l, created |-> c, last_access |-> a]
        /\ l = q * RefillNanos /\ l <= now - c /\ g + n <= Burst + q
  BY DEF Solvent, Bucket
<1>2. PICK e \in Nat : e = now - c - l
  BY <1>0, <1>1
<1>3. PICK k \in Nat : k = e \div RefillNanos /\ k * RefillNanos <= e
  BY <1>0, DivBounds
<1>4. k = (now - b.created - b.last_refill) \div RefillNanos
  BY <1>1, <1>2, <1>3
<1>5. PICK m \in Nat : m = Lesser(n + k, Burst) /\ m <= n + k
  BY <1>0 DEF Lesser
<1>6. PICK r \in Nat : r = l + k * RefillNanos /\ r = (q + k) * RefillNanos /\ r <= now - c
  <2>1. (q + k) * RefillNanos = q * RefillNanos + k * RefillNanos
    BY <1>0, TimesSum
  <2>2. k * RefillNanos \in Nat
    BY <1>0
  <2>3. PICK x \in Nat : x = k * RefillNanos
    BY <2>2
  <2> QED
    BY <1>0, <1>1, <1>2, <1>3, <2>1, <2>3
<1>7. Refilled(b) = [tokens |-> m, last_refill |-> r, created |-> c, last_access |-> a]
  <2>1. Refilled(b) = [b EXCEPT !.last_refill = b.last_refill + k * RefillNanos,
                               !.tokens = Lesser(b.tokens + k, Burst)]
    BY <1>1, <1>4 DEF Refilled
  <2>2. b.last_refill + k * RefillNanos = r /\ Lesser(b.tokens + k, Burst) = m
    BY <1>1, <1>5, <1>6
  <2>3. Refilled(b) = [b EXCEPT !.last_refill = r, !.tokens = m]
    BY <2>1, <2>2
  <2> QED
    BY <1>1, <2>3
<1>8. Grants(b) <=> m > 0
  BY <1>7 DEF Grants
<1>9. PICK z \in Nat : z = (IF m > 0 THEN m - 1 ELSE 0) /\ z + (IF m > 0 THEN 1 ELSE 0) = m
  BY <1>5
<1>10. PICK y \in Nat : y = now - c
  BY <1>0
<1>11. Acquired(b) = [tokens |-> z, last_refill |-> r, created |-> c, last_access |-> y]
  <2>1. PICK f : f = Refilled(b)
    OBVIOUS
  <2>2. Acquired(b) = [f EXCEPT !.last_access = now - b.created,
                               !.tokens = IF f.tokens > 0 THEN f.tokens - 1 ELSE 0]
    BY <1>1, <1>7, <2>1 DEF Acquired
  <2>3. now - b.created = y /\ (IF f.tokens > 0 THEN f.tokens - 1 ELSE 0) = z
    BY <1>1, <1>7, <1>9, <1>10, <2>1
  <2>4. Acquired(b) = [f EXCEPT !.last_access = y, !.tokens = z]
    BY <2>2, <2>3
  <2>5. f = [tokens |-> m, last_refill |-> r, created |-> c, last_access |-> a]
    BY <1>7, <2>1
  <2>6. PICK h : h = [f EXCEPT !.last_access = y]
    OBVIOUS
  <2>7. h = [tokens |-> m, last_refill |-> r, created |-> c, last_access |-> y]
    BY <2>5, <2>6
  <2>8. Acquired(b) = [h EXCEPT !.tokens = z]
    BY <2>4, <2>6
  <2> QED
    BY <2>7, <2>8
<1>12. g + (IF Grants(b) THEN 1 ELSE 0) + z <= Burst + (q + k)
  BY <1>0, <1>1, <1>5, <1>8, <1>9
<1>13. q + k \in Nat /\ Acquired(b) \in Bucket
  BY <1>11 DEF Bucket
<1>14. Acquired(b).created = c /\ Acquired(b).last_refill = r /\ Acquired(b).tokens = z
  BY <1>11
<1> QED
  BY <1>0, <1>6, <1>12, <1>13, <1>14 DEF Solvent

(* A fresh bucket is solvent. *)
LEMMA NewSolvent ==
    ASSUME now \in Nat
    PROVE  Solvent(NewBucket, 0, now)
<1>1. Burst \in Nat /\ RefillNanos \in Nat
  BY ThrottleAssumption
<1>2. NewBucket = [tokens |-> Burst, last_refill |-> 0, created |-> now, last_access |-> 0]
  BY DEF NewBucket
<1>3. NewBucket \in Bucket
  BY <1>1, <1>2 DEF Bucket
<1>4. /\ NewBucket.created = now /\ NewBucket.last_refill = 0 /\ NewBucket.tokens = Burst
      /\ 0 = 0 * RefillNanos /\ 0 <= now - now /\ 0 + Burst <= Burst + 0
  BY <1>1, <1>2
<1> QED
  BY <1>1, <1>3, <1>4 DEF Solvent

(* Serving a source from a solvent bucket keeps every bucket solvent. *)
LEMMA ServeSolvent ==
    ASSUME now \in Nat, now' = now, ThrottleInv, NEW s \in Source, NEW b, NEW tracked,
           NEW ok \in BOOLEAN, Serve(s, b, tracked, ok),
           Solvent(b, IF s \in DOMAIN buckets THEN grants[s] ELSE 0,
                      IF s \in DOMAIN buckets THEN since[s] ELSE now),
           DOMAIN tracked \subseteq DOMAIN buckets,
           \A u \in DOMAIN tracked : tracked[u] = buckets[u]
    PROVE  /\ since' \in [Source -> Nat] /\ grants' \in [Source -> Nat]
           /\ DOMAIN buckets' = DOMAIN tracked \union {s}
           /\ (\A u \in DOMAIN buckets : Solvent(buckets[u], grants[u], since[u]))'
<1> DEFINE g == IF s \in DOMAIN buckets THEN grants[s] ELSE 0
           c == IF s \in DOMAIN buckets THEN since[s] ELSE now
<1>1. since \in [Source -> Nat] /\ grants \in [Source -> Nat]
  BY DEF ThrottleInv
<1>2. g \in Nat /\ c \in Nat /\ Solvent(b, g, c)
  BY <1>1
<1>3. since' = [since EXCEPT ![s] = c]
  BY DEF Serve
<1>4. PICK h \in Nat : h = g + IF ok THEN 1 ELSE 0
  BY <1>2
<1>5. grants' = [grants EXCEPT ![s] = h]
  BY <1>4 DEF Serve
<1>6. /\ DOMAIN buckets' = DOMAIN tracked \union {s} /\ buckets'[s] = Acquired(b)
      /\ \A u \in DOMAIN tracked \ {s} : buckets'[u] = tracked[u]
  BY DEF Serve, Insert
<1>7. h = g + IF Grants(b) THEN 1 ELSE 0
  BY <1>4 DEF Serve
<1> HIDE DEF g, c
<1>8. Solvent(Acquired(b), h, c)
  BY <1>2, <1>7, AcquireSolvent
<1>9. \A u \in DOMAIN tracked \ {s} :
        u \in Source /\ Solvent(buckets'[u], grants[u], since[u])
  BY <1>6 DEF ThrottleInv
<1>10. \A u \in DOMAIN buckets' : Solvent(buckets'[u], grants'[u], since'[u])
  BY <1>1, <1>2, <1>3, <1>5, <1>6, <1>8, <1>9
<1>11. (\A u \in DOMAIN buckets : Solvent(buckets[u], grants[u], since[u]))'
  BY <1>10 DEF Solvent
<1> QED
  BY <1>1, <1>2, <1>3, <1>5, <1>6, <1>11

(* How many sources the map may hold. *)
SourceRoom == IF MaxSources = 0 THEN 1 ELSE MaxSources

(* A bucket is inserted only after room was made for it. *)
LEMMA RoomForOne ==
    ASSUME ThrottleInv, NEW victims \in Evictable, NEW s, s \notin DOMAIN buckets,
           DOMAIN buckets' = (DOMAIN buckets \ victims) \union {s}
    PROVE  IsFiniteSet(DOMAIN buckets') /\ SourcesBounded'
<1>0. MaxSources \in Nat
  BY ThrottleAssumption
<1>1. PICK D : D = DOMAIN buckets /\ IsFiniteSet(D) /\ Cardinality(D) <= SourceRoom
  BY DEF ThrottleInv, SourcesBounded, SourceRoom
<1>2. Cardinality(D) \in Nat
  BY <1>1, FS_CardinalityType
<1>3. /\ IsFiniteSet(D \ victims) /\ IsFiniteSet((D \ victims) \union {s})
      /\ Cardinality((D \ victims) \union {s}) = Cardinality(D \ victims) + 1
  <2>1. IsFiniteSet(D \ victims)
    BY <1>1, FS_Difference
  <2>2. s \notin D \ victims
    BY <1>1
  <2> QED
    BY <2>1, <2>2, FS_AddElement
<1>4. Cardinality(D \ victims) + 1 <= SourceRoom
  <2>1. CASE AtCapacity /\ D # {}
    <3>1. PICK v \in LruSources : victims = {v}
      BY <1>1, <2>1 DEF Evictable
    <3>2. v \in D
      BY <1>1, <3>1 DEF LruSources
    <3>3. Cardinality(D \ {v}) = Cardinality(D) - 1
      BY <1>1, <3>2, FS_RemoveElement
    <3> QED
      BY <1>1, <1>2, <3>1, <3>3 DEF SourceRoom
  <2>2. CASE AtCapacity /\ D = {}
    <3>1. victims = {} /\ D \ victims = {}
      BY <1>1, <2>2 DEF Evictable
    <3>2. Cardinality(D \ victims) = 0
      BY <3>1, FS_EmptySet
    <3> QED
      BY <1>0, <3>2 DEF SourceRoom
  <2>3. CASE ~AtCapacity
    <3>1. victims = {} /\ D \ victims = D
      BY <1>1, <2>3 DEF Evictable
    <3>2. ~(Cardinality(D) >= MaxSources)
      BY <1>1, <2>3 DEF AtCapacity
    <3> QED
      BY <1>0, <1>2, <3>1, <3>2 DEF SourceRoom
  <2> QED
    BY <2>1, <2>2, <2>3
<1>5. DOMAIN buckets' = (D \ victims) \union {s}
  BY <1>1
<1> QED
  BY <1>3, <1>4, <1>5 DEF SourcesBounded, SourceRoom

(* Every step of the throttle keeps its invariant. *)
LEMMA ThrottleStep ==
    ASSUME ClockOk, ThrottleInv, [Next]_vars,
           \A t \in Task : at[t] # 0 => hand[t].source \in Source
    PROVE  ThrottleInv'
<1>0. now \in Nat /\ now' \in Nat /\ now <= now'
  BY ClockStep
<1>1. ASSUME UNCHANGED <<buckets, since, grants>> PROVE ThrottleInv'
  <2>1. ASSUME NEW s \in DOMAIN buckets
        PROVE  /\ buckets[s] \in Bucket
               /\ buckets[s].created = since[s] /\ since[s] <= now'
               /\ \E q \in Nat : /\ buckets[s].last_refill = q * RefillNanos
                                 /\ buckets[s].last_refill <= now' - since[s]
                                 /\ grants[s] + buckets[s].tokens <= Burst + q
    <3>1. Solvent(buckets[s], grants[s], since[s])
      BY DEF ThrottleInv
    <3>2. buckets[s] \in Bucket /\ buckets[s].created = since[s] /\ since[s] <= now
      BY <3>1 DEF Solvent
    <3>3. PICK q \in Nat : /\ buckets[s].last_refill = q * RefillNanos
                           /\ buckets[s].last_refill <= now - since[s]
                           /\ grants[s] + buckets[s].tokens <= Burst + q
      BY <3>1 DEF Solvent
    <3>4. PICK l \in Nat, c \in Nat : l = buckets[s].last_refill /\ c = since[s]
      BY <3>2 DEF Bucket
    <3>5. l <= now' - c /\ c <= now'
      BY <1>0, <3>2, <3>3, <3>4
    <3> QED
      BY <3>2, <3>3, <3>4, <3>5
  <2>2. (\A s \in DOMAIN buckets : Solvent(buckets[s], grants[s], since[s]))'
    BY <1>1, <2>1 DEF Solvent
  <2> QED
    BY <1>1, <2>2 DEF ThrottleInv, SourcesBounded
<1>2. CASE UNCHANGED throttleVars
  BY <1>1, <1>2 DEF throttleVars
<1>3. ASSUME NEW t \in Task, NEW s \in Source, Miss(t, s) PROVE ThrottleInv'
  BY <1>1, <1>3 DEF Miss
<1>4. ASSUME NEW t \in Task, NEW s \in Source, NEW ok \in BOOLEAN, now' = now,
             FastPath(t, s, ok) \/ SlowHit(t, s, ok)
      PROVE  ThrottleInv'
  <2>1. s \in DOMAIN buckets /\ Serve(s, buckets[s], buckets, ok)
    BY <1>4 DEF FastPath, SlowHit
  <2>2. Solvent(buckets[s], grants[s], since[s])
    BY <2>1 DEF ThrottleInv
  <2>3. /\ since' \in [Source -> Nat] /\ grants' \in [Source -> Nat]
        /\ DOMAIN buckets' = DOMAIN buckets \union {s}
        /\ (\A u \in DOMAIN buckets : Solvent(buckets[u], grants[u], since[u]))'
    BY <1>0, <1>4, <2>1, <2>2, ServeSolvent
  <2>4. DOMAIN buckets' = DOMAIN buckets
    BY <2>1, <2>3
  <2> QED
    BY <2>3, <2>4 DEF ThrottleInv, SourcesBounded
<1>5. ASSUME NEW t \in Task, NEW s \in Source, NEW ok \in BOOLEAN, now' = now,
             CreateBucket(t, s, ok)
      PROVE  ThrottleInv'
  <2>1. PICK victims \in Evictable :
          Serve(s, NewBucket, Restrict(buckets, DOMAIN buckets \ victims), ok)
    BY <1>5 DEF CreateBucket
  <2>2. s \notin DOMAIN buckets
    BY <1>5 DEF CreateBucket
  <2>3. PICK tracked : tracked = Restrict(buckets, DOMAIN buckets \ victims)
    OBVIOUS
  <2>4. /\ DOMAIN tracked = DOMAIN buckets \ victims
        /\ \A u \in DOMAIN tracked : tracked[u] = buckets[u]
    BY <2>3 DEF Restrict
  <2>5. Solvent(NewBucket, 0, now)
    BY <1>0, NewSolvent
  <2>6. Serve(s, NewBucket, tracked, ok)
    BY <2>1, <2>3
  <2>7. /\ since' \in [Source -> Nat] /\ grants' \in [Source -> Nat]
        /\ DOMAIN buckets' = DOMAIN tracked \union {s}
        /\ (\A u \in DOMAIN buckets : Solvent(buckets[u], grants[u], since[u]))'
    BY <1>0, <1>5, <2>2, <2>4, <2>5, <2>6, ServeSolvent
  <2>8. IsFiniteSet(DOMAIN buckets') /\ SourcesBounded'
    BY <2>2, <2>4, <2>7, RoomForOne
  <2>9. DOMAIN buckets' \subseteq Source
    BY <2>4, <2>7 DEF ThrottleInv
  <2> QED
    BY <2>7, <2>8, <2>9 DEF ThrottleInv
<1> QED
  BY <1>2, <1>3, <1>4, <1>5, ThrottleMoves DEF ThrottleAnswers

(* What the account says of the limit. *)
LEMMA SolventLimit == ClockOk /\ ThrottleInv => PerSourceLimit
<1> SUFFICES ASSUME ClockOk, ThrottleInv, NEW s \in DOMAIN buckets
             PROVE  grants[s] <= Burst + (now - since[s]) \div RefillNanos
  BY DEF PerSourceLimit
<1>0. now \in Nat /\ Burst \in Nat /\ RefillNanos \in Nat \ {0}
  BY ClockAssumption, ThrottleAssumption DEF ClockOk
<1>1. Solvent(buckets[s], grants[s], since[s]) /\ since[s] \in Nat /\ grants[s] \in Nat
  BY DEF ThrottleInv
<1>2. buckets[s] \in Bucket /\ since[s] <= now
  BY <1>1 DEF Solvent
<1>3. PICK q \in Nat : /\ buckets[s].last_refill = q * RefillNanos
                       /\ buckets[s].last_refill <= now - since[s]
                       /\ grants[s] + buckets[s].tokens <= Burst + q
  BY <1>1 DEF Solvent
<1>4. buckets[s].tokens \in Nat
  BY <1>2 DEF Bucket
<1>5. PICK e \in Nat : e = now - since[s]
  BY <1>0, <1>1, <1>2
<1>6. q <= e \div RefillNanos
  BY <1>0, <1>3, <1>5, DivAtLeast
<1>7. e \div RefillNanos \in Nat
  BY <1>0, DivBounds
<1>8. PICK d \in Nat, g \in Nat, n \in Nat :
        d = e \div RefillNanos /\ g = grants[s] /\ n = buckets[s].tokens
  BY <1>1, <1>4, <1>7
<1>9. g <= Burst + d
  BY <1>0, <1>3, <1>6, <1>8
<1> QED
  BY <1>5, <1>8, <1>9

-------------------------------------------------------------------------------
(* The sampler. *)

(* A step of the chain draws a number, moves a task within next_random(),  *)
(* or leaves the sampler alone.                                            *)
LEMMA SamplerMoves ==
    ASSUME [Next]_vars
    PROVE  \/ UNCHANGED <<prng, drawn>>
           \/ prng' = Xorshift(prng) /\ drawn' = Append(drawn, prng')
<1>1. CASE UNCHANGED vars
  BY <1>1 DEF vars, samplerVars
<1>2. CASE FlushPending \/ Time
  BY <1>2 DEF FlushPending, Time, samplerVars
<1>3. ASSUME NEW t \in Task,
             Bring(t) \/ PureStage(t) \/ DedupStage(t) \/ ThrottleStage(t) \/ AggregatorStage(t)
      PROVE  UNCHANGED samplerVars
  BY <1>3 DEF Bring, PureStage, DedupStage, ThrottleStage, AggregatorStage
<1>4. ASSUME NEW t \in Task, SamplerStage(t)
      PROVE  \/ UNCHANGED <<prng, drawn>>
             \/ prng' = Xorshift(prng) /\ drawn' = Append(drawn, prng')
  BY <1>4 DEF SamplerStage, LoadState, SwapFails, SwapState
<1> QED
  BY <1>1, <1>2, <1>3, <1>4 DEF Next, samplerVars

(* A left shift cannot cancel the lowest one bit of a word, nor a right    *)
(* shift its highest: the generator never reaches zero.                    *)
LEMMA LeftKeeps ==
    ASSUME NEW x \in SUBSET Bit, x # {}, NEW k \in Nat \ {0}
    PROVE  SymDiff(x, Shl(x, k)) \in SUBSET Bit /\ SymDiff(x, Shl(x, k)) # {}
<1>1. x \in SUBSET Nat
  BY DEF Bit
<1>2. PICK low \in x : \A y \in x : low <= y
  BY <1>1, LeastNat
<1>3. low \notin Shl(x, k)
  BY <1>1, <1>2 DEF Shl
<1> QED
  BY <1>2, <1>3 DEF SymDiff, Shl

(* x ^ (x >> k) is not zero unless x is: the highest bit stays. *)
LEMMA RightKeeps ==
    ASSUME NEW x \in SUBSET Bit, x # {}, NEW k \in Nat \ {0}
    PROVE  SymDiff(x, Shr(x, k)) \in SUBSET Bit /\ SymDiff(x, Shr(x, k)) # {}
<1> DEFINE down == {63 - y : y \in x}
<1>1. \A y \in x : y \in 0 .. 63
  BY DEF Bit
<1>2. down \in SUBSET Nat /\ down # {}
  BY <1>1
<1>3. PICK d \in down : \A e \in down : d <= e
  <2> HIDE DEF down
  <2> QED
    BY <1>2, LeastNat
<1>4. PICK high \in x : d = 63 - high
  OBVIOUS
<1>5. \A y \in x : y <= high
  <2> SUFFICES ASSUME NEW y \in x PROVE y <= high
    OBVIOUS
  <2>1. 63 - y \in down
    OBVIOUS
  <2>2. 63 - high <= 63 - y
    BY <1>3, <1>4, <2>1
  <2>3. y \in 0 .. 63 /\ high \in 0 .. 63
    BY <1>1, <1>4
  <2> QED
    BY <2>2, <2>3
<1>6. high \notin Shr(x, k)
  <2>1. high \in 0 .. 63
    BY <1>1, <1>4
  <2>2. high + k \notin x
    BY <1>5, <2>1
  <2> QED
    BY <2>2 DEF Shr
<1> QED
  BY <1>4, <1>6 DEF SymDiff, Shr

(* The generator maps words to words. *)
LEMMA XorshiftType ==
    ASSUME NEW x \in SUBSET Bit, x # {}
    PROVE  Xorshift(x) \in SUBSET Bit /\ Xorshift(x) # {}
<1>1. PICK a \in SUBSET Bit : a = SymDiff(x, Shl(x, 13)) /\ a # {}
  BY LeftKeeps
<1>2. PICK b \in SUBSET Bit : b = SymDiff(a, Shr(a, 7)) /\ b # {}
  BY <1>1, RightKeeps
<1>3. PICK c \in SUBSET Bit : c = SymDiff(b, Shl(b, 17)) /\ c # {}
  BY <1>2, LeftKeeps
<1>4. Xorshift(x) = c
  BY <1>1, <1>2, <1>3 DEF Xorshift
<1> QED
  BY <1>3, <1>4

(* The state before the i-th draw. *)
Before(i) == IF i = 1 THEN Seeded(Seed) ELSE drawn[i - 1]

SamplerInv ==
    /\ drawn \in Seq(SUBSET Bit)
    /\ prng \in SUBSET Bit /\ prng # {}
    /\ prng = Before(Len(drawn) + 1)
    /\ \A i \in 1 .. Len(drawn) : drawn[i] = Xorshift(Before(i)) /\ drawn[i] # {}

(* The seeded sampler satisfies its invariant, ... *)
LEMMA SamplerInitial == SamplerInit => SamplerInv
<1> SUFFICES ASSUME SamplerInit PROVE SamplerInv
  OBVIOUS
<1>1. drawn = <<>> /\ prng = Seeded(Seed)
  BY DEF SamplerInit
<1>2. drawn \in Seq(SUBSET Bit) /\ Len(drawn) = 0
  BY <1>1, EmptySeq
<1>3. Seeded(Seed) \in SUBSET Bit /\ Seeded(Seed) # {}
  BY SamplerAssumption DEF Seeded, Bit
<1> QED
  BY <1>1, <1>2, <1>3 DEF SamplerInv, Before

(* ... every exchange, successful or not, keeps it, ... *)
LEMMA SamplerStep ==
    ASSUME SamplerInv, [Next]_vars
    PROVE  SamplerInv'
<1>1. CASE UNCHANGED <<prng, drawn>>
  BY <1>1 DEF SamplerInv, Before
<1>2. CASE prng' = Xorshift(prng) /\ drawn' = Append(drawn, prng')
  <2>1. PICK s \in Seq(SUBSET Bit), n \in Nat : s = drawn /\ n = Len(s)
    BY LenProperties DEF SamplerInv
  <2>2. PICK x \in SUBSET Bit : x = prng' /\ x # {} /\ x = Xorshift(prng)
    BY <1>2, XorshiftType DEF SamplerInv
  <2>3. PICK r \in Seq(SUBSET Bit) : r = Append(s, x)
    BY AppendProperties
  <2>4. /\ Len(r) = n + 1 /\ r[n + 1] = x
        /\ \A i \in 1 .. n : r[i] = s[i]
    BY <2>1, <2>3, AppendProperties
  <2>5. drawn' = r
    BY <1>2, <2>1, <2>2, <2>3
  <2>6. \A i \in 1 .. n + 1 : Before(i)' = Before(i)
    BY <2>1, <2>4, <2>5 DEF Before
  <2>7. prng = Before(n + 1) /\ \A i \in 1 .. n : s[i] = Xorshift(Before(i)) /\ s[i] # {}
    BY <2>1 DEF SamplerInv
  <2>8. Before(n + 1 + 1)' = x
    <3>1. n + 1 + 1 # 1 /\ n + 1 + 1 - 1 = n + 1
      OBVIOUS
    <3> QED
      BY <2>4, <2>5, <3>1 DEF Before
  <2>9. \A i \in 1 .. n + 1 : r[i] = Xorshift(Before(i)') /\ r[i] # {}
    BY <2>2, <2>4, <2>6, <2>7
  <2> QED
    BY <2>2, <2>4, <2>5, <2>8, <2>9 DEF SamplerInv
<1> QED
  BY <1>1, <1>2, SamplerMoves

(* ... and it says that the draws are one run of the generator. *)
LEMMA SamplerStream == SamplerInv => RandomStream
<1> SUFFICES ASSUME SamplerInv PROVE RandomStream
  OBVIOUS
<1>1. PICK s \in Seq(SUBSET Bit), n \in Nat : s = drawn /\ n = Len(s)
  BY LenProperties DEF SamplerInv
<1>a. Seeded(Seed) \in SUBSET Bit
  BY SamplerAssumption DEF Seeded, Bit
<1>2. PICK seed \in SUBSET Bit : seed = Seeded(Seed)
  BY <1>a
<1>3. <<seed>> \in Seq(SUBSET Bit) /\ Len(<<seed>>) = 1 /\ <<seed>>[1] = seed
  OBVIOUS
<1>4. PICK state : state = <<seed>> \o s
  OBVIOUS
<1>5. /\ Len(state) = 1 + n
      /\ \A i \in 1 .. 1 + n : state[i] = IF i <= 1 THEN <<seed>>[i] ELSE s[i - 1]
  BY <1>1, <1>3, <1>4, ConcatProperties
<1>6. \A i \in 1 .. n + 1 : state[i] = Before(i)
  BY <1>1, <1>2, <1>3, <1>5 DEF Before
<1>7. prng = state[Len(state)]
  BY <1>1, <1>5, <1>6 DEF SamplerInv
<1>8. \A i \in 1 .. Len(drawn) : drawn[i] = Xorshift(state[i]) /\ drawn[i] # {}
  BY <1>1, <1>6 DEF SamplerInv
<1> QED
  BY <1>1, <1>2, <1>4, <1>7, <1>8 DEF RandomStream

-------------------------------------------------------------------------------
(* Routes and metadata. *)

(* A set that is listed as a sequence: every element, once. *)
LEMMA ListedOnce ==
    ASSUME NEW S, IsFiniteSet(S)
    PROVE  /\ SetToSeq(S) \in Seq(S) /\ ToSet(SetToSeq(S)) = S
           /\ Len(SetToSeq(S)) = Cardinality(S)
<1>1. PICK n \in Nat : n = Cardinality(S)
  BY FS_CardinalityType
<1>2. PICK g \in [1 .. n -> S] : IsInjective(g)
  <2>1. ExistsBijection(1 .. n, S)
    BY <1>1, FS_CardinalityType
  <2> QED
    BY <2>1 DEF ExistsBijection, Bijection, Injection
<1>3. PICK f : f = SetToSeq(S)
  OBVIOUS
<1>4. f \in [1 .. n -> S] /\ IsInjective(f)
  BY <1>1, <1>2, <1>3 DEF SetToSeq
<1>5. f \in Seq(S) /\ Len(f) = n /\ DOMAIN f = 1 .. n
  BY <1>4, SeqDef, LenProperties
<1>6. f \in Surjection(1 .. n, S)
  <2>1. f \in Injection(1 .. n, S)
    BY <1>4 DEF Injection
  <2>2. Cardinality(1 .. n) = n
    BY FS_Interval
  <2> QED
    BY <1>1, <2>1, <2>2, FS_Injection
<1>7. ToSet(f) = S
  BY <1>4, <1>5, <1>6 DEF Surjection, ToSet
<1> QED
  BY <1>1, <1>3, <1>5, <1>7

(* A sequence has finitely many elements. *)
LEMMA ElementsFinite ==
    ASSUME NEW S, NEW s \in Seq(S)
    PROVE  IsFiniteSet(ToSet(s))
<1>1. PICK n \in Nat : n = Len(s) /\ DOMAIN s = 1 .. n /\ s \in [1 .. n -> S]
  BY LenProperties
<1>2. s \in [1 .. n -> ToSet(s)]
  BY <1>1 DEF ToSet
<1>3. s \in Surjection(1 .. n, ToSet(s))
  BY <1>1, <1>2 DEF Surjection, ToSet
<1>4. IsFiniteSet(1 .. n)
  BY FS_Interval
<1> QED
  BY <1>3, <1>4, FS_Surjection

(* The routes of finitely many messages are finitely many. *)
LEMMA RoutesFinite ==
    ASSUME NEW n \in Nat, NEW routes \in [1 .. n -> Seq(STRING)]
    PROVE  /\ IsFiniteSet(UNION {ToSet(routes[i]) : i \in 1 .. n})
           /\ UNION {ToSet(routes[i]) : i \in 1 .. n} \subseteq STRING
<1>1. PICK f, V : f = [i \in 1 .. n |-> ToSet(routes[i])] /\ V = {ToSet(routes[i]) : i \in 1 .. n}
  OBVIOUS
<1>2. f \in [1 .. n -> V] /\ V = {f[i] : i \in 1 .. n}
  BY <1>1
<1>3. f \in Surjection(1 .. n, V)
  BY <1>2 DEF Surjection
<1>4. IsFiniteSet(V)
  BY <1>3, FS_Surjection, FS_Interval
<1>5. ASSUME NEW T \in V PROVE IsFiniteSet(T) /\ T \subseteq STRING
  <2>1. PICK i \in 1 .. n : T = ToSet(routes[i])
    BY <1>1
  <2>2. PICK s \in Seq(STRING) : s = routes[i]
    OBVIOUS
  <2>3. IsFiniteSet(ToSet(s))
    BY ElementsFinite
  <2>4. ToSet(s) \subseteq STRING
    BY LenProperties DEF ToSet
  <2> QED
    BY <2>1, <2>2, <2>3, <2>4
<1>6. IsFiniteSet(UNION V)
  BY <1>4, <1>5, FS_UNION
<1>7. UNION V \subseteq STRING
  BY <1>5
<1> QED
  BY <1>1, <1>6, <1>7

(* The maps that metadata can be. *)
Metadata == UNION {[D -> STRING] : D \in SUBSET STRING}

(* Metadata, as a set. *)
LEMMA MetadataSet ==
    ASSUME NEW md
    PROVE  IsMetadata(md) <=> md \in Metadata
<1>1. ASSUME IsMetadata(md) PROVE md \in Metadata
  BY <1>1 DEF IsMetadata, Metadata
<1>2. ASSUME md \in Metadata PROVE IsMetadata(md)
  <2>1. PICK D \in SUBSET STRING : md \in [D -> STRING]
    BY <1>2 DEF Metadata
  <2> QED
    BY <2>1 DEF IsMetadata
<1> QED
  BY <1>1, <1>2

(* Metadata that is extended with metadata is metadata. *)
LEMMA ExtendKeeps ==
    ASSUME NEW a, NEW b, IsMetadata(a), IsMetadata(b)
    PROVE  IsMetadata(Extend(a, b))
<1>1. PICK D : D = DOMAIN a \union DOMAIN b
  OBVIOUS
<1>2. D \subseteq STRING /\ \A k \in D : (IF k \in DOMAIN b THEN b[k] ELSE a[k]) \in STRING
  BY <1>1 DEF IsMetadata
<1>3. Extend(a, b) \in [D -> STRING]
  BY <1>1, <1>2 DEF Extend
<1>4. PICK c : c = Extend(a, b)
  OBVIOUS
<1> QED
  BY <1>2, <1>3, <1>4 DEF IsMetadata

(* No metadata is metadata. *)
LEMMA NoMetadataKeeps == IsMetadata(NoMetadata) /\ DOMAIN NoMetadata = {}
<1>1. <<>> \in Seq(STRING) /\ Len(<<>>) = 0
  BY EmptySeq
<1>2. <<>> \in [1 .. 0 -> STRING]
  BY <1>1, LenProperties
<1>3. 1 .. 0 = {}
  OBVIOUS
<1> QED
  BY <1>2, <1>3 DEF IsMetadata, NoMetadata

(* What is merged after the first k parts. *)
IsMerge(f, parts) ==
    /\ f[0] = NoMetadata
    /\ \A k \in 1 .. Len(parts) : f[k] = Extend(f[k - 1], parts[k].metadata)

(* MergedMetadata is such a merge, taken to the end. *)
LEMMA MergeLoop ==
    ASSUME NEW parts, IsSeq(parts), \A i \in 1 .. Len(parts) : IsMetadata(parts[i].metadata)
    PROVE  \E f \in [0 .. Len(parts) -> Metadata] :
             IsMerge(f, parts) /\ MergedMetadata(parts) = f[Len(parts)]
<1> DEFINE n == Len(parts)
           Merge(md, m) == Extend(md, m.metadata)
           Loop(g) == g = [t \in SUBSET (1 .. n) |->
                             IF t = {} THEN NoMetadata
                             ELSE Merge(g[t \ {Max(t)}], parts[Max(t)])]
           iter == CHOOSE g : Loop(g)
<1>1. n \in Nat /\ DOMAIN parts = 1 .. n
  BY SeqFacts
<1>2. MergedMetadata(parts) = iter[1 .. n]
  BY <1>1 DEF MergedMetadata, FoldLeft, MapThenFoldSet
<1>3. NoMetadata \in Metadata
  BY NoMetadataKeeps, MetadataSet
<1>4. ASSUME NEW md \in Metadata, NEW k \in 1 .. n PROVE Merge(md, parts[k]) \in Metadata
  <2>1. PICK b : b = parts[k].metadata
    OBVIOUS
  <2>2. IsMetadata(md) /\ IsMetadata(b)
    BY <2>1, MetadataSet
  <2>3. IsMetadata(Extend(md, b))
    BY <2>2, ExtendKeeps
  <2> QED
    BY <2>1, <2>3, MetadataSet
<1>5. \E g \in [SUBSET (1 .. n) -> Metadata] : Loop(g)
  <2> DEFINE step == [k \in 1 .. n |-> [md \in Metadata |-> Merge(md, parts[k])]]
  <2>1. step \in [1 .. n -> [Metadata -> Metadata]]
    <3> HIDE DEF Merge
    <3> QED BY <1>4
  <2>2. PICK g \in [SUBSET (1 .. n) -> Metadata] : IsLoop(g, n, NoMetadata, step)
    <3> HIDE DEF step, n
    <3> QED
      BY <1>1, <1>3, <2>1, LoopTable
  <2>3. ASSUME NEW t \in SUBSET (1 .. n), t # {}
        PROVE  step[Max(t)][g[t \ {Max(t)}]] = Merge(g[t \ {Max(t)}], parts[Max(t)])
    <3>1. Max(t) \in 1 .. n
      BY <1>1, <2>3, MaxInInterval
    <3>2. g[t \ {Max(t)}] \in Metadata
      <4>1. t \ {Max(t)} \in SUBSET (1 .. n)
        OBVIOUS
      <4> QED
        BY <4>1
    <3> HIDE DEF Merge
    <3> QED
      BY <3>1, <3>2
  <2> HIDE DEF step, Merge
  <2>4. Loop(g)
    BY <2>2, <2>3 DEF IsLoop
  <2> QED
    BY <2>4
<1>6. Loop(iter)
  <2> HIDE DEF Loop
  <2> QED
    BY <1>5
<1>7. iter[{}] = NoMetadata
  <2> HIDE DEF iter
  <2> QED
    BY <1>6
<1>8. ASSUME NEW k \in 1 .. n PROVE iter[1 .. k] = Merge(iter[1 .. k - 1], parts[k])
  <2>1. 1 .. k \in SUBSET (1 .. n) /\ 1 .. k # {}
    <3>1. n \in Nat
      BY <1>1
    <3> HIDE DEF n
    <3> QED
      BY <3>1
  <2>2. Max(1 .. k) = k /\ (1 .. k) \ {Max(1 .. k)} = 1 .. k - 1
    BY LoopPrefix, SMTT(30)
  <2> HIDE DEF iter, Merge
  <2>3. iter[1 .. k] = Merge(iter[(1 .. k) \ {Max(1 .. k)}], parts[Max(1 .. k)])
    BY <1>6, <2>1
  <2> QED
    BY <2>2, <2>3
<1> HIDE DEF iter, Loop
<1>9. 1 .. 0 = {}
  OBVIOUS
<1> DEFINE T == {k \in 0 .. n : iter[1 .. k] \in Metadata}
<1>10. 0 \in T
  <2>1. iter[1 .. 0] \in Metadata
    BY <1>3, <1>7, <1>9
  <2>2. 0 \in 0 .. n
    BY <1>1
  <2> QED
    BY <2>1, <2>2, Zenon
<1>11. ASSUME NEW k \in 0 .. n, k \in T, k < n PROVE k + 1 \in T
  <2>1. k + 1 \in 1 .. n /\ (k + 1) - 1 = k
    BY <1>1, <1>11
  <2>2. iter[1 .. k + 1] = Merge(iter[1 .. k], parts[k + 1])
    BY <1>8, <2>1
  <2>3. Merge(iter[1 .. k], parts[k + 1]) \in Metadata
    <3> HIDE DEF Merge
    <3> QED
      BY <1>4, <1>11, <2>1
  <2>4. k + 1 \in 0 .. n /\ iter[1 .. k + 1] \in Metadata
    BY <1>1, <2>1, <2>2, <2>3
  <2> QED
    BY <2>4, Zenon
<1>12. \A k \in 0 .. n : iter[1 .. k] \in Metadata
  <2>1. \A k \in 0 .. n : k \in T
    <3> HIDE DEF T
    <3> QED
      BY <1>1, <1>10, <1>11, IntervalInduction
  <2> QED
    BY <2>1
<1> DEFINE f == [k \in 0 .. n |-> iter[1 .. k]]
<1>13. f \in [0 .. n -> Metadata]
  BY <1>12
<1>14. f[0] = NoMetadata /\ f[n] = iter[1 .. n]
  BY <1>1, <1>7, <1>9
<1>15. ASSUME NEW k \in 1 .. n PROVE f[k] = Merge(f[k - 1], parts[k])
  <2>1. k \in 0 .. n /\ k - 1 \in 0 .. n
    BY <1>1
  <2>2. f[k] = iter[1 .. k] /\ f[k - 1] = iter[1 .. k - 1]
    BY <2>1
  <2> HIDE DEF f, Merge
  <2> QED
    BY <1>8, <2>2
<1>16. IsMerge(f, parts)
  <2> HIDE DEF f
  <2> QED
    BY <1>14, <1>15 DEF IsMerge
<1> HIDE DEF f
<1> QED
  BY <1>2, <1>13, <1>14, <1>16

(* Map a has the keys of the first n maps in md, each with the value of    *)
(* the last one that has it.                                               *)
LastWins(a, n, md) ==
    /\ \A key : key \in DOMAIN a <=> \E i \in 1 .. n : key \in DOMAIN md[i]
    /\ \A i \in 1 .. n : \A key \in DOMAIN md[i] :
         \/ \E j \in 1 .. n : j > i /\ key \in DOMAIN md[j]
         \/ a[key] = md[i][key]

(* Of maps that are merged in order, the last wins. *)
LEMMA MergeLast ==
    ASSUME NEW n \in Nat, NEW md, NEW f,
           DOMAIN f[0] = {}, \A k \in 1 .. n : f[k] = Extend(f[k - 1], md[k])
    PROVE  LastWins(f[n], n, md)
<1> DEFINE Keys(k) == \A key : key \in DOMAIN f[k] <=> \E i \in 1 .. k : key \in DOMAIN md[i]
           Latest(k) == \A i \in 1 .. k : \A key \in DOMAIN md[i] :
                          \/ \E j \in 1 .. k : j > i /\ key \in DOMAIN md[j]
                          \/ f[k][key] = md[i][key]
           T == {k \in 0 .. n : Keys(k) /\ Latest(k)}
<1>1. 0 \in T
  OBVIOUS
<1>2. ASSUME NEW k \in 0 .. n, k \in T, k < n PROVE k + 1 \in T
  <2>1. k + 1 \in 1 .. n /\ (k + 1) - 1 = k /\ k + 1 \in 0 .. n /\ k \in Nat
    BY <1>2
  <2>2. PICK a, b, c : a = f[k] /\ b = md[k + 1] /\ c = f[k + 1]
    OBVIOUS
  <2>3. c = Extend(a, b)
    BY <2>1, <2>2
  <2>4. /\ DOMAIN c = DOMAIN a \union DOMAIN b
        /\ \A key \in DOMAIN b : c[key] = b[key]
        /\ \A key \in DOMAIN a \ DOMAIN b : c[key] = a[key]
    BY <2>3 DEF Extend
  <2>5. Keys(k) /\ Latest(k)
    BY <1>2
  <2>6. \A i : i \in 1 .. k + 1 <=> (i \in 1 .. k \/ i = k + 1)
    BY <2>1
  <2>7. Keys(k + 1)
    BY <2>2, <2>4, <2>5, <2>6
  <2>8. ASSUME NEW i \in 1 .. k + 1, NEW key \in DOMAIN md[i]
        PROVE  \/ \E j \in 1 .. k + 1 : j > i /\ key \in DOMAIN md[j]
               \/ c[key] = md[i][key]
    <3>1. CASE i = k + 1
      BY <2>2, <2>4, <3>1
    <3>2. CASE i # k + 1 /\ key \in DOMAIN b
      <4>1. k + 1 \in 1 .. k + 1 /\ k + 1 > i /\ key \in DOMAIN md[k + 1]
        BY <2>1, <2>2, <3>2
      <4> QED
        BY <4>1
    <3>3. CASE i # k + 1 /\ key \notin DOMAIN b
      <4>1. i \in 1 .. k /\ key \in DOMAIN a
        BY <2>2, <2>5, <2>6, <3>3
      <4>2. CASE \E j \in 1 .. k : j > i /\ key \in DOMAIN md[j]
        BY <2>6, <4>2
      <4>3. CASE a[key] = md[i][key]
        BY <2>4, <3>3, <4>1, <4>3
      <4> QED
        BY <2>2, <2>5, <4>1, <4>2, <4>3
    <3> QED
      BY <3>1, <3>2, <3>3
  <2>9. Latest(k + 1)
    BY <2>2, <2>8
  <2> HIDE DEF Keys, Latest
  <2> QED
    BY <2>1, <2>7, <2>9
<1>3. n \in T
  <2>1. \A k \in 0 .. n : k \in T
    <3> HIDE DEF T
    <3> QED
      BY <1>1, <1>2, IntervalInduction
  <2> QED
    BY <2>1
<1> QED
  BY <1>3 DEF LastWins

-------------------------------------------------------------------------------
(* Messages on their way. *)

(* What every message on its way is: a message, from a source the throttle *)
(* can be asked about, that carries some of the inputs.                    *)
Carried(m) ==
    /\ IsMessage(m) /\ m.source \in Source
    /\ m.of # {} /\ m.of \subseteq 1 .. MaxMessages

(* The fields of a message. *)
LEMMA MessageFields ==
    ASSUME NEW m, Carried(m)
    PROVE  /\ IsEnvelope(m) /\ m.id \in STRING /\ m.source \in STRING /\ m.source \in Source
           /\ IsMetadata(m.metadata) /\ m.message_type \in Seq(STRING)
           /\ m.route_to \in Seq(STRING) /\ m.payload \in Payload
           /\ m.of \subseteq Nat /\ m.of # {} /\ m.of \subseteq 1 .. MaxMessages
BY DEF Carried, IsMessage

(* The first rule that matches, if any, is one of them. *)
LEMMA FirstMatch ==
    ASSUME NEW n \in Nat, NEW I \in SUBSET (1 .. n), I # {}
    PROVE  Min(I) \in 1 .. n
<1>1. I \in SUBSET Nat
  OBVIOUS
<1>2. PICK x \in I : \A y \in I : x <= y
  BY <1>1, LeastNat
<1>3. Min(I) \in I
  BY <1>2 DEF Min
<1> QED
  BY <1>3

(* A stage without state returns nothing or the message it was given, with *)
(* its source and its inputs.                                              *)
LEMMA ProcessedKeeps ==
    ASSUME NEW stage, NEW m, Carried(m), stage.mw \in Pure, IsStage(stage)
    PROVE  \/ Processed(stage, m) = <<>>
           \/ \E x : Processed(stage, m) = <<x>> /\ Carried(x) /\ x.of = m.of
<1> DEFINE Kept(x) == Carried(x) /\ x.of = m.of
<1>0. /\ IsEnvelope(m) /\ m.id \in STRING /\ m.source \in STRING /\ m.source \in Source
      /\ IsMetadata(m.metadata) /\ m.message_type \in Seq(STRING)
      /\ m.route_to \in Seq(STRING) /\ m.payload \in Payload
      /\ m.of \subseteq Nat /\ m.of # {} /\ m.of \subseteq 1 .. MaxMessages
  BY MessageFields
<1>1. ASSUME NEW md, IsMetadata(md) PROVE Kept(WithMetadata(m, md))
  <2>1. PICK x, e : x = WithMetadata(m, md) /\ e = Extend(m.metadata, md)
    OBVIOUS
  <2>2. IsMetadata(e)
    BY <1>0, <1>1, <2>1, ExtendKeeps
  <2>3. /\ x = [id |-> m.id, source |-> m.source, message_type |-> m.message_type,
                metadata |-> e, payload |-> m.payload, route_to |-> m.route_to, of |-> m.of]
    BY <1>0, <2>1 DEF WithMetadata, IsEnvelope
  <2> QED
    BY <1>0, <2>1, <2>2, <2>3 DEF IsEnvelope, IsMessage, Carried
<1>2. ASSUME NEW r \in Seq(STRING) PROVE Kept(WithRoutes(m, r))
  <2>1. PICK x : x = WithRoutes(m, r)
    OBVIOUS
  <2>2. x = [id |-> m.id, source |-> m.source, message_type |-> m.message_type,
             metadata |-> m.metadata, payload |-> m.payload, route_to |-> r, of |-> m.of]
    BY <1>0, <2>1 DEF WithRoutes, IsEnvelope
  <2> QED
    BY <1>0, <2>1, <2>2 DEF IsEnvelope, IsMessage, Carried
<1>3. ASSUME NEW y \in Seq(STRING) PROVE Kept([m EXCEPT !.message_type = y])
  <2>1. PICK x : x = [m EXCEPT !.message_type = y]
    OBVIOUS
  <2>2. x = [id |-> m.id, source |-> m.source, message_type |-> y,
             metadata |-> m.metadata, payload |-> m.payload, route_to |-> m.route_to, of |-> m.of]
    BY <1>0, <2>1 DEF IsEnvelope
  <2> QED
    BY <1>0, <2>1, <2>2 DEF IsEnvelope, IsMessage, Carried
<1>4. Kept(m)
  OBVIOUS
<1> HIDE DEF Kept
<1>5. CASE stage.mw = "passthrough"
  BY <1>4, <1>5 DEF Processed, Kept
<1>6. CASE stage.mw = "filter"
  BY <1>4, <1>6 DEF Processed, Filtered, Kept
<1>7. CASE stage.mw = "transform"
  <2>1. stage.message_type \in Seq(STRING)
    BY <1>7 DEF IsStage
  <2> QED
    BY <1>3, <1>7, <2>1 DEF Processed, Kept
<1>8. CASE stage.mw = "validator"
  <2>1. IsMetadata(InvalidTag)
    BY TagAssumption DEF IsMetadata, InvalidTag
  <2>2. Kept(WithMetadata(m, InvalidTag))
    BY <1>1, <2>1
  <2> QED
    BY <1>4, <1>8, <2>2 DEF Processed, Validate, Kept
<1>9. CASE stage.mw = "router"
  <2>1. Len(stage.rules) \in Nat /\ \A i \in 1 .. Len(stage.rules) : stage.rules[i].targets \in Seq(STRING)
    BY <1>9 DEF IsStage
  <2>2. PICK I : I = {i \in 1 .. Len(stage.rules) : Matches(stage.rules[i], m)}
    OBVIOUS
  <2>3. PICK first : first = IF I # {} THEN Min(I) ELSE 0
    OBVIOUS
  <2>4. Processed(stage, m) = <<IF first = 0 THEN m ELSE WithRoutes(m, stage.rules[first].targets)>>
    BY <1>9, <2>2, <2>3 DEF Processed, Route, SelectInSeq
  <2>5. first = 0 \/ first \in 1 .. Len(stage.rules)
    BY <2>1, <2>2, <2>3, FirstMatch
  <2>6. CASE first = 0
    BY <1>4, <2>4, <2>6 DEF Kept
  <2>7. CASE first # 0 /\ first \in 1 .. Len(stage.rules)
    <3>1. Kept(WithRoutes(m, stage.rules[first].targets))
      BY <1>2, <2>1, <2>7
    <3> QED
      BY <2>4, <2>7, <3>1 DEF Kept
  <2> QED
    BY <2>5, <2>6, <2>7
<1>10. CASE stage.mw = "enricher"
  <2>1. IsMetadata(stage.metadata)
    BY <1>10 DEF IsStage
  <2> QED
    BY <1>1, <1>10, <2>1 DEF Processed, Enrich, Kept
<1> QED
  BY <1>5, <1>6, <1>7, <1>8, <1>9, <1>10 DEF Pure

(* A sequence of one element. *)
LEMMA SingletonSeq ==
    ASSUME NEW S, NEW e \in S
    PROVE  <<e>> \in Seq(S)
OBVIOUS

(* The share of each part in the payload of a batch. *)
LEMMA PartShares ==
    ASSUME NEW parts, IsSeq(parts), \A i \in 1 .. Len(parts) : Carried(parts[i])
    PROVE  /\ \A m \in ToSet(parts) : Carried(m) /\ m.payload.content \in Seq(STRING)
           /\ \A m \in ToSet(parts) :
                /\ Lines(parts)[m] = Append(m.payload.content, "newline")
                /\ Lines(parts)[m] \in Seq(STRING)
           /\ \A m \in ToSet(parts) : JsonEntry(m) \in Seq(STRING)
<1>1. DOMAIN parts = 1 .. Len(parts)
  BY SeqFacts
<1>2. ASSUME NEW m \in ToSet(parts) PROVE Carried(m) /\ m.payload.content \in Seq(STRING)
  <2>1. Carried(m)
    BY <1>1 DEF ToSet
  <2>2. m.payload \in Payload
    BY <2>1, MessageFields
  <2> QED
    BY <2>1, <2>2 DEF Payload
<1>3. ASSUME NEW m \in ToSet(parts)
      PROVE  /\ Lines(parts)[m] = Append(m.payload.content, "newline")
             /\ Lines(parts)[m] \in Seq(STRING)
  <2>1. Lines(parts)[m] = Append(m.payload.content, "newline")
    BY DEF Lines
  <2>2. PICK c : c = m.payload.content
    OBVIOUS
  <2>3. c \in Seq(STRING) /\ "newline" \in STRING
    BY <1>2, <2>2, AggregatorAssumption
  <2>4. Append(c, "newline") \in Seq(STRING)
    BY <2>3, AppendProperties
  <2> QED
    BY <2>1, <2>2, <2>4
<1>4. ASSUME NEW m \in ToSet(parts) PROVE JsonEntry(m) \in Seq(STRING)
  <2>1. PICK e \in STRING : e = ""
    BY AggregatorAssumption
  <2>2. <<e>> \in Seq(STRING)
    BY <2>1, SingletonSeq
  <2> QED
    BY <1>2, <2>1, <2>2 DEF JsonEntry
<1> QED
  BY <1>2, <1>3, <1>4

(* The payload of a batch is one. *)
LEMMA CombinedPayloadType ==
    ASSUME NEW strategy \in AggregateStrategy, NEW parts, IsSeq(parts), Len(parts) > 0,
           \A i \in 1 .. Len(parts) : Carried(parts[i])
    PROVE  CombinedPayload(strategy, parts) \in Payload
<1>1. /\ Len(parts) \in Nat /\ DOMAIN parts = 1 .. Len(parts)
      /\ 1 \in 1 .. Len(parts) /\ Len(parts) \in 1 .. Len(parts)
  BY SeqFacts
<1>2. parts \in Seq(ToSet(parts))
  BY DEF IsSeq
<1>3. CASE strategy = "JsonArray"
  <2>1. PICK share : share = [m \in ToSet(parts) |-> JsonEntry(m)]
    OBVIOUS
  <2>2. \A m \in ToSet(parts) : share[m] \in Seq(STRING)
    BY <2>1, PartShares
  <2>3. Gather(parts, share) \in Seq(STRING)
    BY <1>2, <2>2, GatherType
  <2>4. CombinedPayload(strategy, parts) = [form |-> "json", content |-> Gather(parts, share)]
    BY <1>3, <2>1 DEF CombinedPayload
  <2> QED
    BY <2>3, <2>4 DEF Payload, Form
<1>4. CASE strategy = "Concat"
  <2>1. \A m \in ToSet(parts) : Lines(parts)[m] \in Seq(STRING)
    BY PartShares
  <2>2. PICK c : c = Gather(parts, Lines(parts))
    OBVIOUS
  <2>3. c \in Seq(STRING)
    BY <1>2, <2>1, <2>2, GatherType
  <2>4. CombinedPayload(strategy, parts) = [form |-> ConcatForm(parts), content |-> c]
    BY <1>4, <2>2 DEF CombinedPayload
  <2>5. ConcatForm(parts) \in {"binary", "json", "text"}
    BY DEF ConcatForm
  <2> QED
    BY <2>3, <2>4, <2>5 DEF Payload, Form
<1>5. CASE strategy = "Last"
  <2>1. CombinedPayload(strategy, parts) = parts[Len(parts)].payload
    BY <1>5 DEF CombinedPayload, Last
  <2>2. PICK m : m = parts[Len(parts)]
    OBVIOUS
  <2>3. Carried(m)
    BY <1>1, <2>2
  <2> QED
    BY <2>1, <2>2, <2>3, MessageFields
<1>6. CASE strategy = "First"
  <2>1. CombinedPayload(strategy, parts) = parts[1].payload
    BY <1>6, <1>2, HeadTailProperties DEF CombinedPayload
  <2>2. PICK m : m = parts[1]
    OBVIOUS
  <2>3. Carried(m)
    BY <1>1, <2>2
  <2> QED
    BY <2>1, <2>2, <2>3, MessageFields
<1> QED
  BY <1>3, <1>4, <1>5, <1>6 DEF AggregateStrategy

(* The routes of a batch are those of its parts, each once. *)
LEMMA MergedRoutesOnce ==
    ASSUME NEW parts, IsSeq(parts), \A i \in 1 .. Len(parts) : Carried(parts[i])
    PROVE  LET routes == UNION {ToSet(parts[i].route_to) : i \in DOMAIN parts}
           IN  /\ MergedRoutes(parts) \in Seq(STRING)
               /\ ToSet(MergedRoutes(parts)) = routes
               /\ Len(MergedRoutes(parts)) = Cardinality(routes)
<1>1. PICK n \in Nat : n = Len(parts) /\ DOMAIN parts = 1 .. n
  BY SeqFacts
<1>2. PICK to : to = [i \in 1 .. n |-> parts[i].route_to]
  OBVIOUS
<1>3. ASSUME NEW i \in 1 .. n PROVE parts[i].route_to \in Seq(STRING)
  <2>1. PICK m : m = parts[i]
    OBVIOUS
  <2>2. Carried(m)
    BY <1>1, <2>1
  <2> QED
    BY <2>1, <2>2, MessageFields
<1>4. to \in [1 .. n -> Seq(STRING)]
  BY <1>2, <1>3
<1>5. PICK R : R = UNION {ToSet(to[i]) : i \in 1 .. n}
  OBVIOUS
<1>6. IsFiniteSet(R) /\ R \subseteq STRING
  BY <1>4, <1>5, RoutesFinite
<1>7. UNION {ToSet(parts[i].route_to) : i \in DOMAIN parts} = R
  BY <1>1, <1>2, <1>5
<1>8. PICK s : s = SetToSeq(R)
  OBVIOUS
<1>9. s \in Seq(R) /\ ToSet(s) = R /\ Len(s) = Cardinality(R)
  BY <1>6, <1>8, ListedOnce
<1>10. s \in Seq(STRING)
  <2>1. Len(s) \in Nat /\ s \in [1 .. Len(s) -> R]
    BY <1>9, LenProperties
  <2>2. s \in [1 .. Len(s) -> STRING]
    BY <1>6, <2>1
  <2> QED
    BY <2>1, <2>2, SeqDef
<1>11. MergedRoutes(parts) = s
  BY <1>7, <1>8 DEF MergedRoutes
<1> QED
  BY <1>7, <1>9, <1>10, <1>11

(* The parts' keys and the count, and every key but that with the value of *)
(* the last part that has it.                                              *)
MergedFrom(md, parts) ==
    /\ DOMAIN md = {CountKey} \union UNION {DOMAIN parts[i].metadata : i \in DOMAIN parts}
    /\ \A i \in DOMAIN parts : \A k \in DOMAIN parts[i].metadata :
         \/ k = CountKey
         \/ \E j \in DOMAIN parts : j > i /\ k \in DOMAIN parts[j].metadata
         \/ md[k] = parts[i].metadata[k]

(* The metadata of a batch is metadata, and merged from the parts'. *)
LEMMA MergedMetadataLast ==
    ASSUME NEW parts, IsSeq(parts), Len(parts) \in 1 .. BatchSize,
           \A i \in 1 .. Len(parts) : Carried(parts[i])
    PROVE  LET md == Extend(MergedMetadata(parts), [k \in {CountKey} |-> ToString(Len(parts))])
           IN  IsMetadata(md) /\ MergedFrom(md, parts)
<1>1. PICK n \in Nat : n = Len(parts) /\ DOMAIN parts = 1 .. n
  BY SeqFacts
<1>2. ASSUME NEW i \in 1 .. n PROVE IsMetadata(parts[i].metadata)
  <2>1. PICK m : m = parts[i]
    OBVIOUS
  <2>2. Carried(m)
    BY <1>1, <2>1
  <2> QED
    BY <2>1, <2>2, MessageFields
<1>3. PICK f \in [0 .. n -> Metadata] : IsMerge(f, parts) /\ MergedMetadata(parts) = f[n]
  BY <1>1, <1>2, MergeLoop
<1>4. PICK own : own = [i \in 1 .. n |-> parts[i].metadata]
  OBVIOUS
<1>5. DOMAIN f[0] = {} /\ \A k \in 1 .. n : f[k] = Extend(f[k - 1], own[k])
  BY <1>1, <1>3, <1>4, NoMetadataKeeps DEF IsMerge
<1>6. PICK a, count : a = f[n] /\ count = [k \in {CountKey} |-> ToString(Len(parts))]
  OBVIOUS
<1>7. /\ \A key : key \in DOMAIN a <=> \E i \in 1 .. n : key \in DOMAIN own[i]
      /\ \A i \in 1 .. n : \A key \in DOMAIN own[i] :
           \/ \E j \in 1 .. n : j > i /\ key \in DOMAIN own[j]
           \/ a[key] = own[i][key]
  <2>1. LastWins(f[n], n, own)
    BY <1>5, MergeLast
  <2> QED
    BY <1>6, <2>1 DEF LastWins
<1>8. PICK md : md = Extend(a, count)
  OBVIOUS
<1>9. IsMetadata(md)
  <2>1. f[n] \in Metadata
    BY <1>1
  <2>2. IsMetadata(a)
    BY <1>6, <2>1, MetadataSet
  <2>3. ToString(Len(parts)) \in STRING /\ CountKey \in STRING
    BY AggregatorAssumption
  <2>4. IsMetadata(count)
    BY <1>6, <2>3 DEF IsMetadata
  <2> QED
    BY <1>8, <2>2, <2>4, ExtendKeeps
<1>10. DOMAIN md = DOMAIN a \union {CountKey} /\ \A k \in DOMAIN a : k # CountKey => md[k] = a[k]
  BY <1>6, <1>8 DEF Extend
<1>11. DOMAIN a = UNION {DOMAIN parts[i].metadata : i \in DOMAIN parts}
  <2>1. \A i \in 1 .. n : own[i] = parts[i].metadata
    BY <1>4
  <2>2. \A key : key \in UNION {DOMAIN parts[i].metadata : i \in DOMAIN parts}
                   <=> \E i \in 1 .. n : key \in DOMAIN own[i]
    BY <1>1, <2>1
  <2>3. \A key : key \in DOMAIN a <=> key \in UNION {DOMAIN parts[i].metadata : i \in DOMAIN parts}
    BY <1>7, <2>2
  <2> QED
    BY <2>3
<1>12. ASSUME NEW i \in 1 .. n, NEW k \in DOMAIN parts[i].metadata, k # CountKey,
              ~ \E j \in 1 .. n : j > i /\ k \in DOMAIN parts[j].metadata
       PROVE  md[k] = parts[i].metadata[k]
  <2>1. \A j \in 1 .. n : own[j] = parts[j].metadata
    BY <1>4
  <2>2. k \in DOMAIN own[i] /\ k \in DOMAIN a
    BY <1>7, <2>1
  <2>3. ~ \E j \in 1 .. n : j > i /\ k \in DOMAIN own[j]
    BY <1>12, <2>1
  <2>4. a[k] = own[i][k]
    BY <1>7, <2>2, <2>3
  <2> QED
    BY <1>10, <1>12, <2>1, <2>2, <2>4
<1>13. md = Extend(MergedMetadata(parts), [k \in {CountKey} |-> ToString(Len(parts))])
  BY <1>3, <1>6, <1>8
<1>14. MergedFrom(md, parts)
  BY <1>1, <1>10, <1>11, <1>12 DEF MergedFrom
<1> QED
  BY <1>9, <1>13, <1>14

(* Batches have a size. *)
LEMMA BatchSizeNat == BatchSize \in Nat /\ BatchSize # 0
BY AggregatorAssumption

(* What an aggregator makes of its parts is a message that carries their   *)
(* inputs.                                                                 *)
LEMMA CombineKeeps ==
    ASSUME NEW strategy \in AggregateStrategy, NEW parts, IsSeq(parts),
           Len(parts) \in 1 .. BatchSize, \A i \in 1 .. Len(parts) : Carried(parts[i])
    PROVE  LET whole == Combine(strategy, parts, FreshId(parts))
           IN  /\ Carried(whole)
               /\ whole.of = UNION {parts[i].of : i \in 1 .. Len(parts)}
<1>1. Len(parts) \in Nat /\ DOMAIN parts = 1 .. Len(parts) /\ Len(parts) > 0 /\ 1 \in 1 .. Len(parts)
  <2>1. Len(parts) \in Nat /\ DOMAIN parts = 1 .. Len(parts)
    BY SeqFacts
  <2>2. \A n \in 1 .. BatchSize : n > 0 /\ 1 \in 1 .. n
    BY BatchSizeNat
  <2> QED
    BY <2>1, <2>2
<1>2. PICK first : first = parts[1]
  OBVIOUS
<1>3. /\ first.id \in STRING /\ first.source \in STRING /\ first.source \in Source
      /\ first.message_type \in Seq(STRING) /\ first.of # {} /\ first.of \subseteq 1 .. MaxMessages
  <2>1. Carried(first)
    BY <1>1, <1>2
  <2> QED
    BY <2>1, MessageFields
<1>4. CommonSource(parts) \in Source /\ CommonSource(parts) \in STRING
  BY <1>2, <1>3, ChainAssumption, AggregatorAssumption DEF CommonSource
<1>5. FreshId(parts) \in STRING
  <2>1. PICK n : n = CHOOSE i \in first.of : TRUE
    OBVIOUS
  <2>2. n \in 1 .. MaxMessages
    BY <1>3, <2>1
  <2>3. ToString(n) \in STRING
    BY <2>2, ChainAssumption
  <2> QED
    BY <1>2, <2>1, <2>3 DEF FreshId
<1>6. Append(first.message_type, "aggregate") \in Seq(STRING)
  <2>1. "aggregate" \in STRING
    BY AggregatorAssumption
  <2> QED
    BY <1>3, <2>1, AppendProperties
<1>7. PICK md : md = Extend(MergedMetadata(parts), [k \in {CountKey} |-> ToString(Len(parts))])
  OBVIOUS
<1>8. IsMetadata(md)
  BY <1>7, MergedMetadataLast
<1>9. CombinedPayload(strategy, parts) \in Payload
  BY <1>1, CombinedPayloadType
<1>10. MergedRoutes(parts) \in Seq(STRING)
  BY MergedRoutesOnce
<1>11. PICK inputs : inputs = UNION {parts[i].of : i \in 1 .. Len(parts)}
  OBVIOUS
<1>12. inputs # {} /\ inputs \subseteq 1 .. MaxMessages
  <2>1. \A i \in 1 .. Len(parts) : parts[i].of \subseteq 1 .. MaxMessages
    BY DEF Carried
  <2>2. first.of \subseteq inputs
    BY <1>1, <1>2, <1>11
  <2> QED
    BY <1>3, <1>11, <2>1, <2>2
<1>13. inputs \subseteq Nat
  BY <1>12
<1>14. PICK whole : whole = Combine(strategy, parts, FreshId(parts))
  OBVIOUS
<1>15. whole = [id |-> FreshId(parts), source |-> CommonSource(parts),
                message_type |-> Append(first.message_type, "aggregate"), metadata |-> md,
                payload |-> CombinedPayload(strategy, parts),
                route_to |-> MergedRoutes(parts), of |-> inputs]
  BY <1>1, <1>2, <1>7, <1>11, <1>14 DEF Combine
<1>16. IsMessage(whole)
  BY <1>4, <1>5, <1>6, <1>8, <1>9, <1>10, <1>13, <1>15 DEF IsMessage, IsEnvelope
<1>17. Carried(whole) /\ whole.of = inputs
  BY <1>4, <1>12, <1>15, <1>16 DEF Carried
<1> QED
  BY <1>11, <1>14, <1>17

(* In a payload that is combined from the parts' every part's text is in   *)
(* one piece, behind the text of the parts before it.                      *)
LEMMA CombinedInOrder ==
    ASSUME NEW b, IsSeq(b.parts), Len(b.parts) > 0,
           \A i \in 1 .. Len(b.parts) : Carried(b.parts[i]),
           b.whole.payload = CombinedPayload(b.strategy, b.parts)
    PROVE  PayloadsKept(b)
<1>1. PICK parts, n : parts = b.parts /\ n = Len(parts)
  OBVIOUS
<1>2. IsSeq(parts) /\ n \in Nat /\ DOMAIN parts = 1 .. n /\ parts \in Seq(ToSet(parts))
  BY <1>1, SeqFacts DEF IsSeq
<1>3. \A i \in 1 .. n : parts[i] \in ToSet(parts)
  BY <1>2 DEF ToSet
<1>4. PICK text : text = [i \in 1 .. n |-> IF b.strategy = "Concat" \/ IsUtf8(parts[i])
                                           THEN parts[i].payload.content ELSE <<>>]
  OBVIOUS
<1>5. PICK whole : whole = b.whole.payload.content
  OBVIOUS
<1>6. ASSUME NEW share, whole = Gather(parts, share),
             \A m \in ToSet(parts) : share[m] \in Seq(STRING),
             \A i \in 1 .. n : text[i] \in Seq(STRING) /\ BeginsWith(text[i], share[parts[i]])
      PROVE  InOrder(text, whole)
  <2>1. PICK from \in [1 .. n -> 0 .. Len(whole)] :
          /\ \A i \in 1 .. n :
               /\ from[i] + Len(share[parts[i]]) <= Len(whole)
               /\ \A k \in 1 .. Len(share[parts[i]]) : whole[from[i] + k] = share[parts[i]][k]
          /\ \A i, j \in 1 .. n : i < j => from[i] + Len(share[parts[i]]) <= from[j]
    <3>1. \E from \in [1 .. Len(parts) -> 0 .. Len(Gather(parts, share))] :
            IsPlacement(from, parts, share, Gather(parts, share))
      BY <1>2, <1>6, GatherPlaces
    <3> QED
      BY <1>1, <1>6, <3>1, SMTT(30) DEF IsPlacement
  <2>2. Len(whole) \in Nat
    <3>1. whole \in Seq(STRING)
      BY <1>2, <1>6, GatherType
    <3> QED
      BY <3>1, LenProperties
  <2>3. ASSUME NEW i \in 1 .. n
        PROVE  /\ from[i] \in Nat /\ Len(text[i]) \in Nat /\ Len(share[parts[i]]) \in Nat
               /\ Len(text[i]) <= Len(share[parts[i]]) /\ DOMAIN text[i] = 1 .. Len(text[i])
               /\ \A k \in 1 .. Len(text[i]) : share[parts[i]][k] = text[i][k]
    <3>1. PICK c, d : c = text[i] /\ d = share[parts[i]]
      OBVIOUS
    <3>2. c \in Seq(STRING) /\ BeginsWith(c, d)
      BY <1>6, <3>1
    <3>3. DOMAIN c = 1 .. Len(c)
      BY <3>2, LenProperties
    <3>4. from[i] \in Nat
      BY <2>2
    <3> QED
      BY <3>1, <3>2, <3>3, <3>4 DEF BeginsWith
  <2>4. ASSUME NEW i \in 1 .. n, NEW k \in DOMAIN text[i]
        PROVE  from[i] + k <= Len(whole) /\ whole[from[i] + k] = text[i][k]
    <3>1. PICK f, p, q \in Nat : f = from[i] /\ p = Len(text[i]) /\ q = Len(share[parts[i]])
      BY <2>3
    <3>2. k \in 1 .. p /\ p <= q /\ f + q <= Len(whole)
      BY <2>1, <2>3, <3>1
    <3>3. k \in 1 .. q /\ f + k <= Len(whole)
      BY <2>2, <3>2
    <3>4. whole[f + k] = share[parts[i]][k] /\ share[parts[i]][k] = text[i][k]
      BY <2>1, <2>3, <3>1, <3>2, <3>3
    <3> QED
      BY <3>1, <3>3, <3>4
  <2>5. ASSUME NEW i \in 1 .. n, NEW j \in 1 .. n, i < j
        PROVE  from[i] + Len(text[i]) <= from[j]
    <3>1. PICK f, g, p, q \in Nat :
            f = from[i] /\ g = from[j] /\ p = Len(text[i]) /\ q = Len(share[parts[i]])
      BY <2>3
    <3>2. p <= q /\ f + q <= g
      BY <2>1, <2>3, <2>5, <3>1
    <3>3. f + p <= g
      BY <3>2
    <3> QED
      BY <3>1, <3>3
  <2>6. DOMAIN text = 1 .. n
    BY <1>4
  <2> QED
    BY <2>4, <2>5, <2>6 DEF InOrder
<1>7. ASSUME NEW i \in 1 .. n
      PROVE  Carried(parts[i]) /\ parts[i].payload \in Payload /\ parts[i].payload.content \in Seq(STRING)
  <2>1. PICK m : m = parts[i]
    OBVIOUS
  <2>2. Carried(m) /\ m \in ToSet(parts)
    BY <1>1, <1>3, <2>1
  <2>3. m.payload \in Payload
    BY <2>2, MessageFields
  <2>4. m.payload.content \in Seq(STRING)
    BY <2>3 DEF Payload
  <2> QED
    BY <2>1, <2>2, <2>3, <2>4
<1>8. ASSUME b.strategy = "Concat" PROVE InOrder(text, whole)
  <2>1. whole = Gather(parts, Lines(parts))
    BY <1>1, <1>5, <1>8 DEF CombinedPayload
  <2>2. \A m \in ToSet(parts) : /\ Lines(parts)[m] = Append(m.payload.content, "newline")
                                /\ Lines(parts)[m] \in Seq(STRING)
    BY <1>2, <1>1, <1>7, PartShares
  <2>3. ASSUME NEW i \in 1 .. n
        PROVE  text[i] \in Seq(STRING) /\ BeginsWith(text[i], Lines(parts)[parts[i]])
    <3>1. PICK c : c = parts[i].payload.content
      OBVIOUS
    <3>2. text[i] = c /\ Lines(parts)[parts[i]] = Append(c, "newline") /\ c \in Seq(STRING)
      BY <1>3, <1>4, <1>7, <1>8, <2>2, <3>1
    <3>3. IsSeq(c)
      BY <3>2, SeqOwnRange
    <3>4. BeginsWith(c, Append(c, "newline"))
      BY <3>3, SeqFacts DEF BeginsWith
    <3> QED
      BY <3>2, <3>4
  <2> QED
    BY <1>6, <2>1, <2>2, <2>3
<1>9. ASSUME b.strategy = "JsonArray" PROVE InOrder(text, whole)
  <2>1. PICK share : share = [m \in ToSet(parts) |-> JsonEntry(m)]
    OBVIOUS
  <2>2. whole = Gather(parts, share)
    BY <1>1, <1>5, <1>9, <2>1 DEF CombinedPayload
  <2>3. \A m \in ToSet(parts) : share[m] = JsonEntry(m) /\ share[m] \in Seq(STRING)
    BY <1>1, <1>2, <1>7, <2>1, PartShares
  <2>4. ASSUME NEW i \in 1 .. n
        PROVE  text[i] \in Seq(STRING) /\ BeginsWith(text[i], share[parts[i]])
    <3>1. PICK c, d, form : /\ c = parts[i].payload.content /\ d = share[parts[i]]
                            /\ form = parts[i].payload.form
      OBVIOUS
    <3>2. /\ c \in Seq(STRING) /\ d \in Seq(STRING) /\ form \in Form /\ (form = "empty" => c = <<>>)
          /\ d = IF form \in {"json", "text"} THEN c ELSE <<"">>
      BY <1>3, <1>7, <2>3, <3>1 DEF Payload, JsonEntry
    <3>3. text[i] = IF form # "binary" THEN c ELSE <<>>
      BY <1>4, <1>9, <3>1 DEF IsUtf8
    <3>4. Len(c) \in Nat /\ Len(d) \in Nat /\ Len(<<>>) = 0 /\ <<>> \in Seq(STRING)
      BY <3>2, LenProperties, EmptySeq
    <3>5. CASE form \in {"json", "text"}
      <4>1. text[i] = c /\ d = c
        BY <3>2, <3>3, <3>5
      <4>2. BeginsWith(c, c)
        BY <3>4 DEF BeginsWith
      <4> QED
        BY <3>1, <3>2, <4>1, <4>2
    <3>6. CASE form \in {"empty", "binary"}
      <4>1. text[i] = <<>>
        BY <3>2, <3>3, <3>6
      <4> QED
        BY <3>1, <3>4, <4>1 DEF BeginsWith
    <3> QED
      BY <3>2, <3>5, <3>6 DEF Form
  <2> QED
    BY <1>6, <2>2, <2>3, <2>4
<1>10. text = [i \in DOMAIN b.parts |-> IF b.strategy = "Concat" \/ IsUtf8(b.parts[i])
                                        THEN b.parts[i].payload.content ELSE <<>>]
  BY <1>1, <1>2, <1>4
<1> QED
  BY <1>5, <1>8, <1>9, <1>10 DEF PayloadsKept

(* What the aggregator records of a batch: its parts, as they were taken   *)
(* from the buffer, and what combine() made of them.                       *)
IsBatch(b) ==
    /\ b.strategy \in AggregateStrategy
    /\ IsSeq(b.parts) /\ Len(b.parts) \in 1 .. BatchSize
    /\ \A i \in 1 .. Len(b.parts) : Carried(b.parts[i])
    /\ b.whole = Combine(b.strategy, b.parts, FreshId(b.parts))

(* A batch stands for its parts, whatever they are. *)
LEMMA BatchSpeaks ==
    ASSUME NEW b, IsBatch(b)
    PROVE  RoutesOfParts(b) /\ MetadataOfLast(b) /\ PayloadsKept(b)
<1>1. PICK parts, strategy, whole : parts = b.parts /\ strategy = b.strategy /\ whole = b.whole
  OBVIOUS
<1>2. /\ strategy \in AggregateStrategy /\ IsSeq(parts) /\ Len(parts) \in 1 .. BatchSize
      /\ \A i \in 1 .. Len(parts) : Carried(parts[i])
      /\ whole = Combine(strategy, parts, FreshId(parts))
  BY <1>1 DEF IsBatch
<1>3. Len(parts) \in Nat /\ DOMAIN parts = 1 .. Len(parts) /\ Len(parts) > 0 /\ 1 \in 1 .. Len(parts)
  <2>1. Len(parts) \in Nat /\ DOMAIN parts = 1 .. Len(parts)
    BY <1>2, SeqFacts
  <2>2. \A n \in 1 .. BatchSize : n > 0 /\ 1 \in 1 .. n
    BY BatchSizeNat
  <2> QED
    BY <1>2, <2>1, <2>2
<1>4. /\ whole.route_to = MergedRoutes(parts)
      /\ whole.payload = CombinedPayload(strategy, parts)
      /\ whole.metadata = Extend(MergedMetadata(parts), [k \in {CountKey} |-> ToString(Len(parts))])
  BY <1>2 DEF Combine
<1>5. RoutesOfParts(b)
  <2>1. PICK routes : routes = UNION {ToSet(parts[i].route_to) : i \in DOMAIN parts}
    OBVIOUS
  <2>2. PICK to : to = whole.route_to
    OBVIOUS
  <2>3. to \in Seq(STRING) /\ ToSet(to) = routes /\ Len(to) = Cardinality(routes)
    BY <1>2, <1>4, <2>1, <2>2, MergedRoutesOnce
  <2>4. ASSUME NEW e, ShouldRouteTo(whole, e)
        PROVE  \E i \in DOMAIN parts : ShouldRouteTo(parts[i], e)
    <3>1. CASE e \in ToSet(to)
      <4>1. PICK i \in DOMAIN parts : e \in ToSet(parts[i].route_to)
        BY <2>1, <2>3, <3>1
      <4> QED
        BY <4>1 DEF ShouldRouteTo
    <3>2. CASE to = <<>>
      <4>1. ToSet(to) = {}
        BY <3>2, EmptySeq DEF ToSet
      <4>2. PICK r : r = parts[1].route_to
        OBVIOUS
      <4>3. r \in Seq(STRING)
        <5>1. PICK m : m = parts[1]
          OBVIOUS
        <5>2. Carried(m)
          BY <1>2, <1>3, <5>1
        <5> QED
          BY <4>2, <5>1, <5>2, MessageFields
      <4>4. ToSet(r) = {}
        BY <1>3, <2>1, <2>3, <4>1, <4>2
      <4>5. r = <<>>
        <5>1. Len(r) \in Nat /\ DOMAIN r = 1 .. Len(r)
          BY <4>3, LenProperties
        <5>2. Len(r) = 0
          <6>1. SUFFICES ASSUME Len(r) > 0 PROVE FALSE
            BY <5>1
          <6>2. r[1] \in ToSet(r)
            BY <5>1, <6>1 DEF ToSet
          <6> QED
            BY <4>4, <6>2
        <5> QED
          BY <4>3, <5>2, EmptySeq
      <4>6. ShouldRouteTo(parts[1], e)
        BY <4>2, <4>5 DEF ShouldRouteTo
      <4> QED
        BY <1>3, <4>6
    <3> QED
      BY <2>2, <2>4, <3>1, <3>2 DEF ShouldRouteTo
  <2> QED
    BY <1>1, <2>1, <2>2, <2>3, <2>4 DEF RoutesOfParts
<1>6. MetadataOfLast(b)
  <2>1. PICK md : md = whole.metadata
    OBVIOUS
  <2>2. MergedFrom(md, parts)
    BY <1>2, <1>4, <2>1, MergedMetadataLast
  <2> QED
    BY <1>1, <2>1, <2>2 DEF MergedFrom, MetadataOfLast
<1>7. PayloadsKept(b)
  BY <1>1, <1>2, <1>3, <1>4, CombinedInOrder
<1> QED
  BY <1>5, <1>6, <1>7

(* The tasks: what each has in its hand is a message or nothing. *)
TasksOk ==
    /\ chain \in Chains
    /\ hand = [t \in Task |-> hand[t]] /\ at \in [Task -> 0 .. Len(chain)]
    /\ \A t \in Task : IF at[t] = 0 THEN hand[t] = Idle ELSE Carried(hand[t])

(* The aggregator: it holds less than a batch, and what it made are batches. *)
HeldOk ==
    /\ IsSeq(buffer) /\ Len(buffer) < BatchSize
    /\ \A i \in 1 .. Len(buffer) : Carried(buffer[i])
    /\ IsSeq(batches) /\ \A i \in 1 .. Len(batches) : IsBatch(batches[i])

(* The outcomes: they are of messages that exist. *)
CountsOk ==
    /\ taken \in 0 .. MaxMessages
    /\ filtered \subseteq 1 .. MaxMessages
    /\ delivered \in [1 .. MaxMessages -> Nat]

FlowInv == TasksOk /\ HeldOk /\ CountsOk

(* What is known of the chain: its stages are stages. *)
LEMMA ChainStages ==
    ASSUME FlowInv
    PROVE  /\ Len(chain) \in Nat /\ DOMAIN chain = 1 .. Len(chain)
           /\ \A i \in 1 .. Len(chain) : IsStage(chain[i])
           /\ \A t \in Task : at[t] # 0 => IsStage(Stage(t)) /\ Carried(hand[t])
<1>1. /\ Len(chain) \in Nat /\ DOMAIN chain = 1 .. Len(chain)
      /\ \A i \in 1 .. Len(chain) : IsStage(chain[i])
  BY ChainAssumption DEF FlowInv, TasksOk, HeldOk, CountsOk
<1>2. ASSUME NEW t \in Task, at[t] # 0 PROVE IsStage(Stage(t)) /\ Carried(hand[t])
  <2>1. at[t] \in 1 .. Len(chain)
    BY <1>1, <1>2 DEF FlowInv, TasksOk, HeldOk, CountsOk
  <2>2. IsStage(Stage(t))
    BY <1>1, <2>1 DEF Stage
  <2>3. Carried(hand[t])
    BY <1>2 DEF FlowInv, TasksOk, HeldOk, CountsOk
  <2> QED
    BY <2>2, <2>3
<1> QED
  BY <1>1, <1>2

(* The last entry of the record of batches is a new batch. *)
Recorded == \E b : IsBatch(b) /\ batches' = Append(batches, b)

(* What an aggregator returns: LastWhole' is the message it has just made, *)
(* of the parts it records.                                                *)
LEMMA TakeReturns ==
    ASSUME IsSeq(batches), NEW strategy \in AggregateStrategy, NEW parts, IsSeq(parts),
           Len(parts) \in 1 .. BatchSize, \A i \in 1 .. Len(parts) : Carried(parts[i]),
           TakeBatch(strategy, parts)
    PROVE  /\ Carried(LastWhole')
           /\ (LastWhole').of = UNION {parts[i].of : i \in 1 .. Len(parts)}
           /\ Recorded /\ buffer' = <<>>
<1>1. PICK whole : whole = Combine(strategy, parts, FreshId(parts))
  OBVIOUS
<1>2. PICK b : /\ batches' = Append(batches, b)
               /\ b = [parts |-> parts, strategy |-> strategy, whole |-> whole]
  BY <1>1 DEF TakeBatch, Record
<1>3. b.parts = parts /\ b.strategy = strategy /\ b.whole = whole
  BY <1>2
<1>4. IsBatch(b)
  BY <1>1, <1>3 DEF IsBatch
<1>5. Last(batches') = b
  BY <1>2, SeqFacts
<1>6. LastWhole' = whole
  BY <1>3, <1>5 DEF LastWhole
<1>7. Carried(whole) /\ whole.of = UNION {parts[i].of : i \in 1 .. Len(parts)}
  BY <1>1, CombineKeeps
<1> QED
  BY <1>2, <1>4, <1>6, <1>7 DEF Recorded, TakeBatch

(* What can happen to the messages in one step: one enters, passes a       *)
(* stage, is dropped or is held; the held ones leave as one message, with  *)
(* the one that completes them or on a flush.                              *)
Enter(t, x) ==
    /\ at[t] = 0 /\ taken < MaxMessages /\ taken' = taken + 1
    /\ Carried(x) /\ x.of = {taken + 1} /\ Advance(t, x)
    /\ UNCHANGED <<filtered, buffer, batches>>

Pass(t, x) ==
    /\ at[t] # 0 /\ Carried(x) /\ x.of = hand[t].of /\ Advance(t, x)
    /\ UNCHANGED <<taken, filtered, buffer, batches>>

Drop(t) == at[t] # 0 /\ Filter(t) /\ UNCHANGED <<buffer, batches>>

Put(t) ==
    /\ at[t] # 0 /\ Release(t)
    /\ Len(buffer) + 1 < BatchSize /\ buffer' = Append(buffer, hand[t])
    /\ UNCHANGED <<batches, taken, filtered, delivered>>

Join(t, x) ==
    /\ at[t] # 0 /\ Carried(x) /\ Advance(t, x)
    /\ x.of = (UNION {buffer[i].of : i \in 1 .. Len(buffer)}) \union hand[t].of
    /\ buffer' = <<>> /\ Recorded /\ UNCHANGED <<taken, filtered>>

Leave(x) ==
    /\ Deliver(x) /\ x.of = UNION {buffer[i].of : i \in 1 .. Len(buffer)}
    /\ buffer' = <<>> /\ Recorded /\ UNCHANGED <<hand, at, taken, filtered>>

(* What one step of a task does to the messages in the chain. *)
LEMMA MessageMoves ==
    ASSUME FlowInv, [Next]_vars
    PROVE  /\ chain' = chain
           /\ \/ UNCHANGED <<taskVars, aggregatorVars>>
              \/ \E t \in Task : \/ Drop(t) \/ Put(t)
                                 \/ \E x : Enter(t, x) \/ Pass(t, x) \/ Join(t, x)
              \/ \E x : Leave(x)
<1> USE DEF aggregatorVars
<1>1. ASSUME NEW t \in Task, Bring(t) PROVE chain' = chain /\ \E x : Enter(t, x)
  <2>1. PICK m \in Inputs(chain) : Advance(t, [m EXCEPT !.of = {taken + 1}])
    BY <1>1 DEF Bring
  <2>2. IsMessage(m) /\ m.source \in Source
    BY ChainAssumption DEF FlowInv, TasksOk, HeldOk, CountsOk
  <2>3. PICK x : x = [m EXCEPT !.of = {taken + 1}]
    OBVIOUS
  <2>4. Carried(x) /\ x.of = {taken + 1}
    <3>1. PICK new : new = {taken + 1}
      OBVIOUS
    <3>2. new # {} /\ new \subseteq 1 .. MaxMessages /\ new \subseteq Nat
      <4>1. taken \in Nat /\ taken < MaxMessages /\ MaxMessages \in Nat
        BY <1>1, ChainAssumption DEF Bring, FlowInv, TasksOk, HeldOk, CountsOk
      <4> QED
        BY <3>1, <4>1
    <3>3. x = [id |-> m.id, source |-> m.source, message_type |-> m.message_type,
               metadata |-> m.metadata, payload |-> m.payload, route_to |-> m.route_to,
               of |-> new]
      BY <2>2, <2>3, <3>1 DEF IsMessage, IsEnvelope
    <3>4. x.of = new
      BY <3>3
    <3>5. IsMessage(x) /\ x.source \in Source
      BY <2>2, <3>2, <3>3 DEF IsMessage, IsEnvelope
    <3> QED
      BY <3>1, <3>2, <3>4, <3>5 DEF Carried
  <2>5. chain' = chain /\ Enter(t, x)
    BY <1>1, <2>1, <2>3, <2>4 DEF Bring, Enter
  <2> QED
    BY <2>5
<1>2. ASSUME NEW t \in Task, at[t] # 0, NEW ok \in BOOLEAN, Return(t, ok),
             UNCHANGED <<buffer, batches>>
      PROVE  Drop(t) \/ \E x : Pass(t, x)
  <2>1. Carried(hand[t])
    BY <1>2 DEF FlowInv, TasksOk, HeldOk, CountsOk
  <2>2. CASE ok
    <3>1. Pass(t, hand[t])
      BY <1>2, <2>1, <2>2 DEF Return, Pass
    <3> QED
      BY <3>1
  <2>3. CASE ~ok
    BY <1>2, <2>3 DEF Return, Drop
  <2> QED
    BY <2>2, <2>3
<1>3. ASSUME NEW t \in Task, PureStage(t)
      PROVE  chain' = chain /\ (Drop(t) \/ \E x : Pass(t, x))
  <2>1. /\ at[t] # 0 /\ Stage(t).mw \in Pure /\ chain' = chain /\ UNCHANGED <<buffer, batches>>
    BY <1>3 DEF PureStage
  <2>2. Carried(hand[t]) /\ IsStage(Stage(t))
    BY <2>1, ChainStages
  <2>3. CASE Processed(Stage(t), hand[t]) = <<>>
    <3>1. Filter(t)
      BY <1>3, <2>3 DEF PureStage
    <3> QED
      BY <2>1, <3>1 DEF Drop
  <2>4. ASSUME NEW x, Processed(Stage(t), hand[t]) = <<x>>, Carried(x), x.of = hand[t].of
        PROVE  Pass(t, x)
    <3>1. <<x>> # <<>> /\ <<x>>[1] = x
      OBVIOUS
    <3>2. Advance(t, x) /\ UNCHANGED <<taken, filtered>>
      BY <1>3, <2>4, <3>1 DEF PureStage
    <3> QED
      BY <2>1, <2>4, <3>2 DEF Pass
  <2>5. \/ Processed(Stage(t), hand[t]) = <<>>
        \/ \E x : Processed(Stage(t), hand[t]) = <<x>> /\ Carried(x) /\ x.of = hand[t].of
    BY <2>1, <2>2, ProcessedKeeps
  <2> QED
    BY <2>1, <2>3, <2>4, <2>5
<1>4. ASSUME NEW t \in Task, ThrottleStage(t)
      PROVE  chain' = chain /\ (UNCHANGED <<taskVars, buffer, batches>>
                                  \/ Drop(t) \/ \E x : Pass(t, x))
  BY <1>2, <1>4 DEF ThrottleStage, AtStage
<1>5. ASSUME NEW t \in Task, DedupStage(t)
      PROVE  chain' = chain /\ (UNCHANGED <<taskVars, buffer, batches>>
                                  \/ Drop(t) \/ \E x : Pass(t, x))
  BY <1>2, <1>5 DEF DedupStage, AtStage
<1>6. ASSUME NEW t \in Task, SamplerStage(t)
      PROVE  chain' = chain /\ (UNCHANGED <<taskVars, buffer, batches>>
                                  \/ Drop(t) \/ \E x : Pass(t, x))
  BY <1>2, <1>6 DEF SamplerStage, AtStage
<1>7. ASSUME NEW t \in Task, AggregatorStage(t)
      PROVE  chain' = chain /\ (Put(t) \/ \E x : Join(t, x))
  <2>1. at[t] # 0 /\ chain' = chain /\ UNCHANGED <<taken, filtered>>
    BY <1>7 DEF AggregatorStage, AtStage
  <2>2. CASE Hold(hand[t]) /\ Release(t) /\ UNCHANGED delivered
    BY <2>1, <2>2 DEF Hold, Put
  <2>3. CASE Complete(Stage(t).strategy, hand[t]) /\ Advance(t, LastWhole')
    <3>1. PICK parts : parts = Append(buffer, hand[t])
      OBVIOUS
    <3>2. TakeBatch(Stage(t).strategy, parts) /\ Stage(t).strategy \in AggregateStrategy
      <4>1. TakeBatch(Stage(t).strategy, parts)
        BY <2>3, <3>1 DEF Complete
      <4>2. IsStage(Stage(t)) /\ Stage(t).mw = "aggregator"
        BY <1>7, <2>1, ChainStages DEF AggregatorStage, AtStage
      <4> QED
        BY <4>1, <4>2 DEF IsStage
    <3>3. PICK x : x = LastWhole'
      OBVIOUS
    <3>5. /\ Len(buffer) \in Nat /\ IsSeq(parts) /\ Len(parts) = Len(buffer) + 1
          /\ \A i \in 1 .. Len(buffer) : parts[i] = buffer[i]
          /\ parts[Len(buffer) + 1] = hand[t]
      BY <3>1, SeqFacts DEF FlowInv, TasksOk, HeldOk, CountsOk
    <3>6. \A i \in 1 .. Len(parts) : Carried(parts[i])
      BY <2>1, <3>5 DEF FlowInv, TasksOk, HeldOk, CountsOk
    <3>4. Len(parts) \in 1 .. BatchSize
      BY <3>5, BatchSizeNat DEF FlowInv, TasksOk, HeldOk, CountsOk
    <3>7. /\ Carried(x) /\ x.of = UNION {parts[i].of : i \in 1 .. Len(parts)}
          /\ Recorded /\ buffer' = <<>>
      <4>1. IsSeq(batches)
        BY DEF FlowInv, TasksOk, HeldOk, CountsOk
      <4> QED
        BY <3>2, <3>3, <3>4, <3>5, <3>6, <4>1, TakeReturns
    <3>8. UNION {parts[i].of : i \in 1 .. Len(parts)}
            = (UNION {buffer[i].of : i \in 1 .. Len(buffer)}) \union hand[t].of
      <4>1. ASSUME NEW n
            PROVE  n \in UNION {parts[i].of : i \in 1 .. Len(parts)}
                     <=> n \in (UNION {buffer[i].of : i \in 1 .. Len(buffer)}) \union hand[t].of
        <5>1. n \in UNION {parts[i].of : i \in 1 .. Len(parts)}
                <=> \E i \in 1 .. Len(parts) : n \in parts[i].of
          BY Zenon
        <5>2. n \in UNION {buffer[i].of : i \in 1 .. Len(buffer)}
                <=> \E i \in 1 .. Len(buffer) : n \in buffer[i].of
          BY Zenon
        <5>3. (\E i \in 1 .. Len(parts) : n \in parts[i].of)
                <=> (\E i \in 1 .. Len(buffer) : n \in buffer[i].of) \/ n \in hand[t].of
          BY <3>5
        <5> QED
          BY <5>1, <5>2, <5>3
      <4> QED
        BY <4>1, Zenon
    <3>9. Join(t, x)
      BY <2>1, <2>3, <3>3, <3>7, <3>8 DEF Join
    <3> QED
      BY <2>1, <3>9
  <2> QED
    BY <1>7, <2>2, <2>3 DEF AggregatorStage
<1>8. CASE FlushPending
  <2>1. PICK i \in DOMAIN chain : chain[i].mw = "aggregator" /\ Flush(chain[i].strategy)
    BY <1>8 DEF FlushPending
  <2>2. PICK strategy \in AggregateStrategy : Flush(strategy)
    <3>1. IsStage(chain[i])
      BY ChainStages
    <3> QED
      BY <2>1, <3>1 DEF IsStage
  <2>3. buffer # <<>> /\ TakeBatch(strategy, buffer)
    BY <2>2 DEF Flush
  <2>4. PICK x : x = LastWhole'
    OBVIOUS
  <2>5. Len(buffer) \in 1 .. BatchSize
    <3>1. Len(buffer) \in Nat /\ Len(buffer) # 0
      BY <2>3, EmptySeq, SeqFacts DEF FlowInv, TasksOk, HeldOk, CountsOk, IsSeq
    <3> QED
      BY <3>1, BatchSizeNat DEF FlowInv, TasksOk, HeldOk, CountsOk
  <2>6. x.of = UNION {buffer[j].of : j \in 1 .. Len(buffer)} /\ Recorded /\ buffer' = <<>>
    <3>1. IsSeq(batches) /\ IsSeq(buffer) /\ \A j \in 1 .. Len(buffer) : Carried(buffer[j])
      BY DEF FlowInv, TasksOk, HeldOk, CountsOk
    <3> QED
      BY <2>3, <2>4, <2>5, <3>1, TakeReturns
  <2>7. chain' = chain /\ Deliver(x) /\ UNCHANGED <<hand, at, taken, filtered>>
    BY <1>8, <2>4 DEF FlushPending
  <2>8. Leave(x)
    BY <2>6, <2>7 DEF Leave
  <2> QED
    BY <2>7, <2>8
<1>9. CASE Time
  BY <1>9 DEF Time
<1>10. CASE UNCHANGED vars
  BY <1>10 DEF vars
<1> QED
  BY <1>1, <1>3, <1>4, <1>5, <1>6, <1>7, <1>8, <1>9, <1>10 DEF Next

(* Every step keeps the invariant of the flow. *)
LEMMA FlowStep ==
    ASSUME FlowInv, [Next]_vars
    PROVE  FlowInv'
<1>0. chain' = chain /\ MaxMessages \in Nat /\ Len(chain) \in Nat
  BY MessageMoves, ChainAssumption, ChainStages
<1>1. ASSUME NEW x, Deliver(x) PROVE delivered' \in [1 .. MaxMessages -> Nat]
  BY <1>1 DEF Deliver, FlowInv, CountsOk
<1>2. ASSUME NEW t \in Task, Release(t) PROVE TasksOk'
  <2>1. /\ hand' = [u \in Task |-> hand'[u]] /\ at' \in [Task -> 0 .. Len(chain)]
        /\ \A u \in Task : IF at'[u] = 0 THEN hand'[u] = Idle ELSE Carried(hand'[u])
    BY <1>0, <1>2 DEF Release, FlowInv, TasksOk
  <2> QED
    BY <1>0, <2>1 DEF FlowInv, TasksOk
<1>3. ASSUME NEW t \in Task, NEW x, Carried(x), Advance(t, x)
      PROVE  TasksOk' /\ delivered' \in [1 .. MaxMessages -> Nat]
  <2>1. CASE at[t] = Len(chain)
    BY <1>1, <1>2, <1>3, <2>1 DEF Advance
  <2>2. CASE at[t] # Len(chain)
    <3>1. /\ hand' = [hand EXCEPT ![t] = x] /\ at' = [at EXCEPT ![t] = @ + 1]
          /\ delivered' = delivered
      BY <1>3, <2>2 DEF Advance
    <3>2. /\ hand' = [u \in Task |-> hand'[u]] /\ hand'[t] = x
          /\ \A u \in Task \ {t} : hand'[u] = hand[u]
      <4>1. hand = [u \in Task |-> hand[u]]
        BY DEF FlowInv, TasksOk
      <4> QED
        BY <3>1, <4>1
    <3>3. at[t] + 1 \in 0 .. Len(chain) /\ at[t] + 1 # 0
      BY <1>0, <2>2 DEF FlowInv, TasksOk
    <3>4. /\ at' \in [Task -> 0 .. Len(chain)] /\ at'[t] = at[t] + 1
          /\ \A u \in Task \ {t} : at'[u] = at[u]
      BY <3>1, <3>3 DEF FlowInv, TasksOk
    <3>5. \A u \in Task : IF at'[u] = 0 THEN hand'[u] = Idle ELSE Carried(hand'[u])
      BY <1>3, <3>2, <3>3, <3>4 DEF FlowInv, TasksOk
    <3> QED
      BY <1>0, <3>1, <3>2, <3>4, <3>5 DEF FlowInv, TasksOk, CountsOk
  <2> QED
    BY <2>1, <2>2
<1>4. ASSUME buffer' = <<>>, Recorded PROVE HeldOk'
  <2>1. IsSeq(<<>>) /\ Len(<<>>) = 0
    <3>1. \A S : <<>> \in Seq(S) /\ Len(<<>>) = 0
      BY EmptySeq
    <3> QED
      BY <3>1 DEF IsSeq
  <2>2. PICK b : IsBatch(b) /\ batches' = Append(batches, b)
    BY <1>4 DEF Recorded
  <2>3. IsSeq(batches) /\ \A i \in 1 .. Len(batches) : IsBatch(batches[i])
    BY DEF FlowInv, HeldOk
  <2>4. /\ Len(batches) \in Nat /\ IsSeq(batches') /\ Len(batches') = Len(batches) + 1
        /\ \A i \in 1 .. Len(batches) : batches'[i] = batches[i]
        /\ batches'[Len(batches) + 1] = b
    BY <2>2, <2>3, SeqFacts
  <2>5. \A i \in 1 .. Len(batches') : IsBatch(batches'[i])
    BY <2>2, <2>3, <2>4
  <2> QED
    BY <1>4, <2>1, <2>4, <2>5, BatchSizeNat DEF HeldOk
<1>5. ASSUME UNCHANGED <<buffer, batches>> PROVE HeldOk'
  BY <1>5 DEF FlowInv, HeldOk
<1>6. ASSUME NEW t \in Task, NEW x, Enter(t, x) PROVE FlowInv'
  <2>1. TasksOk' /\ HeldOk' /\ delivered' \in [1 .. MaxMessages -> Nat]
    BY <1>3, <1>5, <1>6 DEF Enter
  <2>2. taken' \in 0 .. MaxMessages /\ filtered' = filtered
    BY <1>0, <1>6 DEF Enter, FlowInv, CountsOk
  <2> QED
    BY <2>1, <2>2 DEF FlowInv, CountsOk
<1>7. ASSUME NEW t \in Task, NEW x, Pass(t, x) PROVE FlowInv'
  <2>1. TasksOk' /\ HeldOk' /\ delivered' \in [1 .. MaxMessages -> Nat]
    BY <1>3, <1>5, <1>7 DEF Pass
  <2> QED
    BY <1>7, <2>1 DEF Pass, FlowInv, CountsOk
<1>8. ASSUME NEW t \in Task, Drop(t) PROVE FlowInv'
  <2>1. TasksOk' /\ HeldOk'
    BY <1>2, <1>5, <1>8 DEF Drop, Filter
  <2>2. Carried(hand[t])
    BY <1>8, ChainStages DEF Drop
  <2>3. hand[t].of \subseteq 1 .. MaxMessages
    BY <2>2, MessageFields
  <2>4. filtered' \subseteq 1 .. MaxMessages
    BY <1>8, <2>3 DEF Drop, Filter, FlowInv, CountsOk
  <2> QED
    BY <1>8, <2>1, <2>4 DEF Drop, Filter, FlowInv, CountsOk
<1>9. ASSUME NEW t \in Task, Put(t) PROVE FlowInv'
  <2>1. /\ Len(buffer) \in Nat /\ IsSeq(buffer') /\ Len(buffer') = Len(buffer) + 1
        /\ \A i \in 1 .. Len(buffer) : buffer'[i] = buffer[i]
        /\ buffer'[Len(buffer) + 1] = hand[t]
    BY <1>9, SeqFacts DEF Put, FlowInv, HeldOk
  <2>2. Carried(hand[t])
    BY <1>9, ChainStages DEF Put
  <2>3. \A i \in 1 .. Len(buffer') : Carried(buffer'[i])
    BY <2>1, <2>2 DEF FlowInv, HeldOk
  <2>4. TasksOk'
    BY <1>2, <1>9 DEF Put
  <2>5. HeldOk'
    BY <1>9, <2>1, <2>3 DEF Put, FlowInv, HeldOk
  <2> QED
    BY <1>9, <2>4, <2>5 DEF Put, FlowInv, CountsOk
<1>10. ASSUME NEW t \in Task, NEW x, Join(t, x) PROVE FlowInv'
  <2>1. TasksOk' /\ HeldOk' /\ delivered' \in [1 .. MaxMessages -> Nat]
    BY <1>3, <1>4, <1>10 DEF Join
  <2> QED
    BY <1>10, <2>1 DEF Join, FlowInv, CountsOk
<1>11. ASSUME NEW x, Leave(x) PROVE FlowInv'
  <2>1. HeldOk' /\ delivered' \in [1 .. MaxMessages -> Nat]
    BY <1>1, <1>4, <1>11 DEF Leave
  <2>2. TasksOk'
    BY <1>0, <1>11 DEF Leave, FlowInv, TasksOk
  <2> QED
    BY <1>11, <2>1, <2>2 DEF Leave, FlowInv, CountsOk
<1>12. CASE UNCHANGED <<taskVars, aggregatorVars>>
  BY <1>0, <1>12 DEF taskVars, aggregatorVars, FlowInv, TasksOk, HeldOk, CountsOk
<1> QED
  BY <1>6, <1>7, <1>8, <1>9, <1>10, <1>11, <1>12, MessageMoves

-------------------------------------------------------------------------------
(* No message is lost or duplicated. *)

Holders(n) == {t \in Task : at[t] # 0 /\ n \in hand[t].of}

Held(n) == {i \in DOMAIN buffer : n \in buffer[i].of}

One(p) == IF p THEN 1 ELSE 0

(* The four places of a message. *)
LEMMA TimesParts ==
    ASSUME NEW n
    PROVE  /\ Times(n) = Cardinality(Holders(n)) + Cardinality(Held(n))
                           + One(n \in filtered) + delivered[n]
           /\ Times(n)' = Cardinality(Holders(n)') + Cardinality(Held(n)')
                            + One(n \in filtered') + delivered'[n]
BY DEF Times, Quantify, Holders, Held, One

(* The places a message can be at are finitely many. *)
LEMMA PlacesFinite ==
    ASSUME FlowInv, NEW n
    PROVE  /\ IsFiniteSet(Holders(n)) /\ Cardinality(Holders(n)) \in Nat
           /\ IsFiniteSet(Held(n)) /\ Cardinality(Held(n)) \in Nat
<1>1. Holders(n) \in SUBSET Task /\ IsFiniteSet(Task)
  BY ClockAssumption DEF Holders
<1>2. Held(n) \in SUBSET (1 .. Len(buffer)) /\ Len(buffer) \in Nat
  BY SeqFacts DEF Held, FlowInv, TasksOk, HeldOk, CountsOk
<1>3. 1 \in Int /\ Len(buffer) \in Int
  BY <1>2
<1>4. IsFiniteSet(1 .. Len(buffer))
  BY <1>3, FS_Interval
<1>5. IsFiniteSet(Holders(n)) /\ IsFiniteSet(Held(n))
  BY <1>1, <1>2, <1>4, FS_Subset
<1> QED
  BY <1>5, FS_CardinalityType

(* The tasks that hold n besides t, and t itself. *)
LEMMA OtherHolders ==
    ASSUME FlowInv, NEW n, NEW t \in Task
    PROVE  /\ Cardinality(Holders(n) \ {t}) \in Nat
           /\ Cardinality(Holders(n))
                = Cardinality(Holders(n) \ {t}) + One(at[t] # 0 /\ n \in hand[t].of)
<1>1. t \in Holders(n) <=> at[t] # 0 /\ n \in hand[t].of
  BY DEF Holders
<1>2. /\ IsFiniteSet(Holders(n) \ {t})
      /\ Cardinality(Holders(n) \ {t})
           = IF t \in Holders(n) THEN Cardinality(Holders(n)) - 1 ELSE Cardinality(Holders(n))
  BY PlacesFinite, FS_RemoveElement
<1>3. Cardinality(Holders(n) \ {t}) \in Nat /\ Cardinality(Holders(n)) \in Nat
  BY <1>2, PlacesFinite, FS_CardinalityType
<1> QED
  BY <1>1, <1>2, <1>3 DEF One

(* Where a message that goes on is then: with its task, or delivered. *)
LEMMA AdvanceCount ==
    ASSUME FlowInv, NEW n \in 1 .. MaxMessages, NEW t \in Task, NEW x, Advance(t, x)
    PROVE  Cardinality(Holders(n)') + delivered'[n]
             = Cardinality(Holders(n) \ {t}) + delivered[n] + One(n \in x.of)
<1>0. /\ at \in [Task -> Nat] /\ hand = [u \in Task |-> hand[u]]
      /\ delivered \in [1 .. MaxMessages -> Nat]
  BY DEF FlowInv, TasksOk, HeldOk, CountsOk
<1>1. PICK h \in Nat, d \in Nat :
        h = Cardinality(Holders(n) \ {t}) /\ d = delivered[n]
  BY <1>0, OtherHolders
<1>2. CASE at[t] = Len(chain)
  <2>1. Release(t) /\ Deliver(x)
    BY <1>2 DEF Advance
  <2>2. Holders(n)' = Holders(n) \ {t}
    BY <1>0, <2>1 DEF Release, Holders
  <2>3. delivered'[n] = d + One(n \in x.of)
    BY <1>0, <1>1, <2>1 DEF Deliver, One
  <2> QED
    BY <1>1, <2>2, <2>3 DEF One
<1>3. CASE at[t] # Len(chain)
  <2>1. /\ hand' = [hand EXCEPT ![t] = x] /\ at' = [at EXCEPT ![t] = @ + 1]
        /\ delivered' = delivered
    BY <1>3 DEF Advance
  <2>2. /\ at'[t] # 0 /\ hand'[t] = x
        /\ \A u \in Task \ {t} : at'[u] = at[u] /\ hand'[u] = hand[u]
    BY <1>0, <2>1
  <2>3. CASE n \in x.of
    <3>1. Holders(n)' = (Holders(n) \ {t}) \union {t}
      BY <2>2, <2>3 DEF Holders
    <3>2. PICK others : others = Holders(n) \ {t}
      OBVIOUS
    <3>3. IsFiniteSet(others) /\ t \notin others
      BY <3>2, PlacesFinite, FS_RemoveElement
    <3>4. Cardinality(others \union {t}) = Cardinality(others) + 1
      BY <3>3, FS_AddElement
    <3> QED
      BY <1>1, <2>1, <2>3, <3>1, <3>2, <3>4 DEF One
  <2>4. CASE n \notin x.of
    <3>1. Holders(n)' = Holders(n) \ {t}
      BY <2>2, <2>4 DEF Holders
    <3> QED
      BY <1>1, <2>1, <2>4, <3>1 DEF One
  <2> QED
    BY <2>3, <2>4
<1> QED
  BY <1>2, <1>3

(* What is held when the buffer is emptied. *)
LEMMA HeldNone ==
    ASSUME FlowInv, NEW n
    PROVE  /\ buffer' = <<>> => Cardinality(Held(n)') = 0
           /\ n \in UNION {buffer[i].of : i \in 1 .. Len(buffer)} <=> Cardinality(Held(n)) # 0
<1>1. ASSUME buffer' = <<>> PROVE Cardinality(Held(n)') = 0
  <2>1. Held(n)' = {}
    BY <1>1 DEF Held
  <2> QED
    BY <2>1, FS_EmptySet
<1>2. n \in UNION {buffer[i].of : i \in 1 .. Len(buffer)}
        <=> \E i \in 1 .. Len(buffer) : n \in buffer[i].of
  BY Zenon
<1>3. DOMAIN buffer = 1 .. Len(buffer)
  BY SeqFacts DEF FlowInv, TasksOk, HeldOk, CountsOk
<1>4. (\E i \in 1 .. Len(buffer) : n \in buffer[i].of) <=> Held(n) # {}
  BY <1>3 DEF Held
<1>5. Held(n) # {} <=> Cardinality(Held(n)) # 0
  BY PlacesFinite, FS_EmptySet
<1> QED
  BY <1>1, <1>2, <1>4, <1>5

OnceInv == \A n \in 1 .. MaxMessages : Times(n) = One(n <= taken)

(* Every step keeps each message at exactly one place. *)
LEMMA OnceStep ==
    ASSUME FlowInv, OnceInv, [Next]_vars
    PROVE  OnceInv'
<1> SUFFICES ASSUME NEW n \in 1 .. MaxMessages PROVE Times(n)' = One(n <= taken')
  BY DEF OnceInv
<1>0. taken \in Nat /\ n \in Nat /\ MaxMessages \in Nat
  BY ChainAssumption DEF FlowInv, TasksOk, HeldOk, CountsOk
<1>a. PICK h \in Nat, b \in Nat, d \in Nat :
        h = Cardinality(Holders(n)) /\ b = Cardinality(Held(n)) /\ d = delivered[n]
  BY PlacesFinite DEF FlowInv, TasksOk, HeldOk, CountsOk
<1>b. h + b + One(n \in filtered) + d = One(n <= taken)
  BY <1>a, TimesParts DEF OnceInv
<1>c. PICK hh \in Nat, dd \in Nat : hh = Cardinality(Holders(n)') /\ dd = delivered'[n]
  <2>1. Holders(n)' \in SUBSET Task /\ IsFiniteSet(Task)
    BY ClockAssumption DEF Holders
  <2>2. IsFiniteSet(Holders(n)')
    BY <2>1, FS_Subset
  <2>3. Cardinality(Holders(n)') \in Nat
    BY <2>2, FS_CardinalityType
  <2>4. FlowInv'
    BY FlowStep
  <2>5. delivered'[n] \in Nat
    BY <2>4 DEF FlowInv, TasksOk, HeldOk, CountsOk
  <2> QED
    BY <2>3, <2>5
<1>1. ASSUME NEW t \in Task, NEW x, Enter(t, x) PROVE Times(n)' = One(n <= taken')
  <2>1. Cardinality(Holders(n)) = Cardinality(Holders(n) \ {t})
    <3>1. t \notin Holders(n)
      BY <1>1 DEF Enter, Holders
    <3>2. Holders(n) \ {t} = Holders(n)
      BY <3>1
    <3> QED
      BY <3>2
  <2>2. Cardinality(Holders(n)') + delivered'[n] = h + d + One(n = taken + 1)
    BY <1>1, <1>a, <2>1, AdvanceCount DEF Enter, One
  <2>3. Held(n)' = Held(n) /\ filtered' = filtered
    BY <1>1 DEF Enter, Held
  <2>4. One(n <= taken') = One(n <= taken) + One(n = taken + 1)
    BY <1>0, <1>1 DEF Enter, One
  <2>5. Times(n)' = hh + b + One(n \in filtered) + dd
    BY <1>a, <1>c, <2>3, TimesParts
  <2> QED
    BY <1>b, <1>c, <2>2, <2>4, <2>5 DEF One
<1>2. ASSUME NEW t \in Task, NEW x, Pass(t, x) PROVE Times(n)' = One(n <= taken')
  <2>1. Cardinality(Holders(n)) = Cardinality(Holders(n) \ {t}) + One(n \in x.of)
    BY <1>2, OtherHolders DEF Pass, One
  <2>2. Cardinality(Holders(n)') + delivered'[n] = h + d
    <3>1. PICK o \in Nat, p \in {0, 1} :
            o = Cardinality(Holders(n) \ {t}) /\ p = One(n \in x.of)
      BY OtherHolders DEF One
    <3>2. Cardinality(Holders(n)') + delivered'[n] = o + d + p
      BY <1>2, <1>a, <3>1, AdvanceCount DEF Pass
    <3>3. h = o + p
      BY <1>a, <2>1, <3>1
    <3> QED
      BY <3>2, <3>3
  <2>3. Held(n)' = Held(n) /\ filtered' = filtered /\ taken' = taken
    BY <1>2 DEF Pass, Held
  <2>4. Times(n)' = hh + b + One(n \in filtered) + dd
    BY <1>a, <1>c, <2>3, TimesParts
  <2> QED
    BY <1>b, <1>c, <2>2, <2>3, <2>4 DEF One
<1>3. ASSUME NEW t \in Task, Release(t), at[t] # 0
      PROVE  Holders(n)' = Holders(n) \ {t}
  BY <1>3 DEF Release, Holders, FlowInv, TasksOk, HeldOk, CountsOk
<1>4. ASSUME NEW t \in Task, Drop(t) PROVE Times(n)' = One(n <= taken')
  <2>1. /\ at[t] # 0 /\ Release(t) /\ filtered' = filtered \union hand[t].of
        /\ UNCHANGED <<taken, delivered, buffer>>
    BY <1>4 DEF Drop, Filter
  <2>2. PICK o \in Nat : /\ o = Cardinality(Holders(n) \ {t})
                         /\ h = o + One(n \in hand[t].of)
    BY <1>a, <2>1, OtherHolders DEF One
  <2>3. Cardinality(Holders(n)') = o /\ Held(n)' = Held(n)
    BY <1>3, <2>1, <2>2 DEF Held
  <2>4. One(n \in filtered') = One(n \in filtered) + One(n \in hand[t].of)
    BY <1>b, <2>1, <2>2 DEF One
  <2> QED
    BY <1>a, <1>b, <2>1, <2>2, <2>3, <2>4, TimesParts DEF One
<1>5. ASSUME NEW t \in Task, Put(t) PROVE Times(n)' = One(n <= taken')
  <2>1. /\ at[t] # 0 /\ Release(t) /\ buffer' = Append(buffer, hand[t])
        /\ UNCHANGED <<taken, delivered, filtered>>
    BY <1>5 DEF Put
  <2>2. PICK o \in Nat : /\ o = Cardinality(Holders(n) \ {t})
                         /\ h = o + One(n \in hand[t].of)
    BY <1>a, <2>1, OtherHolders DEF One
  <2>3. Cardinality(Holders(n)') = o
    BY <1>3, <2>1, <2>2
  <2>4. Cardinality(Held(n)') = b + One(n \in hand[t].of)
    <3>1. /\ Len(buffer) \in Nat /\ IsSeq(buffer') /\ Len(buffer') = Len(buffer) + 1
          /\ \A i \in 1 .. Len(buffer) : buffer'[i] = buffer[i]
          /\ buffer'[Len(buffer) + 1] = hand[t] /\ DOMAIN buffer = 1 .. Len(buffer)
      BY <2>1, SeqFacts, SMTT(30) DEF FlowInv, TasksOk, HeldOk, CountsOk
    <3>2. DOMAIN buffer' = 1 .. Len(buffer) + 1
      BY <3>1, SeqFacts
    <3>3. CASE n \in hand[t].of
      <4>1. Held(n)' = Held(n) \union {Len(buffer) + 1} /\ Len(buffer) + 1 \notin Held(n)
        BY <3>1, <3>2, <3>3 DEF Held
      <4> QED
        BY <1>a, <3>3, <4>1, PlacesFinite, FS_AddElement DEF One
    <3>4. CASE n \notin hand[t].of
      <4>1. Held(n)' = Held(n)
        BY <3>1, <3>2, <3>4 DEF Held
      <4> QED
        BY <1>a, <3>4, <4>1 DEF One
    <3> QED
      BY <3>3, <3>4
  <2> QED
    BY <1>a, <1>b, <2>1, <2>2, <2>3, <2>4, TimesParts DEF One
<1>6. ASSUME NEW t \in Task, NEW x, Join(t, x) PROVE Times(n)' = One(n <= taken')
  <2>1. at[t] # 0 /\ Advance(t, x) /\ buffer' = <<>> /\ UNCHANGED <<taken, filtered>>
    BY <1>6 DEF Join
  <2>2. PICK o \in Nat : /\ o = Cardinality(Holders(n) \ {t})
                         /\ h = o + One(n \in hand[t].of)
    BY <1>a, <2>1, OtherHolders DEF One
  <2>3. Cardinality(Held(n)') = 0 /\ (n \in x.of <=> b # 0 \/ n \in hand[t].of)
    BY <1>6, <1>a, <2>1, HeldNone DEF Join
  <2>4. Cardinality(Holders(n)') + delivered'[n] = o + d + One(n \in x.of)
    BY <1>a, <2>1, <2>2, AdvanceCount
  <2>5. PICK p \in {0, 1}, q \in {0, 1}, f \in {0, 1}, k \in {0, 1} :
          /\ p = One(n \in hand[t].of) /\ q = One(n \in x.of)
          /\ f = One(n \in filtered) /\ k = One(n <= taken)
    BY DEF One
  <2>6. q = 1 <=> b # 0 \/ p = 1
    BY <2>3, <2>5 DEF One
  <2>7. o + p + b + f + d = k
    BY <1>b, <2>2, <2>5
  <2>8. q = b + p
    BY <2>6, <2>7
  <2>9. Times(n)' = hh + 0 + f + dd /\ hh + dd = o + d + q
    BY <1>c, <2>1, <2>3, <2>4, <2>5, TimesParts
  <2>10. hh + 0 + f + dd = k
    BY <2>7, <2>8, <2>9
  <2> QED
    BY <2>1, <2>5, <2>9, <2>10
<1>7. ASSUME NEW x, Leave(x) PROVE Times(n)' = One(n <= taken')
  <2>1. /\ buffer' = <<>> /\ UNCHANGED <<hand, at, taken, filtered>> /\ Deliver(x)
    BY <1>7 DEF Leave
  <2>2. Cardinality(Held(n)') = 0 /\ (n \in x.of <=> b # 0)
    BY <1>7, <1>a, <2>1, HeldNone DEF Leave
  <2>3. delivered'[n] = d + One(n \in x.of)
    BY <1>a, <2>1 DEF Deliver, One, FlowInv, TasksOk, HeldOk, CountsOk
  <2>4. Holders(n)' = Holders(n)
    BY <2>1 DEF Holders
  <2>5. One(n \in x.of) = b
    BY <1>b, <2>2 DEF One
  <2> QED
    BY <1>a, <1>b, <2>1, <2>2, <2>3, <2>4, <2>5, TimesParts DEF One
<1>8. CASE UNCHANGED <<taskVars, aggregatorVars>>
  <2>1. Times(n)' = Times(n) /\ taken' = taken
    BY <1>8 DEF taskVars, aggregatorVars, Times, Quantify
  <2> QED
    BY <2>1 DEF OnceInv
<1> QED
  BY <1>1, <1>2, <1>4, <1>5, <1>6, <1>7, <1>8, MessageMoves

-------------------------------------------------------------------------------
(* What the types say besides: the buckets are within their burst, no time *)
(* is in the future, and what a task has loaded is a word.                 *)

(* The throttle: no bucket holds more than the burst. *)
CappedInv ==
    /\ \A s \in DOMAIN buckets : buckets[s].tokens <= Burst /\ buckets[s].last_access <= now
    /\ missed \subseteq Task

(* try_acquire() fills no bucket beyond the burst. *)
LEMMA AcquireCapped ==
    ASSUME NEW b \in Bucket, now \in Nat, b.created <= now, b.last_refill <= now - b.created
    PROVE  Acquired(b).tokens <= Burst /\ Acquired(b).last_access <= now
<1>0. Burst \in Nat /\ RefillNanos \in Nat \ {0}
  BY ThrottleAssumption
<1>1. PICK n \in Nat, l \in Nat, c \in Nat, a \in Nat :
        b = [tokens |-> n, last_refill |-> l, created |-> c, last_access |-> a]
  BY DEF Bucket
<1>2. c <= now /\ l <= now - c
  BY <1>1
<1>3. PICK e \in Nat : e = now - c - l
  BY <1>2
<1>4. PICK k \in Nat : k = e \div RefillNanos
  BY <1>0, DivBounds
<1>5. PICK m \in Nat : m = Lesser(n + k, Burst) /\ m <= Burst
  BY <1>0 DEF Lesser
<1>6. PICK r : Refilled(b) = [tokens |-> m, last_refill |-> r, created |-> c, last_access |-> a]
  <2>1. k = (now - b.created - b.last_refill) \div RefillNanos
    BY <1>1, <1>3, <1>4
  <2>2. Refilled(b) = [b EXCEPT !.last_refill = b.last_refill + k * RefillNanos,
                               !.tokens = Lesser(b.tokens + k, Burst)]
    BY <1>1, <2>1 DEF Refilled
  <2>3. PICK r : r = b.last_refill + k * RefillNanos
    OBVIOUS
  <2>4. Lesser(b.tokens + k, Burst) = m
    BY <1>1, <1>5
  <2>5. Refilled(b) = [b EXCEPT !.last_refill = r, !.tokens = m]
    BY <2>2, <2>3, <2>4
  <2> QED
    BY <1>1, <2>5
<1>7. Acquired(b).tokens = (IF m > 0 THEN m - 1 ELSE 0) /\ Acquired(b).last_access = now - c
  BY <1>1, <1>6 DEF Acquired
<1> QED
  BY <1>0, <1>2, <1>5, <1>7

(* Every step of the throttle keeps its buckets within the burst. *)
LEMMA CappedStep ==
    ASSUME ClockOk, ThrottleInv, CappedInv, [Next]_vars,
           \A t \in Task : at[t] # 0 => hand[t].source \in Source
    PROVE  CappedInv'
<1>0. now \in Nat /\ now' \in Nat /\ now <= now' /\ Burst \in Nat
  BY ClockStep, ThrottleAssumption
<1>1. ASSUME NEW s \in DOMAIN buckets
      PROVE  /\ buckets[s] \in Bucket /\ buckets[s].created <= now
             /\ buckets[s].last_refill <= now - buckets[s].created
             /\ buckets[s].tokens <= Burst /\ buckets[s].last_access <= now
  <2>1. Solvent(buckets[s], grants[s], since[s])
    BY DEF ThrottleInv
  <2> QED
    BY <2>1 DEF Solvent, CappedInv
<1>2. ASSUME UNCHANGED buckets, missed' \subseteq Task PROVE CappedInv'
  <2>1. ASSUME NEW s \in DOMAIN buckets PROVE buckets[s].last_access <= now'
    <3>1. PICK a \in Nat : a = buckets[s].last_access /\ a <= now
      BY <1>1 DEF Bucket
    <3> QED
      BY <1>0, <3>1
  <2> QED
    BY <1>1, <1>2, <2>1 DEF CappedInv
<1>3. ASSUME now' = now, missed' \subseteq Task, NEW s, NEW b \in Bucket, NEW tracked, NEW ok,
             Serve(s, b, tracked, ok), b.created <= now, b.last_refill <= now - b.created,
             DOMAIN tracked \subseteq DOMAIN buckets,
             \A u \in DOMAIN tracked : tracked[u] = buckets[u]
      PROVE  CappedInv'
  <2>1. /\ DOMAIN buckets' = DOMAIN tracked \union {s} /\ buckets'[s] = Acquired(b)
        /\ \A u \in DOMAIN tracked \ {s} : buckets'[u] = tracked[u]
    BY <1>3 DEF Serve, Insert
  <2>2. Acquired(b).tokens <= Burst /\ Acquired(b).last_access <= now
    BY <1>0, <1>3, AcquireCapped
  <2>3. \A u \in DOMAIN buckets' : buckets'[u].tokens <= Burst /\ buckets'[u].last_access <= now
    BY <1>1, <1>3, <2>1, <2>2
  <2> QED
    BY <1>3, <2>3 DEF CappedInv
<1>4. CASE UNCHANGED throttleVars
  BY <1>2, <1>4 DEF throttleVars, CappedInv
<1>5. ASSUME NEW t \in Task, NEW s \in Source, Miss(t, s) PROVE CappedInv'
  BY <1>2, <1>5 DEF Miss, CappedInv
<1>6. ASSUME NEW t \in Task, NEW s \in Source, NEW ok \in BOOLEAN, now' = now,
             FastPath(t, s, ok) \/ SlowHit(t, s, ok)
      PROVE  CappedInv'
  <2>1. s \in DOMAIN buckets /\ Serve(s, buckets[s], buckets, ok) /\ missed' \subseteq Task
    BY <1>6 DEF FastPath, SlowHit, CappedInv
  <2> QED
    BY <1>1, <1>3, <1>6, <2>1
<1>7. ASSUME NEW t \in Task, NEW s \in Source, NEW ok \in BOOLEAN, now' = now,
             CreateBucket(t, s, ok)
      PROVE  CappedInv'
  <2>1. PICK victims \in Evictable :
          Serve(s, NewBucket, Restrict(buckets, DOMAIN buckets \ victims), ok)
    BY <1>7 DEF CreateBucket
  <2>2. missed' \subseteq Task
    BY <1>7 DEF CreateBucket, CappedInv
  <2>3. PICK tracked : tracked = Restrict(buckets, DOMAIN buckets \ victims)
    OBVIOUS
  <2>4. /\ DOMAIN tracked \subseteq DOMAIN buckets
        /\ \A u \in DOMAIN tracked : tracked[u] = buckets[u]
    BY <2>3 DEF Restrict
  <2>5. PICK b : b = NewBucket
    OBVIOUS
  <2>6. b \in Bucket /\ b.created <= now /\ b.last_refill <= now - b.created
    BY <1>0, <2>5 DEF NewBucket, Bucket
  <2>7. Serve(s, b, tracked, ok)
    BY <2>1, <2>3, <2>5
  <2> QED
    BY <1>3, <1>7, <2>2, <2>4, <2>6, <2>7
<1> QED
  BY <1>4, <1>5, <1>6, <1>7, ThrottleMoves DEF ThrottleAnswers

(* The deduplicator: the times of the admissions are in the past. *)
StampedInv ==
    \A id \in DOMAIN admitted : \A i \in 1 .. Len(admitted[id]) :
      admitted[id][i].read <= now /\ admitted[id][i].at <= now

(* Every step of the deduplicator leaves the recorded times in the past. *)
LEMMA StampedStep ==
    ASSUME ClockOk, DedupInv, StampedInv, [Next]_vars
    PROVE  StampedInv'
<1>0. now \in Nat /\ now' \in Nat /\ now <= now'
  BY ClockStep
<1>1. ASSUME NEW id \in DOMAIN admitted
      PROVE  /\ admitted[id] \in Seq(Admission) /\ Len(admitted[id]) \in Nat
             /\ \A i \in 1 .. Len(admitted[id]) :
                  /\ admitted[id][i] \in Admission
                  /\ admitted[id][i].read <= now /\ admitted[id][i].at <= now
  <2>1. PICK s \in Seq(Admission) : s = admitted[id]
    BY DEF DedupInv, Remembered
  <2>2. Len(s) \in Nat /\ \A i \in 1 .. Len(s) : s[i] \in Admission
    BY LenProperties
  <2> QED
    BY <2>1, <2>2 DEF StampedInv
<1>2. ASSUME admitted' = admitted PROVE StampedInv'
  <2>1. ASSUME NEW id \in DOMAIN admitted, NEW i \in 1 .. Len(admitted[id])
        PROVE  admitted[id][i].read <= now' /\ admitted[id][i].at <= now'
    <3>1. PICK r \in Nat, a \in Nat :
            r = admitted[id][i].read /\ a = admitted[id][i].at /\ r <= now /\ a <= now
      BY <1>1 DEF Admission
    <3>2. r <= now' /\ a <= now'
      BY <1>0, <3>1
    <3> QED
      BY <3>1, <3>2
  <2> QED
    BY <1>2, <2>1 DEF StampedInv
<1>3. CASE UNCHANGED dedupVars
  BY <1>2, <1>3 DEF dedupVars
<1>4. ASSUME NEW t \in Task, DedupAdvances(t) PROVE StampedInv'
  BY <1>2, <1>4 DEF DedupAdvances, ReadNow, CountOp, ResetOps, Cleanup
<1>5. ASSUME NEW t \in Task, NEW id, Duplicate(t, id) PROVE StampedInv'
  BY <1>2, <1>5 DEF Duplicate
<1>6. ASSUME NEW t \in Task, NEW id, now' = now, FirstSight(t, id) PROVE StampedInv'
  <2>1. PICK r \in Nat : r = reading[t] /\ r <= now
    BY DEF DedupInv
  <2>2. PICK new : new = [read |-> r, at |-> now]
    OBVIOUS
  <2>3. new \in Admission /\ new.read <= now /\ new.at <= now
    BY <1>0, <2>1, <2>2 DEF Admission
  <2>4. PICK old \in Seq(Admission) :
          /\ old = Admissions(id)
          /\ \A i \in 1 .. Len(old) : old[i].read <= now /\ old[i].at <= now
    <3>1. CASE id \in DOMAIN admitted
      BY <1>1, <3>1 DEF Admissions
    <3>2. CASE id \notin DOMAIN admitted
      <4>1. Admissions(id) = <<>> /\ <<>> \in Seq(Admission) /\ 1 .. Len(<<>>) = {}
        BY <3>2, EmptySeq DEF Admissions
      <4> QED
        BY <4>1
    <3> QED
      BY <3>1, <3>2
  <2>5. PICK s : s = Append(old, new)
    OBVIOUS
  <2>6. /\ Len(old) \in Nat /\ Len(s) = Len(old) + 1 /\ s[Len(old) + 1] = new
        /\ \A i \in 1 .. Len(old) : s[i] = old[i]
    BY <2>3, <2>5, AppendProperties, LenProperties
  <2>7. \A i \in 1 .. Len(s) : s[i].read <= now /\ s[i].at <= now
    BY <2>3, <2>4, <2>6
  <2>8. admitted' = Insert(admitted, id, s)
    BY <1>6, <2>1, <2>2, <2>4, <2>5 DEF FirstSight
  <2>9. /\ DOMAIN admitted' = DOMAIN admitted \union {id} /\ admitted'[id] = s
        /\ \A k \in DOMAIN admitted \ {id} : admitted'[k] = admitted[k]
    BY <2>8 DEF Insert
  <2>10. ASSUME NEW k \in DOMAIN admitted', NEW i \in 1 .. Len(admitted'[k])
         PROVE  admitted'[k][i].read <= now /\ admitted'[k][i].at <= now
    <3>1. CASE k = id
      BY <2>7, <2>9, <3>1
    <3>2. CASE k # id
      BY <1>1, <2>9, <3>2
    <3> QED
      BY <3>1, <3>2
  <2> QED
    BY <1>6, <2>10 DEF StampedInv
<1> QED
  BY <1>3, <1>4, <1>5, <1>6, DedupMoves

(* The sampler: a task has loaded a word or nothing. *)
LoadedInv == loaded \in [Task -> (SUBSET Bit) \union {NotLoaded}]

(* Every step of the sampler leaves words, or nothing, in the tasks' hands. *)
LEMMA LoadedStep ==
    ASSUME SamplerInv, LoadedInv, [Next]_vars
    PROVE  LoadedInv'
<1>1. CASE UNCHANGED vars
  BY <1>1 DEF vars, samplerVars, LoadedInv
<1>2. CASE FlushPending \/ Time
  BY <1>2 DEF FlushPending, Time, samplerVars, LoadedInv
<1>3. ASSUME NEW t \in Task,
             Bring(t) \/ PureStage(t) \/ DedupStage(t) \/ ThrottleStage(t) \/ AggregatorStage(t)
      PROVE  LoadedInv'
  <2>1. UNCHANGED samplerVars
    BY <1>3 DEF Bring, PureStage, DedupStage, ThrottleStage, AggregatorStage
  <2> QED
    BY <2>1 DEF samplerVars, LoadedInv
<1>4. ASSUME NEW t \in Task, SamplerStage(t) PROVE LoadedInv'
  <2>1. \/ loaded' = [loaded EXCEPT ![t] = prng]
        \/ loaded' = [loaded EXCEPT ![t] = NotLoaded]
    BY <1>4 DEF SamplerStage, LoadState, SwapFails, SwapState
  <2>2. prng \in (SUBSET Bit) \union {NotLoaded}
    BY DEF SamplerInv
  <2>3. NotLoaded \in (SUBSET Bit) \union {NotLoaded}
    OBVIOUS
  <2> QED
    BY <2>1, <2>2, <2>3 DEF LoadedInv
<1> QED
  BY <1>1, <1>2, <1>3, <1>4 DEF Next

-------------------------------------------------------------------------------
(* The whole chain. *)

Inv ==
    /\ ClockOk /\ FlowInv /\ OnceInv
    /\ ThrottleInv /\ DedupInv /\ CountInv /\ SamplerInv
    /\ CappedInv /\ StampedInv /\ LoadedInv

(* The flow invariants hold before any message enters. *)
LEMMA FlowInit == Init => FlowInv /\ OnceInv
<1> SUFFICES ASSUME Init PROVE FlowInv /\ OnceInv
  OBVIOUS
<1>0. /\ chain \in Chains /\ hand = [t \in Task |-> Idle] /\ at = [t \in Task |-> 0]
      /\ taken = 0 /\ filtered = {} /\ delivered = [n \in 1 .. MaxMessages |-> 0]
      /\ buffer = <<>> /\ batches = <<>> /\ MaxMessages \in Nat
  BY ChainAssumption DEF Init, AggregatorInit
<1>1. IsSeq(<<>>) /\ Len(<<>>) = 0 /\ DOMAIN <<>> = {}
  <2>1. \A S : <<>> \in Seq(S) /\ Len(<<>>) = 0
    BY EmptySeq
  <2> QED
    BY <2>1 DEF IsSeq
<1>2. FlowInv
  <2>1. Len(chain) \in Nat
    BY <1>0, ChainAssumption
  <2>2. TasksOk
    BY <1>0, <2>1 DEF TasksOk
  <2>3. HeldOk
    BY <1>0, <1>1, BatchSizeNat DEF HeldOk
  <2>4. CountsOk
    BY <1>0 DEF CountsOk
  <2> QED
    BY <2>2, <2>3, <2>4 DEF FlowInv
<1>3. ASSUME NEW n \in 1 .. MaxMessages PROVE Times(n) = One(n <= taken)
  <2>1. Holders(n) = {} /\ Held(n) = {}
    BY <1>0, <1>1 DEF Holders, Held
  <2>2. Cardinality({}) = 0
    BY FS_EmptySet
  <2>3. One(n \in filtered) = 0 /\ delivered[n] = 0 /\ One(n <= taken) = 0
    BY <1>0 DEF One
  <2> QED
    BY <2>1, <2>2, <2>3, TimesParts
<1> QED
  BY <1>2, <1>3 DEF OnceInv

(* So do those of the clock and of the stateful stages. *)
LEMMA StagesInit == Init => ClockOk /\ ThrottleInv /\ DedupInv /\ CountInv /\ SamplerInv
<1> SUFFICES ASSUME Init PROVE ClockOk /\ ThrottleInv /\ DedupInv /\ CountInv /\ SamplerInv
  OBVIOUS
<1>1. ClockOk
  BY ClockAssumption DEF Init, ClockInit, ClockOk
<1>2. ThrottleInv
  <2>1. /\ DOMAIN buckets = {} /\ since = [s \in Source |-> 0] /\ grants = [s \in Source |-> 0]
    BY DEF Init, ThrottleInit
  <2>2. IsFiniteSet({}) /\ Cardinality({}) = 0
    BY FS_EmptySet
  <2>3. 0 <= IF MaxSources = 0 THEN 1 ELSE MaxSources
    BY ThrottleAssumption
  <2> QED
    BY <2>1, <2>2, <2>3 DEF ThrottleInv, SourcesBounded
<1>3. DedupInv
  <2>1. /\ DOMAIN seen = {} /\ DOMAIN admitted = {} /\ now = 0
        /\ check = [t \in Task |-> "idle"] /\ reading = [t \in Task |-> 0]
    BY DEF Init, DedupInit, ClockInit
  <2> QED
    BY <2>1 DEF DedupInv, Remembered, DuplicateWindow
<1>4. CountInv
  <2>1. ops_since_cleanup = 0
    BY DEF Init, DedupInit
  <2> QED
    BY <2>1, ResettingFinite, DedupAssumption DEF CountInv
<1>5. SamplerInv
  BY SamplerInitial DEF Init
<1> QED
  BY <1>1, <1>2, <1>3, <1>4, <1>5

(* So do the other facts that the types need. *)
LEMMA TypesInit == Init => CappedInv /\ StampedInv /\ LoadedInv
<1> SUFFICES ASSUME Init PROVE CappedInv /\ StampedInv /\ LoadedInv
  OBVIOUS
<1>1. DOMAIN buckets = {} /\ missed = {} /\ DOMAIN admitted = {} /\ loaded = [t \in Task |-> NotLoaded]
  BY DEF Init, ThrottleInit, DedupInit, SamplerInit
<1>2. NotLoaded \in (SUBSET Bit) \union {NotLoaded}
  OBVIOUS
<1> QED
  BY <1>1, <1>2 DEF CappedInv, StampedInv, LoadedInv

(* Every step of the chain keeps the whole invariant. *)
LEMMA InvStep == Inv /\ [Next]_vars => Inv'
<1> SUFFICES ASSUME Inv, [Next]_vars PROVE Inv'
  OBVIOUS
<1>1. ClockOk' /\ FlowInv' /\ OnceInv'
  BY ClockStep, FlowStep, OnceStep DEF Inv
<1>2. \A t \in Task : at[t] # 0 => hand[t].source \in Source
  BY DEF Inv, FlowInv, TasksOk, HeldOk, CountsOk, Carried
<1>3. ThrottleInv'
  BY <1>2, ThrottleStep DEF Inv
<1>4. DedupInv' /\ CountInv' /\ SamplerInv'
  BY DedupStep, CountStep, SamplerStep DEF Inv
<1>5. CappedInv' /\ StampedInv' /\ LoadedInv'
  BY <1>2, CappedStep, StampedStep, LoadedStep DEF Inv
<1> QED
  BY <1>1, <1>3, <1>4, <1>5 DEF Inv

(* The invariant of all the stages holds throughout. *)
LEMMA InvAlways == Spec => []Inv
<1>1. Init => Inv
  BY FlowInit, StagesInit, TypesInit DEF Inv
<1> QED
  BY <1>1, InvStep, PTL DEF Spec

(* No message is lost or duplicated in the chain: however many tasks share *)
(* its stages, each message brought is in exactly one place.               *)
THEOREM MessagesOnce == Spec => []EveryMessageOnce
<1>1. Inv => EveryMessageOnce
  <2> SUFFICES ASSUME Inv, NEW n \in 1 .. taken PROVE Times(n) = 1
    BY DEF EveryMessageOnce
  <2>1. n \in 1 .. MaxMessages /\ n <= taken
    BY ChainAssumption DEF Inv, FlowInv, TasksOk, HeldOk, CountsOk
  <2> QED
    BY <2>1 DEF Inv, OnceInv, One
<1> QED
  BY <1>1, InvAlways, PTL

(* The throttle lets no source through beyond its burst and its rate,      *)
(* though two first messages of a source race between the two locks.       *)
THEOREM SourcesThrottled == Spec => []PerSourceLimit
<1>1. Inv => PerSourceLimit
  BY SolventLimit DEF Inv
<1> QED
  BY <1>1, InvAlways, PTL

(* The throttle's map never outgrows max_sources, whichever tasks race to  *)
(* insert.                                                                 *)
THEOREM MapBounded == Spec => []SourcesBounded
<1>1. Inv => SourcesBounded
  BY DEF Inv, ThrottleInv
<1> QED
  BY <1>1, InvAlways, PTL

(* Two admissions of an id are a window apart, whatever stale readings and *)
(* cleanups come between.                                                  *)
THEOREM WindowKept == Spec => []DuplicateWindow
<1>1. Inv => DuplicateWindow
  BY DEF Inv, DedupInv
<1> QED
  BY <1>1, InvAlways, PTL

(* The deduplicator's operation count exceeds its interval by at most one  *)
(* for each task, so cleanups keep coming.                                 *)
THEOREM CleanupsKeepUp == Spec => []CleanupBounded
<1>1. Inv => CleanupBounded
  <2> SUFFICES ASSUME Inv PROVE CleanupBounded
    OBVIOUS
  <2>1. Cardinality(Task) \in Nat
    BY ClockAssumption, FS_CardinalityType
  <2>2. /\ ops_since_cleanup \in Nat
        /\ ops_since_cleanup <= CleanupInterval + Cardinality(Resetting)
    BY DEF Inv, CountInv
  <2>3. CleanupInterval \in Nat
    BY DedupAssumption
  <2> QED
    BY <2>1, <2>2, <2>3, ResettingFinite DEF CleanupBounded
<1> QED
  BY <1>1, InvAlways, PTL

(* The numbers the sampler draws are one run of xorshift64 from the seed,  *)
(* never zero, whichever tasks draw them.                                  *)
THEOREM OneStream == Spec => []RandomStream
<1>1. Inv => RandomStream
  BY SamplerStream DEF Inv
<1> QED
  BY <1>1, InvAlways, PTL

(* A batch stands for its parts: whichever tasks filled the buffer, and    *)
(* whether the last part or a flush() completed it, what leaves the        *)
(* aggregator is routed to outputs its parts were for, keeps every         *)
(* explicit route once, resolves conflicting metadata in arrival order,    *)
(* and under the combining strategies loses and reorders no text.          *)
THEOREM BatchesSpeak == Spec => []BatchSpeaksForParts
<1>1. Inv => BatchSpeaksForParts
  <2> SUFFICES ASSUME Inv, NEW n \in DOMAIN batches
               PROVE  /\ RoutesOfParts(batches[n]) /\ MetadataOfLast(batches[n])
                      /\ PayloadsKept(batches[n])
    BY DEF BatchSpeaksForParts
  <2>1. IsSeq(batches) /\ \A i \in 1 .. Len(batches) : IsBatch(batches[i])
    BY DEF Inv, FlowInv, HeldOk
  <2>2. DOMAIN batches = 1 .. Len(batches)
    BY <2>1, SeqFacts
  <2>3. IsBatch(batches[n])
    BY <2>1, <2>2
  <2> QED
    BY <2>3, BatchSpeaks
<1> QED
  BY <1>1, InvAlways, PTL

(* The throttle's buckets have their types. *)
LEMMA ThrottleTyped == Inv => ThrottleTypeOK
<1> SUFFICES ASSUME Inv, NEW s \in DOMAIN buckets
             PROVE  buckets[s] \in [tokens : 0 .. Burst, last_refill : 0 .. now,
                                    created : 0 .. now, last_access : 0 .. now]
  BY DEF ThrottleTypeOK, Inv, ThrottleInv, CappedInv
<1>0. now \in Nat /\ Burst \in Nat
  BY ClockAssumption, ThrottleAssumption DEF Inv, ClockOk
<1>1. Solvent(buckets[s], grants[s], since[s]) /\ since[s] \in Nat
  BY DEF Inv, ThrottleInv
<1>2. PICK n \in Nat, l \in Nat, c \in Nat, a \in Nat :
        buckets[s] = [tokens |-> n, last_refill |-> l, created |-> c, last_access |-> a]
  BY <1>1 DEF Solvent, Bucket
<1>3. n <= Burst /\ a <= now
  BY <1>2 DEF Inv, CappedInv
<1>4. c <= now /\ l <= now - c
  BY <1>1, <1>2 DEF Solvent
<1>5. n \in 0 .. Burst /\ l \in 0 .. now /\ c \in 0 .. now /\ a \in 0 .. now
  BY <1>0, <1>3, <1>4
<1> QED
  BY <1>2, <1>5

(* So have the deduplicator's entries and the record of its admissions. *)
LEMMA DedupTyped == Inv => DedupTypeOK
<1> SUFFICES ASSUME Inv PROVE DedupTypeOK
  OBVIOUS
<1>0. now \in Nat
  BY ClockAssumption DEF Inv, ClockOk
<1>1. PICK Stamp : Stamp = [read : 0 .. now, at : 0 .. now]
  OBVIOUS
<1>2. ASSUME NEW id \in DOMAIN admitted
      PROVE  /\ admitted[id] \in Seq(Stamp)
             /\ admitted[id][Len(admitted[id])].read \in 0 .. now
  <2>1. PICK s \in Seq(Admission) : s = admitted[id] /\ s # <<>>
    BY DEF Inv, DedupInv, Remembered
  <2>2. /\ Len(s) \in Nat \ {0} /\ s \in [1 .. Len(s) -> Admission]
        /\ \A i \in 1 .. Len(s) : s[i] \in Admission /\ s[i].read <= now /\ s[i].at <= now
    <3>1. Len(s) \in Nat \ {0} /\ s \in [1 .. Len(s) -> Admission]
      BY <2>1, EmptySeq, LenProperties
    <3>2. \A i \in 1 .. Len(s) : s[i].read <= now /\ s[i].at <= now
      BY <2>1 DEF Inv, StampedInv
    <3> QED
      BY <3>1, <3>2
  <2>3. ASSUME NEW i \in 1 .. Len(s) PROVE s[i] \in Stamp /\ s[i].read \in 0 .. now
    <3>1. PICK r \in Nat, a \in Nat : s[i] = [read |-> r, at |-> a]
      BY <2>2 DEF Admission
    <3>2. r <= now /\ a <= now
      BY <2>2, <3>1
    <3>3. r \in 0 .. now /\ a \in 0 .. now
      BY <1>0, <3>2
    <3> QED
      BY <1>1, <3>1, <3>3
  <2>4. s \in [1 .. Len(s) -> Stamp]
    BY <2>2, <2>3
  <2>5. s \in Seq(Stamp)
    BY <2>2, <2>4, SeqDef
  <2>6. s[Len(s)].read \in 0 .. now
    BY <2>2, <2>3
  <2> QED
    BY <2>1, <2>5, <2>6
<1>3. \A id \in DOMAIN seen : seen[id] \in 0 .. now
  BY <1>2 DEF Inv, DedupInv, Remembered
<1>4. reading \in [Task -> 0 .. now]
  BY <1>0 DEF Inv, DedupInv
<1> QED
  BY <1>1, <1>2, <1>3, <1>4 DEF DedupTypeOK, Inv, DedupInv, CountInv

(* So have the messages the aggregator holds and those it made. *)
LEMMA AggregatorTyped == Inv => AggregatorTypeOK
<1> SUFFICES ASSUME Inv PROVE AggregatorTypeOK
  OBVIOUS
<1>1. HeldOk
  BY DEF Inv, FlowInv
<1>2. DOMAIN buffer = 1 .. Len(buffer) /\ DOMAIN batches = 1 .. Len(batches)
  BY <1>1, SeqFacts DEF HeldOk
<1>3. \A i \in DOMAIN buffer : IsMessage(buffer[i])
  BY <1>1, <1>2 DEF HeldOk, Carried
<1>4. ASSUME NEW i \in DOMAIN batches PROVE IsMessage(batches[i].whole)
  <2>1. PICK b : b = batches[i]
    OBVIOUS
  <2>2. IsBatch(b)
    BY <1>1, <1>2, <2>1 DEF HeldOk
  <2>3. Carried(Combine(b.strategy, b.parts, FreshId(b.parts)))
    BY <2>2, CombineKeeps DEF IsBatch
  <2> QED
    BY <2>1, <2>2, <2>3 DEF IsBatch, Carried
<1> QED
  BY <1>1, <1>3, <1>4 DEF HeldOk, AggregatorTypeOK

(* The chain and all its stages keep their types: a message that has been  *)
(* filtered, tagged, routed, enriched or combined is a message, the tasks  *)
(* are at stages of the chain, only inputs that were brought are filtered, *)
(* no bucket is fuller than the burst and no recorded time is in the       *)
(* future.                                                                 *)
THEOREM TypeCorrect == Spec => []TypeOK
<1>1. Inv => TypeOK
  <2> SUFFICES ASSUME Inv PROVE TypeOK
    OBVIOUS
  <2>0. FlowInv
    BY DEF Inv
  <2>1. now \in 0 .. MaxTime /\ chain \in Chains /\ taken \in 0 .. MaxMessages
        /\ delivered \in [1 .. MaxMessages -> Nat]
    BY DEF Inv, ClockOk, FlowInv, TasksOk, CountsOk
  <2>2. ThrottleTypeOK /\ DedupTypeOK /\ AggregatorTypeOK
    BY ThrottleTyped, DedupTyped, AggregatorTyped
  <2>3. SamplerTypeOK
    BY DEF Inv, SamplerInv, LoadedInv, SamplerTypeOK
  <2>4. ASSUME NEW t \in Task
        PROVE  IF at[t] = 0 THEN hand[t] = Idle
               ELSE IsMessage(hand[t]) /\ at[t] \in DOMAIN chain
    <3>1. /\ at[t] \in 0 .. Len(chain) /\ Len(chain) \in Nat /\ DOMAIN chain = 1 .. Len(chain)
          /\ IF at[t] = 0 THEN hand[t] = Idle ELSE Carried(hand[t])
      BY <2>0, ChainStages DEF FlowInv, TasksOk
    <3> QED
      BY <3>1 DEF Carried
  <2>5. ASSUME NEW n \in filtered PROVE n \in 1 .. taken
    <3>1. n \in 1 .. MaxMessages /\ taken \in Nat /\ MaxMessages \in Nat
      BY <2>0, ChainAssumption DEF FlowInv, CountsOk
    <3>2. PICK a \in Nat, b \in Nat, d \in Nat :
            a = Cardinality(Holders(n)) /\ b = Cardinality(Held(n)) /\ d = delivered[n]
      BY <2>0, <2>1, <3>1, PlacesFinite
    <3>3. Times(n) = a + b + One(n \in filtered) + d
      BY <3>2, TimesParts
    <3>4. One(n \in filtered) = 1
      BY DEF One
    <3>5. Times(n) = One(n <= taken)
      BY <3>1 DEF Inv, OnceInv
    <3>6. CASE n <= taken
      BY <3>1, <3>6
    <3>7. CASE ~(n <= taken)
      <4>1. Times(n) = 0
        BY <3>5, <3>7 DEF One
      <4>2. a + b + 1 + d # 0
        BY <3>2
      <4> QED
        BY <3>3, <3>4, <4>1, <4>2
    <3> QED
      BY <3>6, <3>7
  <2> QED
    BY <2>1, <2>2, <2>3, <2>4, <2>5 DEF TypeOK
<1> QED
  BY <1>1, InvAlways, PTL
===============================================================================
