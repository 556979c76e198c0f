---------------------------- MODULE TokenBucketProofs ----------------------------
(***************************************************************************)
(* The token bucket keeps its limit: for every burst, refill interval and  *)
(* set of threads, and every interleaving of their atomic accesses.        *)
(*                                                                         *)
(* The argument is an account.  What was granted and what is in the bucket *)
(* never exceeds the burst plus one message for each credited interval     *)
(* (Ledger); intervals are credited once each (IntervalsOwnedOnce); and    *)
(* none is claimed before it has elapsed (RefillNotAhead).                 *)
(***************************************************************************)
EXTENDS TokenBucket, FiniteSetTheorems, TLAPS

(* What a thread's locals are worth at each point of its call. *)
Locals ==
    \A t \in Thread :
       /\ nowSeen[t] <= now
       /\ pc[t] \notin {"add", "addcas"} => claimed[t] = {}
       /\ pc[t] = "takecas" => tokensSeen[t] >= Scale

Ledger == granted * Scale + tokens <= Capacity + Cardinality(credited) * Scale

Inv == TypeOK /\ IntervalsOwnedOnce /\ RefillNotAhead /\ Locals /\ Ledger

Epoch == last_refill \div RefillNanos

-------------------------------------------------------------------------------
(* Arithmetic. *)

(* Integer division of naturals is a natural, ... *)
LEMMA DivType ==
    ASSUME NEW a \in Nat, NEW d \in Nat \ {0}
    PROVE  a \div d \in Nat /\ (a \div d) * d <= a
OBVIOUS

(* ... exact on multiples, ... *)
LEMMA DivOfMultiple ==
    ASSUME NEW q \in Nat, NEW d \in Nat \ {0}
    PROVE  (q * d) \div d = q
OBVIOUS

(* ... and monotonic. *)
LEMMA DivMono ==
    ASSUME NEW a \in Nat, NEW b \in Nat, NEW d \in Nat \ {0}, a <= b
    PROVE  a \div d <= b \div d
OBVIOUS

(* Multiplication by an interval is monotonic. *)
LEMMA TimesMono ==
    ASSUME NEW a \in Nat, NEW b \in Nat, NEW d \in Nat, a <= b
    PROVE  a * d <= b * d
OBVIOUS

(* Intervals before and after a point add up. *)
LEMMA Distribute ==
    ASSUME NEW a \in Nat, NEW b \in Nat, NEW d \in Nat
    PROVE  (a + b) * d = a * d + b * d
OBVIOUS

(* The capacity is a natural number. *)
LEMMA CapacityType == Capacity \in Nat
BY BucketAssumption DEF Capacity

(* The sets of intervals are finite. *)
LEMMA IntervalSets ==
    ASSUME TypeOK, IntervalsOwnedOnce
    PROVE  /\ Epoch \in Nat
           /\ credited \subseteq 1 .. Epoch
           /\ IsFiniteSet(credited) /\ Cardinality(credited) \in Nat
           /\ Cardinality(credited) <= Epoch
           /\ \A t \in Thread : /\ claimed[t] \subseteq 1 .. Epoch
                                /\ IsFiniteSet(claimed[t])
                                /\ Cardinality(claimed[t]) \in Nat
<1>1. Epoch \in Nat
  BY BucketAssumption, DivType DEF TypeOK, Epoch
<1>2. IsFiniteSet(1 .. Epoch) /\ Cardinality(1 .. Epoch) = Epoch
  BY <1>1, FS_Interval
<1>3. credited \subseteq 1 .. Epoch
  BY DEF IntervalsOwnedOnce, Epoch
<1>4. \A t \in Thread : claimed[t] \subseteq 1 .. Epoch
  BY DEF IntervalsOwnedOnce, Epoch
<1>5. IsFiniteSet(credited) /\ Cardinality(credited) <= Epoch
  BY <1>2, <1>3, FS_Subset
<1>6. \A t \in Thread : IsFiniteSet(claimed[t])
  BY <1>2, <1>4, FS_Subset
<1> QED
  BY <1>1, <1>3, <1>4, <1>5, <1>6, FS_CardinalityType

(* A new bucket satisfies the invariant. *)
LEMMA InvInit == Init => Inv
<1> SUFFICES ASSUME Init PROVE Inv
  OBVIOUS
<1> USE BucketAssumption, CapacityType
<1>1. TypeOK
  BY DEF Init, TypeOK
<1>2. 0 \div RefillNanos = 0 /\ 0 * RefillNanos = 0 /\ 1 .. 0 = {}
  OBVIOUS
<1>3. IntervalsOwnedOnce
  BY <1>2 DEF Init, IntervalsOwnedOnce
<1>4. RefillNotAhead /\ Locals
  BY DEF Init, RefillNotAhead, Locals
<1>5. Ledger
  BY FS_EmptySet DEF Init, Ledger
<1> QED
  BY <1>1, <1>3, <1>4, <1>5 DEF Inv

-------------------------------------------------------------------------------
(* The steps that leave the shared words and the intervals alone. *)
LEMMA LocalStep ==
    ASSUME Inv, TypeOK', Locals', now <= now',
           UNCHANGED <<tokens, last_refill, claimed, granted, credited>>
    PROVE  Inv'
<1>1. IntervalsOwnedOnce'
  BY DEF Inv, IntervalsOwnedOnce
<1>2. RefillNotAhead'
  BY DEF Inv, RefillNotAhead, TypeOK
<1>3. Ledger'
  BY DEF Inv, Ledger
<1> QED
  BY <1>1, <1>2, <1>3 DEF Inv

(* A won exchange on last_refill claims exactly the intervals between the  *)
(* old and the new refill time, all of them over.                          *)
LEMMA ClaimStep ==
    ASSUME Inv, NEW t \in Thread, ClaimIntervals(t)
    PROVE  Inv'
<1> USE BucketAssumption, CapacityType
<1> DEFINE k == Intervals(t)
<1>1. Elapsed(t, lastSeen[t]) \in Nat
  BY DEF Elapsed, Inv, TypeOK
<1>2. k \in Nat /\ k * RefillNanos <= Elapsed(t, lastSeen[t])
  BY <1>1, DivType DEF Intervals
<1>3. last_refill = Epoch * RefillNanos /\ Epoch \in Nat /\ last_refill \in Nat
  BY IntervalSets DEF Inv, IntervalsOwnedOnce, Epoch, TypeOK
<1>4. last_refill = lastSeen[t] /\ last_refill' = last_refill + k * RefillNanos
  BY DEF ClaimIntervals, NewLast
<1>5. claimed' = [claimed EXCEPT ![t] = Epoch + 1 .. Epoch + k]
  BY DEF ClaimIntervals, Epoch
<1>6. /\ UNCHANGED <<now, tokens, nowSeen, lastSeen, tokensSeen, granted, credited>>
      /\ pc' = [pc EXCEPT ![t] = "add"] /\ pc[t] = "claim"
  BY DEF ClaimIntervals, GoTo
<1> HIDE DEF k
<1>7. last_refill' = (Epoch + k) * RefillNanos
  BY <1>2, <1>3, <1>4, Distribute
<1>8. Epoch' = Epoch + k
  BY <1>2, <1>3, <1>7, DivOfMultiple DEF Epoch
<1>9. last_refill' \in Nat /\ RefillNotAhead'
  <2>1. last_refill' \in Nat
    BY <1>2, <1>3, <1>4
  <2>2. CASE nowSeen[t] < lastSeen[t]
    <3>1. k * RefillNanos <= 0
      BY <1>2, <2>2 DEF Elapsed
    <3>2. k * RefillNanos \in Nat
      BY <1>2
    <3> QED
      BY <1>3, <1>4, <1>6, <2>1, <3>1, <3>2 DEF Inv, RefillNotAhead, TypeOK
  <2>3. CASE ~(nowSeen[t] < lastSeen[t])
    <3>1. k * RefillNanos <= nowSeen[t] - lastSeen[t]
      BY <1>2, <2>3 DEF Elapsed
    <3>2. /\ k * RefillNanos \in Nat /\ nowSeen[t] \in Nat /\ lastSeen[t] \in Nat
          /\ nowSeen[t] <= now
      BY <1>2 DEF Inv, TypeOK, Locals
    <3> QED
      BY <1>4, <1>6, <2>1, <3>1, <3>2 DEF Inv, RefillNotAhead, TypeOK
  <2> QED
    BY <2>2, <2>3, <2>1
<1>10. TypeOK'
  <2>1. Epoch + 1 .. Epoch + k \subseteq Nat
    BY <1>2, <1>3
  <2>2. claimed' \in [Thread -> SUBSET Nat]
    BY <1>5, <2>1 DEF Inv, TypeOK
  <2> QED
    BY <1>6, <1>9, <2>2 DEF Inv, TypeOK
<1>11. Locals'
  BY <1>5, <1>6 DEF Inv, TypeOK, Locals
<1>12. IntervalsOwnedOnce'
  <2>1. /\ claimed[t] = {} /\ claimed'[t] = Epoch + 1 .. Epoch + k
        /\ \A u \in Thread \ {t} : claimed'[u] = claimed[u]
    BY <1>5, <1>6 DEF Inv, TypeOK, Locals
  <2>2. /\ credited \subseteq 1 .. Epoch
        /\ \A u \in Thread : claimed[u] \subseteq 1 .. Epoch
    BY IntervalSets DEF Inv
  <2>3. (1 .. Epoch) \union (Epoch + 1 .. Epoch + k) = 1 .. Epoch + k
    BY <1>2, <1>3
  <2>4. (1 .. Epoch) \intersect (Epoch + 1 .. Epoch + k) = {}
    BY <1>2, <1>3
  <2>5. credited \union UNION {claimed[u] : u \in Thread} = 1 .. Epoch
    BY DEF Inv, IntervalsOwnedOnce, Epoch
  <2>6. UNION {claimed'[u] : u \in Thread}
          = (UNION {claimed[u] : u \in Thread}) \union (Epoch + 1 .. Epoch + k)
    <3> DEFINE new == Epoch + 1 .. Epoch + k
    <3>1. claimed'[t] = new
      BY <2>1
    <3> HIDE DEF new
    <3>2. ASSUME NEW x
          PROVE  x \in UNION {claimed'[u] : u \in Thread}
                   <=> x \in (UNION {claimed[u] : u \in Thread}) \union new
      <4>1. x \in UNION {claimed'[u] : u \in Thread}
              <=> \E u \in Thread : x \in claimed'[u]
        BY Zenon
      <4>2. x \in UNION {claimed[u] : u \in Thread}
              <=> \E u \in Thread : x \in claimed[u]
        BY Zenon
      <4>3. (\E u \in Thread : x \in claimed'[u])
              <=> x \in new \/ \E u \in Thread : x \in claimed[u]
        BY <2>1, <3>1
      <4> QED
        BY <4>1, <4>2, <4>3
    <3> QED
      BY <3>2, Zenon DEF new
  <2>7. credited' \union UNION {claimed'[u] : u \in Thread} = 1 .. Epoch + k
    <3> DEFINE old == UNION {claimed[u] : u \in Thread}
               new == Epoch + 1 .. Epoch + k
               all == UNION {claimed'[u] : u \in Thread}
    <3>1. credited' = credited /\ all = old \union new /\ credited \union old = 1 .. Epoch
      BY <1>6, <2>5, <2>6
    <3>2. (1 .. Epoch) \union new = 1 .. Epoch + k
      BY <2>3
    <3> HIDE DEF old, new, all
    <3>3. credited' \union all = (credited \union old) \union new
      BY <3>1
    <3>4. credited' \union all = 1 .. Epoch + k
      BY <3>1, <3>2, <3>3
    <3> QED
      BY <3>4 DEF all
  <2>8. \A u \in Thread :
           /\ claimed'[u] \intersect credited' = {}
           /\ \A v \in Thread \ {u} : claimed'[u] \intersect claimed'[v] = {}
    BY <1>6, <2>1, <2>2, <2>4 DEF Inv, IntervalsOwnedOnce
  <2> QED
    BY <1>7, <1>8, <2>7, <2>8 DEF IntervalsOwnedOnce, Epoch
<1>13. Ledger'
  BY <1>6 DEF Inv, Ledger
<1> QED
  BY <1>9, <1>10, <1>11, <1>12, <1>13 DEF Inv

(* Settling a thread's intervals moves them from it to the credited ones;  *)
(* the bucket may have grown by no more than they are worth.               *)
LEMMA SettleStep ==
    ASSUME Inv, NEW t \in Thread, Settle(t), TypeOK', Locals',
           UNCHANGED <<now, last_refill, granted>>,
           tokens' <= tokens + Cardinality(claimed[t]) * Scale
    PROVE  Inv'
<1> USE BucketAssumption, CapacityType
<1>1. /\ credited' = credited \union claimed[t]
      /\ claimed'[t] = {}
      /\ \A u \in Thread \ {t} : claimed'[u] = claimed[u]
  BY DEF Settle, Inv, TypeOK
<1>2. IntervalsOwnedOnce'
  <2>1. credited' \union UNION {claimed'[u] : u \in Thread}
          = credited \union UNION {claimed[u] : u \in Thread}
    <3>1. ASSUME NEW x
          PROVE  x \in credited' \union UNION {claimed'[u] : u \in Thread}
                   <=> x \in credited \union UNION {claimed[u] : u \in Thread}
      <4>1. x \in UNION {claimed'[u] : u \in Thread}
              <=> \E u \in Thread : x \in claimed'[u]
        BY Zenon
      <4>2. x \in UNION {claimed[u] : u \in Thread}
              <=> \E u \in Thread : x \in claimed[u]
        BY Zenon
      <4>3. x \in credited' \/ (\E u \in Thread : x \in claimed'[u])
              <=> x \in credited \/ (\E u \in Thread : x \in claimed[u])
        BY <1>1
      <4> QED
        BY <4>1, <4>2, <4>3
    <3> QED
      BY <3>1, Zenon
  <2>2. \A u \in Thread :
           /\ claimed'[u] \intersect credited' = {}
           /\ \A v \in Thread \ {u} : claimed'[u] \intersect claimed'[v] = {}
    BY <1>1 DEF Inv, IntervalsOwnedOnce
  <2> QED
    BY <2>1, <2>2 DEF Inv, IntervalsOwnedOnce
<1>3. RefillNotAhead'
  BY DEF Inv, RefillNotAhead
<1>4. Ledger'
  <2> DEFINE n == Cardinality(credited)
             m == Cardinality(claimed[t])
  <2>1. /\ IsFiniteSet(credited) /\ n \in Nat
        /\ IsFiniteSet(claimed[t]) /\ m \in Nat
    BY IntervalSets DEF Inv
  <2>2. credited \intersect claimed[t] = {}
    BY DEF Inv, IntervalsOwnedOnce
  <2>3. Cardinality(credited') = n + m
    <3>1. Cardinality(credited \union claimed[t])
            = n + m - Cardinality(credited \intersect claimed[t])
      BY <2>1, FS_Union
    <3>2. Cardinality(credited \intersect claimed[t]) = 0
      BY <2>2, FS_EmptySet
    <3> QED
      BY <1>1, <2>1, <3>1, <3>2
  <2> HIDE DEF n, m
  <2>4. (n + m) * Scale = n * Scale + m * Scale
    BY <2>1, Distribute
  <2>5. /\ n * Scale \in Nat /\ m * Scale \in Nat /\ granted * Scale \in Nat
        /\ tokens \in Nat /\ tokens' \in Nat
    BY <2>1 DEF Inv, TypeOK
  <2>6. granted * Scale + tokens <= Capacity + n * Scale
    BY DEF Inv, Ledger, n
  <2>7. tokens' <= tokens + m * Scale
    BY DEF m
  <2>8. granted * Scale + tokens' <= Capacity + (n + m) * Scale
    BY <2>4, <2>5, <2>6, <2>7
  <2> QED
    BY <2>3, <2>8 DEF Ledger
<1> QED
  BY <1>2, <1>3, <1>4 DEF Inv
-------------------------------------------------------------------------------
(* The remaining steps, one by one. *)
LEMMA CallStep ==
    ASSUME Inv, NEW t \in Thread,
           \/ ReadClock(t) \/ LoadLastRefill(t) \/ ClaimFails(t) \/ AddFails(t)
           \/ LoadToTake(t) \/ Deny(t) \/ TakeFails(t)
    PROVE  Inv'
<1> USE BucketAssumption, CapacityType
<1>1. CASE ReadClock(t)
  <2>1. TypeOK'
    BY <1>1 DEF ReadClock, GoTo, shared, Inv, TypeOK
  <2>2. Locals'
    BY <1>1 DEF ReadClock, GoTo, shared, Inv, TypeOK, Locals
  <2> QED
    BY <1>1, <2>1, <2>2, LocalStep DEF ReadClock, shared, Inv, TypeOK
<1>2. CASE LoadLastRefill(t)
  <2> DEFINE next == IF Elapsed(t, last_refill) < RefillNanos THEN "take" ELSE "claim"
  <2>1. next \in {"take", "claim"}
    OBVIOUS
  <2>2. pc' = [pc EXCEPT ![t] = next]
    BY <1>2 DEF LoadLastRefill, GoTo
  <2> HIDE DEF next
  <2>3. TypeOK'
    BY <1>2, <2>1, <2>2 DEF LoadLastRefill, shared, Inv, TypeOK
  <2>4. Locals'
    BY <1>2, <2>1, <2>2 DEF LoadLastRefill, shared, Inv, TypeOK, Locals
  <2> QED
    BY <1>2, <2>3, <2>4, LocalStep DEF LoadLastRefill, shared, Inv, TypeOK
<1>3. CASE ClaimFails(t)
  <2>1. TypeOK'
    BY <1>3 DEF ClaimFails, GoTo, shared, Inv, TypeOK
  <2>2. Locals'
    BY <1>3 DEF ClaimFails, GoTo, shared, Inv, TypeOK, Locals
  <2> QED
    BY <1>3, <2>1, <2>2, LocalStep DEF ClaimFails, shared, Inv, TypeOK
<1>4. CASE AddFails(t)
  <2>1. TypeOK'
    BY <1>4 DEF AddFails, GoTo, shared, Inv, TypeOK
  <2>2. Locals'
    BY <1>4 DEF AddFails, GoTo, shared, Inv, TypeOK, Locals
  <2> QED
    BY <1>4, <2>1, <2>2, LocalStep DEF AddFails, shared, Inv, TypeOK
<1>5. CASE LoadToTake(t)
  <2>1. TypeOK'
    BY <1>5 DEF LoadToTake, GoTo, shared, Inv, TypeOK
  <2>2. Locals'
    BY <1>5 DEF LoadToTake, GoTo, shared, Inv, TypeOK, Locals
  <2> QED
    BY <1>5, <2>1, <2>2, LocalStep DEF LoadToTake, shared, Inv, TypeOK
<1>6. CASE Deny(t)
  <2>1. TypeOK'
    BY <1>6 DEF Deny, Return, GoTo, shared, Inv, TypeOK
  <2>2. Locals'
    BY <1>6 DEF Deny, Return, GoTo, shared, Inv, TypeOK, Locals
  <2> QED
    BY <1>6, <2>1, <2>2, LocalStep DEF Deny, shared, Inv, TypeOK
<1>7. CASE TakeFails(t)
  <2>1. TypeOK'
    BY <1>7 DEF TakeFails, GoTo, shared, Inv, TypeOK
  <2>2. Locals'
    BY <1>7 DEF TakeFails, GoTo, shared, Inv, TypeOK, Locals
  <2> QED
    BY <1>7, <2>1, <2>2, LocalStep DEF TakeFails, shared, Inv, TypeOK
<1> QED
  BY <1>1, <1>2, <1>3, <1>4, <1>5, <1>6, <1>7

(* The refilled count is a legal one, and no more than the old count and   *)
(* the claimed intervals' worth.                                           *)
LEMMA RefilledBounds ==
    ASSUME Inv, NEW t \in Thread, NEW n \in 0 .. Capacity
    PROVE  /\ Refilled(t, n) \in 0 .. Capacity
           /\ Refilled(t, n) <= n + Cardinality(claimed[t]) * Scale
<1> USE BucketAssumption, CapacityType
<1>1. Cardinality(claimed[t]) \in Nat
  BY IntervalSets DEF Inv
<1>2. Cardinality(claimed[t]) * Scale \in Nat
  BY <1>1
<1> QED
  BY <1>2 DEF Refilled

(* Crediting the tokens keeps the invariant. *)
LEMMA AddStep ==
    ASSUME Inv, NEW t \in Thread, LoadToAdd(t) \/ AddTokens(t)
    PROVE  Inv'
<1> USE BucketAssumption, CapacityType
<1>0. claimed[t] \subseteq Nat /\ tokens \in 0 .. Capacity /\ tokensSeen[t] \in 0 .. Capacity
  BY DEF Inv, TypeOK
<1>1. CASE LoadToAdd(t)
  <2>1. CASE Refilled(t, tokens) = tokens
    <3>1. Settle(t) /\ pc' = [pc EXCEPT ![t] = "take"]
      BY <1>1, <2>1 DEF LoadToAdd, GoTo
    <3>2. TypeOK'
      BY <1>0, <1>1, <3>1 DEF LoadToAdd, Settle, shared, Inv, TypeOK
    <3>3. Locals'
      BY <1>1, <3>1 DEF LoadToAdd, Settle, shared, Inv, TypeOK, Locals
    <3>4. tokens' <= tokens + Cardinality(claimed[t]) * Scale
      BY <1>0, <1>1, <2>1, RefilledBounds DEF LoadToAdd, shared
    <3> QED
      BY <1>1, <3>1, <3>2, <3>3, <3>4, SettleStep DEF LoadToAdd, shared
  <2>2. CASE Refilled(t, tokens) # tokens
    <3>1. pc' = [pc EXCEPT ![t] = "addcas"] /\ UNCHANGED <<claimed, credited>>
      BY <1>1, <2>2 DEF LoadToAdd, GoTo
    <3>2. TypeOK'
      BY <1>0, <1>1, <3>1 DEF LoadToAdd, shared, Inv, TypeOK
    <3>3. Locals'
      BY <1>1, <3>1 DEF LoadToAdd, shared, Inv, TypeOK, Locals
    <3> QED
      BY <1>1, <3>1, <3>2, <3>3, LocalStep DEF LoadToAdd, shared, Inv, TypeOK
  <2> QED
    BY <2>1, <2>2
<1>2. CASE AddTokens(t)
  <2>1. /\ Settle(t) /\ pc' = [pc EXCEPT ![t] = "take"]
        /\ tokens = tokensSeen[t] /\ tokens' = Refilled(t, tokensSeen[t])
        /\ UNCHANGED <<now, last_refill, nowSeen, lastSeen, tokensSeen, granted>>
    BY <1>2 DEF AddTokens, GoTo
  <2>2. /\ tokens' \in 0 .. Capacity
        /\ tokens' <= tokens + Cardinality(claimed[t]) * Scale
    BY <1>0, <2>1, RefilledBounds
  <2>3. TypeOK'
    BY <1>0, <2>1, <2>2 DEF Settle, Inv, TypeOK
  <2>4. Locals'
    BY <2>1 DEF Settle, Inv, TypeOK, Locals
  <2> QED
    BY <2>1, <2>2, <2>3, <2>4, SettleStep
<1> QED
  BY <1>1, <1>2

(* A grant takes from the bucket what it adds to the calls granted. *)
LEMMA GrantStep ==
    ASSUME Inv, NEW t \in Thread, Grant(t)
    PROVE  Inv'
<1> USE BucketAssumption, CapacityType
<1>1. /\ tokens \in 0 .. Capacity /\ granted \in Nat
      /\ tokens = tokensSeen[t] /\ tokens >= Scale
      /\ tokens' = tokens - Scale /\ granted' = granted + 1
      /\ UNCHANGED <<now, last_refill, claimed, credited>>
  BY DEF Grant, Inv, TypeOK, Locals
<1>2. TypeOK'
  BY <1>1 DEF Grant, Return, GoTo, Inv, TypeOK
<1>3. Locals'
  BY <1>1 DEF Grant, Return, GoTo, Inv, TypeOK, Locals
<1>4. IntervalsOwnedOnce' /\ RefillNotAhead'
  BY <1>1 DEF Inv, IntervalsOwnedOnce, RefillNotAhead
<1>5. Ledger'
  <2>1. granted' * Scale = granted * Scale + Scale
    BY <1>1, Distribute
  <2>2. granted * Scale \in Nat
    BY <1>1
  <2>3. granted' * Scale + tokens' = granted * Scale + tokens
    BY <1>1, <2>1, <2>2
  <2> QED
    BY <1>1, <2>3 DEF Inv, Ledger
<1> QED
  BY <1>2, <1>3, <1>4, <1>5 DEF Inv

(* So does the passing of time, ... *)
LEMMA TickStep == Inv /\ Tick => Inv'
<1> SUFFICES ASSUME Inv, Tick PROVE Inv'
  OBVIOUS
<1> USE BucketAssumption, CapacityType
<1>1. TypeOK'
  BY DEF Tick, Inv, TypeOK
<1>2. Locals'
  BY DEF Tick, Inv, TypeOK, Locals
<1> QED
  BY <1>1, <1>2, LocalStep DEF Tick, Inv, TypeOK

(* ... and a step that changes nothing. *)
LEMMA StutterStep == Inv /\ UNCHANGED vars => Inv'
<1> SUFFICES ASSUME Inv, UNCHANGED vars PROVE Inv'
  OBVIOUS
<1> USE BucketAssumption, CapacityType
<1>1. TypeOK' /\ Locals'
  BY DEF vars, shared, Inv, TypeOK, Locals
<1> QED
  BY <1>1, LocalStep DEF vars, shared, Inv, TypeOK

(* Every step keeps the invariant, ... *)
LEMMA InvStep == Inv /\ [Next]_vars => Inv'
<1> SUFFICES ASSUME Inv, [Next]_vars PROVE Inv'
  OBVIOUS
<1>1. CASE Tick
  BY <1>1, TickStep
<1>2. ASSUME NEW t \in Thread,
             \/ ReadClock(t) \/ LoadLastRefill(t) \/ ClaimIntervals(t) \/ ClaimFails(t)
             \/ LoadToAdd(t) \/ AddTokens(t) \/ AddFails(t)
             \/ LoadToTake(t) \/ Deny(t) \/ Grant(t) \/ TakeFails(t)
      PROVE  Inv'
  BY <1>2, CallStep, ClaimStep, AddStep, GrantStep
<1>3. CASE UNCHANGED vars
  BY <1>3, StutterStep
<1> QED
  BY <1>1, <1>2, <1>3 DEF Next

(* ... so it always holds. *)
LEMMA InvAlways == Spec => []Inv
BY InvInit, InvStep, PTL DEF Spec

-------------------------------------------------------------------------------
(* try_acquire() and refill() keep every variable in its type; the bucket  *)
(* never exceeds `capacity`.                                               *)
THEOREM TypeCorrect == Spec => []TypeOK
<1>1. Inv => TypeOK
  BY DEF Inv
<1> QED
  BY <1>1, InvAlways, PTL

(* The exchange on last_refill in refill() hands each elapsed interval to  *)
(* one thread: none is added twice, none is lost.                          *)
THEOREM IntervalsAlwaysOwnedOnce == Spec => []IntervalsOwnedOnce
<1>1. Inv => IntervalsOwnedOnce
  BY DEF Inv
<1> QED
  BY <1>1, InvAlways, PTL

(* refill() never moves last_refill past the clock, from stale readings    *)
(* of either.                                                              *)
THEOREM RefillNeverAhead == Spec => []RefillNotAhead
<1>1. Inv => RefillNotAhead
  BY DEF Inv
<1> QED
  BY <1>1, InvAlways, PTL

(* The limiter limits: by any time, try_acquire() has returned true no     *)
(* more often than the burst plus one per elapsed refill interval.         *)
THEOREM RateLimitHolds == Spec => []RateLimit
<1>1. Inv => RateLimit
  <2> SUFFICES ASSUME Inv PROVE RateLimit
    OBVIOUS
  <2> USE BucketAssumption, CapacityType
  <2> DEFINE n == Cardinality(credited)
             e == now \div RefillNanos
  <2>1. n \in Nat /\ n <= Epoch /\ Epoch \in Nat
    BY IntervalSets DEF Inv
  <2>2. Epoch <= e /\ e \in Nat
    BY DivMono, DivType, SMTT(30) DEF Inv, RefillNotAhead, TypeOK, Epoch
  <2>3. granted * Scale + tokens <= Capacity + n * Scale
    BY DEF Inv, Ledger
  <2>4. granted \in Nat /\ tokens \in Nat
    BY DEF Inv, TypeOK
  <2> HIDE DEF n, e
  <2>5. n * Scale <= e * Scale /\ n * Scale \in Nat /\ e * Scale \in Nat
    BY <2>1, <2>2, TimesMono
  <2>6. granted * Scale \in Nat
    BY <2>4
  <2>7. granted * Scale + tokens <= Capacity + e * Scale
    BY <2>3, <2>4, <2>5, <2>6
  <2> QED
    BY <2>7 DEF RateLimit, e
<1> QED
  BY <1>1, InvAlways, PTL
===============================================================================
