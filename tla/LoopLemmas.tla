------------------------------ MODULE LoopLemmas ------------------------------
(***************************************************************************)
(* Induction, in the first-order form that the provers can use: over a set *)
(* of natural numbers instead of a predicate.  From it follows what the    *)
(* models' loops, written with FoldLeft, compute: the accumulator after    *)
(* the first k elements is the loop body applied to the one after k - 1.   *)
(***************************************************************************)
EXTENDS Selection, SequenceTheorems, WellFoundedInduction, TLAPS

(* A non-empty set of natural numbers has a least element. *)
LEMMA LeastNat ==
    ASSUME NEW T \in SUBSET Nat, T # {}
    PROVE  \E x \in T : \A y \in T : x <= y
<1> DEFINE Less == {ss \in Nat \X Nat : ss[1] < ss[2]}
<1>1. IsWellFoundedOn(Less, Nat)
  BY NatLessThanWellFounded DEF OpToRel
<1>2. PICK x \in T : \A y \in T : ~ (<<y, x>> \in Less)
  <2> HIDE DEF Less
  <2> QED BY <1>1, WFMin
<1>3. ASSUME NEW y \in T PROVE x <= y
  <2>1. x \in Nat /\ y \in Nat
    OBVIOUS
  <2>2. ~(y < x)
    BY <1>2, <2>1
  <2> QED
    BY <2>1, <2>2
<1> QED
  BY <1>3

(* Induction up to n: a set that has 0, and with every k below n also      *)
(* k + 1, has all the numbers up to n.                                     *)
LEMMA IntervalInduction ==
    ASSUME NEW n \in Nat, NEW T, 0 \in T,
           \A k \in 0 .. n : k \in T /\ k < n => k + 1 \in T
    PROVE  \A k \in 0 .. n : k \in T
<1> DEFINE missing == {k \in 0 .. n : k \notin T}
<1>1. SUFFICES ASSUME missing # {} PROVE FALSE
  OBVIOUS
<1>2. PICK x \in missing : \A y \in missing : x <= y
  <2>1. missing \in SUBSET Nat
    OBVIOUS
  <2> HIDE DEF missing
  <2> QED
    BY <1>1, <2>1, LeastNat
<1>3. x # 0 /\ x - 1 \in 0 .. n /\ x - 1 < n
  BY <1>2
<1>4. x - 1 \in T
  BY <1>2, <1>3
<1>5. (x - 1) + 1 \in T
  BY <1>3, <1>4
<1> QED
  BY <1>2, <1>5

(* A non-empty set of numbers up to n has a maximum, and Max finds it. *)
LEMMA MaxInInterval ==
    ASSUME NEW n \in Nat, NEW s \in SUBSET (1 .. n), s # {}
    PROVE  Max(s) \in s /\ \A y \in s : Max(s) >= y
<1> DEFINE above == {n - y : y \in s}
<1>1. above \in SUBSET Nat /\ above # {}
  <2>1. ASSUME NEW y \in s PROVE n - y \in Nat
    <3>1. y \in 1 .. n
      OBVIOUS
    <3> QED
      BY <3>1
  <2> QED
    BY <2>1
<1>2. PICK z \in above : \A y \in above : z <= y
  <2> HIDE DEF above
  <2> QED
    BY <1>1, LeastNat
<1>3. PICK x \in s : z = n - x
  BY <1>2
<1>4. ASSUME NEW y \in s PROVE x >= y
  <2>1. n - y \in above
    OBVIOUS
  <2>2. n - x <= n - y
    BY <1>2, <1>3, <2>1
  <2>3. x \in 1 .. n /\ y \in 1 .. n
    OBVIOUS
  <2> QED
    BY <2>2, <2>3
<1>5. \E w \in s : \A y \in s : w >= y
  BY <1>4
<1> QED
  BY <1>5 DEF Max

(* The table that FoldLeft makes of a loop over n steps: for a set of      *)
(* steps, the accumulator after them, taken in order.                      *)
IsLoop(g, n, base, step) ==
    \A s \in SUBSET (1 .. n) :
      g[s] = IF s = {} THEN base ELSE step[Max(s)][g[s \ {Max(s)}]]

(* Every loop has such a table, and its entries are accumulators. *)
LEMMA LoopTable ==
    ASSUME NEW Acc, NEW base \in Acc, NEW n \in Nat, NEW step \in [1 .. n -> [Acc -> Acc]]
    PROVE  \E g \in [SUBSET (1 .. n) -> Acc] : IsLoop(g, n, base, step)
<1> DEFINE Table(k, g) == g \in [SUBSET (1 .. k) -> Acc] /\ IsLoop(g, k, base, step)
           T == {k \in 0 .. n : \E g : Table(k, g)}
<1>1. 0 \in T
  <2>1. Table(0, [s \in SUBSET (1 .. 0) |-> base])
    BY DEF IsLoop
  <2> HIDE DEF Table
  <2> QED
    BY <2>1
<1>2. ASSUME NEW k \in 0 .. n, k \in T, k < n PROVE k + 1 \in T
  <2>1. PICK g : Table(k, g)
    BY <1>2
  <2> DEFINE h == [s \in SUBSET (1 .. k + 1) |->
                     IF k + 1 \in s THEN step[k + 1][g[s \ {k + 1}]] ELSE g[s]]
  <2>2. ASSUME NEW s \in SUBSET (1 .. k + 1), k + 1 \notin s
        PROVE  s \in SUBSET (1 .. k) /\ h[s] = g[s] /\ h[s] \in Acc
    <3>1. s \in SUBSET (1 .. k)
      BY <2>2
    <3> QED
      BY <2>1, <2>2, <3>1
  <2>3. ASSUME NEW s \in SUBSET (1 .. k + 1), k + 1 \in s
        PROVE  /\ s \ {k + 1} \in SUBSET (1 .. k)
               /\ h[s] = step[k + 1][g[s \ {k + 1}]] /\ h[s] \in Acc
               /\ Max(s) = k + 1
    <3>1. s \ {k + 1} \in SUBSET (1 .. k)
      BY <2>3
    <3>2. g[s \ {k + 1}] \in Acc /\ k + 1 \in 1 .. n
      BY <2>1, <3>1, <1>2
    <3>3. step[k + 1] \in [Acc -> Acc]
      BY <3>2
    <3>4. Max(s) = k + 1
      <4>1. Max(s) \in s /\ Max(s) >= k + 1
        <5>1. k + 1 \in Nat /\ s # {}
          BY <2>3
        <5> QED
          BY <2>3, <5>1, MaxInInterval
      <4>2. Max(s) \in 1 .. k + 1
        BY <4>1
      <4> QED
        BY <4>1, <4>2
    <3> QED
      BY <3>1, <3>2, <3>3, <3>4, <2>3
  <2>4. h \in [SUBSET (1 .. k + 1) -> Acc]
    BY <2>2, <2>3
  <2>5. ASSUME NEW s \in SUBSET (1 .. k + 1)
        PROVE  h[s] = IF s = {} THEN base ELSE step[Max(s)][h[s \ {Max(s)}]]
    <3>1. CASE s = {}
      <4>1. h[s] = g[s] /\ s \in SUBSET (1 .. k)
        BY <2>2, <3>1
      <4> QED
        BY <2>1, <3>1, <4>1 DEF IsLoop
    <3>2. CASE s # {} /\ k + 1 \notin s
      <4>1. h[s] = g[s] /\ s \in SUBSET (1 .. k)
        BY <2>2, <3>2
      <4>2. g[s] = step[Max(s)][g[s \ {Max(s)}]]
        BY <2>1, <3>2, <4>1 DEF IsLoop
      <4>3. s \ {Max(s)} \in SUBSET (1 .. k + 1) /\ k + 1 \notin s \ {Max(s)}
        BY <3>2
      <4>4. h[s \ {Max(s)}] = g[s \ {Max(s)}]
        BY <2>2, <4>3
      <4> QED
        BY <3>2, <4>1, <4>2, <4>4
    <3>3. CASE k + 1 \in s
      <4>1. h[s] = step[k + 1][g[s \ {k + 1}]] /\ Max(s) = k + 1
        BY <2>3, <3>3
      <4>2. s \ {k + 1} \in SUBSET (1 .. k + 1) /\ k + 1 \notin s \ {k + 1}
        OBVIOUS
      <4>3. h[s \ {k + 1}] = g[s \ {k + 1}]
        BY <2>2, <4>2
      <4>4. s # {}
        BY <3>3
      <4> HIDE DEF h
      <4> QED
        BY <4>1, <4>3, <4>4
    <3> QED
      BY <3>1, <3>2, <3>3
  <2>6. Table(k + 1, h)
    BY <2>4, <2>5 DEF IsLoop
  <2>7. k + 1 \in 0 .. n
    BY <1>2
  <2> HIDE DEF Table, h
  <2> QED
    BY <2>6, <2>7
<1>3. n \in T
  <2> HIDE DEF T
  <2>1. \A k \in 0 .. n : k \in T /\ k < n => k + 1 \in T
    BY <1>2
  <2>2. \A k \in 0 .. n : k \in T
    BY <1>1, <2>1, IntervalInduction
  <2> QED
    BY <2>2
<1>4. PICK g : Table(n, g)
  BY <1>3
<1> QED
  BY <1>4

(* The first k of the steps without the last of them are the first k - 1. *)
LEMMA LoopPrefix ==
    ASSUME NEW k \in Nat \ {0}
    PROVE  /\ 1 .. k # {} /\ Max(1 .. k) = k
           /\ (1 .. k) \ {Max(1 .. k)} = 1 .. k - 1
<1>1. k \in 1 .. k
  OBVIOUS
<1>2. Max(1 .. k) \in 1 .. k /\ Max(1 .. k) >= k
  BY <1>1, MaxInInterval
<1>3. Max(1 .. k) = k
  BY <1>2
<1>4. (1 .. k) \ {k} = 1 .. k - 1
  OBVIOUS
<1> QED
  BY <1>1, <1>3, <1>4

--------------------------------------------------------------------------------
(* Concatenation passes through Append. *)
LEMMA ConcatAppend ==
    ASSUME NEW S, NEW s \in Seq(S), NEW t \in Seq(S), NEW e \in S
    PROVE  s \o Append(t, e) = Append(s \o t, e)
<1>1. <<e>> \in Seq(S)
  OBVIOUS
<1>2. Append(t, e) = t \o <<e>>
  BY AppendIsConcat
<1>3. s \o t \in Seq(S)
  BY ConcatProperties
<1>4. Append(s \o t, e) = (s \o t) \o <<e>>
  BY <1>3, AppendIsConcat
<1>5. (s \o t) \o <<e>> = s \o (t \o <<e>>)
  BY <1>1, ConcatAssociative
<1> QED
  BY <1>2, <1>4, <1>5


(* What two sequences hold together. *)
LEMMA ToSetConcat ==
    ASSUME NEW S, NEW s \in Seq(S), NEW t \in Seq(S)
    PROVE  ToSet(s \o t) = ToSet(s) \union ToSet(t)
<1> DEFINE m == Len(s)
           n == Len(t)
<1>1. /\ m \in Nat /\ n \in Nat /\ DOMAIN s = 1 .. m /\ DOMAIN t = 1 .. n
      /\ DOMAIN (s \o t) = 1 .. m + n
      /\ \A i \in 1 .. m + n : (s \o t)[i] = IF i <= m THEN s[i] ELSE t[i - m]
  BY LenProperties, ConcatProperties
<1> HIDE DEF m, n
<1>2. ASSUME NEW x \in ToSet(s \o t) PROVE x \in ToSet(s) \union ToSet(t)
  <2>1. PICK i \in 1 .. m + n : x = (s \o t)[i]
    BY <1>1 DEF ToSet
  <2>2. CASE i <= m
    <3>1. i \in 1 .. m /\ x = s[i]
      BY <1>1, <2>1, <2>2
    <3> QED
      BY <1>1, <3>1 DEF ToSet
  <2>3. CASE ~(i <= m)
    <3>1. i - m \in 1 .. n /\ x = t[i - m]
      BY <1>1, <2>1, <2>3
    <3> QED
      BY <1>1, <3>1 DEF ToSet
  <2> QED
    BY <2>2, <2>3
<1>3. ASSUME NEW x \in ToSet(s) PROVE x \in ToSet(s \o t)
  <2>1. PICK i \in 1 .. m : x = s[i]
    BY <1>1 DEF ToSet
  <2>2. i \in 1 .. m + n /\ x = (s \o t)[i]
    BY <1>1, <2>1
  <2> QED
    BY <1>1, <2>2 DEF ToSet
<1>4. ASSUME NEW x \in ToSet(t) PROVE x \in ToSet(s \o t)
  <2>1. PICK i \in 1 .. n : x = t[i]
    BY <1>1 DEF ToSet
  <2>2. i + m \in 1 .. m + n /\ ~(i + m <= m) /\ (i + m) - m = i
    BY <1>1, <2>1
  <2>3. x = (s \o t)[i + m]
    BY <1>1, <2>1, <2>2
  <2> QED
    BY <1>1, <2>2, <2>3 DEF ToSet
<1> QED
  BY <1>2, <1>3, <1>4

(* Sequences of anything. *)
IsSeq(s) == s \in Seq(ToSet(s))

(* A sequence is one over its own elements. *)
LEMMA SeqOwnRange ==
    ASSUME NEW S, NEW s \in Seq(S)
    PROVE  IsSeq(s)
<1>1. Len(s) \in Nat /\ DOMAIN s = 1 .. Len(s) /\ s \in [1 .. Len(s) -> S]
  BY LenProperties
<1>2. \A i \in 1 .. Len(s) : s[i] \in ToSet(s)
  BY <1>1 DEF ToSet
<1>3. s \in [1 .. Len(s) -> ToSet(s)]
  BY <1>1, <1>2
<1> QED
  BY <1>1, <1>3, SeqDef DEF IsSeq

(* What a sequence is, and what appending does to it, whatever its         *)
(* elements are.                                                           *)
LEMMA SeqFacts ==
    ASSUME NEW s, IsSeq(s)
    PROVE  /\ Len(s) \in Nat /\ DOMAIN s = 1 .. Len(s)
           /\ \A e : /\ IsSeq(Append(s, e)) /\ Len(Append(s, e)) = Len(s) + 1
                     /\ \A i \in 1 .. Len(s) : Append(s, e)[i] = s[i]
                     /\ Append(s, e)[Len(s) + 1] = e
                     /\ Last(Append(s, e)) = e
<1>1. Len(s) \in Nat /\ DOMAIN s = 1 .. Len(s)
  BY LenProperties DEF IsSeq
<1>2. ASSUME NEW e
      PROVE  /\ IsSeq(Append(s, e)) /\ Len(Append(s, e)) = Len(s) + 1
             /\ \A i \in 1 .. Len(s) : Append(s, e)[i] = s[i]
             /\ Append(s, e)[Len(s) + 1] = e
             /\ Last(Append(s, e)) = e
  <2>1. PICK S : S = ToSet(s) \union {e}
    OBVIOUS
  <2>2. s \in Seq(S) /\ e \in S
    <3>1. \A i \in 1 .. Len(s) : s[i] \in S
      BY <1>1, <2>1 DEF ToSet
    <3>2. s \in [1 .. Len(s) -> ToSet(s)]
      BY LenProperties DEF IsSeq
    <3>3. s \in [1 .. Len(s) -> S]
      BY <3>1, <3>2
    <3> QED
      BY <1>1, <2>1, <3>3, SeqDef
  <2>3. PICK r : r = Append(s, e)
    OBVIOUS
  <2>4. /\ r \in Seq(S) /\ Len(r) = Len(s) + 1
        /\ \A i \in 1 .. Len(s) : r[i] = s[i]
        /\ r[Len(s) + 1] = e
    BY <2>2, <2>3, AppendProperties
  <2>5. IsSeq(r)
    BY <2>4, SeqOwnRange
  <2>6. Last(r) = e
    BY <2>4 DEF Last
  <2> QED
    BY <2>3, <2>4, <2>5, <2>6
<1> QED
  BY <1>1, <1>2

--------------------------------------------------------------------------------
(* Keep: what a filter selects from a sequence. *)

(* What Keep has selected after the first k elements. *)
IsSelection(f, s, wanted) ==
    /\ f[0] = <<>>
    /\ \A k \in 1 .. Len(s) : f[k] = IF s[k] \in wanted THEN Append(f[k - 1], s[k]) ELSE f[k - 1]

(* Keep is such a selection, taken to the end. *)
LEMMA KeepLoop ==
    ASSUME NEW S, NEW s \in Seq(S), NEW wanted
    PROVE  \E f \in [0 .. Len(s) -> Seq(S)] :
             IsSelection(f, s, wanted) /\ Keep(s, wanted) = f[Len(s)]
<1> DEFINE n == Len(s)
           Select(kept, x) == IF x \in wanted THEN Append(kept, x) ELSE kept
           Loop(g) == g = [t \in SUBSET (1 .. n) |->
                             IF t = {} THEN <<>> ELSE Select(g[t \ {Max(t)}], s[Max(t)])]
           iter == CHOOSE g : Loop(g)
<1>1. n \in Nat /\ DOMAIN s = 1 .. n /\ \A k \in 1 .. n : s[k] \in S
  BY LenProperties
<1>2. Keep(s, wanted) = iter[1 .. n]
  BY <1>1 DEF Keep, FoldLeft, MapThenFoldSet
<1>3. <<>> \in Seq(S)
  BY EmptySeq
<1>4. ASSUME NEW kept \in Seq(S), NEW k \in 1 .. n PROVE Select(kept, s[k]) \in Seq(S)
  BY <1>1, AppendProperties
<1>5. \E g \in [SUBSET (1 .. n) -> Seq(S)] : Loop(g)
  <2> DEFINE step == [k \in 1 .. n |-> [kept \in Seq(S) |-> Select(kept, s[k])]]
  <2>1. step \in [1 .. n -> [Seq(S) -> Seq(S)]]
    <3> HIDE DEF Select
    <3> QED BY <1>4
  <2>2. PICK g \in [SUBSET (1 .. n) -> Seq(S)] : IsLoop(g, n, <<>>, step)
    <3> HIDE DEF step, n
    <3> QED
      BY <1>1, <1>3, <2>1, LoopTable
  <2>3. ASSUME NEW t \in SUBSET (1 .. n), t # {}
        PROVE  step[Max(t)][g[t \ {Max(t)}]] = Select(g[t \ {Max(t)}], s[Max(t)])
    <3>1. Max(t) \in 1 .. n
      BY <1>1, <2>3, MaxInInterval
    <3>2. g[t \ {Max(t)}] \in Seq(S)
      <4>1. t \ {Max(t)} \in SUBSET (1 .. n)
        OBVIOUS
      <4> QED
        BY <4>1
    <3> HIDE DEF Select
    <3> QED
      BY <3>1, <3>2
  <2> HIDE DEF step, Select
  <2>4. Loop(g)
    BY <2>2, <2>3 DEF IsLoop
  <2> QED
    BY <2>4
<1>6. Loop(iter)
  <2> HIDE DEF Loop
  <2> QED
    BY <1>5
<1>7. iter[{}] = <<>>
  <2> HIDE DEF iter
  <2> QED
    BY <1>6
<1>8. ASSUME NEW k \in 1 .. n PROVE iter[1 .. k] = Select(iter[1 .. k - 1], s[k])
  <2>1. 1 .. k \in SUBSET (1 .. n) /\ 1 .. k # {}
    <3>1. n \in Nat
      BY <1>1
    <3> HIDE DEF n
    <3> QED
      BY <3>1
  <2>2. Max(1 .. k) = k /\ (1 .. k) \ {Max(1 .. k)} = 1 .. k - 1
    BY LoopPrefix, SMTT(30)
  <2> HIDE DEF iter, Select
  <2>3. iter[1 .. k] = Select(iter[(1 .. k) \ {Max(1 .. k)}], s[Max(1 .. k)])
    BY <1>6, <2>1
  <2> QED
    BY <2>2, <2>3
<1> HIDE DEF iter, Loop
<1>9. 1 .. 0 = {}
  OBVIOUS
<1> DEFINE T == {k \in 0 .. n : iter[1 .. k] \in Seq(S)}
<1>10. 0 \in T
  <2>1. iter[1 .. 0] \in Seq(S)
    BY <1>3, <1>7, <1>9
  <2>2. 0 \in 0 .. n
    BY <1>1
  <2> QED
    BY <2>1, <2>2, Zenon
<1>11. ASSUME NEW k \in 0 .. n, k \in T, k < n PROVE k + 1 \in T
  <2>1. k + 1 \in 1 .. n /\ (k + 1) - 1 = k
    BY <1>1, <1>11
  <2>2. iter[1 .. k + 1] = Select(iter[1 .. k], s[k + 1])
    BY <1>8, <2>1
  <2>3. Select(iter[1 .. k], s[k + 1]) \in Seq(S)
    BY <1>4, <1>11, <2>1
  <2>4. k + 1 \in 0 .. n /\ iter[1 .. k + 1] \in Seq(S)
    BY <1>1, <2>1, <2>2, <2>3
  <2> QED
    BY <2>4, Zenon
<1>12. \A k \in 0 .. n : iter[1 .. k] \in Seq(S)
  <2>1. \A k \in 0 .. n : k \in T
    <3> HIDE DEF T
    <3> QED
      BY <1>1, <1>10, <1>11, IntervalInduction
  <2> QED
    BY <2>1
<1> DEFINE f == [k \in 0 .. n |-> iter[1 .. k]]
<1>13. f \in [0 .. n -> Seq(S)]
  BY <1>12
<1>14. f[0] = <<>> /\ f[n] = iter[1 .. n]
  BY <1>1, <1>7, <1>9
<1>15. ASSUME NEW k \in 1 .. n PROVE f[k] = Select(f[k - 1], s[k])
  <2>1. k \in 0 .. n /\ k - 1 \in 0 .. n
    BY <1>1
  <2>2. f[k] = iter[1 .. k] /\ f[k - 1] = iter[1 .. k - 1]
    BY <2>1
  <2> HIDE DEF f, Select
  <2> QED
    BY <1>8, <2>2
<1>16. IsSelection(f, s, wanted)
  <2> HIDE DEF f
  <2> QED
    BY <1>14, <1>15 DEF IsSelection
<1> HIDE DEF f
<1> QED
  BY <1>2, <1>13, <1>14, <1>16

(* A filter makes a sequence of the same elements. *)
LEMMA KeepType ==
    ASSUME NEW S, NEW s \in Seq(S), NEW wanted
    PROVE  Keep(s, wanted) \in Seq(S)
<1>1. PICK f \in [0 .. Len(s) -> Seq(S)] :
         IsSelection(f, s, wanted) /\ Keep(s, wanted) = f[Len(s)]
  BY KeepLoop
<1>2. Len(s) \in 0 .. Len(s)
  BY LenProperties
<1> QED
  BY <1>1, <1>2

(* The filter of two sequences, one after the other. *)
LEMMA KeepConcat ==
    ASSUME NEW S, NEW s \in Seq(S), NEW t \in Seq(S), NEW wanted
    PROVE  Keep(s \o t, wanted) = Keep(s, wanted) \o Keep(t, wanted)
<1> DEFINE m == Len(s)
           n == Len(t)
<1>1. /\ m \in Nat /\ n \in Nat /\ s \o t \in Seq(S) /\ Len(s \o t) = m + n
      /\ \A i \in 1 .. m : (s \o t)[i] = s[i]
      /\ \A i \in 1 .. n : (s \o t)[m + i] = t[i]
      /\ \A i \in 1 .. n : t[i] \in S
  BY LenProperties, ConcatProperties
<1>2. PICK f \in [0 .. m -> Seq(S)] : IsSelection(f, s, wanted) /\ Keep(s, wanted) = f[m]
  BY KeepLoop
<1>3. PICK g \in [0 .. n -> Seq(S)] : IsSelection(g, t, wanted) /\ Keep(t, wanted) = g[n]
  BY KeepLoop
<1>4. PICK h \in [0 .. m + n -> Seq(S)] :
         IsSelection(h, s \o t, wanted) /\ Keep(s \o t, wanted) = h[m + n]
  <2>1. PICK u : u = s \o t
    OBVIOUS
  <2>2. u \in Seq(S) /\ Len(u) = m + n
    BY <1>1, <2>1
  <2>3. \E h \in [0 .. Len(u) -> Seq(S)] : IsSelection(h, u, wanted) /\ Keep(u, wanted) = h[Len(u)]
    BY <2>2, KeepLoop
  <2> QED
    BY <2>1, <2>2, <2>3
<1> DEFINE T == {k \in 0 .. m : h[k] = f[k]}
           U == {k \in 0 .. n : h[m + k] = f[m] \o g[k]}
<1> HIDE DEF m, n
<1>5. 0 \in T
  BY <1>1, <1>2, <1>4 DEF IsSelection
<1>6. ASSUME NEW k \in 0 .. m, k \in T, k < m PROVE k + 1 \in T
  <2>1. k + 1 \in 1 .. m /\ k + 1 \in 1 .. m + n /\ (k + 1) - 1 = k /\ k + 1 \in 0 .. m
    BY <1>1, <1>6
  <2>2. /\ f[k + 1] = IF s[k + 1] \in wanted THEN Append(f[k], s[k + 1]) ELSE f[k]
        /\ h[k + 1] = IF s[k + 1] \in wanted THEN Append(h[k], s[k + 1]) ELSE h[k]
    BY <1>1, <1>2, <1>4, <2>1 DEF IsSelection, m
  <2>3. h[k] = f[k]
    BY <1>6
  <2> QED
    BY <2>1, <2>2, <2>3
<1>7. h[m] = f[m]
  <2>1. \A k \in 0 .. m : k \in T
    <3> HIDE DEF T
    <3> QED
      BY <1>1, <1>5, <1>6, IntervalInduction
  <2> QED
    BY <1>1, <2>1
<1>8. f[m] \in Seq(S)
  BY <1>1, <1>2
<1>9. 0 \in U
  <2>1. g[0] = <<>> /\ m + 0 = m
    BY <1>1, <1>3 DEF IsSelection
  <2>2. f[m] \o <<>> = f[m]
    BY <1>8, ConcatEmptySeq
  <2>3. 0 \in 0 .. n
    BY <1>1
  <2> QED
    BY <1>7, <2>1, <2>2, <2>3
<1>10. ASSUME NEW k \in 0 .. n, k \in U, k < n PROVE k + 1 \in U
  <2>1. /\ k + 1 \in 1 .. n /\ m + (k + 1) \in 1 .. m + n /\ (k + 1) - 1 = k
        /\ (m + (k + 1)) - 1 = m + k /\ k + 1 \in 0 .. n
    BY <1>1, <1>10
  <2>2. g[k + 1] = IF t[k + 1] \in wanted THEN Append(g[k], t[k + 1]) ELSE g[k]
    BY <1>3, <2>1 DEF IsSelection, n
  <2>3. h[m + (k + 1)] = IF t[k + 1] \in wanted THEN Append(h[m + k], t[k + 1]) ELSE h[m + k]
    <3>1. (s \o t)[m + (k + 1)] = t[k + 1]
      BY <1>1, <2>1
    <3> QED
      BY <1>1, <1>4, <2>1, <3>1 DEF IsSelection
  <2>4. h[m + k] = f[m] \o g[k]
    BY <1>10
  <2>5. f[m] \o Append(g[k], t[k + 1]) = Append(f[m] \o g[k], t[k + 1])
    <3>1. g[k] \in Seq(S) /\ t[k + 1] \in S
      BY <1>1, <1>3, <2>1
    <3>2. PICK a, b, x : a = f[m] /\ b = g[k] /\ x = t[k + 1]
      OBVIOUS
    <3>3. a \in Seq(S) /\ b \in Seq(S) /\ x \in S
      BY <1>8, <3>1, <3>2
    <3>4. a \o Append(b, x) = Append(a \o b, x)
      BY <3>3, ConcatAppend
    <3> QED
      BY <3>2, <3>4
  <2>6. h[m + (k + 1)] = f[m] \o g[k + 1]
    BY <2>2, <2>3, <2>4, <2>5
  <2> QED
    BY <2>1, <2>6
<1>11. h[m + n] = f[m] \o g[n]
  <2>1. \A k \in 0 .. n : k \in U
    <3> HIDE DEF U
    <3> QED
      BY <1>1, <1>9, <1>10, IntervalInduction
  <2>2. n \in U
    <3> HIDE DEF U
    <3> QED
      BY <1>1, <2>1
  <2> QED
    BY <2>2
<1> QED
  BY <1>2, <1>3, <1>4, <1>8, <1>11

(* The filter of one element. *)
LEMMA KeepOne ==
    ASSUME NEW wanted
    PROVE  /\ Keep(<<>>, wanted) = <<>>
           /\ \A x : Keep(<<x>>, wanted) = IF x \in wanted THEN <<x>> ELSE <<>>
<1>1. Keep(<<>>, wanted) = <<>>
  <2>1. <<>> \in Seq({}) /\ Len(<<>>) = 0
    BY EmptySeq
  <2>2. PICK f \in [0 .. Len(<<>>) -> Seq({})] :
           IsSelection(f, <<>>, wanted) /\ Keep(<<>>, wanted) = f[Len(<<>>)]
    BY <2>1, KeepLoop
  <2> QED
    BY <2>1, <2>2 DEF IsSelection
<1>2. ASSUME NEW x PROVE Keep(<<x>>, wanted) = IF x \in wanted THEN <<x>> ELSE <<>>
  <2>1. <<x>> \in Seq({x}) /\ Len(<<x>>) = 1 /\ <<x>>[1] = x
    OBVIOUS
  <2>2. PICK f \in [0 .. Len(<<x>>) -> Seq({x})] :
           IsSelection(f, <<x>>, wanted) /\ Keep(<<x>>, wanted) = f[Len(<<x>>)]
    BY <2>1, KeepLoop
  <2>3. f[0] = <<>> /\ f[1] = IF x \in wanted THEN Append(f[0], x) ELSE f[0]
    <3>1. 1 \in 1 .. Len(<<x>>) /\ 1 - 1 = 0
      BY <2>1
    <3> QED
      BY <2>1, <2>2, <3>1 DEF IsSelection
  <2>4. Append(<<>>, x) = <<x>>
    OBVIOUS
  <2> QED
    BY <2>1, <2>2, <2>3, <2>4
<1> QED
  BY <1>1, <1>2

(* Two filters that agree on the elements of a sequence select the same. *)
LEMMA KeepAgree ==
    ASSUME NEW S, NEW s \in Seq(S), NEW V, NEW W, \A x \in ToSet(s) : x \in V <=> x \in W
    PROVE  Keep(s, V) = Keep(s, W)
<1> DEFINE m == Len(s)
<1>1. m \in Nat /\ DOMAIN s = 1 .. m /\ \A i \in 1 .. m : s[i] \in ToSet(s)
  BY LenProperties DEF ToSet
<1>2. PICK f \in [0 .. m -> Seq(S)] : IsSelection(f, s, V) /\ Keep(s, V) = f[m]
  BY KeepLoop
<1>3. PICK g \in [0 .. m -> Seq(S)] : IsSelection(g, s, W) /\ Keep(s, W) = g[m]
  BY KeepLoop
<1> DEFINE T == {k \in 0 .. m : f[k] = g[k]}
<1> HIDE DEF m
<1>4. 0 \in T
  BY <1>1, <1>2, <1>3 DEF IsSelection
<1>5. ASSUME NEW k \in 0 .. m, k \in T, k < m PROVE k + 1 \in T
  <2>1. k + 1 \in 1 .. m /\ (k + 1) - 1 = k /\ k + 1 \in 0 .. m
    BY <1>1, <1>5
  <2>2. /\ f[k + 1] = IF s[k + 1] \in V THEN Append(f[k], s[k + 1]) ELSE f[k]
        /\ g[k + 1] = IF s[k + 1] \in W THEN Append(g[k], s[k + 1]) ELSE g[k]
    BY <1>2, <1>3, <2>1 DEF IsSelection, m
  <2>3. f[k] = g[k] /\ (s[k + 1] \in V <=> s[k + 1] \in W)
    BY <1>1, <1>5, <2>1
  <2> QED
    BY <2>1, <2>2, <2>3
<1>6. \A k \in 0 .. m : k \in T
  <2> HIDE DEF T
  <2> QED
    BY <1>1, <1>4, <1>5, IntervalInduction
<1> QED
  BY <1>1, <1>2, <1>3, <1>6

(* A filter that wants everything, or nothing. *)
LEMMA KeepAll ==
    ASSUME NEW S, NEW s \in Seq(S), NEW wanted
    PROVE  /\ ToSet(s) \subseteq wanted => Keep(s, wanted) = s
           /\ ToSet(s) \cap wanted = {} => Keep(s, wanted) = <<>>
<1> DEFINE m == Len(s)
<1>1. m \in Nat /\ DOMAIN s = 1 .. m /\ \A i \in 1 .. m : s[i] \in ToSet(s) /\ s[i] \in S
  BY LenProperties DEF ToSet
<1>2. PICK f \in [0 .. m -> Seq(S)] : IsSelection(f, s, wanted) /\ Keep(s, wanted) = f[m]
  BY KeepLoop
<1>3. SubSeq(s, 1, 0) = <<>> /\ SubSeq(s, 1, m) = s
  BY SubSeqEmpty, SubSeqFull
<1> HIDE DEF m
<1>4. ASSUME ToSet(s) \subseteq wanted PROVE f[m] = s
  <2> DEFINE T == {k \in 0 .. m : f[k] = SubSeq(s, 1, k)}
  <2>1. 0 \in T
    BY <1>1, <1>2, <1>3 DEF IsSelection
  <2>2. ASSUME NEW k \in 0 .. m, k \in T, k < m PROVE k + 1 \in T
    <3>1. k + 1 \in 1 .. m /\ (k + 1) - 1 = k /\ k + 1 \in 0 .. m
      BY <1>1, <2>2
    <3>2. s[k + 1] \in wanted
      BY <1>1, <1>4, <3>1
    <3>3. f[k + 1] = Append(f[k], s[k + 1])
      BY <1>2, <3>1, <3>2 DEF IsSelection, m
    <3>4. SubSeq(s, 1, k + 1) = Append(SubSeq(s, 1, k), s[k + 1])
      BY <1>1, <3>1, SubSeqRecursiveSecond DEF m
    <3> QED
      BY <2>2, <3>1, <3>3, <3>4
  <2>3. \A k \in 0 .. m : k \in T
    <3> HIDE DEF T
    <3> QED
      BY <1>1, <2>1, <2>2, IntervalInduction
  <2>4. m \in T
    <3> HIDE DEF T
    <3>1. m \in 0 .. m
      BY <1>1
    <3> QED
      BY <2>3, <3>1
  <2> QED
    BY <1>3, <2>4
<1>5. ASSUME ToSet(s) \cap wanted = {} PROVE f[m] = <<>>
  <2> DEFINE T == {k \in 0 .. m : f[k] = <<>>}
  <2>1. 0 \in T
    BY <1>1, <1>2 DEF IsSelection
  <2>2. ASSUME NEW k \in 0 .. m, k \in T, k < m PROVE k + 1 \in T
    <3>1. k + 1 \in 1 .. m /\ (k + 1) - 1 = k /\ k + 1 \in 0 .. m
      BY <1>1, <2>2
    <3>2. s[k + 1] \notin wanted
      BY <1>1, <1>5, <3>1
    <3>3. f[k + 1] = f[k]
      BY <1>2, <3>1, <3>2 DEF IsSelection, m
    <3> QED
      BY <2>2, <3>1, <3>3
  <2>3. \A k \in 0 .. m : k \in T
    <3> HIDE DEF T
    <3> QED
      BY <1>1, <2>1, <2>2, IntervalInduction
  <2>4. m \in T
    <3> HIDE DEF T
    <3>1. m \in 0 .. m
      BY <1>1
    <3> QED
      BY <2>3, <3>1
  <2> QED
    BY <2>4
<1> QED
  BY <1>2, <1>4, <1>5

(* A filter selects the wanted elements and no other. *)
LEMMA KeepSet ==
    ASSUME NEW S, NEW s \in Seq(S), NEW wanted
    PROVE  ToSet(Keep(s, wanted)) = ToSet(s) \cap wanted
<1> DEFINE m == Len(s)
<1>1. m \in Nat /\ DOMAIN s = 1 .. m /\ \A i \in 1 .. m : s[i] \in S
  BY LenProperties
<1>2. PICK f \in [0 .. m -> Seq(S)] : IsSelection(f, s, wanted) /\ Keep(s, wanted) = f[m]
  BY KeepLoop
<1> HIDE DEF m
<1> DEFINE Until(k) == {s[i] : i \in 1 .. k} \cap wanted
           T == {k \in 0 .. m : ToSet(f[k]) = Until(k)}
<1>3. 0 \in T
  <2>1. f[0] = <<>> /\ ToSet(<<>>) = {} /\ Until(0) = {}
    BY <1>2 DEF IsSelection, ToSet
  <2> QED
    BY <1>1, <2>1
<1>4. ASSUME NEW k \in 0 .. m, k \in T, k < m PROVE k + 1 \in T
  <2>1. k + 1 \in 1 .. m /\ (k + 1) - 1 = k /\ k + 1 \in 0 .. m
    BY <1>1, <1>4
  <2>2. PICK x, a : x = s[k + 1] /\ a = f[k]
    OBVIOUS
  <2>3. x \in S /\ a \in Seq(S) /\ ToSet(a) = Until(k)
    BY <1>1, <1>2, <1>4, <2>1, <2>2
  <2>4. f[k + 1] = IF x \in wanted THEN Append(a, x) ELSE a
    BY <1>2, <2>1, <2>2 DEF IsSelection, m
  <2>5. 1 .. k + 1 = (1 .. k) \union {k + 1}
    OBVIOUS
  <2>6. Until(k + 1) = Until(k) \union ({x} \cap wanted)
    BY <2>2, <2>5
  <2>7. ToSet(Append(a, x)) = ToSet(a) \union {x}
    <3>1. Append(a, x) = a \o <<x>> /\ <<x>> \in Seq(S) /\ ToSet(<<x>>) = {x}
      BY <2>3, AppendIsConcat DEF ToSet
    <3>2. PICK b : b = <<x>>
      OBVIOUS
    <3>3. ToSet(a \o b) = ToSet(a) \union ToSet(b)
      BY <2>3, <3>1, <3>2, ToSetConcat
    <3> QED
      BY <3>1, <3>2, <3>3
  <2> HIDE DEF Until
  <2>8. ToSet(f[k + 1]) = Until(k + 1)
    <3>1. CASE x \in wanted
      BY <2>3, <2>4, <2>6, <2>7, <3>1
    <3>2. CASE x \notin wanted
      BY <2>3, <2>4, <2>6, <3>2
    <3> QED
      BY <3>1, <3>2
  <2> QED
    BY <2>1, <2>8
<1>5. m \in T
  <2>1. \A k \in 0 .. m : k \in T
    <3> HIDE DEF T
    <3> QED
      BY <1>1, <1>3, <1>4, IntervalInduction
  <2> QED
    BY <1>1, <2>1
<1>6. Until(m) = ToSet(s) \cap wanted
  BY <1>1 DEF ToSet
<1> QED
  BY <1>2, <1>5, <1>6

--------------------------------------------------------------------------------
(* Gather: what a flat_map makes of a sequence. *)

(* What Gather has collected after the first k elements. *)
IsGathering(f, s, share) ==
    /\ f[0] = <<>>
    /\ \A k \in 1 .. Len(s) : f[k] = f[k - 1] \o share[s[k]]

(* Gather is such a collection, taken to the end. *)
LEMMA GatherLoop ==
    ASSUME NEW S, NEW E, NEW s \in Seq(S), NEW share, \A x \in ToSet(s) : share[x] \in Seq(E)
    PROVE  \E f \in [0 .. Len(s) -> Seq(E)] :
             IsGathering(f, s, share) /\ Gather(s, share) = f[Len(s)]
<1> DEFINE n == Len(s)
           Join(all, x) == all \o share[x]
           Loop(g) == g = [t \in SUBSET (1 .. n) |->
                             IF t = {} THEN <<>> ELSE Join(g[t \ {Max(t)}], s[Max(t)])]
           iter == CHOOSE g : Loop(g)
<1>1. n \in Nat /\ DOMAIN s = 1 .. n /\ \A k \in 1 .. n : share[s[k]] \in Seq(E)
  BY LenProperties DEF ToSet
<1>2. Gather(s, share) = iter[1 .. n]
  BY <1>1 DEF Gather, FoldLeft, MapThenFoldSet
<1>3. <<>> \in Seq(E)
  BY EmptySeq
<1>4. ASSUME NEW all \in Seq(E), NEW k \in 1 .. n PROVE Join(all, s[k]) \in Seq(E)
  BY <1>1, ConcatProperties
<1>5. \E g \in [SUBSET (1 .. n) -> Seq(E)] : Loop(g)
  <2> DEFINE step == [k \in 1 .. n |-> [all \in Seq(E) |-> Join(all, s[k])]]
  <2>1. step \in [1 .. n -> [Seq(E) -> Seq(E)]]
    <3> HIDE DEF Join
    <3> QED BY <1>4
  <2>2. PICK g \in [SUBSET (1 .. n) -> Seq(E)] : IsLoop(g, n, <<>>, step)
    <3> HIDE DEF step, n
    <3> QED
      BY <1>1, <1>3, <2>1, LoopTable
  <2>3. ASSUME NEW t \in SUBSET (1 .. n), t # {}
        PROVE  step[Max(t)][g[t \ {Max(t)}]] = Join(g[t \ {Max(t)}], s[Max(t)])
    <3>1. Max(t) \in 1 .. n
      BY <1>1, <2>3, MaxInInterval
    <3>2. g[t \ {Max(t)}] \in Seq(E)
      <4>1. t \ {Max(t)} \in SUBSET (1 .. n)
        OBVIOUS
      <4> QED
        BY <4>1
    <3> HIDE DEF Join
    <3> QED
      BY <3>1, <3>2
  <2> HIDE DEF step, Join
  <2>4. Loop(g)
    BY <2>2, <2>3 DEF IsLoop
  <2> QED
    BY <2>4
<1>6. Loop(iter)
  <2> HIDE DEF Loop
  <2> QED
    BY <1>5
<1>7. iter[{}] = <<>>
  <2> HIDE DEF iter
  <2> QED
    BY <1>6
<1>8. ASSUME NEW k \in 1 .. n PROVE iter[1 .. k] = Join(iter[1 .. k - 1], s[k])
  <2>1. 1 .. k \in SUBSET (1 .. n) /\ 1 .. k # {}
    <3>1. n \in Nat
      BY <1>1
    <3> HIDE DEF n
    <3> QED
      BY <3>1
  <2>2. Max(1 .. k) = k /\ (1 .. k) \ {Max(1 .. k)} = 1 .. k - 1
    BY LoopPrefix, SMTT(30)
  <2> HIDE DEF iter, Join
  <2>3. iter[1 .. k] = Join(iter[(1 .. k) \ {Max(1 .. k)}], s[Max(1 .. k)])
    BY <1>6, <2>1
  <2> QED
    BY <2>2, <2>3
<1> HIDE DEF iter, Loop
<1>9. 1 .. 0 = {}
  OBVIOUS
<1> DEFINE T == {k \in 0 .. n : iter[1 .. k] \in Seq(E)}
<1>10. 0 \in T
  <2>1. iter[1 .. 0] \in Seq(E)
    BY <1>3, <1>7, <1>9
  <2>2. 0 \in 0 .. n
    BY <1>1
  <2> QED
    BY <2>1, <2>2, Zenon
<1>11. ASSUME NEW k \in 0 .. n, k \in T, k < n PROVE k + 1 \in T
  <2>1. k + 1 \in 1 .. n /\ (k + 1) - 1 = k
    BY <1>1, <1>11
  <2>2. iter[1 .. k + 1] = Join(iter[1 .. k], s[k + 1])
    BY <1>8, <2>1
  <2>3. Join(iter[1 .. k], s[k + 1]) \in Seq(E)
    <3> HIDE DEF Join
    <3> QED
      BY <1>4, <1>11, <2>1
  <2>4. k + 1 \in 0 .. n /\ iter[1 .. k + 1] \in Seq(E)
    BY <1>1, <2>1, <2>2, <2>3
  <2> QED
    BY <2>4, Zenon
<1>12. \A k \in 0 .. n : iter[1 .. k] \in Seq(E)
  <2>1. \A k \in 0 .. n : k \in T
    <3> HIDE DEF T
    <3> QED
      BY <1>1, <1>10, <1>11, IntervalInduction
  <2> QED
    BY <2>1
<1> DEFINE f == [k \in 0 .. n |-> iter[1 .. k]]
<1>13. f \in [0 .. n -> Seq(E)]
  BY <1>12
<1>14. f[0] = <<>> /\ f[n] = iter[1 .. n]
  BY <1>1, <1>7, <1>9
<1>15. ASSUME NEW k \in 1 .. n PROVE f[k] = Join(f[k - 1], s[k])
  <2>1. k \in 0 .. n /\ k - 1 \in 0 .. n
    BY <1>1
  <2>2. f[k] = iter[1 .. k] /\ f[k - 1] = iter[1 .. k - 1]
    BY <2>1
  <2> HIDE DEF f, Join
  <2> QED
    BY <1>8, <2>2
<1>16. IsGathering(f, s, share)
  <2> HIDE DEF f
  <2> QED
    BY <1>14, <1>15 DEF IsGathering
<1> HIDE DEF f
<1> QED
  BY <1>2, <1>13, <1>14, <1>16

(* Gathering makes a sequence of the elements of the shares. *)
LEMMA GatherType ==
    ASSUME NEW S, NEW E, NEW s \in Seq(S), NEW share, \A x \in ToSet(s) : share[x] \in Seq(E)
    PROVE  Gather(s, share) \in Seq(E)
<1>1. PICK f \in [0 .. Len(s) -> Seq(E)] :
         IsGathering(f, s, share) /\ Gather(s, share) = f[Len(s)]
  BY GatherLoop
<1>2. Len(s) \in 0 .. Len(s)
  BY LenProperties
<1> QED
  BY <1>1, <1>2

(* Gathering from two sequences, one after the other. *)
LEMMA GatherConcat ==
    ASSUME NEW S, NEW E, NEW s \in Seq(S), NEW t \in Seq(S), NEW share,
           \A x \in ToSet(s) : share[x] \in Seq(E), \A x \in ToSet(t) : share[x] \in Seq(E)
    PROVE  Gather(s \o t, share) = Gather(s, share) \o Gather(t, share)
<1> DEFINE m == Len(s)
           n == Len(t)
<1>1. /\ m \in Nat /\ n \in Nat /\ s \o t \in Seq(S) /\ Len(s \o t) = m + n
      /\ \A i \in 1 .. m : (s \o t)[i] = s[i]
      /\ \A i \in 1 .. n : (s \o t)[m + i] = t[i]
  BY LenProperties, ConcatProperties
<1>2. PICK f \in [0 .. m -> Seq(E)] : IsGathering(f, s, share) /\ Gather(s, share) = f[m]
  BY GatherLoop
<1>3. PICK g \in [0 .. n -> Seq(E)] : IsGathering(g, t, share) /\ Gather(t, share) = g[n]
  BY GatherLoop
<1>4. PICK h \in [0 .. m + n -> Seq(E)] :
         IsGathering(h, s \o t, share) /\ Gather(s \o t, share) = h[m + n]
  <2>1. PICK u : u = s \o t
    OBVIOUS
  <2>2. u \in Seq(S) /\ Len(u) = m + n
    BY <1>1, <2>1
  <2>3. ToSet(u) = ToSet(s) \union ToSet(t)
    BY <2>1, ToSetConcat
  <2>4. \A x \in ToSet(u) : share[x] \in Seq(E)
    BY <2>3
  <2>5. \E h \in [0 .. Len(u) -> Seq(E)] : IsGathering(h, u, share) /\ Gather(u, share) = h[Len(u)]
    BY <2>2, <2>4, GatherLoop
  <2> QED
    BY <2>1, <2>2, <2>5
<1>5. \A i \in 1 .. n : share[t[i]] \in Seq(E)
  BY LenProperties DEF ToSet
<1> DEFINE T == {k \in 0 .. m : h[k] = f[k]}
           U == {k \in 0 .. n : h[m + k] = f[m] \o g[k]}
<1> HIDE DEF m, n
<1>6. 0 \in T
  BY <1>1, <1>2, <1>4 DEF IsGathering
<1>7. ASSUME NEW k \in 0 .. m, k \in T, k < m PROVE k + 1 \in T
  <2>1. k + 1 \in 1 .. m /\ k + 1 \in 1 .. m + n /\ (k + 1) - 1 = k /\ k + 1 \in 0 .. m
    BY <1>1, <1>7
  <2>2. f[k + 1] = f[k] \o share[s[k + 1]] /\ h[k + 1] = h[k] \o share[s[k + 1]]
    BY <1>1, <1>2, <1>4, <2>1 DEF IsGathering, m
  <2>3. h[k] = f[k]
    BY <1>7
  <2> QED
    BY <2>1, <2>2, <2>3
<1>8. h[m] = f[m]
  <2>1. \A k \in 0 .. m : k \in T
    <3> HIDE DEF T
    <3> QED
      BY <1>1, <1>6, <1>7, IntervalInduction
  <2> QED
    BY <1>1, <2>1
<1>9. f[m] \in Seq(E)
  BY <1>1, <1>2
<1>10. 0 \in U
  <2>1. g[0] = <<>> /\ m + 0 = m
    BY <1>1, <1>3 DEF IsGathering
  <2>2. f[m] \o <<>> = f[m]
    BY <1>9, ConcatEmptySeq
  <2>3. 0 \in 0 .. n
    BY <1>1
  <2> QED
    BY <1>8, <2>1, <2>2, <2>3
<1>11. ASSUME NEW k \in 0 .. n, k \in U, k < n PROVE k + 1 \in U
  <2>1. /\ k + 1 \in 1 .. n /\ m + (k + 1) \in 1 .. m + n /\ (k + 1) - 1 = k
        /\ (m + (k + 1)) - 1 = m + k /\ k + 1 \in 0 .. n
    BY <1>1, <1>11
  <2>2. PICK a, b, c : a = f[m] /\ b = g[k] /\ c = share[t[k + 1]]
    OBVIOUS
  <2>3. a \in Seq(E) /\ b \in Seq(E) /\ c \in Seq(E)
    BY <1>3, <1>5, <1>9, <2>1, <2>2
  <2>4. g[k + 1] = b \o c
    BY <1>3, <2>1, <2>2 DEF IsGathering, n
  <2>5. h[m + (k + 1)] = h[m + k] \o c
    <3>1. (s \o t)[m + (k + 1)] = t[k + 1]
      BY <1>1, <2>1
    <3> QED
      BY <1>1, <1>4, <2>1, <2>2, <3>1 DEF IsGathering
  <2>6. h[m + k] = a \o b
    BY <1>11, <2>2
  <2>7. (a \o b) \o c = a \o (b \o c)
    BY <2>3, ConcatAssociative, SMTT(30)
  <2>8. h[m + (k + 1)] = f[m] \o g[k + 1]
    BY <2>2, <2>4, <2>5, <2>6, <2>7
  <2> QED
    BY <2>1, <2>8
<1>12. h[m + n] = f[m] \o g[n]
  <2>1. \A k \in 0 .. n : k \in U
    <3> HIDE DEF U
    <3> QED
      BY <1>1, <1>10, <1>11, IntervalInduction
  <2>2. n \in U
    <3> HIDE DEF U
    <3> QED
      BY <1>1, <2>1
  <2> QED
    BY <2>2
<1> QED
  BY <1>2, <1>3, <1>4, <1>12

(* Gathering from nothing, and from one element. *)
LEMMA GatherOne ==
    ASSUME NEW share
    PROVE  /\ Gather(<<>>, share) = <<>>
           /\ \A x, E : share[x] \in Seq(E) => Gather(<<x>>, share) = share[x]
<1>1. Gather(<<>>, share) = <<>>
  <2>1. PICK s, E : s = <<>> /\ E = {}
    OBVIOUS
  <2>2. s \in Seq(E) /\ Len(s) = 0 /\ \A x \in ToSet(s) : share[x] \in Seq(E)
    BY <2>1, EmptySeq DEF ToSet
  <2>3. PICK f \in [0 .. Len(s) -> Seq(E)] :
           IsGathering(f, s, share) /\ Gather(s, share) = f[Len(s)]
    BY <2>2, GatherLoop, ZenonT(60)
  <2> QED
    BY <2>1, <2>2, <2>3 DEF IsGathering
<1>2. ASSUME NEW x, NEW E, share[x] \in Seq(E) PROVE Gather(<<x>>, share) = share[x]
  <2>1. PICK s : s = <<x>>
    OBVIOUS
  <2>2. s \in Seq({x}) /\ Len(s) = 1 /\ s[1] = x /\ ToSet(s) = {x}
    BY <2>1 DEF ToSet
  <2>3. \A y \in ToSet(s) : share[y] \in Seq(E)
    BY <1>2, <2>2
  <2>4. PICK f \in [0 .. Len(s) -> Seq(E)] :
           IsGathering(f, s, share) /\ Gather(s, share) = f[Len(s)]
    BY <2>2, <2>3, GatherLoop, ZenonT(60)
  <2>5. f[0] = <<>> /\ f[1] = f[0] \o share[x]
    <3>1. 1 \in 1 .. Len(s) /\ 1 - 1 = 0
      BY <2>2
    <3> QED
      BY <2>2, <2>4, <3>1 DEF IsGathering
  <2>6. <<>> \o share[x] = share[x]
    BY <1>2, ConcatEmptySeq
  <2> QED
    BY <2>1, <2>2, <2>4, <2>5, <2>6
<1> QED
  BY <1>1, <1>2

(* Two ways of sharing that agree on the elements of a sequence. *)
LEMMA GatherAgree ==
    ASSUME NEW S, NEW E, NEW s \in Seq(S), NEW V, NEW W,
           \A x \in ToSet(s) : V[x] \in Seq(E) /\ V[x] = W[x]
    PROVE  Gather(s, V) = Gather(s, W)
<1> DEFINE m == Len(s)
<1>1. m \in Nat /\ DOMAIN s = 1 .. m /\ \A i \in 1 .. m : s[i] \in ToSet(s)
  BY LenProperties DEF ToSet
<1>2. PICK f \in [0 .. m -> Seq(E)] : IsGathering(f, s, V) /\ Gather(s, V) = f[m]
  BY GatherLoop
<1>3. PICK g \in [0 .. m -> Seq(E)] : IsGathering(g, s, W) /\ Gather(s, W) = g[m]
  <2>1. \A x \in ToSet(s) : W[x] \in Seq(E)
    OBVIOUS
  <2> QED
    BY <2>1, GatherLoop, SMTT(30)
<1> DEFINE T == {k \in 0 .. m : f[k] = g[k]}
<1> HIDE DEF m
<1>4. 0 \in T
  BY <1>1, <1>2, <1>3 DEF IsGathering
<1>5. ASSUME NEW k \in 0 .. m, k \in T, k < m PROVE k + 1 \in T
  <2>1. k + 1 \in 1 .. m /\ (k + 1) - 1 = k /\ k + 1 \in 0 .. m
    BY <1>1, <1>5
  <2>2. f[k + 1] = f[k] \o V[s[k + 1]] /\ g[k + 1] = g[k] \o W[s[k + 1]]
    BY <1>2, <1>3, <2>1 DEF IsGathering, m
  <2>3. f[k] = g[k] /\ V[s[k + 1]] = W[s[k + 1]]
    BY <1>1, <1>5, <2>1
  <2> QED
    BY <2>1, <2>2, <2>3
<1>6. \A k \in 0 .. m : k \in T
  <2> HIDE DEF T
  <2> QED
    BY <1>1, <1>4, <1>5, IntervalInduction
<1> QED
  BY <1>1, <1>2, <1>3, <1>6

(* Everything that is gathered comes from a share. *)
LEMMA GatherSet ==
    ASSUME NEW S, NEW E, NEW s \in Seq(S), NEW share, NEW V,
           \A x \in ToSet(s) : share[x] \in Seq(E) /\ ToSet(share[x]) \subseteq V
    PROVE  ToSet(Gather(s, share)) \subseteq V
<1> DEFINE F == E \cap V
<1>1. ASSUME NEW x \in ToSet(s) PROVE share[x] \in Seq(F)
  <2>1. PICK a : a = share[x]
    OBVIOUS
  <2>2. a \in Seq(E) /\ ToSet(a) \subseteq V
    BY <2>1
  <2>3. /\ Len(a) \in Nat /\ DOMAIN a = 1 .. Len(a) /\ a \in [1 .. Len(a) -> E]
        /\ \A i \in 1 .. Len(a) : a[i] \in V
    BY <2>2, LenProperties DEF ToSet
  <2>4. a \in [1 .. Len(a) -> F]
    BY <2>3
  <2> QED
    BY <2>1, <2>3, <2>4, SeqDef
<1>2. Gather(s, share) \in Seq(F)
  <2> HIDE DEF F
  <2> QED
    BY <1>1, GatherType
<1>3. ToSet(Gather(s, share)) \subseteq F
  <2> HIDE DEF F
  <2> QED
    BY <1>2, LenProperties DEF ToSet
<1> QED
  BY <1>3

(* Sequence b begins with a. *)
BeginsWith(a, b) ==
    /\ Len(a) \in Nat /\ Len(b) \in Nat /\ Len(a) <= Len(b)
    /\ \A p \in 1 .. Len(a) : b[p] = a[p]

(* What was gathered stays where it is while more is gathered behind it. *)
LEMMA GatherPrefix ==
    ASSUME NEW E, NEW n \in Nat, NEW f \in [0 .. n -> Seq(E)],
           NEW share \in [1 .. n -> Seq(E)],
           \A k \in 1 .. n : f[k] = f[k - 1] \o share[k]
    PROVE  \A k \in 0 .. n : \A i \in 0 .. k : BeginsWith(f[i], f[k])
<1> DEFINE T == {k \in 0 .. n : \A i \in 0 .. k : BeginsWith(f[i], f[k])}
<1>1. ASSUME NEW a \in Seq(E) PROVE BeginsWith(a, a)
  BY LenProperties DEF BeginsWith
<1>2. ASSUME NEW a, NEW b \in Seq(E), NEW c \in Seq(E), BeginsWith(a, b)
      PROVE  BeginsWith(a, b \o c)
  <2>1. PICK d : d = b \o c
    OBVIOUS
  <2>2. /\ Len(b) \in Nat /\ Len(c) \in Nat /\ Len(d) = Len(b) + Len(c)
        /\ \A p \in 1 .. Len(b) + Len(c) : d[p] = IF p <= Len(b) THEN b[p] ELSE c[p - Len(b)]
    BY <2>1, LenProperties, ConcatProperties
  <2> QED
    BY <1>2, <2>1, <2>2 DEF BeginsWith
<1>3. 0 \in T
  <2>1. f[0] \in Seq(E) /\ \A i \in 0 .. 0 : i = 0
    OBVIOUS
  <2>2. BeginsWith(f[0], f[0])
    BY <1>1, <2>1
  <2> QED
    BY <2>1, <2>2
<1>4. ASSUME NEW k \in 0 .. n, k \in T, k < n PROVE k + 1 \in T
  <2>1. k + 1 \in 1 .. n /\ (k + 1) - 1 = k /\ k + 1 \in 0 .. n
    BY <1>4
  <2>2. PICK b, c : b = f[k] /\ c = share[k + 1]
    OBVIOUS
  <2>3. b \in Seq(E) /\ c \in Seq(E) /\ f[k + 1] = b \o c /\ f[k + 1] \in Seq(E)
    BY <2>1, <2>2
  <2>4. ASSUME NEW i \in 0 .. k + 1 PROVE BeginsWith(f[i], f[k + 1])
    <3>1. CASE i = k + 1
      BY <1>1, <2>3, <3>1
    <3>2. CASE i # k + 1
      <4>1. i \in 0 .. k
        BY <3>2
      <4>2. BeginsWith(f[i], b)
        BY <1>4, <2>2, <4>1
      <4> QED
        BY <1>2, <2>3, <4>2
    <3> QED
      BY <3>1, <3>2
  <2> QED
    BY <2>1, <2>4
<1>5. \A k \in 0 .. n : k \in T
  <2> HIDE DEF T
  <2> QED
    BY <1>3, <1>4, IntervalInduction
<1> QED
  BY <1>5

(* Each element's share is in g, in one piece and behind the shares of the *)
(* elements before it.                                                     *)
IsPlacement(from, s, share, g) ==
    /\ \A i \in 1 .. Len(s) :
         /\ from[i] + Len(share[s[i]]) <= Len(g)
         /\ \A k \in 1 .. Len(share[s[i]]) : g[from[i] + k] = share[s[i]][k]
    /\ \A i, j \in 1 .. Len(s) : i < j => from[i] + Len(share[s[i]]) <= from[j]

(* What is gathered from the elements is placed so. *)
LEMMA GatherPlaces ==
    ASSUME NEW S, NEW E, NEW s \in Seq(S), NEW share, \A x \in ToSet(s) : share[x] \in Seq(E)
    PROVE  \E from \in [1 .. Len(s) -> 0 .. Len(Gather(s, share))] :
             IsPlacement(from, s, share, Gather(s, share))
<1>1. PICK n : n = Len(s)
  OBVIOUS
<1>2. n \in Nat /\ DOMAIN s = 1 .. n
  BY <1>1, LenProperties
<1>3. PICK f \in [0 .. n -> Seq(E)] : IsGathering(f, s, share) /\ Gather(s, share) = f[n]
  BY <1>1, GatherLoop
<1>4. PICK c : c = [i \in 1 .. n |-> share[s[i]]]
  OBVIOUS
<1>5. c \in [1 .. n -> Seq(E)]
  BY <1>2, <1>4 DEF ToSet
<1>6. \A k \in 1 .. n : f[k] = f[k - 1] \o c[k]
  BY <1>1, <1>3, <1>4 DEF IsGathering
<1>7. \A k \in 0 .. n : \A i \in 0 .. k : BeginsWith(f[i], f[k])
  <2>1. n \in Nat
    BY <1>2
  <2> QED
    BY <2>1, <1>5, <1>6, GatherPrefix
<1>8. ASSUME NEW i \in 1 .. n
      PROVE  /\ i - 1 \in 0 .. n /\ i \in 0 .. n /\ Len(f[i - 1]) \in Nat /\ Len(c[i]) \in Nat
             /\ Len(f[i]) = Len(f[i - 1]) + Len(c[i])
             /\ Len(f[i]) <= Len(f[n]) /\ Len(f[n]) \in Nat
             /\ \A k \in 1 .. Len(c[i]) : f[n][Len(f[i - 1]) + k] = c[i][k]
  <2>1. i - 1 \in 0 .. n /\ i \in 0 .. n /\ n \in 0 .. n
    BY <1>2
  <2>2. PICK a, b, d : a = f[i - 1] /\ b = c[i] /\ d = f[i]
    OBVIOUS
  <2>3. a \in Seq(E) /\ b \in Seq(E) /\ d = a \o b
    BY <1>3, <1>5, <1>6, <2>1, <2>2
  <2>4. /\ Len(a) \in Nat /\ Len(b) \in Nat /\ Len(d) = Len(a) + Len(b)
        /\ \A p \in 1 .. Len(a) + Len(b) : d[p] = IF p <= Len(a) THEN a[p] ELSE b[p - Len(a)]
    BY <2>3, LenProperties, ConcatProperties
  <2>5. /\ Len(d) <= Len(f[n]) /\ Len(f[n]) \in Nat
        /\ \A p \in 1 .. Len(d) : f[n][p] = d[p]
    BY <1>7, <2>1, <2>2 DEF BeginsWith
  <2>6. ASSUME NEW k \in 1 .. Len(b) PROVE f[n][Len(a) + k] = b[k]
    <3>1. PICK p : p = Len(a) + k
      OBVIOUS
    <3>2. p \in 1 .. Len(a) + Len(b) /\ ~(p <= Len(a)) /\ p - Len(a) = k
      BY <2>4, <3>1
    <3>3. d[p] = b[k] /\ f[n][p] = d[p]
      BY <2>4, <2>5, <3>2
    <3> QED
      BY <3>1, <3>3
  <2> QED
    BY <2>1, <2>2, <2>4, <2>5, <2>6
<1>9. PICK from : from = [i \in 1 .. n |-> Len(f[i - 1])]
  OBVIOUS
<1>10. PICK g : g = f[n]
  OBVIOUS
<1>11. from \in [1 .. n -> 0 .. Len(g)]
  <2>1. ASSUME NEW i \in 1 .. n PROVE Len(f[i - 1]) \in 0 .. Len(g)
    <3>1. PICK a, b, d : a = Len(f[i - 1]) /\ b = Len(c[i]) /\ d = Len(f[n])
      OBVIOUS
    <3>2. /\ Len(f[i - 1]) \in Nat /\ Len(c[i]) \in Nat /\ Len(f[n]) \in Nat
          /\ Len(f[i]) = Len(f[i - 1]) + Len(c[i]) /\ Len(f[i]) <= Len(f[n])
      BY <1>8, ZenonT(30)
    <3>3. a \in Nat /\ b \in Nat /\ d \in Nat /\ a + b <= d
      BY <3>1, <3>2
    <3>4. a \in 0 .. d
      BY <3>3
    <3> QED
      BY <1>10, <3>1, <3>4
  <2> QED
    BY <1>9, <2>1
<1>12. ASSUME NEW i \in 1 .. n
       PROVE  /\ from[i] + Len(c[i]) <= Len(g)
              /\ \A k \in 1 .. Len(c[i]) : g[from[i] + k] = c[i][k]
  BY <1>8, <1>9, <1>10
<1>13. ASSUME NEW i \in 1 .. n, NEW j \in 1 .. n, i < j PROVE from[i] + Len(c[i]) <= from[j]
  <2>1. j - 1 \in 0 .. n /\ i \in 0 .. j - 1
    BY <1>2, <1>13
  <2>2. Len(f[i]) <= Len(f[j - 1])
    BY <1>7, <2>1 DEF BeginsWith
  <2> QED
    BY <1>8, <1>9, <2>2
<1>14. \A i \in 1 .. n : c[i] = share[s[i]]
  BY <1>4
<1>15. /\ \A i \in 1 .. n :
            /\ from[i] + Len(share[s[i]]) <= Len(g)
            /\ \A k \in 1 .. Len(share[s[i]]) : g[from[i] + k] = share[s[i]][k]
       /\ \A i, j \in 1 .. n : i < j => from[i] + Len(share[s[i]]) <= from[j]
  <2>1. ASSUME NEW i \in 1 .. n
        PROVE  /\ from[i] + Len(share[s[i]]) <= Len(g)
               /\ \A k \in 1 .. Len(share[s[i]]) : g[from[i] + k] = share[s[i]][k]
    <3>1. c[i] = share[s[i]]
      BY <1>14
    <3>2. PICK w : w = share[s[i]]
      OBVIOUS
    <3>3. c[i] = w
      BY <3>1, <3>2
    <3>4. from[i] + Len(w) <= Len(g) /\ \A k \in 1 .. Len(w) : g[from[i] + k] = w[k]
      BY <1>12, <3>3, ZenonT(30)
    <3> QED
      BY <3>2, <3>4, ZenonT(30)
  <2>2. ASSUME NEW i \in 1 .. n, NEW j \in 1 .. n, i < j
        PROVE  from[i] + Len(share[s[i]]) <= from[j]
    <3>1. c[i] = share[s[i]]
      BY <1>14
    <3> QED
      BY <1>13, <2>2, <3>1, Zenon
  <2> QED
    BY <2>1, <2>2
<1>16. IsPlacement(from, s, share, g) /\ g = Gather(s, share)
  BY <1>1, <1>3, <1>10, <1>15 DEF IsPlacement
<1> QED
  BY <1>1, <1>11, <1>16
===============================================================================
