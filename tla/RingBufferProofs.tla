--------------------------- MODULE RingBufferProofs ---------------------------
(***************************************************************************)
(* What one operation of the ring buffer does to its contents, for every   *)
(* capacity and every kind of message.  The components that share a buffer *)
(* cite these facts instead of expanding Push and Drain.                   *)
(***************************************************************************)
EXTENDS RingBuffer, LoopLemmas, TLAPS

(* The bound of the buffer: push on a zero-capacity buffer leaves one      *)
(* message behind.                                                         *)
Bound == IF Capacity = 0 THEN 1 ELSE Capacity

(* push: what it throws out (the oldest message, if the buffer was full    *)
(* and not empty) followed by what it keeps is what was there followed by  *)
(* the new message; the bound is kept.                                     *)
LEMMA PushLemma ==
    ASSUME NEW S, NEW msg \in S, messages \in Seq(S), Len(messages) <= Bound,
           pushed \in Nat, dropped \in Nat, Push(msg)
    PROVE  LET out == IF IsFull THEN SubSeq(messages, 1, 1) ELSE <<>>
           IN  /\ messages' \in Seq(S)
               /\ Len(messages') <= Bound
               /\ pushed' \in Nat /\ dropped' \in Nat
               /\ out \in Seq(S)
               /\ out \o messages' = Append(messages, msg)
<1> DEFINE out == IF IsFull THEN SubSeq(messages, 1, 1) ELSE <<>>
<1>1. CASE ~IsFull
  <2>1. messages' = Append(messages, msg) /\ out = <<>>
    BY <1>1 DEF Push
  <2>2. messages' \in Seq(S) /\ Len(messages') = Len(messages) + 1
    BY <2>1, AppendProperties
  <2>3. Len(messages) \in Nat /\ Len(messages) < Capacity
    BY <1>1, CapacityAssumption, LenProperties DEF IsFull
  <2>4. pushed' \in Nat /\ dropped' \in Nat
    BY <1>1, <2>2, <2>3 DEF Push
  <2>5. out \in Seq(S) /\ out \o messages' = messages'
    BY <2>1, <2>2, ConcatEmptySeq, EmptySeq
  <2> QED
    BY <2>1, <2>2, <2>3, <2>4, <2>5, CapacityAssumption DEF Bound
<1>2. CASE IsFull /\ messages = <<>>
  <2>1. messages' = Append(<<>>, msg)
    BY <1>2 DEF Push, PopFront
  <2>2. out = <<>>
    BY <1>2, SubSeqEmpty
  <2>3. messages' \in Seq(S) /\ Len(messages') = 1
    BY <1>2, <2>1, AppendProperties, EmptySeq
  <2>4. pushed' \in Nat /\ dropped' \in Nat
    BY <1>2, <2>3 DEF Push
  <2>5. out \in Seq(S) /\ out \o messages' = messages'
    BY <2>2, <2>3, ConcatEmptySeq, EmptySeq
  <2>6. 1 <= Bound
    BY CapacityAssumption DEF Bound
  <2> QED
    BY <1>2, <2>1, <2>2, <2>3, <2>4, <2>5, <2>6
<1>3. CASE IsFull /\ messages # <<>>
  <2>1. messages' = Append(Tail(messages), msg) /\ out = SubSeq(messages, 1, 1)
    BY <1>3 DEF Push, PopFront
  <2>2. Tail(messages) \in Seq(S) /\ Len(Tail(messages)) = Len(messages) - 1
    BY <1>3, HeadTailProperties
  <2>3. Len(messages) \in Nat \ {0}
    BY <1>3, EmptySeq, LenProperties
  <2>4. messages' \in Seq(S) /\ Len(messages') = Len(messages)
    BY <2>1, <2>2, <2>3, AppendProperties
  <2>5. pushed' \in Nat /\ dropped' \in Nat
    BY <1>3, <2>4, <2>3 DEF Push
  <2>6. out \in Seq(S)
    BY <2>1, <2>3, SubSeqProperties, LenProperties
  <2>7. out \o Tail(messages) = messages
    BY <1>3, <2>1, <2>3, TailIsSubSeq, ConcatAdjacentSubSeq, SubSeqFull
  <2> HIDE DEF out
  <2>8. out \o messages' = Append(messages, msg)
    BY <2>1, <2>2, <2>6, <2>7, ConcatAppend
  <2> USE DEF out
  <2> QED
    BY <2>4, <2>5, <2>6, <2>8
<1> QED
  BY <1>1, <1>2, <1>3

(* push never loses count: on a buffer of capacity at least 1, the drop it *)
(* counts is a message it threw out.                                       *)
LEMMA PushCountLemma ==
    ASSUME NEW S, NEW msg \in S, messages \in Seq(S), dropped \in Nat,
           Capacity > 0, Push(msg)
    PROVE  LET out == IF IsFull THEN SubSeq(messages, 1, 1) ELSE <<>>
           IN  /\ dropped' = dropped + Len(out)
               /\ dropped' - dropped = Len(out)
               /\ Len(out) \in Nat
               /\ Len(out) + Len(messages') = Len(messages) + 1
<1>1. Len(messages) \in Nat
  BY LenProperties
<1>2. CASE ~IsFull
  <2>1. messages' = Append(messages, msg) /\ dropped' = dropped + 0
    BY <1>2 DEF Push
  <2> QED
    BY <1>1, <1>2, <2>1, AppendProperties
<1>3. CASE IsFull
  <2>1. Len(messages) >= 1 /\ messages # <<>>
    BY <1>1, <1>3, CapacityAssumption DEF IsFull
  <2>2. messages' = Append(Tail(messages), msg) /\ dropped' = dropped + 1
    BY <1>3, <2>1 DEF Push, PopFront
  <2>3. Tail(messages) \in Seq(S) /\ Len(Tail(messages)) = Len(messages) - 1
    BY <2>1, HeadTailProperties
  <2>4. Len(messages') = Len(messages)
    BY <1>1, <2>1, <2>2, <2>3, AppendProperties
  <2>5. Len(SubSeq(messages, 1, 1)) = 1
    BY <1>1, <2>1, SubSeqProperties, LenProperties
  <2> QED
    BY <1>1, <1>3, <2>2, <2>4, <2>5
<1> QED
  BY <1>2, <1>3

(* drain: what it returns followed by what it leaves is what was there,    *)
(* and it counts what it returns.                                          *)
LEMMA DrainLemma ==
    ASSUME NEW S, NEW n \in Nat, messages \in Seq(S), drained \in Nat, Drain(n)
    PROVE  /\ messages' \in Seq(S)
           /\ Len(messages') <= Len(messages)
           /\ Oldest(n) \in Seq(S)
           /\ Oldest(n) \o messages' = messages
           /\ Len(Oldest(n)) \in Nat
           /\ drained' = drained + Len(Oldest(n))
           /\ Len(Oldest(n)) + Len(messages') = Len(messages)
<1> DEFINE k == DrainCount(n)
<1>1. Len(messages) \in Nat /\ \A i \in 1 .. Len(messages) : messages[i] \in S
  BY LenProperties
<1>2. k \in 0 .. Len(messages)
  BY <1>1 DEF DrainCount
<1> HIDE DEF k
<1>3. messages' = SubSeq(messages, k + 1, Len(messages)) /\ drained' = drained + k
  BY DEF Drain, k
<1>4. Oldest(n) = SubSeq(messages, 1, k)
  BY DEF Oldest, k
<1>5. messages' \in Seq(S) /\ Len(messages') = Len(messages) - k
  <2>1. k + 1 \in Int /\ \A i \in k + 1 .. Len(messages) : messages[i] \in S
    BY <1>1, <1>2
  <2> QED
    BY <1>1, <1>2, <1>3, <2>1, SubSeqProperties
<1>6. Oldest(n) \in Seq(S) /\ Len(Oldest(n)) = k
  <2>1. k \in Int /\ \A i \in 1 .. k : messages[i] \in S
    BY <1>1, <1>2
  <2> QED
    BY <1>2, <1>4, <2>1, SubSeqProperties
<1>7. Oldest(n) \o messages' = messages
  <2>1. /\ 1 \in 1 .. Len(messages) + 1
        /\ k \in 1 - 1 .. Len(messages)
        /\ Len(messages) \in k .. Len(messages)
    BY <1>1, <1>2
  <2>2. SubSeq(messages, 1, k) \o SubSeq(messages, k + 1, Len(messages))
          = SubSeq(messages, 1, Len(messages))
    BY <2>1, ConcatAdjacentSubSeq
  <2> QED
    BY <1>3, <1>4, <2>2, SubSeqFull
<1>8. /\ Len(messages') <= Len(messages)
      /\ Len(Oldest(n)) \in Nat
      /\ Len(Oldest(n)) + Len(messages') = Len(messages)
  BY <1>1, <1>2, <1>5, <1>6
<1> QED
  BY <1>3, <1>5, <1>6, <1>7, <1>8
===============================================================================
