------------------------ MODULE ResilientEmitterProofs ------------------------
(***************************************************************************)
(* The guarantees of the emitter stack, for every configuration, every     *)
(* finite set of callers and every batch length.  The breaker inside the   *)
(* stack is covered by its own theorems, taken over through INSTANCE.      *)
(***************************************************************************)
EXTENDS ResilientEmitter, LoopLemmas, FiniteSetTheorems, TLAPS

BreakerProofs == INSTANCE CircuitBreakerProofs

-------------------------------------------------------------------------------
(* The failure buffer. *)

Accumulator == [queue : Seq(Event), lost : Seq(Event), dropped : Nat]

(* What push's loop keeps true: nothing is lost or reordered between what  *)
(* it threw out and what it holds, the bound is respected, and a buffer    *)
(* that can hold something counts what it throws out.                      *)
Kept(acc, all) ==
    /\ acc \in Accumulator
    /\ Len(acc.queue) <= Room
    /\ acc.lost \o acc.queue = all
    /\ FailureCapacity > 0 => acc.dropped = Len(acc.lost)

(* One turn of the loop. *)
LEMMA StoreStep ==
    ASSUME NEW all \in Seq(Event), NEW acc, Kept(acc, all), NEW e \in Event
    PROVE  Kept(Store(acc, e), Append(all, e))
<1>1. PICK q \in Seq(Event), l \in Seq(Event), d \in Nat :
        acc = [queue |-> q, lost |-> l, dropped |-> d]
  BY DEF Kept, Accumulator
<1>0. FailureCapacity \in Nat
  BY StackAssumption
<1>2. /\ Len(q) \in Nat /\ Len(l) \in Nat /\ Len(q) <= Room /\ l \o q = all
      /\ FailureCapacity > 0 => d = Len(l)
  BY <1>1, LenProperties DEF Kept
<1>3. ASSUME NEW r \in Seq(Event), NEW m \in Seq(Event), NEW f \in Nat,
             Len(r) <= Room, m \o r = Append(all, e),
             FailureCapacity > 0 => f = Len(m),
             Store(acc, e) = [queue |-> r, lost |-> m, dropped |-> f]
      PROVE  Kept(Store(acc, e), Append(all, e))
  <2> DEFINE new == [queue |-> r, lost |-> m, dropped |-> f]
  <2>1. new \in Accumulator /\ new.queue = r /\ new.lost = m /\ new.dropped = f
    BY DEF Accumulator
  <2>2. Store(acc, e) = new
    BY <1>3
  <2> HIDE DEF new
  <2> QED
    BY <1>3, <2>1, <2>2 DEF Kept
<1>4. CASE Len(q) < FailureCapacity
  <2>1. Store(acc, e) = [queue |-> Append(q, e), lost |-> l, dropped |-> d]
    <3>1. ~(Len(acc.queue) >= FailureCapacity)
      BY <1>0, <1>1, <1>2, <1>4
    <3>2. Store(acc, e) = [acc EXCEPT !.queue = Append(@, e)]
      BY <3>1 DEF Store
    <3> QED
      BY <1>1, <3>2
  <2>2. Append(q, e) \in Seq(Event) /\ Len(Append(q, e)) <= Room
    BY <1>0, <1>2, <1>4, AppendProperties DEF Room
  <2>3. l \o Append(q, e) = Append(l \o q, e)
    BY ConcatAppend
  <2> QED
    BY <1>2, <1>3, <2>1, <2>2, <2>3
<1>5. CASE Len(q) >= FailureCapacity /\ q = <<>>
  <2>1. SubSeq(q, 1, 1) = <<>>
    BY <1>5, SubSeqEmpty
  <2>2. Store(acc, e) = [queue |-> Append(q, e), lost |-> l, dropped |-> d + 1]
    BY <1>1, <1>5, <2>1, ConcatEmptySeq DEF Store
  <2>3. FailureCapacity = 0 /\ Room = 1 /\ Len(q) = 0
    BY <1>0, <1>5, EmptySeq DEF Room
  <2>4. Append(q, e) \in Seq(Event) /\ Len(Append(q, e)) <= Room
    BY <2>3, AppendProperties
  <2>5. l \o Append(q, e) = Append(l \o q, e)
    BY ConcatAppend
  <2>6. Append(l \o q, e) = Append(all, e) /\ d + 1 \in Nat
    BY <1>2
  <2>7. l \o Append(q, e) = Append(all, e)
    BY <2>5, <2>6
  <2>8. FailureCapacity > 0 => d + 1 = Len(l)
    BY <2>3
  <2> QED
    BY <1>3, <2>2, <2>4, <2>6, <2>7, <2>8
<1>6. CASE Len(q) >= FailureCapacity /\ q # <<>>
  <2>1. Len(q) \in Nat \ {0}
    BY <1>2, <1>6, EmptySeq
  <2>2. SubSeq(q, 1, 1) \in Seq(Event) /\ Len(SubSeq(q, 1, 1)) = 1
    BY <2>1, SubSeqProperties, LenProperties
  <2>3. PICK first \in Seq(Event) : first = SubSeq(q, 1, 1) /\ Len(first) = 1
    BY <2>2
  <2>4. Store(acc, e) = [queue |-> Append(Tail(q), e), lost |-> l \o first, dropped |-> d + 1]
    BY <1>1, <1>6, <2>3 DEF Store
  <2>5. Tail(q) \in Seq(Event) /\ Len(Tail(q)) = Len(q) - 1
    BY <1>6, HeadTailProperties
  <2>6. first \o Tail(q) = q
    BY <1>6, <2>1, <2>3, TailIsSubSeq, ConcatAdjacentSubSeq, SubSeqFull
  <2>7. l \o first \in Seq(Event) /\ Len(l \o first) = Len(l) + 1
    BY <1>2, <2>3, ConcatProperties
  <2>8. (l \o first) \o Tail(q) = l \o (first \o Tail(q))
    BY <2>5, ConcatAssociative, SMTT(30)
  <2>9. (l \o first) \o Append(Tail(q), e) = Append((l \o first) \o Tail(q), e)
    BY <2>5, <2>7, ConcatAppend
  <2>10. (l \o first) \o Append(Tail(q), e) = Append(all, e)
    BY <1>2, <2>6, <2>8, <2>9
  <2>11. d + 1 \in Nat /\ (FailureCapacity > 0 => d + 1 = Len(l \o first))
    BY <1>2, <2>7
  <2>12. Append(Tail(q), e) \in Seq(Event) /\ Len(Append(Tail(q), e)) <= Room
    BY <1>2, <2>1, <2>5, AppendProperties
  <2> QED
    BY <1>3, <2>4, <2>7, <2>10, <2>11, <2>12
<1> QED
  BY <1>0, <1>2, <1>4, <1>5, <1>6

(* push's whole loop over a batch of events. *)
LEMMA StoreLoop ==
    ASSUME NEW queue \in Seq(Event), Len(queue) <= Room, NEW events \in Seq(Event)
    PROVE  Kept(FoldLeft(Store, [queue |-> queue, lost |-> <<>>, dropped |-> 0], events),
                queue \o events)
<1> DEFINE n == Len(events)
           base == [queue |-> queue, lost |-> <<>>, dropped |-> 0]
           Sound == {acc \in Accumulator : Kept(acc, acc.lost \o acc.queue)}
           Loop(g) == g = [s \in SUBSET (1 .. n) |->
                             IF s = {} THEN base ELSE Store(g[s \ {Max(s)}], events[Max(s)])]
           iter == CHOOSE g : Loop(g)
           T == {k \in 0 .. n : Kept(iter[1 .. k], queue \o SubSeq(events, 1, k))}
<1>1. n \in Nat /\ DOMAIN events = 1 .. n /\ \A k \in 1 .. n : events[k] \in Event
  BY LenProperties
<1>2. FoldLeft(Store, base, events) = iter[1 .. n]
  BY <1>1 DEF FoldLeft, MapThenFoldSet
<1>3. Kept(base, queue)
  <2>1. base \in Accumulator /\ base.queue = queue /\ base.lost = <<>> /\ base.dropped = 0
    BY EmptySeq DEF Accumulator
  <2>2. <<>> \o queue = queue /\ Len(<<>>) = 0
    BY ConcatEmptySeq, EmptySeq
  <2> HIDE DEF base
  <2> QED
    BY <2>1, <2>2 DEF Kept
<1>4. base \in Sound
  <2>1. base \in Accumulator /\ base.lost \o base.queue = queue
    BY <1>3 DEF Kept
  <2> HIDE DEF base
  <2> QED
    BY <1>3, <2>1
<1>5. ASSUME NEW acc \in Sound, NEW k \in 1 .. n PROVE Store(acc, events[k]) \in Sound
  <2>1. acc.lost \o acc.queue \in Seq(Event) /\ Kept(acc, acc.lost \o acc.queue)
    BY ConcatProperties DEF Accumulator
  <2>2. events[k] \in Event
    BY <1>1
  <2>3. Kept(Store(acc, events[k]), Append(acc.lost \o acc.queue, events[k]))
    BY <2>1, <2>2, StoreStep
  <2> QED
    BY <2>3 DEF Kept
<1>6. \E g \in [SUBSET (1 .. n) -> Sound] : Loop(g)
  <2> DEFINE step == [k \in 1 .. n |-> [acc \in Sound |-> Store(acc, events[k])]]
  <2>1. step \in [1 .. n -> [Sound -> Sound]]
    <3> HIDE DEF Sound
    <3> QED BY <1>5
  <2>2. PICK g \in [SUBSET (1 .. n) -> Sound] : IsLoop(g, n, base, step)
    <3> HIDE DEF step, Sound, base, n
    <3> QED
      BY <1>1, <1>4, <2>1, LoopTable
  <2>3. ASSUME NEW s \in SUBSET (1 .. n), s # {}
        PROVE  step[Max(s)][g[s \ {Max(s)}]] = Store(g[s \ {Max(s)}], events[Max(s)])
    <3>1. Max(s) \in 1 .. n
      BY <1>1, <2>3, MaxInInterval
    <3>2. g[s \ {Max(s)}] \in Sound
      <4>1. s \ {Max(s)} \in SUBSET (1 .. n)
        OBVIOUS
      <4> HIDE DEF Sound
      <4> QED
        BY <4>1
    <3> HIDE DEF Sound
    <3> QED
      BY <3>1, <3>2
  <2> HIDE DEF Sound, base, step
  <2>4. Loop(g)
    BY <2>2, <2>3 DEF IsLoop
  <2> QED
    BY <2>4
<1>7. Loop(iter)
  <2> HIDE DEF Loop, Sound
  <2> QED
    BY <1>6
<1>8. iter[{}] = base
  <2> HIDE DEF iter, base
  <2> QED
    BY <1>7
<1>9. ASSUME NEW k \in 1 .. n PROVE iter[1 .. k] = Store(iter[1 .. k - 1], events[k])
  <2>1. 1 .. k \in SUBSET (1 .. n) /\ 1 .. k # {}
    OBVIOUS
  <2>2. Max(1 .. k) = k /\ (1 .. k) \ {Max(1 .. k)} = 1 .. k - 1
    BY LoopPrefix, SMTT(30)
  <2> HIDE DEF iter, base
  <2> QED
    BY <1>7, <2>1, <2>2
<1> HIDE DEF iter
<1>10. 0 \in T
  <2>1. SubSeq(events, 1, 0) = <<>> /\ queue \o <<>> = queue
    BY SubSeqEmpty, ConcatEmptySeq
  <2>2. 1 .. 0 = {}
    OBVIOUS
  <2> HIDE DEF base
  <2>3. Kept(iter[1 .. 0], queue \o SubSeq(events, 1, 0))
    BY <1>3, <1>8, <2>1, <2>2
  <2>4. 0 \in 0 .. n
    BY <1>1
  <2> QED
    BY <2>3, <2>4, Zenon
<1>11. ASSUME NEW k \in 0 .. n, k \in T, k < n PROVE k + 1 \in T
  <2>1. k + 1 \in 1 .. n /\ (k + 1) - 1 = k
    BY <1>1, <1>11
  <2>2. iter[1 .. k + 1] = Store(iter[1 .. k], events[k + 1])
    BY <1>9, <2>1
  <2>3. events[k + 1] \in Event /\ SubSeq(events, 1, k) \in Seq(Event)
    BY <1>1, <2>1, SubSeqProperties
  <2>4. queue \o SubSeq(events, 1, k) \in Seq(Event)
    BY <2>3, ConcatProperties
  <2>5. Kept(iter[1 .. k + 1], Append(queue \o SubSeq(events, 1, k), events[k + 1]))
    BY <1>11, <2>2, <2>3, <2>4, StoreStep
  <2>6. SubSeq(events, 1, k + 1) = Append(SubSeq(events, 1, k), events[k + 1])
    BY <1>1, <2>1, SubSeqRecursiveSecond
  <2>7. queue \o SubSeq(events, 1, k + 1) = Append(queue \o SubSeq(events, 1, k), events[k + 1])
    BY <2>3, <2>6, ConcatAppend
  <2>8. Kept(iter[1 .. k + 1], queue \o SubSeq(events, 1, k + 1))
    BY <2>5, <2>7
  <2>9. k + 1 \in 0 .. n
    BY <1>1, <2>1
  <2> QED
    BY <2>8, <2>9, Zenon
<1>12. n \in T
  <2> HIDE DEF T, n
  <2>1. \A k \in 0 .. n : k \in T /\ k < n => k + 1 \in T
    BY <1>11
  <2>2. \A k \in 0 .. n : k \in T
    BY <1>1, <1>10, <2>1, IntervalInduction
  <2> QED
    BY <1>1, <2>2
<1>13. SubSeq(events, 1, n) = events
  BY SubSeqFull
<1> QED
  BY <1>2, <1>12, <1>13

-------------------------------------------------------------------------------
(* The breaker inside the stack. *)

(* What its operations do to the calls it counts as running. *)
LEMMA BreakerEffects ==
    ASSUME NEW c
    PROVE  /\ Breaker!Admit(c) => c \notin inflight /\ inflight' = inflight \union {c}
           /\ Breaker!Reject(c) => c \notin inflight /\ inflight' = inflight
           /\ Breaker!Succeed(c) => c \in inflight /\ inflight' = inflight \ {c}
           /\ Breaker!Fail(c) => c \in inflight /\ inflight' = inflight \ {c}
           /\ Breaker!Cool => inflight' = inflight
  BY DEF Breaker!Admit, Breaker!AllowClosed, Breaker!StartProbing, Breaker!AllowProbe,
         Breaker!Reject, Breaker!Succeed, Breaker!Fail, Breaker!Answered, Breaker!Cool

(* A step of the stack is a step of the breaker or leaves it alone. *)
LEMMA BreakerMoves == [Next]_vars => [Breaker!Next]_breakerVars
<1> SUFFICES ASSUME [Next]_vars, breakerVars' # breakerVars PROVE Breaker!Next
  OBVIOUS
<1>1. \/ \E c \in Caller : \/ Breaker!Admit(c) \/ Breaker!Reject(c)
                           \/ Breaker!Succeed(c) \/ Breaker!Fail(c)
      \/ Breaker!Cool
  <2>1. CASE UNCHANGED vars
    BY <2>1 DEF vars
  <2>2. ASSUME NEW c \in Caller, EmitAdmitted(c) \/ EmitRejected(c) \/ Proceed(c)
        PROVE  Breaker!Admit(c) \/ Breaker!Reject(c) \/ Breaker!Succeed(c) \/ Breaker!Fail(c)
    BY <2>2 DEF EmitAdmitted, EmitRejected, Proceed, CallSucceeds, AttemptFails, Resend,
                GiveUp, Capture
  <2>3. ASSUME NEW req \in running, RequestOk(req) \/ RequestErr(req) PROVE FALSE
    BY <2>3 DEF RequestOk, RequestErr, Answer
  <2>4. ASSUME NEW n \in 1 .. Room, DrainFailures(n) PROVE FALSE
    BY <2>4 DEF DrainFailures
  <2>5. CASE Cool
    BY <2>5 DEF Cool
  <2> QED
    BY <2>1, <2>2, <2>3, <2>4, <2>5 DEF Next
<1> QED
  BY <1>1 DEF Breaker!Next

(* The breaker's own inductive invariant holds in the stack: its proof is  *)
(* CircuitBreakerProofs'.                                                  *)
LEMMA BreakerInvInit == Init => BreakerProofs!Inv
<1>1. Breaker!Init => BreakerProofs!Init
  BY DEF Breaker!Init, BreakerProofs!Init
<1>2. /\ BreakerProofs!IsFiniteSet(Caller)
      /\ FailureThreshold \in Nat /\ SuccessThreshold \in Nat
      /\ HalfOpenMaxRequests \in Nat
      /\ CountCap \in Nat /\ CountCap >= FailureThreshold /\ CountCap >= 1
      /\ CounterMod \in Nat \ {0}
  BY StackAssumption DEF IsFiniteSet, BreakerProofs!IsFiniteSet
<1>3. BreakerProofs!Init => BreakerProofs!Inv
  BY <1>2, BreakerProofs!InvInit
<1> QED
  BY <1>1, <1>3 DEF Init

(* A step of the stack is one that CircuitBreakerProofs reasons about ... *)
LEMMA BreakerSteps == [Next]_vars => [BreakerProofs!Next]_(BreakerProofs!vars)
<1>1. Breaker!Next => BreakerProofs!Next
  BY DEF Breaker!Next, Breaker!Admit, Breaker!AllowClosed, Breaker!StartProbing,
         Breaker!AllowProbe, Breaker!Reject, Breaker!Succeed, Breaker!Fail, Breaker!Cool,
         Breaker!Answered, Breaker!breaker, Breaker!metrics,
         BreakerProofs!Next, BreakerProofs!Admit, BreakerProofs!AllowClosed,
         BreakerProofs!StartProbing, BreakerProofs!AllowProbe, BreakerProofs!Reject,
         BreakerProofs!Succeed, BreakerProofs!Fail, BreakerProofs!Cool,
         BreakerProofs!Answered, BreakerProofs!breaker, BreakerProofs!metrics
<1>2. breakerVars' = breakerVars => (BreakerProofs!vars)' = BreakerProofs!vars
  BY DEF breakerVars, BreakerProofs!vars, BreakerProofs!breaker, BreakerProofs!metrics
<1> QED
  BY <1>1, <1>2, BreakerMoves

(* ... and keeps the breaker's invariant. *)
LEMMA BreakerInvStep == BreakerProofs!Inv /\ [Next]_vars => BreakerProofs!Inv'
<1>1. BreakerProofs!Inv /\ [BreakerProofs!Next]_(BreakerProofs!vars) => BreakerProofs!Inv'
  BY BreakerProofs!InvStep, StackAssumption DEF IsFiniteSet, BreakerProofs!IsFiniteSet
<1> QED
  BY <1>1, BreakerSteps

(* Its types are those the stack needs. *)
LEMMA BreakerTyped == BreakerProofs!Inv => Breaker!TypeOK
  BY DEF BreakerProofs!Inv, BreakerProofs!TypeOK, Breaker!TypeOK

-------------------------------------------------------------------------------
(* Type correctness. *)

(* Calls are told apart: a call in progress has a number of its own, below *)
(* the count, and is not yet among those that ended with an error, nor,    *)
(* while it has attempts left, among those that used them up.              *)
CallsApart ==
    /\ \A c \in Caller : stage[c] # "idle" => call[c] \in 1 .. calls
    /\ \A c, d \in Caller :
         stage[c] # "idle" /\ stage[d] # "idle" /\ call[c] = call[d] => c = d
    /\ refused \subseteq 1 .. calls /\ exhausted \subseteq 1 .. calls
    /\ \A c \in Caller : stage[c] # "idle" => call[c] \notin refused
    /\ \A c \in Caller : stage[c] \in {"joining", "backoff"} => call[c] \notin exhausted

(* What is captured of a failed call: a prefix of its batch, never empty. *)
LEMMA FailedEventsType ==
    ASSUME NEW id \in 1 .. MaxCalls
    PROVE  /\ CapturedPositions \in Nat \ {0}
           /\ FailedEvents(id) \in Seq(Event)
           /\ Len(FailedEvents(id)) = CapturedPositions
           /\ \A p \in 1 .. CapturedPositions : FailedEvents(id)[p] = [call |-> id, pos |-> p]
<1>1. CapturedPositions \in Nat \ {0} /\ CapturedPositions <= BatchLen
  BY StackAssumption DEF CapturedPositions
<1>2. \A p \in 1 .. CapturedPositions : [call |-> id, pos |-> p] \in Event
  BY <1>1, StackAssumption DEF Event, Positions
<1>3. FailedEvents(id) \in [1 .. CapturedPositions -> Event]
  BY <1>2 DEF FailedEvents
<1>4. FailedEvents(id) \in Seq(Event)
  BY <1>1, <1>3, SeqDef
<1>5. Len(FailedEvents(id)) = CapturedPositions
  BY <1>1, <1>3, <1>4, LenProperties
<1> QED
  BY <1>1, <1>4, <1>5 DEF FailedEvents

(* The stack starts well typed. *)
LEMMA TypeInit == Init => TypeOK
<1> SUFFICES ASSUME Init PROVE TypeOK
  OBVIOUS
<1>1. Breaker!TypeOK
  BY BreakerInvInit, BreakerTyped
<1>2. failures = <<>> /\ captured = <<>> /\ left = <<>>
  BY DEF Init
<1>3. /\ failures \in Seq(Event) /\ captured \in Seq(Event) /\ left \in Seq(Event)
      /\ Len(failures) = 0
  BY <1>2, EmptySeq
<1>4. Len(failures) <= Room
  BY <1>3, StackAssumption DEF Room
<1> QED
  BY <1>1, <1>3, <1>4, StackAssumption DEF Init, TypeOK

(* What Capture does to the failure buffer and its history. *)
LEMMA CaptureEffect ==
    ASSUME TypeOK, CallsApart, NEW c \in Caller, Capture(c)
    PROVE  \E lost \in Seq(Event), dropped \in Nat :
             /\ failures' \in Seq(Event) /\ Len(failures') <= Room
             /\ lost \o failures' = failures \o FailedEvents(call[c])
             /\ left' = left \o lost
             /\ total_dropped' = total_dropped + dropped
             /\ FailureCapacity > 0 => dropped = Len(lost)
<1> DEFINE stored == FoldLeft(Store, [queue |-> failures, lost |-> <<>>, dropped |-> 0],
                              FailedEvents(call[c]))
<1>1. call[c] \in 1 .. MaxCalls
  <2>1. stage[c] # "idle"
    BY DEF Capture
  <2> QED
    BY <2>1 DEF CallsApart, TypeOK
<1>2. failures \in Seq(Event) /\ Len(failures) <= Room
  BY DEF TypeOK, Room
<1>3. Kept(stored, failures \o FailedEvents(call[c]))
  BY <1>1, <1>2, FailedEventsType, StoreLoop
<1>4. failures' = stored.queue /\ left' = left \o stored.lost
      /\ total_dropped' = total_dropped + stored.dropped
  BY DEF Capture
<1> HIDE DEF stored
<1>5. stored.lost \in Seq(Event) /\ stored.dropped \in Nat /\ stored.queue \in Seq(Event)
  BY <1>3 DEF Kept, Accumulator
<1> QED
  BY <1>3, <1>4, <1>5 DEF Kept

(* Every step keeps the types. *)
LEMMA TypeStep == TypeOK /\ BreakerProofs!Inv /\ CallsApart /\ [Next]_vars => TypeOK'
<1> SUFFICES ASSUME TypeOK, BreakerProofs!Inv, CallsApart, [Next]_vars PROVE TypeOK'
  OBVIOUS
<1> USE StackAssumption
<1> USE DEF retryVars, bufferVars
<1>0. Breaker!TypeOK'
  BY BreakerInvStep DEF BreakerProofs!Inv, BreakerProofs!TypeOK, Breaker!TypeOK
<1>1. ASSUME NEW c \in Caller, EmitAdmitted(c) PROVE TypeOK'
  <2>1. calls + 1 \in 1 .. MaxCalls /\ calls' = calls + 1
    BY <1>1 DEF TypeOK, EmitAdmitted
  <2>2. running' \subseteq Request
    <3>1. running' = running \union {[call |-> calls + 1, attempt |-> 0, pos |-> p] : p \in Positions}
      BY <1>1 DEF EmitAdmitted, Spawn
    <3>2. 0 \in 0 .. MaxAttempts
      OBVIOUS
    <3>3. \A p \in Positions : [call |-> calls + 1, attempt |-> 0, pos |-> p] \in Request
      BY <2>1, <3>2 DEF Request
    <3> QED
      BY <3>1, <3>3 DEF TypeOK
  <2>3. result' \in [Caller -> [Positions -> {"pending", "ok", "err"}]]
    BY <1>1 DEF TypeOK, EmitAdmitted, Spawn
  <2>4. /\ call' \in [Caller -> 0 .. MaxCalls] /\ attempt' \in [Caller -> 0 .. MaxAttempts]
        /\ stage' \in [Caller -> {"idle", "joining", "backoff", "capture"}]
        /\ calls' \in 0 .. MaxCalls
    <3>1. /\ call' = [call EXCEPT ![c] = calls + 1] /\ attempt' = [attempt EXCEPT ![c] = 0]
          /\ stage' = [stage EXCEPT ![c] = "joining"]
      BY <1>1 DEF EmitAdmitted
    <3>2. calls + 1 \in 0 .. MaxCalls /\ 0 \in 0 .. MaxAttempts
      BY <2>1
    <3>3. /\ call \in [Caller -> 0 .. MaxCalls] /\ attempt \in [Caller -> 0 .. MaxAttempts]
          /\ stage \in [Caller -> {"idle", "joining", "backoff", "capture"}]
      BY DEF TypeOK
    <3>4. call' \in [Caller -> 0 .. MaxCalls] /\ attempt' \in [Caller -> 0 .. MaxAttempts]
      BY <3>1, <3>2, <3>3
    <3> QED
      BY <2>1, <3>1, <3>2, <3>3, <3>4
  <2>5. UNCHANGED <<retry_count, recovered_count, bufferVars, delivered>>
    BY <1>1 DEF EmitAdmitted
  <2> QED
    BY <1>0, <2>2, <2>3, <2>4, <2>5 DEF TypeOK
<1>2. ASSUME NEW c \in Caller, EmitRejected(c) PROVE TypeOK'
  <2>1. calls + 1 \in 1 .. MaxCalls /\ calls' = calls + 1
    BY <1>2 DEF TypeOK, EmitRejected
  <2>2. /\ call' \in [Caller -> 0 .. MaxCalls] /\ calls' \in 0 .. MaxCalls
        /\ stage' \in [Caller -> {"idle", "joining", "backoff", "capture"}]
    <3>1. /\ call' = [call EXCEPT ![c] = calls + 1]
          /\ stage' = [stage EXCEPT ![c] = "capture"]
      BY <1>2 DEF EmitRejected
    <3>2. /\ call \in [Caller -> 0 .. MaxCalls]
          /\ stage \in [Caller -> {"idle", "joining", "backoff", "capture"}]
      BY DEF TypeOK
    <3> QED
      BY <2>1, <3>1, <3>2
  <2>3. UNCHANGED <<attempt, retry_count, recovered_count, result, running, bufferVars, delivered>>
    BY <1>2 DEF EmitRejected
  <2> QED
    BY <1>0, <2>2, <2>3 DEF TypeOK
<1>3. ASSUME NEW c \in Caller, CallSucceeds(c) PROVE TypeOK'
  <2>1. /\ \E more \in {0, 1} : recovered_count' = recovered_count + more
        /\ stage' = [stage EXCEPT ![c] = "idle"]
        /\ call' = [call EXCEPT ![c] = 0] /\ attempt' = [attempt EXCEPT ![c] = 0]
        /\ result' = [result EXCEPT ![c] = [p \in Positions |-> "pending"]]
        /\ UNCHANGED <<calls, retry_count, running, bufferVars, delivered>>
    BY <1>3 DEF CallSucceeds
  <2>2. 0 \in 0 .. MaxCalls /\ 0 \in 0 .. MaxAttempts
    OBVIOUS
  <2>3. /\ call \in [Caller -> 0 .. MaxCalls] /\ attempt \in [Caller -> 0 .. MaxAttempts]
        /\ stage \in [Caller -> {"idle", "joining", "backoff", "capture"}]
        /\ recovered_count \in Nat
        /\ result \in [Caller -> [Positions -> {"pending", "ok", "err"}]]
    BY DEF TypeOK
  <2>4. /\ call' \in [Caller -> 0 .. MaxCalls] /\ attempt' \in [Caller -> 0 .. MaxAttempts]
        /\ stage' \in [Caller -> {"idle", "joining", "backoff", "capture"}]
    BY <2>1, <2>2, <2>3
  <2>5. /\ recovered_count' \in Nat
        /\ result' \in [Caller -> [Positions -> {"pending", "ok", "err"}]]
    BY <2>1, <2>3
  <2> QED
    BY <1>0, <2>1, <2>4, <2>5 DEF TypeOK
<1>4. ASSUME NEW c \in Caller, AttemptFails(c) PROVE TypeOK'
  <2>1. /\ attempt' = [attempt EXCEPT ![c] = attempt[c] + 1] /\ attempt[c] < MaxAttempts
        /\ stage' = [stage EXCEPT ![c] = "backoff"]
        /\ result' = [result EXCEPT ![c] = [p \in Positions |-> "pending"]]
        /\ \E more \in {0, 1} : retry_count' = retry_count + more
        /\ UNCHANGED <<calls, call, recovered_count, running, bufferVars, delivered>>
    BY <1>4 DEF AttemptFails
  <2>2. /\ attempt \in [Caller -> 0 .. MaxAttempts] /\ retry_count \in Nat
        /\ stage \in [Caller -> {"idle", "joining", "backoff", "capture"}]
        /\ result \in [Caller -> [Positions -> {"pending", "ok", "err"}]]
    BY DEF TypeOK
  <2>3. attempt' \in [Caller -> 0 .. MaxAttempts] /\ retry_count' \in Nat
    BY <2>1, <2>2
  <2>4. /\ stage' \in [Caller -> {"idle", "joining", "backoff", "capture"}]
        /\ result' \in [Caller -> [Positions -> {"pending", "ok", "err"}]]
    BY <2>1, <2>2
  <2> QED
    BY <1>0, <2>1, <2>3, <2>4 DEF TypeOK
<1>5. ASSUME NEW c \in Caller, Resend(c) PROVE TypeOK'
  <2>1. /\ running' = running \union
                        {[call |-> call[c], attempt |-> attempt[c], pos |-> p] : p \in Positions}
        /\ result' = [result EXCEPT ![c] = [p \in Positions |-> "pending"]]
        /\ stage' = [stage EXCEPT ![c] = "joining"] /\ stage[c] = "backoff"
        /\ UNCHANGED <<calls, call, retryVars, bufferVars, delivered>>
    BY <1>5 DEF Resend, Spawn
  <2>2. call[c] \in 1 .. MaxCalls /\ attempt[c] \in 0 .. MaxAttempts
    BY <2>1 DEF TypeOK, CallsApart
  <2>3. running' \subseteq Request
    BY <2>1, <2>2, SMTT(30) DEF TypeOK, Request
  <2>4. /\ stage' \in [Caller -> {"idle", "joining", "backoff", "capture"}]
        /\ result' \in [Caller -> [Positions -> {"pending", "ok", "err"}]]
    BY <2>1 DEF TypeOK
  <2> QED
    BY <1>0, <2>1, <2>3, <2>4 DEF TypeOK
<1>6. ASSUME NEW c \in Caller, GiveUp(c) PROVE TypeOK'
  BY <1>0, <1>6 DEF TypeOK, GiveUp
<1>7. ASSUME NEW c \in Caller, Capture(c) PROVE TypeOK'
  <2>1. failures' \in Seq(Event) /\ Len(failures') <= Room /\ total_dropped' \in Nat
        /\ left' \in Seq(Event)
    <3>1. PICK lost \in Seq(Event), dropped \in Nat :
            /\ failures' \in Seq(Event) /\ Len(failures') <= Room
            /\ left' = left \o lost /\ total_dropped' = total_dropped + dropped
      BY <1>7, CaptureEffect
    <3>2. left \in Seq(Event) /\ total_dropped \in Nat
      BY DEF TypeOK
    <3>3. left \o lost \in Seq(Event)
      BY <3>2, ConcatProperties
    <3> QED
      BY <3>1, <3>2, <3>3, SMTT(30)
  <2>2. FailedEvents(call[c]) \in Seq(Event) /\ Len(FailedEvents(call[c])) \in Nat
    <3>1. call[c] \in 1 .. calls /\ calls \in 0 .. MaxCalls
      BY <1>7 DEF CallsApart, TypeOK, Capture
    <3>2. call[c] \in 1 .. MaxCalls
      BY <3>1
    <3> QED
      BY <3>2, FailedEventsType
  <2>3. captured' \in Seq(Event) /\ total_captured' \in Nat
    <3>1. PICK events : events = FailedEvents(call[c])
      OBVIOUS
    <3>2. captured' = captured \o events /\ total_captured' = total_captured + Len(events)
      BY <1>7, <3>1 DEF Capture
    <3>3. captured \in Seq(Event) /\ total_captured \in Nat
      BY DEF TypeOK
    <3>4. events \in Seq(Event) /\ Len(events) \in Nat
      BY <2>2, <3>1
    <3> QED
      BY <3>2, <3>3, <3>4, ConcatProperties, SMTT(30)
  <2>4. /\ stage' \in [Caller -> {"idle", "joining", "backoff", "capture"}]
        /\ call' \in [Caller -> 0 .. MaxCalls] /\ attempt' \in [Caller -> 0 .. MaxAttempts]
    <3>1. /\ stage' = [stage EXCEPT ![c] = "idle"]
          /\ call' = [call EXCEPT ![c] = 0] /\ attempt' = [attempt EXCEPT ![c] = 0]
      BY <1>7 DEF Capture
    <3>2. 0 \in 0 .. MaxCalls /\ 0 \in 0 .. MaxAttempts
      OBVIOUS
    <3>3. /\ call \in [Caller -> 0 .. MaxCalls] /\ attempt \in [Caller -> 0 .. MaxAttempts]
          /\ stage \in [Caller -> {"idle", "joining", "backoff", "capture"}]
      BY DEF TypeOK
    <3> QED
      BY <3>1, <3>2, <3>3
  <2>5. Len(failures') <= Room
    BY <2>1 DEF Room
  <2>6. UNCHANGED <<calls, retry_count, recovered_count, result, running, drained, delivered>>
    BY <1>7 DEF Capture
  <2> QED
    BY <1>0, <2>1, <2>3, <2>4, <2>5, <2>6 DEF TypeOK
<1>8. ASSUME NEW req \in running, RequestOk(req) \/ RequestErr(req) PROVE TypeOK'
  <2>1. PICK arrives \in BOOLEAN, answer \in {"ok", "err"} : Answer(req, arrives, answer)
    BY <1>8 DEF RequestOk, RequestErr
  <2>2. req \in Request /\ req.pos \in Positions /\ [call |-> req.call, pos |-> req.pos] \in Event
    BY DEF TypeOK, Request, Event
  <2>3. result' \in [Caller -> [Positions -> {"pending", "ok", "err"}]]
    BY <2>1, <2>2 DEF TypeOK, Answer
  <2>4. delivered' \subseteq Event /\ running' \subseteq Request
    BY <2>1, <2>2 DEF TypeOK, Answer
  <2> QED
    BY <1>0, <2>1, <2>3, <2>4 DEF TypeOK, Answer
<1>9. ASSUME NEW n \in 1 .. Room, DrainFailures(n) PROVE TypeOK'
  <2> DEFINE count == Lesser(n, Len(failures))
  <2>1. Len(failures) \in Nat /\ count \in 0 .. Len(failures)
    BY LenProperties DEF TypeOK, Lesser
  <2>2. \A i \in 1 .. Len(failures) : failures[i] \in Event
    BY ElementOfSeq DEF TypeOK
  <2>3. /\ SubSeq(failures, count + 1, Len(failures)) \in Seq(Event)
        /\ Len(SubSeq(failures, count + 1, Len(failures))) <= Len(failures)
    BY <2>1, <2>2, SubSeqProperties, SMTT(30)
  <2>4. SubSeq(failures, 1, count) \in Seq(Event)
    BY <2>1, <2>2, SubSeqProperties, SMTT(30)
  <2>5. left \o SubSeq(failures, 1, count) \in Seq(Event)
    BY <2>4, ConcatProperties DEF TypeOK
  <2>6. /\ failures' = SubSeq(failures, count + 1, Len(failures))
        /\ left' = left \o SubSeq(failures, 1, count) /\ drained' = drained + count
    BY <1>9 DEF DrainFailures
  <2> HIDE DEF count
  <2>7. Len(failures') \in Nat /\ Len(failures') <= Len(failures)
    BY <2>3, <2>6, LenProperties
  <2>8. Len(failures') <= Room
    BY <2>1, <2>7, StackAssumption, SMTT(30) DEF TypeOK, Room
  <2>9. failures' \in Seq(Event) /\ left' \in Seq(Event) /\ drained' \in Nat
    <3>1. count \in Nat /\ drained \in Nat
      BY <2>1 DEF TypeOK
    <3>2. drained' \in Nat
      BY <2>6, <3>1
    <3>3. failures' \in Seq(Event) /\ left' \in Seq(Event)
      BY <2>3, <2>5, <2>6, Zenon
    <3> QED
      BY <3>2, <3>3
  <2>10. UNCHANGED <<calls, stage, call, attempt, retry_count, recovered_count, result, running,
                     total_captured, total_dropped, captured, delivered>>
    BY <1>9 DEF DrainFailures
  <2> QED
    BY <1>0, <2>8, <2>9, <2>10 DEF TypeOK
<1>10. CASE Cool
  BY <1>0, <1>10 DEF TypeOK, Cool
<1>11. CASE UNCHANGED vars
  BY <1>0, <1>11 DEF TypeOK, vars
<1> QED
  BY <1>1, <1>2, <1>3, <1>4, <1>5, <1>6, <1>7, <1>8, <1>9, <1>10, <1>11 DEF Next, Proceed

-------------------------------------------------------------------------------
(* Calls, the breaker's account of them, and delivery. *)

(* Every step keeps the calls apart. *)
LEMMA CallsApartStep == TypeOK /\ CallsApart /\ [Next]_vars => CallsApart'
<1> SUFFICES ASSUME TypeOK, CallsApart, [Next]_vars PROVE CallsApart'
  OBVIOUS
<1> USE DEF retryVars, bufferVars
<1>0. calls \in Nat /\ stage \in [Caller -> {"idle", "joining", "backoff", "capture"}]
      /\ call \in [Caller -> 0 .. MaxCalls]
  BY StackAssumption, SMTT(30) DEF TypeOK
<1>1. ASSUME NEW c \in Caller, EmitAdmitted(c) \/ EmitRejected(c) PROVE CallsApart'
  <2>1. /\ calls' = calls + 1 /\ call' = [call EXCEPT ![c] = calls + 1]
        /\ \E st \in {"joining", "capture"} : stage' = [stage EXCEPT ![c] = st]
        /\ stage[c] = "idle"
        /\ refused' = refused /\ exhausted' = exhausted
    BY <1>1 DEF EmitAdmitted, EmitRejected
  <2> QED
    BY <1>0, <2>1 DEF CallsApart
<1>2. ASSUME NEW c \in Caller, CallSucceeds(c) PROVE CallsApart'
  BY <1>0, <1>2 DEF CallsApart, CallSucceeds
<1>3. ASSUME NEW c \in Caller, AttemptFails(c) PROVE CallsApart'
  BY <1>0, <1>3 DEF CallsApart, AttemptFails
<1>4. ASSUME NEW c \in Caller, Resend(c) PROVE CallsApart'
  BY <1>0, <1>4 DEF CallsApart, Resend
<1>5. ASSUME NEW c \in Caller, GiveUp(c) PROVE CallsApart'
  BY <1>0, <1>5 DEF CallsApart, GiveUp
<1>6. ASSUME NEW c \in Caller, Capture(c) PROVE CallsApart'
  <2>1. /\ stage[c] = "capture" /\ stage' = [stage EXCEPT ![c] = "idle"]
        /\ call' = [call EXCEPT ![c] = 0] /\ refused' = refused \union {call[c]}
        /\ calls' = calls /\ exhausted' = exhausted
    BY <1>6 DEF Capture
  <2> QED
    BY <1>0, <2>1 DEF CallsApart
<1>7. ASSUME NEW req \in running, RequestOk(req) \/ RequestErr(req) PROVE CallsApart'
  <2>1. UNCHANGED <<calls, stage, call, refused, exhausted>>
    BY <1>7 DEF RequestOk, RequestErr, Answer
  <2> QED
    BY <2>1 DEF CallsApart
<1>8. ASSUME NEW n \in 1 .. Room, DrainFailures(n) PROVE CallsApart'
  BY <1>8 DEF CallsApart, DrainFailures
<1>9. CASE Cool
  BY <1>9 DEF CallsApart, Cool
<1>10. CASE UNCHANGED vars
  BY <1>10 DEF CallsApart, vars
<1> QED
  BY <1>1, <1>2, <1>3, <1>4, <1>5, <1>6, <1>7, <1>8, <1>9, <1>10 DEF Next, Proceed

(* The breaker's calls are those at work on an attempt. *)
LEMMA AdmissionStep == TypeOK /\ EveryAdmissionRecorded /\ [Next]_vars => EveryAdmissionRecorded'
<1> SUFFICES ASSUME TypeOK, EveryAdmissionRecorded, [Next]_vars PROVE EveryAdmissionRecorded'
  OBVIOUS
<1> USE DEF EveryAdmissionRecorded
<1>0. stage \in [Caller -> {"idle", "joining", "backoff", "capture"}]
  BY DEF TypeOK
<1>1. ASSUME NEW c \in Caller, EmitAdmitted(c) PROVE EveryAdmissionRecorded'
  BY <1>0, <1>1, BreakerEffects DEF EmitAdmitted
<1>2. ASSUME NEW c \in Caller, EmitRejected(c) PROVE EveryAdmissionRecorded'
  BY <1>0, <1>2, BreakerEffects DEF EmitRejected
<1>3. ASSUME NEW c \in Caller, CallSucceeds(c) PROVE EveryAdmissionRecorded'
  BY <1>0, <1>3, BreakerEffects DEF CallSucceeds
<1>4. ASSUME NEW c \in Caller, AttemptFails(c) PROVE EveryAdmissionRecorded'
  BY <1>0, <1>4 DEF AttemptFails, breakerVars
<1>5. ASSUME NEW c \in Caller, Resend(c) PROVE EveryAdmissionRecorded'
  BY <1>0, <1>5 DEF Resend, breakerVars
<1>6. ASSUME NEW c \in Caller, GiveUp(c) PROVE EveryAdmissionRecorded'
  BY <1>0, <1>6, BreakerEffects DEF GiveUp
<1>7. ASSUME NEW c \in Caller, Capture(c) PROVE EveryAdmissionRecorded'
  <2>1. stage[c] = "capture" /\ stage' = [stage EXCEPT ![c] = "idle"] /\ inflight' = inflight
    BY <1>7 DEF Capture, breakerVars
  <2> QED
    BY <1>0, <2>1
<1>8. ASSUME NEW req \in running, RequestOk(req) \/ RequestErr(req)
      PROVE  EveryAdmissionRecorded'
  BY <1>8 DEF RequestOk, RequestErr, Answer, breakerVars
<1>9. ASSUME NEW n \in 1 .. Room, DrainFailures(n) PROVE EveryAdmissionRecorded'
  BY <1>9 DEF DrainFailures, breakerVars
<1>10. CASE Cool
  BY <1>10, BreakerEffects DEF Cool
<1>11. CASE UNCHANGED vars
  BY <1>11 DEF vars, breakerVars
<1> QED
  BY <1>1, <1>2, <1>3, <1>4, <1>5, <1>6, <1>7, <1>8, <1>9, <1>10, <1>11 DEF Next, Proceed

(* A request of the present attempt is only known to have succeeded once   *)
(* its event is at the backend.                                            *)
OkDelivered ==
    \A c \in Caller : \A p \in Positions :
      stage[c] = "joining" /\ result[c][p] = "ok" => [call |-> call[c], pos |-> p] \in delivered

(* Every step keeps that, and so the promise of an Ok. *)
LEMMA DeliveredStep ==
    TypeOK /\ CallsApart /\ OkDelivered /\ AckedDelivered /\ [Next]_vars
      => OkDelivered' /\ AckedDelivered'
<1> SUFFICES ASSUME TypeOK, CallsApart, OkDelivered, AckedDelivered, [Next]_vars
             PROVE  OkDelivered' /\ AckedDelivered'
  OBVIOUS
<1> USE DEF retryVars, bufferVars
<1>0. /\ stage \in [Caller -> {"idle", "joining", "backoff", "capture"}]
      /\ call \in [Caller -> 0 .. MaxCalls]
      /\ result \in [Caller -> [Positions -> {"pending", "ok", "err"}]]
  BY DEF TypeOK
<1>1. ASSUME NEW c \in Caller, EmitAdmitted(c) PROVE OkDelivered' /\ AckedDelivered'
  BY <1>0, <1>1 DEF OkDelivered, AckedDelivered, EmitAdmitted, Spawn
<1>2. ASSUME NEW c \in Caller, EmitRejected(c) PROVE OkDelivered' /\ AckedDelivered'
  BY <1>0, <1>2 DEF OkDelivered, AckedDelivered, EmitRejected
<1>3. ASSUME NEW c \in Caller, CallSucceeds(c) PROVE OkDelivered' /\ AckedDelivered'
  <2>1. OkDelivered'
    BY <1>0, <1>3 DEF OkDelivered, CallSucceeds
  <2>2. ASSUME NEW e \in Event, e.call = call[c] PROVE e \in delivered
    <3>1. e.pos \in Positions /\ e = [call |-> e.call, pos |-> e.pos]
      BY DEF Event
    <3>2. stage[c] = "joining" /\ result[c][e.pos] = "ok"
      BY <1>3, <3>1 DEF CallSucceeds, AllOk
    <3>3. [call |-> call[c], pos |-> e.pos] \in delivered
      BY <3>1, <3>2 DEF OkDelivered
    <3> QED
      BY <2>2, <3>1, <3>3
  <2>3. acked' = acked \union {call[c]} /\ delivered' = delivered
    BY <1>3 DEF CallSucceeds
  <2>4. AckedDelivered'
    BY <2>2, <2>3 DEF AckedDelivered
  <2> QED
    BY <2>1, <2>4
<1>4. ASSUME NEW c \in Caller, AttemptFails(c) PROVE OkDelivered' /\ AckedDelivered'
  BY <1>0, <1>4 DEF OkDelivered, AckedDelivered, AttemptFails
<1>5. ASSUME NEW c \in Caller, Resend(c) PROVE OkDelivered' /\ AckedDelivered'
  BY <1>0, <1>5 DEF OkDelivered, AckedDelivered, Resend, Spawn
<1>6. ASSUME NEW c \in Caller, GiveUp(c) PROVE OkDelivered' /\ AckedDelivered'
  BY <1>0, <1>6 DEF OkDelivered, AckedDelivered, GiveUp
<1>7. ASSUME NEW c \in Caller, Capture(c) PROVE OkDelivered' /\ AckedDelivered'
  <2>1. /\ stage' = [stage EXCEPT ![c] = "idle"] /\ call' = [call EXCEPT ![c] = 0]
        /\ UNCHANGED <<result, delivered, acked>>
    BY <1>7 DEF Capture
  <2> QED
    BY <1>0, <2>1 DEF OkDelivered, AckedDelivered
<1>8. ASSUME NEW req \in running, RequestOk(req) \/ RequestErr(req)
      PROVE  OkDelivered' /\ AckedDelivered'
  <2>1. PICK arrives \in BOOLEAN, answer \in {"ok", "err"} :
          Answer(req, arrives, answer) /\ (answer = "ok" => arrives)
    BY <1>8 DEF RequestOk, RequestErr
  <2>2. /\ delivered \subseteq delivered' /\ UNCHANGED <<stage, call, acked>>
        /\ answer = "ok" => [call |-> req.call, pos |-> req.pos] \in delivered'
    BY <2>1 DEF Answer
  <2>3. ASSUME NEW c \in Caller, NEW p \in Positions,
               stage[c] = "joining", result'[c][p] = "ok"
        PROVE  [call |-> call[c], pos |-> p] \in delivered'
    <3>1. CASE result[c][p] = "ok"
      BY <2>2, <2>3, <3>1 DEF OkDelivered
    <3>2. CASE result[c][p] # "ok"
      <4>1. call[c] = req.call /\ p = req.pos /\ answer = "ok"
        BY <1>0, <2>1, <2>3, <3>2 DEF Answer
      <4> QED
        BY <2>2, <4>1
    <3> QED
      BY <3>1, <3>2
  <2>4. OkDelivered'
    BY <2>2, <2>3 DEF OkDelivered
  <2>5. AckedDelivered'
    BY <2>2 DEF AckedDelivered
  <2> QED
    BY <2>4, <2>5
<1>9. ASSUME NEW n \in 1 .. Room, DrainFailures(n)
      PROVE  OkDelivered' /\ AckedDelivered'
  BY <1>9 DEF OkDelivered, AckedDelivered, DrainFailures
<1>10. CASE Cool
  BY <1>10 DEF OkDelivered, AckedDelivered, Cool
<1>11. CASE UNCHANGED vars
  BY <1>11 DEF OkDelivered, AckedDelivered, vars
<1> QED
  BY <1>1, <1>2, <1>3, <1>4, <1>5, <1>6, <1>7, <1>8, <1>9, <1>10, <1>11 DEF Next, Proceed

-------------------------------------------------------------------------------
(* The failure buffer's account. *)

(* Every step keeps the account of the captured events. *)
LEMMA KeptStep ==
    TypeOK /\ CallsApart /\ FailuresKept /\ [Next]_vars => FailuresKept'
<1> SUFFICES ASSUME TypeOK, CallsApart, FailuresKept, [Next]_vars PROVE FailuresKept'
  OBVIOUS
<1>0. /\ failures \in Seq(Event) /\ captured \in Seq(Event) /\ left \in Seq(Event)
      /\ Len(failures) \in Nat /\ Len(captured) \in Nat /\ Len(left) \in Nat
      /\ total_captured \in Nat /\ total_dropped \in Nat /\ drained \in Nat /\ calls \in Nat
  BY StackAssumption, LenProperties DEF TypeOK
<1>1. ASSUME NEW c \in Caller, Capture(c) PROVE FailuresKept'
  <2>1. call[c] \in 1 .. MaxCalls /\ call[c] \notin refused
    BY <1>1 DEF CallsApart, TypeOK, Capture
  <2>2. PICK events \in Seq(Event) : events = FailedEvents(call[c])
                                     /\ Len(events) = CapturedPositions
    BY <2>1, FailedEventsType
  <2>3. PICK lost \in Seq(Event), dropped \in Nat :
          /\ failures' \in Seq(Event)
          /\ lost \o failures' = failures \o events
          /\ left' = left \o lost
          /\ total_dropped' = total_dropped + dropped
          /\ FailureCapacity > 0 => dropped = Len(lost)
    BY <1>1, <2>2, CaptureEffect
  <2>4. /\ captured' = captured \o events /\ refused' = refused \union {call[c]}
        /\ total_captured' = total_captured + Len(events) /\ drained' = drained
    BY <1>1, <2>2 DEF Capture
  <2>5. captured' = left' \o failures'
    <3>1. captured' = (left \o failures) \o events
      BY <2>4 DEF FailuresKept
    <3>2. (left \o failures) \o events = left \o (failures \o events)
      BY <1>0, ConcatAssociative, SMTT(30)
    <3>3. PICK rest \in Seq(Event) : rest = failures' /\ lost \o rest = failures \o events
      BY <2>3
    <3>4. left \in Seq(Event)
      BY <1>0
    <3>5. (left \o lost) \o rest = left \o (lost \o rest)
      BY <3>4, ConcatAssociative
    <3> QED
      BY <2>3, <3>1, <3>2, <3>3, <3>5
  <2>6. ToSet(captured') = UNION {ToSet(FailedEvents(id)) : id \in refused'}
    <3>1. ToSet(captured \o events) = ToSet(captured) \union ToSet(events)
      BY <1>0, ToSetConcat
    <3>2. ToSet(captured) = UNION {ToSet(FailedEvents(id)) : id \in refused}
      BY DEF FailuresKept
    <3>3. UNION {ToSet(FailedEvents(id)) : id \in refused'}
            = (UNION {ToSet(FailedEvents(id)) : id \in refused})
                \union ToSet(FailedEvents(call[c]))
      BY <2>4, Zenon
    <3> QED
      BY <2>2, <2>4, <3>1, <3>2, <3>3
  <2>7. Len(captured') = Len(captured) + CapturedPositions
    BY <1>0, <2>2, <2>4, ConcatProperties
  <2>8. Len(captured') = CapturedPositions * Cardinality(refused')
    <3>1. IsFiniteSet(refused)
      <4>1. 1 \in Int /\ calls \in Int
        BY <1>0
      <4>2. IsFiniteSet(1 .. calls)
        BY <4>1, FS_Interval
      <4>3. refused \in SUBSET (1 .. calls)
        BY DEF CallsApart
      <4> QED
        BY <4>2, <4>3, FS_Subset
    <3>2. /\ Cardinality(refused) \in Nat
          /\ Cardinality(refused') = Cardinality(refused) + 1
      BY <2>1, <2>4, <3>1, FS_CardinalityType, FS_AddElement
    <3>3. CapturedPositions \in Nat
      BY <2>1, FailedEventsType
    <3>4. CapturedPositions * (Cardinality(refused) + 1)
            = CapturedPositions * Cardinality(refused) + CapturedPositions
      BY <3>2, <3>3
    <3>5. Len(captured) = CapturedPositions * Cardinality(refused)
      BY DEF FailuresKept
    <3> QED
      BY <2>7, <3>2, <3>4, <3>5
  <2>9. total_captured' = Len(captured')
    BY <1>0, <2>2, <2>4, <2>7 DEF FailuresKept
  <2>10. FailureCapacity > 0 => total_dropped' + drained' = Len(left')
    <3>1. Len(left \o lost) = Len(left) + Len(lost) /\ Len(lost) \in Nat
      BY <1>0, ConcatProperties, LenProperties
    <3>2. Len(left') = Len(left) + Len(lost)
      BY <2>3, <3>1
    <3> SUFFICES ASSUME FailureCapacity > 0 PROVE total_dropped' + drained' = Len(left')
      OBVIOUS
    <3>3. total_dropped + drained = Len(left)
      BY DEF FailuresKept
    <3>4. total_dropped' = total_dropped + Len(lost) /\ drained' = drained
      BY <2>3, <2>4
    <3>5. PICK t \in Nat, d \in Nat, k \in Nat, m \in Nat :
            t = total_dropped /\ d = drained /\ k = Len(left) /\ m = Len(lost)
      BY <1>0, <3>1
    <3>6. (t + m) + d = k + m
      BY <3>3, <3>5
    <3>7. total_dropped' + drained' = (t + m) + d /\ Len(left') = k + m
      BY <3>2, <3>4, <3>5
    <3> QED
      BY <3>6, <3>7
  <2> QED
    BY <2>5, <2>6, <2>8, <2>9, <2>10 DEF FailuresKept
<1>2. ASSUME NEW n \in 1 .. Room, DrainFailures(n) PROVE FailuresKept'
  <2>1. PICK count \in 0 .. Len(failures) : count = Lesser(n, Len(failures))
    BY <1>0, StackAssumption, SMTT(30) DEF Lesser
  <2>2. /\ failures' = SubSeq(failures, count + 1, Len(failures))
        /\ left' = left \o SubSeq(failures, 1, count) /\ drained' = drained + count
        /\ UNCHANGED <<total_captured, total_dropped, captured, refused>>
    BY <1>2, <2>1 DEF DrainFailures
  <2>3. \A i \in 1 .. Len(failures) : failures[i] \in Event
    BY <1>0, ElementOfSeq
  <2>4. SubSeq(failures, 1, count) \in Seq(Event) /\ Len(SubSeq(failures, 1, count)) = count
    BY <1>0, <2>1, <2>3, SubSeqProperties
  <2>5. SubSeq(failures, count + 1, Len(failures)) \in Seq(Event)
    BY <1>0, <2>1, <2>3, SubSeqProperties
  <2>6. PICK taken \in Seq(Event), rest \in Seq(Event) :
          taken = SubSeq(failures, 1, count) /\ rest = SubSeq(failures, count + 1, Len(failures))
    BY <2>4, <2>5
  <2>7. taken \o rest = failures
    <3>1. /\ 1 \in 1 .. Len(failures) + 1
          /\ count \in 1 - 1 .. Len(failures)
          /\ Len(failures) \in count .. Len(failures)
      BY <1>0, <2>1
    <3>2. SubSeq(failures, 1, count) \o SubSeq(failures, count + 1, Len(failures))
            = SubSeq(failures, 1, Len(failures))
      BY <1>0, <3>1, ConcatAdjacentSubSeq
    <3> QED
      BY <1>0, <2>6, <3>2, SubSeqFull
  <2>8. (left \o taken) \o rest = left \o (taken \o rest)
    <3>1. left \in Seq(Event)
      BY <1>0
    <3> QED
      BY <3>1, ConcatAssociative, SMTT(30)
  <2>9. captured' = left' \o failures'
    BY <2>2, <2>6, <2>7, <2>8 DEF FailuresKept
  <2>10. Len(left \o taken) = Len(left) + count
    BY <1>0, <2>4, <2>6, ConcatProperties
  <2>11. FailureCapacity > 0 => total_dropped' + drained' = Len(left')
    <3>1. Len(left') = Len(left) + count
      BY <2>2, <2>6, <2>10
    <3>2. count \in Nat
      BY <1>0, <2>1
    <3> QED
      BY <1>0, <2>2, <3>1, <3>2, SMTT(30) DEF FailuresKept
  <2> QED
    BY <2>2, <2>9, <2>11 DEF FailuresKept
<1>3. CASE UNCHANGED <<bufferVars, refused>>
  BY <1>3 DEF FailuresKept, bufferVars
<1>4. ASSUME NEW c \in Caller, EmitAdmitted(c) \/ EmitRejected(c) PROVE UNCHANGED <<bufferVars, refused>>
  BY <1>4 DEF EmitAdmitted, EmitRejected
<1>5. ASSUME NEW c \in Caller, CallSucceeds(c) \/ AttemptFails(c) \/ Resend(c) \/ GiveUp(c)
      PROVE  UNCHANGED <<bufferVars, refused>>
  BY <1>5 DEF CallSucceeds, AttemptFails, Resend, GiveUp
<1>6. ASSUME NEW req \in running, RequestOk(req) \/ RequestErr(req)
      PROVE  UNCHANGED <<bufferVars, refused>>
  BY <1>6 DEF RequestOk, RequestErr, Answer
<1>7. CASE Cool
  BY <1>3, <1>7 DEF Cool
<1>8. CASE UNCHANGED vars
  BY <1>3, <1>8 DEF vars
<1> QED
  BY <1>1, <1>2, <1>3, <1>4, <1>5, <1>6, <1>7, <1>8 DEF Next, Proceed

-------------------------------------------------------------------------------
(* The retries' account. *)

(* The retries made so far by the calls that still run, one pair for each. *)
Spent == {x \in Caller \X (1 .. MaxAttempts) : x[1] \in inflight /\ x[2] <= attempt[x[1]]}

(* RetriesSpent as an exact account of what is still running: a running    *)
(* call has been counted as often as its loop counter says, and may yet    *)
(* be counted up to MaxAttempts times.                                     *)
Balanced(recovered, gaveUp, spent, retries, busy, made) ==
    /\ recovered + MaxAttempts * gaveUp + spent <= retries
    /\ retries + MaxAttempts * busy <= MaxAttempts * made + spent

RetryAccount ==
    Balanced(recovered_count, Cardinality(exhausted), Cardinality(Spent), retry_count,
             Cardinality(inflight), calls)

(* The arithmetic of the account: a call starts or is rejected, makes a    *)
(* retry, recovers after a of them, or gives up after all of them.         *)
LEMMA BalanceMoves ==
    ASSUME NEW r \in Nat, NEW g \in Nat, NEW s \in Nat, NEW t \in Nat, NEW i \in Nat,
           NEW n \in Nat, Balanced(r, g, s, t, i, n)
    PROVE  /\ Balanced(r, g, s, t, i + 1, n + 1)
           /\ Balanced(r, g, s, t, i, n + 1)
           /\ Balanced(r, g, s + 1, t + 1, i, n)
           /\ \A a \in 0 .. MaxAttempts : a <= s /\ i > 0 =>
                Balanced(r + IF a > 0 THEN 1 ELSE 0, g, s - a, t, i - 1, n)
           /\ MaxAttempts <= s /\ i > 0 => Balanced(r, g + 1, s - MaxAttempts, t, i - 1, n)
<1>1. MaxAttempts \in Nat
  BY StackAssumption
<1>2. /\ MaxAttempts * (n + 1) = MaxAttempts * n + MaxAttempts
      /\ MaxAttempts * (i + 1) = MaxAttempts * i + MaxAttempts
      /\ MaxAttempts * (i - 1) = MaxAttempts * i - MaxAttempts
      /\ MaxAttempts * (g + 1) = MaxAttempts * g + MaxAttempts
      /\ MaxAttempts * n \in Nat /\ MaxAttempts * i \in Nat /\ MaxAttempts * g \in Nat
  BY <1>1
<1>3. PICK mn \in Nat, mi \in Nat, mg \in Nat :
        mn = MaxAttempts * n /\ mi = MaxAttempts * i /\ mg = MaxAttempts * g
  BY <1>2
<1>4. r + mg + s <= t /\ t + mi <= mn + s
  BY <1>3 DEF Balanced
<1>5. Balanced(r, g, s, t, i + 1, n + 1) /\ Balanced(r, g, s, t, i, n + 1)
  BY <1>1, <1>2, <1>3, <1>4 DEF Balanced
<1>6. Balanced(r, g, s + 1, t + 1, i, n)
  BY <1>1, <1>2, <1>3, <1>4 DEF Balanced
<1>7. ASSUME NEW a \in 0 .. MaxAttempts, a <= s, i > 0
      PROVE  Balanced(r + IF a > 0 THEN 1 ELSE 0, g, s - a, t, i - 1, n)
  BY <1>1, <1>2, <1>3, <1>4, <1>7 DEF Balanced
<1>8. ASSUME MaxAttempts <= s, i > 0 PROVE Balanced(r, g + 1, s - MaxAttempts, t, i - 1, n)
  BY <1>1, <1>2, <1>3, <1>4, <1>8 DEF Balanced
<1> QED
  BY <1>5, <1>6, <1>7, <1>8

(* The sets of the account are finite. *)
LEMMA AccountFinite ==
    ASSUME TypeOK, CallsApart
    PROVE  /\ IsFiniteSet(inflight) /\ IsFiniteSet(Spent) /\ IsFiniteSet(exhausted)
           /\ Cardinality(inflight) \in Nat /\ Cardinality(Spent) \in Nat
           /\ Cardinality(exhausted) \in Nat
<1>1. inflight \in SUBSET Caller /\ IsFiniteSet(Caller)
  BY StackAssumption DEF TypeOK, Breaker!TypeOK
<1>2. IsFiniteSet(inflight)
  BY <1>1, FS_Subset
<1>3. 1 \in Int /\ MaxAttempts \in Int /\ calls \in Int
  BY StackAssumption DEF TypeOK
<1>4. IsFiniteSet(1 .. MaxAttempts) /\ IsFiniteSet(1 .. calls)
  BY <1>3, FS_Interval
<1>5. IsFiniteSet(Caller \X (1 .. MaxAttempts))
  BY <1>1, <1>4, FS_Product
<1>6. Spent \in SUBSET (Caller \X (1 .. MaxAttempts))
  BY DEF Spent
<1>7. exhausted \in SUBSET (1 .. calls)
  BY DEF CallsApart
<1>8. IsFiniteSet(Spent) /\ IsFiniteSet(exhausted)
  BY <1>4, <1>5, <1>6, <1>7, FS_Subset
<1> QED
  BY <1>2, <1>8, FS_CardinalityType

(* When a call ends, the retries it made leave Spent. *)
LEMMA SpentByCall ==
    ASSUME TypeOK, CallsApart, NEW c \in inflight, NEW others,
           others = {x \in Caller \X (1 .. MaxAttempts) :
                      x[1] \in inflight \ {c} /\ x[2] <= attempt[x[1]]}
    PROVE  /\ attempt[c] \in 0 .. MaxAttempts
           /\ attempt[c] <= Cardinality(Spent)
           /\ Cardinality(others) = Cardinality(Spent) - attempt[c]
           /\ Cardinality(inflight) > 0
           /\ Cardinality(inflight \ {c}) = Cardinality(inflight) - 1
<1> DEFINE mine == {c} \X (1 .. attempt[c])
<1>1. c \in Caller /\ attempt[c] \in 0 .. MaxAttempts /\ MaxAttempts \in Nat
  BY StackAssumption DEF TypeOK, Breaker!TypeOK
<1>2. IsFiniteSet({c}) /\ Cardinality({c}) = 1
  BY FS_Singleton
<1>3. 1 \in Int /\ attempt[c] \in Int /\ attempt[c] >= 0
  BY <1>1
<1>4. IsFiniteSet(1 .. attempt[c]) /\ Cardinality(1 .. attempt[c]) = attempt[c]
  <2>1. /\ IsFiniteSet(1 .. attempt[c])
        /\ Cardinality(1 .. attempt[c]) = IF 1 > attempt[c] THEN 0 ELSE attempt[c] - 1 + 1
    BY <1>3, FS_Interval
  <2> QED
    BY <1>3, <2>1
<1>5. Cardinality(mine) = attempt[c]
  <2>1. Cardinality(mine) = Cardinality({c}) * Cardinality(1 .. attempt[c])
    BY <1>2, <1>4, FS_Product
  <2>2. 1 * attempt[c] = attempt[c]
    BY <1>3
  <2> QED
    BY <1>2, <1>4, <2>1, <2>2
<1>6. mine \subseteq Spent
  BY <1>1 DEF Spent
<1>7. others = Spent \ mine
  BY <1>1 DEF Spent
<1>8. mine \in SUBSET Spent /\ Spent \cap mine = mine
  BY <1>6
<1> HIDE DEF mine
<1>9. Cardinality(Spent \ mine) = Cardinality(Spent) - Cardinality(Spent \cap mine)
  BY AccountFinite, FS_Difference
<1>10. Cardinality(mine) <= Cardinality(Spent)
  BY <1>8, AccountFinite, FS_Subset
<1>11. Cardinality(inflight) # 0
  BY AccountFinite, FS_EmptySet
<1>12. Cardinality(inflight \ {c}) = Cardinality(inflight) - 1
  BY AccountFinite, FS_RemoveElement
<1>13. attempt[c] <= Cardinality(Spent)
  BY <1>5, <1>10
<1>14. Cardinality(others) = Cardinality(Spent) - attempt[c]
  BY <1>5, <1>7, <1>8, <1>9
<1>15. Cardinality(inflight) > 0
  BY <1>11, AccountFinite
<1> QED
  BY <1>1, <1>12, <1>13, <1>14, <1>15

(* Every step keeps the account. *)
LEMMA RetryStep ==
    TypeOK /\ CallsApart /\ EveryAdmissionRecorded /\ RetryAccount /\ [Next]_vars
      => RetryAccount'
<1> SUFFICES ASSUME TypeOK, CallsApart, EveryAdmissionRecorded, RetryAccount, [Next]_vars
             PROVE  RetryAccount'
  OBVIOUS
<1> USE DEF retryVars
<1>0. /\ recovered_count \in Nat /\ retry_count \in Nat /\ calls \in Nat
      /\ attempt \in [Caller -> 0 .. MaxAttempts] /\ MaxAttempts \in Nat
      /\ inflight \subseteq Caller
  BY StackAssumption, SMTT(30) DEF TypeOK, Breaker!TypeOK
<1>a. PICK r \in Nat, g \in Nat, s \in Nat, t \in Nat, i \in Nat, n \in Nat :
        /\ r = recovered_count /\ g = Cardinality(exhausted) /\ s = Cardinality(Spent)
        /\ t = retry_count /\ i = Cardinality(inflight) /\ n = calls
  BY <1>0, AccountFinite
<1>b. Balanced(r, g, s, t, i, n)
  BY <1>a DEF RetryAccount
<1>1. ASSUME NEW c \in Caller, EmitAdmitted(c) PROVE RetryAccount'
  <2>1. /\ c \notin inflight /\ inflight' = inflight \union {c}
        /\ calls' = calls + 1 /\ attempt' = [attempt EXCEPT ![c] = 0]
        /\ UNCHANGED <<retry_count, recovered_count, exhausted>>
    BY <1>1, BreakerEffects DEF EmitAdmitted
  <2>2. Spent' = Spent
    BY <1>0, <2>1 DEF Spent
  <2>3. Cardinality(inflight') = i + 1
    BY <1>a, <2>1, AccountFinite, FS_AddElement
  <2>4. Balanced(r, g, s, t, i + 1, n + 1)
    BY <1>b, BalanceMoves
  <2> QED
    BY <1>a, <2>1, <2>2, <2>3, <2>4 DEF RetryAccount
<1>2. ASSUME NEW c \in Caller, EmitRejected(c) PROVE RetryAccount'
  <2>1. /\ inflight' = inflight /\ calls' = calls + 1
        /\ UNCHANGED <<attempt, retry_count, recovered_count, exhausted>>
    BY <1>2, BreakerEffects DEF EmitRejected
  <2>2. Spent' = Spent
    BY <2>1 DEF Spent
  <2>3. Balanced(r, g, s, t, i, n + 1)
    BY <1>b, BalanceMoves
  <2> QED
    BY <1>a, <2>1, <2>2, <2>3 DEF RetryAccount
<1>3. ASSUME NEW c \in Caller, CallSucceeds(c) PROVE RetryAccount'
  <2>1. /\ c \in inflight /\ inflight' = inflight \ {c}
        /\ recovered_count' = recovered_count + IF attempt[c] > 0 THEN 1 ELSE 0
        /\ attempt' = [attempt EXCEPT ![c] = 0]
        /\ UNCHANGED <<calls, retry_count, exhausted>>
    BY <1>3, BreakerEffects DEF CallSucceeds
  <2>2. Spent' = {x \in Caller \X (1 .. MaxAttempts) :
                    x[1] \in inflight \ {c} /\ x[2] <= attempt[x[1]]}
    BY <1>0, <2>1 DEF Spent
  <2>3. PICK a \in 0 .. MaxAttempts :
          /\ a = attempt[c] /\ a <= s /\ i > 0
          /\ Cardinality(Spent') = s - a /\ Cardinality(inflight') = i - 1
    BY <1>a, <2>1, <2>2, SpentByCall
  <2>4. Balanced(r + IF a > 0 THEN 1 ELSE 0, g, s - a, t, i - 1, n)
    BY <1>b, <2>3, BalanceMoves
  <2>5. recovered_count' = r + IF a > 0 THEN 1 ELSE 0
    BY <1>a, <2>1, <2>3
  <2> QED
    BY <1>a, <2>1, <2>3, <2>4, <2>5 DEF RetryAccount
<1>4. ASSUME NEW c \in Caller, AttemptFails(c) PROVE RetryAccount'
  <2>1. /\ stage[c] = "joining" /\ attempt[c] < MaxAttempts
        /\ attempt' = [attempt EXCEPT ![c] = @ + 1]
        /\ UNCHANGED <<breakerVars, calls, recovered_count, exhausted>>
    BY <1>4 DEF AttemptFails
  <2>2. retry_count' = retry_count + 1
    <3>1. PICK jitter \in RandJitter :
            retry_count' = retry_count + IF DelayForAttempt(attempt[c] + 1, jitter) = 0 THEN 0 ELSE 1
      BY <1>4 DEF AttemptFails
    <3>2. attempt[c] + 1 # 0
      BY <1>0
    <3>3. DelayForAttempt(attempt[c] + 1, jitter) = Greater(Jittered(attempt[c] + 1, jitter), 1)
      BY <3>2 DEF DelayForAttempt
    <3>4. \A x : Greater(x, 1) # 0
      BY DEF Greater
    <3> QED
      BY <3>1, <3>3, <3>4
  <2>3. c \in inflight /\ inflight' = inflight
    BY <2>1 DEF EveryAdmissionRecorded, breakerVars
  <2>4. PICK x : x = <<c, attempt[c] + 1>>
    OBVIOUS
  <2>5. x \notin Spent /\ Spent' = Spent \union {x}
    BY <1>0, <2>1, <2>3, <2>4 DEF Spent
  <2>6. Cardinality(Spent') = s + 1
    BY <1>a, <2>5, AccountFinite, FS_AddElement
  <2>7. Balanced(r, g, s + 1, t + 1, i, n)
    BY <1>b, BalanceMoves
  <2> QED
    BY <1>a, <2>1, <2>2, <2>3, <2>6, <2>7 DEF RetryAccount
<1>5. ASSUME NEW c \in Caller, Resend(c) PROVE RetryAccount'
  BY <1>5 DEF RetryAccount, Spent, Resend, breakerVars
<1>6. ASSUME NEW c \in Caller, GiveUp(c) PROVE RetryAccount'
  <2>1. /\ stage[c] = "joining" /\ attempt[c] = MaxAttempts
        /\ c \in inflight /\ inflight' = inflight \ {c}
        /\ exhausted' = exhausted \union {call[c]}
        /\ UNCHANGED <<calls, attempt, retry_count, recovered_count>>
    BY <1>6, BreakerEffects DEF GiveUp
  <2>2. Spent' = {x \in Caller \X (1 .. MaxAttempts) :
                    x[1] \in inflight \ {c} /\ x[2] <= attempt[x[1]]}
    BY <2>1 DEF Spent
  <2>3. /\ MaxAttempts <= s /\ i > 0
        /\ Cardinality(Spent') = s - MaxAttempts /\ Cardinality(inflight') = i - 1
    BY <1>a, <2>1, <2>2, SpentByCall
  <2>4. call[c] \notin exhausted
    BY <2>1 DEF CallsApart
  <2>5. Cardinality(exhausted') = g + 1
    BY <1>a, <2>1, <2>4, AccountFinite, FS_AddElement
  <2>6. Balanced(r, g + 1, s - MaxAttempts, t, i - 1, n)
    BY <1>b, <2>3, BalanceMoves
  <2> QED
    BY <1>a, <2>1, <2>3, <2>5, <2>6 DEF RetryAccount
<1>7. ASSUME NEW c \in Caller, Capture(c) PROVE RetryAccount'
  <2>1. /\ stage[c] = "capture" /\ attempt' = [attempt EXCEPT ![c] = 0]
        /\ UNCHANGED <<breakerVars, calls, retry_count, recovered_count, exhausted>>
    BY <1>7 DEF Capture
  <2>2. c \notin inflight /\ inflight' = inflight
    BY <2>1 DEF EveryAdmissionRecorded, breakerVars
  <2>3. Spent' = Spent
    BY <1>0, <2>1, <2>2 DEF Spent
  <2> QED
    BY <2>1, <2>2, <2>3 DEF RetryAccount
<1>8. CASE UNCHANGED <<inflight, calls, retryVars, exhausted>>
  BY <1>8 DEF RetryAccount, Spent
<1>9. ASSUME NEW req \in running, RequestOk(req) \/ RequestErr(req)
      PROVE  UNCHANGED <<inflight, calls, retryVars, exhausted>>
  BY <1>9 DEF RequestOk, RequestErr, Answer, breakerVars
<1>10. ASSUME NEW k \in 1 .. Room, DrainFailures(k)
       PROVE  UNCHANGED <<inflight, calls, retryVars, exhausted>>
  BY <1>10 DEF DrainFailures, breakerVars
<1>11. CASE Cool
  BY <1>8, <1>11, BreakerEffects DEF Cool
<1>12. CASE UNCHANGED vars
  BY <1>8, <1>12 DEF vars, breakerVars
<1> QED
  BY <1>1, <1>2, <1>3, <1>4, <1>5, <1>6, <1>7, <1>8, <1>9, <1>10, <1>11, <1>12
     DEF Next, Proceed

-------------------------------------------------------------------------------
(* The inductive invariant of the stack, and what follows from it. *)

Inv ==
    /\ TypeOK /\ BreakerProofs!Inv /\ CallsApart /\ EveryAdmissionRecorded
    /\ OkDelivered /\ AckedDelivered
    /\ FailuresKept
    /\ RetryAccount

(* The invariant holds when the stack is built ... *)
LEMMA InvInit == Init => Inv
<1> SUFFICES ASSUME Init PROVE Inv
  OBVIOUS
<1>1. TypeOK /\ BreakerProofs!Inv
  BY TypeInit, BreakerInvInit
<1>2. inflight = {} /\ stage = [c \in Caller |-> "idle"] /\ calls = 0
  BY DEF Init, Breaker!Init
<1>3. CallsApart
  BY <1>2 DEF Init, CallsApart
<1>4. EveryAdmissionRecorded
  BY <1>2 DEF EveryAdmissionRecorded
<1>5. OkDelivered /\ AckedDelivered
  BY DEF Init, OkDelivered, AckedDelivered
<1>6. FailuresKept
  <2>1. /\ captured = <<>> /\ left = <<>> /\ failures = <<>> /\ refused = {}
        /\ total_captured = 0 /\ total_dropped = 0 /\ drained = 0
    BY DEF Init
  <2>2. Len(<<>>) = 0 /\ <<>> \o <<>> = <<>> /\ ToSet(<<>>) = {}
    BY DEF ToSet
  <2>3. Cardinality({}) = 0 /\ UNION {ToSet(FailedEvents(id)) : id \in {}} = {}
    BY FS_EmptySet
  <2>4. CapturedPositions * 0 = 0
    BY StackAssumption DEF CapturedPositions
  <2> QED
    BY <2>1, <2>2, <2>3, <2>4 DEF FailuresKept
<1>7. RetryAccount
  <2>1. Spent = {} /\ exhausted = {} /\ retry_count = 0 /\ recovered_count = 0
    BY <1>2 DEF Init, Spent
  <2>2. Cardinality({}) = 0
    BY FS_EmptySet
  <2> QED
    BY <1>2, <2>1, <2>2, StackAssumption DEF RetryAccount, Balanced
<1> QED
  BY <1>1, <1>3, <1>4, <1>5, <1>6, <1>7 DEF Inv

(* ... and every step keeps it. *)
LEMMA InvStep == Inv /\ [Next]_vars => Inv'
BY BreakerInvStep, TypeStep, CallsApartStep, AdmissionStep, DeliveredStep, KeptStep, RetryStep
   DEF Inv

(* So it holds throughout. *)
LEMMA InvAlways == Spec => []Inv
BY InvInit, InvStep, PTL DEF Spec

(* Every reachable state of the stack is well typed; in particular the     *)
(* failure buffer never exceeds its capacity.                              *)
THEOREM TypeCorrect == Spec => []TypeOK
<1>1. Inv => TypeOK
  BY DEF Inv
<1> QED
  BY <1>1, InvAlways, PTL

(* An Ok of the stack means that every event of the batch has reached the  *)
(* backend, for every number of callers, retries and events and every      *)
(* interleaving of their requests.                                         *)
THEOREM OkMeansDelivered == Spec => []AckedDelivered
<1>1. Inv => AckedDelivered
  BY DEF Inv
<1> QED
  BY <1>1, InvAlways, PTL

(* The failure buffer loses nothing silently: what was captured is, in     *)
(* order, what left the buffer and what it holds, every failed call was    *)
(* captured once, and the totals agree.                                    *)
THEOREM NoFailureLost == Spec => []FailuresKept
<1>1. Inv => FailuresKept
  BY DEF Inv
<1> QED
  BY <1>1, InvAlways, PTL

(* The breaker records one outcome for each call it admits.                *)
THEOREM AdmissionsRecorded == Spec => []EveryAdmissionRecorded
<1>1. Inv => EveryAdmissionRecorded
  BY DEF Inv
<1> QED
  BY <1>1, InvAlways, PTL

(* The retry counter bounds: every exhausted call made all its retries,    *)
(* every recovered one at least one, and no call too many.                 *)
THEOREM RetriesAccounted == Spec => []RetriesSpent
<1>1. Inv => RetriesSpent
  <2> SUFFICES ASSUME Inv PROVE RetriesSpent
    OBVIOUS
  <2>0. /\ TypeOK /\ CallsApart /\ RetryAccount /\ MaxAttempts \in Nat
        /\ retry_count \in Nat /\ recovered_count \in Nat /\ calls \in Nat
    BY StackAssumption, SMTT(30) DEF Inv, TypeOK
  <2>1. Cardinality(Spent) <= Cardinality(inflight) * MaxAttempts
    <3>1. 1 \in Int /\ MaxAttempts \in Int
      BY <2>0
    <3>2. /\ IsFiniteSet(1 .. MaxAttempts)
          /\ Cardinality(1 .. MaxAttempts) = IF 1 > MaxAttempts THEN 0 ELSE MaxAttempts - 1 + 1
      BY <3>1, FS_Interval
    <3>3. Cardinality(1 .. MaxAttempts) = MaxAttempts
      BY <2>0, <3>2
    <3>4. PICK all : all = inflight \X (1 .. MaxAttempts)
      OBVIOUS
    <3>5. /\ IsFiniteSet(all)
          /\ Cardinality(all) = Cardinality(inflight) * Cardinality(1 .. MaxAttempts)
      BY <2>0, <3>2, <3>4, AccountFinite, FS_Product
    <3>6. Spent \in SUBSET all
      BY <3>4 DEF Spent
    <3> QED
      BY <3>3, <3>5, <3>6, FS_Subset
  <2>2. PICK r \in Nat, g \in Nat, s \in Nat, t \in Nat, i \in Nat, n \in Nat :
          /\ r = recovered_count /\ g = Cardinality(exhausted) /\ s = Cardinality(Spent)
          /\ t = retry_count /\ i = Cardinality(inflight) /\ n = calls
    BY <2>0, AccountFinite
  <2>3. r + MaxAttempts * g + s <= t /\ t + MaxAttempts * i <= MaxAttempts * n + s
    BY <2>0, <2>2 DEF RetryAccount, Balanced
  <2>4. MaxAttempts * i = i * MaxAttempts
    BY <2>0
  <2>5. s <= MaxAttempts * i
    BY <2>1, <2>2, <2>4
  <2>6. PICK mg \in Nat, mi \in Nat, mn \in Nat :
          mg = MaxAttempts * g /\ mi = MaxAttempts * i /\ mn = MaxAttempts * n
    BY <2>0
  <2>7. r + mg <= t /\ t <= mn
    BY <2>3, <2>5, <2>6
  <2> QED
    BY <2>2, <2>6, <2>7 DEF RetriesSpent
<1> QED
  BY <1>1, InvAlways, PTL
===============================================================================
