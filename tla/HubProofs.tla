------------------------------- MODULE HubProofs -------------------------------
(***************************************************************************)
(* The Hub's type invariant, the order its buffer keeps, the balance of    *)
(* its counters, the exactness of its fan-out and its graceful shutdown,   *)
(* for every capacity, batch size, list of emitters, routing and number of *)
(* producers and messages.                                                 *)
(***************************************************************************)
EXTENDS Hub, RingBufferProofs

(* What a batch has for an emitter. *)
LEMMA RoutedCountType ==
    ASSUME batch \in Seq(Message)
    PROVE  RoutedEvents \in Seq(Message) /\ RoutedCount \in Nat
<1>1. RoutedEvents \in Seq(Message)
  BY KeepType DEF RoutedEvents
<1> QED
  BY <1>1, LenProperties DEF RoutedCount

(* The initial state is well typed. *)
LEMMA TypeInit == Init => TypeOK
<1> SUFFICES ASSUME Init PROVE TypeOK
  OBVIOUS
<1>1. <<>> \in Seq(Message) /\ <<>> \in Seq(MessageIds) /\ Len(<<>>) = 0
  BY EmptySeq
<1>2. Len(Emitters) \in Nat
  BY HubAssumption, LenProperties
<1>3. /\ messages \in Seq(Message)
      /\ Len(messages) <= IF Capacity = 0 THEN 1 ELSE Capacity
      /\ channel \in Seq(MessageIds) /\ Len(channel) <= ChannelCapacity
      /\ batch \in Seq(Message) /\ passed \in Seq(Message) /\ departed \in Seq(Message)
  BY <1>1, CapacityAssumption, HubAssumption DEF Init, RingInit
<1>4. /\ pushed \in Nat /\ dropped \in Nat /\ drained \in Nat
      /\ senders \in 0 .. MaxSenders /\ nextId \in 1 .. MaxMessages + 1
      /\ turn \in 1 .. Len(Emitters) + 1
      /\ received \in Nat /\ filteredCount \in Nat /\ overflowCount \in Nat
  BY <1>2, HubAssumption DEF Init, RingInit
<1>5. /\ forwarded \in [EmitterIds -> Nat] /\ failed \in [EmitterIds -> Nat]
      /\ DOMAIN sent = EmitterIds
      /\ evicted \subseteq Message
      /\ accepted \subseteq MessageIds /\ filtered \subseteq MessageIds
  BY DEF Init
<1>6. /\ run = "recv" /\ hand = <<>> /\ shutdown = FALSE
      /\ flush = "check" /\ batch = <<>>
  BY DEF Init
<1> QED
  BY <1>3, <1>4, <1>5, <1>6 DEF TypeOK

(* Every step keeps TypeOK. *)
LEMMA TypeStep == TypeOK /\ [Next]_vars => TypeOK'
<1> SUFFICES ASSUME TypeOK, [Next]_vars PROVE TypeOK'
  OBVIOUS
<1> USE CapacityAssumption, HubAssumption
<1>1. CASE CloneSender
  BY <1>1 DEF TypeOK, CloneSender, ringVars, runVars, flushVars, stats
<1>2. CASE DropSender
  BY <1>2, SMTT(30) DEF TypeOK, DropSender, ringVars, runVars, flushVars, stats
<1>3. CASE Send
  <2>1. channel' \in Seq(MessageIds) /\ Len(channel') = Len(channel) + 1
    BY <1>3, AppendProperties DEF Send, TypeOK
  <2>2. Len(channel) \in Nat
    BY LenProperties DEF TypeOK
  <2> QED
    BY <1>3, <2>1, <2>2, SMTT(30) DEF TypeOK, Send, ringVars, runVars, flushVars, stats, MessageIds
<1>4. CASE RefuseSend
  BY <1>4 DEF TypeOK, RefuseSend, ringVars, runVars, flushVars, stats, MessageIds
<1>5. CASE Recv
  <2>1. /\ Head(channel) \in MessageIds
        /\ channel' \in Seq(MessageIds) /\ Len(channel') = Len(channel) - 1
    BY <1>5, HeadTailProperties DEF Recv, TypeOK
  <2>2. Len(channel) \in Nat
    BY LenProperties DEF TypeOK
  <2>3. hand' \in [1 .. 1 -> MessageIds]
    BY <1>5, <2>1 DEF Recv
  <2> QED
    BY <1>5, <2>1, <2>2, <2>3 DEF TypeOK, Recv, ringVars, producerVars, flushVars, stats
<1>6. CASE MiddlewarePass
  <2>1. PICK route \in Routes :
           /\ Push([id |-> hand[1], route_to |-> route])
           /\ passed' = Append(passed, [id |-> hand[1], route_to |-> route])
    BY <1>6 DEF MiddlewarePass
  <2> DEFINE msg == [id |-> hand[1], route_to |-> route]
  <2>2. msg \in Message
    BY <1>6 DEF MiddlewarePass, TypeOK, Message
  <2>3. /\ messages' \in Seq(Message) /\ Len(messages') <= Bound
        /\ pushed' \in Nat /\ dropped' \in Nat /\ Evicting \in Seq(Message)
    BY <2>1, <2>2, PushLemma DEF TypeOK, Evicting, Bound
  <2>4. drained' = drained
    BY <2>1 DEF Push
  <2>5. passed' \in Seq(Message)
    BY <2>1, <2>2, AppendProperties DEF TypeOK
  <2>6. departed' \in Seq(Message)
    BY <1>6, <2>3, ConcatProperties DEF MiddlewarePass, TypeOK
  <2>7. evicted' \subseteq Message
    BY <1>6, <2>3, LenProperties, SMTT(30) DEF MiddlewarePass, TypeOK
  <2> QED
    BY <1>6, <2>3, <2>4, <2>5, <2>6, <2>7
       DEF MiddlewarePass, TypeOK, Bound, producerVars, flushVars, stats
<1>7. CASE MiddlewareFilter
  <2>1. hand[1] \in MessageIds
    BY <1>7 DEF MiddlewareFilter, TypeOK
  <2> QED
    BY <1>7, <2>1 DEF TypeOK, MiddlewareFilter, ringVars, producerVars, flushVars, stats
<1>8. CASE SignalShutdown
  BY <1>8 DEF TypeOK, SignalShutdown, ringVars, producerVars, flushVars, stats
<1>9. CASE JoinFlush
  BY <1>9 DEF TypeOK, JoinFlush, ringVars, producerVars, flushVars, stats
<1>10. CASE CancelRun
  BY <1>10 DEF TypeOK, CancelRun, ReceiverAlive, ringVars, producerVars, flushVars, stats
<1>11. CASE FlushCheck
  BY <1>11 DEF TypeOK, FlushCheck, ringVars, producerVars, runVars, stats
<1>12. CASE FlushCheckEmpty
  BY <1>12 DEF TypeOK, FlushCheckEmpty, ringVars, producerVars, runVars, stats
<1>13. CASE FlushWake
  <2>1. /\ messages' \in Seq(Message) /\ Len(messages') <= Len(messages)
        /\ Oldest(BatchSize) \in Seq(Message)
        /\ Len(Oldest(BatchSize)) \in Nat
        /\ drained' = drained + Len(Oldest(BatchSize))
    BY <1>13, DrainLemma DEF FlushWake, TypeOK
  <2>2. Len(messages) \in Nat /\ Len(messages') \in Nat
    BY <2>1, LenProperties DEF TypeOK
  <2>3. pushed' = pushed /\ dropped' = dropped
    BY <1>13 DEF FlushWake, Drain
  <2>4. departed' \in Seq(Message)
    BY <1>13, <2>1, ConcatProperties DEF FlushWake, TypeOK
  <2>5. flush' \in {"check", "emit"} /\ (flush' = "emit" <=> batch' # <<>>)
    BY <1>13 DEF FlushWake
  <2>6. Len(messages') <= IF Capacity = 0 THEN 1 ELSE Capacity
    BY <2>1, <2>2, SMTT(30) DEF TypeOK
  <2> QED
    BY <1>13, <2>1, <2>3, <2>4, <2>5, <2>6, SMTT(30)
       DEF FlushWake, TypeOK, producerVars, runVars, stats
<1>14. CASE SkipEmitter
  BY <1>14 DEF TypeOK, SkipEmitter, EmitterIds, ringVars, producerVars, runVars, stats
<1>15. CASE EmitOk
  <2>1. RoutedCount \in Nat
    BY RoutedCountType DEF TypeOK
  <2>2. forwarded' \in [EmitterIds -> Nat]
    BY <1>15, <2>1, SMTT(30) DEF EmitOk, CallEmit, TypeOK
  <2> QED
    BY <1>15, <2>2
       DEF TypeOK, EmitOk, CallEmit, EmitterIds, ringVars, producerVars, runVars, stats
<1>16. CASE EmitErr
  <2>1. RoutedCount \in Nat
    BY RoutedCountType DEF TypeOK
  <2>2. failed' \in [EmitterIds -> Nat]
    BY <1>16, <2>1, SMTT(30) DEF EmitErr, CallEmit, TypeOK
  <2> QED
    BY <1>16, <2>2
       DEF TypeOK, EmitErr, CallEmit, EmitterIds, ringVars, producerVars, runVars, stats
<1>17. CASE EmitPanic
  BY <1>17
     DEF TypeOK, EmitPanic, CallEmit, EmitterIds, ringVars, producerVars, runVars, stats
<1>18. CASE EndBatch
  BY <1>18 DEF TypeOK, EndBatch, ringVars, producerVars, runVars, stats
<1>19. CASE RecordOverflow
  BY <1>19 DEF TypeOK, RecordOverflow, ringVars, producerVars, flushVars
<1>20. CASE UNCHANGED vars
  BY <1>20 DEF TypeOK, vars, ringVars, producerVars, runVars, flushVars, stats
<1> QED
  BY <1>1, <1>2, <1>3, <1>4, <1>5, <1>6, <1>7, <1>8, <1>9, <1>10, <1>11, <1>12,
     <1>13, <1>14, <1>15, <1>16, <1>17, <1>18, <1>19, <1>20
     DEF Next, RunNext, FlushNext

(* Every reachable state is well typed and the buffer is within its bound. *)
THEOREM TypeCorrect == Spec => []TypeOK
<1> QED
  BY TypeInit, TypeStep, PTL DEF Spec

-------------------------------------------------------------------------------
(* Only two steps touch the buffer or its history: run()'s push and the    *)
(* flush loop's drain.                                                     *)
LEMMA OtherSteps ==
    ASSUME [Next]_vars, ~MiddlewarePass, ~FlushWake
    PROVE  UNCHANGED <<messages, pushed, dropped, drained, passed, departed, evicted>>
BY DEF Next, RunNext, FlushNext, CloneSender, DropSender, Send, RefuseSend, Recv,
       RecordOverflow, MiddlewareFilter, SignalShutdown, JoinFlush, CancelRun, FlushCheck,
       FlushCheckEmpty, SkipEmitter, EmitOk, EmitErr, EmitPanic, CallEmit, EndBatch,
       vars, ringVars, runVars, flushVars, stats

(* A push step, in terms of what the buffer gives up and what it holds.    *)
LEMMA PushStep ==
    ASSUME TypeOK, MiddlewarePass
    PROVE  \E msg \in Message :
             /\ Push(msg)
             /\ passed' = Append(passed, msg)
             /\ departed' = departed \o Evicting
             /\ messages' \in Seq(Message) /\ Evicting \in Seq(Message)
             /\ Evicting \o messages' = Append(messages, msg)
<1>1. PICK route \in Routes :
         /\ Push([id |-> hand[1], route_to |-> route])
         /\ passed' = Append(passed, [id |-> hand[1], route_to |-> route])
  BY DEF MiddlewarePass
<1> DEFINE msg == [id |-> hand[1], route_to |-> route]
<1>2. msg \in Message
  BY DEF MiddlewarePass, TypeOK, Message
<1>3. departed' = departed \o Evicting
  BY DEF MiddlewarePass
<1> HIDE DEF msg
<1>4. Push(msg) /\ passed' = Append(passed, msg)
  BY <1>1 DEF msg
<1>5. /\ messages' \in Seq(Message) /\ Evicting \in Seq(Message)
      /\ Evicting \o messages' = Append(messages, msg)
  BY <1>2, <1>4, PushLemma DEF TypeOK, Evicting, Bound
<1> QED
  BY <1>2, <1>3, <1>4, <1>5

(* Moving the boundary between what left and what stayed. *)
LEMMA MoveBoundary ==
    \A gone, out, rest \in Seq(Message) :
       (gone \o out) \o rest = gone \o (out \o rest)
BY ConcatAssociative

(* First-in first-out holds whatever the interleaving of pushes, overflows *)
(* and drains, for every capacity and batch size.                          *)
THEOREM BufferIsFifo == Spec => []FifoBuffer
<1>1. Init => FifoBuffer
  BY DEF Init, RingInit, FifoBuffer
<1>2. TypeOK /\ FifoBuffer /\ [Next]_vars => FifoBuffer'
  <2> SUFFICES ASSUME TypeOK, FifoBuffer, [Next]_vars PROVE FifoBuffer'
    OBVIOUS
  <2>1. CASE MiddlewarePass
    <3>1. PICK msg \in Message :
             /\ passed' = Append(passed, msg)
             /\ departed' = departed \o Evicting
             /\ messages' \in Seq(Message) /\ Evicting \in Seq(Message)
             /\ Evicting \o messages' = Append(messages, msg)
      BY <2>1, PushStep
    <3>2. departed \in Seq(Message) /\ messages \in Seq(Message)
      BY DEF TypeOK
    <3>3. (departed \o Evicting) \o messages' = departed \o (Evicting \o messages')
      BY <3>1, <3>2, MoveBoundary, Zenon
    <3>4. departed \o Append(messages, msg) = Append(departed \o messages, msg)
      BY <3>2, ConcatAppend
    <3> QED
      BY <3>1, <3>3, <3>4 DEF FifoBuffer
  <2>2. CASE FlushWake
    <3> DEFINE out == Oldest(BatchSize)
    <3>1. /\ messages' \in Seq(Message) /\ out \in Seq(Message)
          /\ out \o messages' = messages
      BY <2>2, HubAssumption, DrainLemma DEF FlushWake, TypeOK
    <3>2. departed' = departed \o out /\ passed' = passed
      BY <2>2 DEF FlushWake, runVars
    <3>3. departed \in Seq(Message)
      BY DEF TypeOK
    <3> HIDE DEF out
    <3>4. (departed \o out) \o messages' = departed \o (out \o messages')
      BY <3>1, <3>3, MoveBoundary, Zenon
    <3> QED
      BY <3>1, <3>2, <3>4 DEF FifoBuffer
  <2>3. CASE ~MiddlewarePass /\ ~FlushWake
    BY <2>3, OtherSteps DEF FifoBuffer
  <2> QED
    BY <2>1, <2>2, <2>3
<1> QED
  BY <1>1, <1>2, TypeCorrect, PTL DEF Spec

(* The counters balance, for every capacity and batch size. *)
THEOREM CountersAlwaysBalance == Spec => []CountersBalance
<1>1. Init => CountersBalance
  BY DEF Init, RingInit, CountersBalance
<1>2. TypeOK /\ CountersBalance /\ [Next]_vars => CountersBalance'
  <2> SUFFICES ASSUME TypeOK, CountersBalance, [Next]_vars, Capacity > 0
               PROVE  CountersBalance'
    BY DEF CountersBalance
  <2>0. /\ Len(messages) \in Nat /\ Len(departed) \in Nat /\ Len(hand) \in Nat
        /\ received \in Nat /\ filteredCount \in Nat /\ overflowCount \in Nat
        /\ dropped \in Nat /\ drained \in Nat
    BY LenProperties DEF TypeOK
  <2>1. CASE MiddlewarePass
    <3>1. PICK msg \in Message :
             /\ Push(msg)
             /\ departed' = departed \o Evicting
             /\ Evicting \in Seq(Message)
      BY <2>1, PushStep
    <3>2. /\ dropped' = dropped + Len(Evicting)
          /\ dropped' - dropped = Len(Evicting)
          /\ Len(Evicting) \in Nat
          /\ Len(Evicting) + Len(messages') = Len(messages) + 1
      BY <3>1, PushCountLemma DEF TypeOK, Evicting
    <3>3. Len(departed') = Len(departed) + Len(Evicting)
      BY <3>1, ConcatProperties DEF TypeOK
    <3>4. Len(hand) = 1 /\ Len(hand') = 0
      BY <2>1 DEF MiddlewarePass, TypeOK
    <3>5. /\ run = "middleware" /\ run' = (IF dropped' > dropped THEN "overflow" ELSE "recv")
          /\ overflowCount' = overflowCount
          /\ received' = received /\ filteredCount' = filteredCount
      BY <2>1 DEF MiddlewarePass, stats
    <3>6. drained' = drained /\ dropped' \in {dropped, dropped + 1}
      BY <2>0, <3>1 DEF Push
    <3>7. Len(messages') \in Nat
      BY <2>0, <3>2
    <3> QED
      BY <2>0, <3>2, <3>3, <3>4, <3>5, <3>6, <3>7, SMTT(30) DEF CountersBalance
  <2>2. CASE FlushWake
    <3> DEFINE out == Oldest(BatchSize)
    <3>1. /\ out \in Seq(Message) /\ Len(out) \in Nat
          /\ drained' = drained + Len(out)
          /\ Len(out) + Len(messages') = Len(messages)
          /\ messages' \in Seq(Message)
      BY <2>2, HubAssumption, DrainLemma DEF FlushWake, TypeOK
    <3> HIDE DEF out
    <3>2. departed' = departed \o out
      BY <2>2 DEF FlushWake, out
    <3>3. Len(departed') = Len(departed) + Len(out)
      BY <3>1, <3>2, ConcatProperties DEF TypeOK
    <3>4. /\ dropped' = dropped /\ overflowCount' = overflowCount
          /\ received' = received /\ filteredCount' = filteredCount
          /\ hand' = hand /\ run' = run
      BY <2>2 DEF FlushWake, Drain, stats, runVars
    <3>5. Len(messages') \in Nat
      BY <3>1, LenProperties
    <3>6. overflowCount' + (IF run' = "overflow" THEN 1 ELSE 0) = dropped'
      BY <3>4 DEF CountersBalance
    <3>7. drained' + dropped' = Len(departed')
      BY <2>0, <3>1, <3>3, <3>4, SMTT(30) DEF CountersBalance
    <3>8. run' # "cancelled" =>
            received' = Len(hand') + filteredCount' + dropped' + drained' + Len(messages')
      BY <2>0, <3>1, <3>4, <3>5 DEF CountersBalance
    <3> QED
      BY <3>6, <3>7, <3>8 DEF CountersBalance
  <2>3. CASE ~MiddlewarePass /\ ~FlushWake
    <3>1. /\ messages' = messages /\ departed' = departed /\ dropped' = dropped
          /\ drained' = drained
      BY <2>3, OtherSteps
    <3>2. CASE Recv
      <4>1. /\ Len(hand) = 0 /\ Len(hand') = 1 /\ run = "recv" /\ run' = "middleware"
            /\ received' = received + 1 /\ filteredCount' = filteredCount
            /\ overflowCount' = overflowCount
        BY <3>2 DEF Recv, TypeOK
      <4> QED
        BY <2>0, <3>1, <4>1 DEF CountersBalance
    <3>3. CASE MiddlewareFilter
      <4>1. /\ Len(hand) = 1 /\ Len(hand') = 0 /\ run = "middleware" /\ run' = "recv"
            /\ received' = received /\ filteredCount' = filteredCount + 1
            /\ overflowCount' = overflowCount
        BY <3>3 DEF MiddlewareFilter, TypeOK
      <4> QED
        BY <2>0, <3>1, <4>1 DEF CountersBalance
    <3>4. CASE CancelRun
      BY <3>1, <3>4 DEF CancelRun, CountersBalance, stats
    <3>5. CASE RecordOverflow
      <4>1. /\ run = "overflow" /\ run' = "recv" /\ hand' = hand
            /\ overflowCount' = overflowCount + 1
            /\ received' = received /\ filteredCount' = filteredCount
        BY <3>5 DEF RecordOverflow
      <4> QED
        BY <2>0, <3>1, <4>1 DEF CountersBalance
    <3>6. CASE ~Recv /\ ~MiddlewareFilter /\ ~CancelRun /\ ~RecordOverflow
      <4>1. /\ hand' = hand /\ received' = received /\ filteredCount' = filteredCount
            /\ overflowCount' = overflowCount
            /\ run' # "cancelled" => run # "cancelled"
            /\ run' = "overflow" <=> run = "overflow"
        BY <2>3, <3>6
           DEF Next, RunNext, FlushNext, CloneSender, DropSender, Send, RefuseSend,
               SignalShutdown, JoinFlush, FlushCheck, FlushCheckEmpty, SkipEmitter,
               EmitOk, EmitErr, EmitPanic, CallEmit, EndBatch, vars, runVars, stats
      <4> QED
        BY <3>1, <4>1 DEF CountersBalance
    <3> QED
      BY <3>2, <3>3, <3>4, <3>5, <3>6
  <2> QED
    BY <2>1, <2>2, <2>3
<1> QED
  BY <1>1, <1>2, TypeCorrect, PTL DEF Spec

-------------------------------------------------------------------------------
(* The life of a message.  Ids grow along the pipeline, from the buffer's  *)
(* past to the producers: no message is in two places, so that an evicted  *)
(* one is never also flushed.                                              *)
InOrder ==
    /\ \A i, j \in DOMAIN passed : i < j => passed[i].id < passed[j].id
    /\ \A i, j \in DOMAIN channel : i < j => channel[i] < channel[j]
    /\ \A i \in DOMAIN passed : passed[i].id < nextId
    /\ \A j \in DOMAIN channel : channel[j] < nextId
    /\ \A i \in DOMAIN passed, j \in DOMAIN channel : passed[i].id < channel[j]
    /\ run = "middleware" =>
         /\ hand[1] < nextId
         /\ \A i \in DOMAIN passed : passed[i].id < hand[1]
         /\ \A j \in DOMAIN channel : hand[1] < channel[j]

(* Every accepted id is somewhere, unless run() was cancelled before it    *)
(* had signalled the shutdown.                                             *)
Accounted ==
    run # "cancelled" \/ shutdown =>
      \A id \in accepted :
        \/ id \in filtered \/ id \in ToSet(channel) \/ id \in ToSet(hand)
        \/ \E i \in DOMAIN passed : passed[i].id = id

(* How far the two tasks are, relative to each other. *)
Stages ==
    /\ shutdown => senders = 0 /\ channel = <<>> /\ run \in {"joining", "done", "cancelled"}
    /\ run \in {"joining", "done"} => shutdown
    /\ flush = "empty" => shutdown
    /\ flush = "exited" => shutdown /\ messages = <<>>
    /\ run = "done" => flush \in {"exited", "panicked"}
    /\ flush \notin {"emit", "panicked"} => turn = 1

(* The steps that do not concern a message's way into the buffer. *)
LEMMA OffPath ==
    ASSUME [Next]_vars, ~Send, ~RefuseSend, ~Recv, ~MiddlewarePass, ~MiddlewareFilter, ~CancelRun
    PROVE  /\ UNCHANGED <<passed, channel, nextId, hand, accepted, filtered>>
           /\ run' = run \/ RecordOverflow \/ SignalShutdown \/ JoinFlush
BY DEF Next, RunNext, FlushNext, CloneSender, DropSender, RecordOverflow, SignalShutdown, JoinFlush,
       FlushCheck, FlushCheckEmpty, FlushWake, SkipEmitter, EmitOk, EmitErr, EmitPanic,
       CallEmit, EndBatch, vars, ringVars, producerVars, runVars, flushVars

(* Ids keep growing along the pipeline. *)
LEMMA OrderStep == TypeOK /\ InOrder /\ [Next]_vars => InOrder'
<1> SUFFICES ASSUME TypeOK, InOrder, [Next]_vars PROVE InOrder'
  OBVIOUS
<1>1. /\ nextId \in Nat /\ passed \in Seq(Message) /\ channel \in Seq(Nat)
      /\ Len(passed) \in Nat /\ DOMAIN passed = 1 .. Len(passed)
      /\ Len(channel) \in Nat /\ DOMAIN channel = 1 .. Len(channel)
      /\ \A i \in 1 .. Len(passed) : passed[i].id \in Nat
      /\ \A j \in 1 .. Len(channel) : channel[j] \in Nat
  <2>1. nextId \in Nat /\ passed \in Seq(Message) /\ channel \in Seq(MessageIds)
    BY HubAssumption DEF TypeOK
  <2>2. MessageIds \subseteq Nat /\ \A m \in Message : m.id \in Nat
    BY HubAssumption DEF MessageIds, Message
  <2>3. /\ Len(passed) \in Nat /\ DOMAIN passed = 1 .. Len(passed)
        /\ \A i \in 1 .. Len(passed) : passed[i] \in Message
        /\ Len(channel) \in Nat /\ DOMAIN channel = 1 .. Len(channel)
        /\ \A i \in 1 .. Len(channel) : channel[i] \in MessageIds
        /\ channel \in [1 .. Len(channel) -> MessageIds]
    BY <2>1, LenProperties
  <2>4. channel \in [1 .. Len(channel) -> Nat]
    BY <2>2, <2>3
  <2> QED
    BY <2>1, <2>2, <2>3, <2>4, SeqDef, SMTT(30)
<1>2. CASE Send
  <2>1. /\ channel' = Append(channel, nextId) /\ nextId' = nextId + 1
        /\ passed' = passed /\ run' = run /\ hand' = hand
    BY <1>2 DEF Send, runVars
  <2>2. /\ DOMAIN channel' = 1 .. Len(channel) + 1
        /\ \A i \in 1 .. Len(channel) : channel'[i] = channel[i]
        /\ channel'[Len(channel) + 1] = nextId
    BY <1>1, <2>1, AppendProperties, LenProperties
  <2>3. run = "middleware" => hand[1] \in Nat
    BY HubAssumption DEF TypeOK, MessageIds
  <2>4. ASSUME NEW i \in DOMAIN channel', NEW j \in DOMAIN channel', i < j
        PROVE  channel'[i] < channel'[j]
    <3>1. i \in 1 .. Len(channel) /\ channel'[i] = channel[i]
      BY <1>1, <2>2, <2>4
    <3>2. CASE j \in 1 .. Len(channel)
      BY <1>1, <2>2, <2>4, <3>1, <3>2 DEF InOrder
    <3>3. CASE j = Len(channel) + 1
      BY <1>1, <2>2, <3>1, <3>3 DEF InOrder
    <3> QED
      BY <1>1, <2>2, <3>2, <3>3
  <2>5. \A j \in DOMAIN channel' : channel'[j] < nextId'
    BY <1>1, <2>1, <2>2 DEF InOrder
  <2>6. \A i \in DOMAIN passed, j \in DOMAIN channel' : passed[i].id < channel'[j]
    BY <1>1, <2>1, <2>2 DEF InOrder
  <2>7. run = "middleware" => \A j \in DOMAIN channel' : hand[1] < channel'[j]
    BY <1>1, <2>2, <2>3 DEF InOrder
  <2>8. \A i \in DOMAIN passed : passed[i].id < nextId'
    BY <1>1, <2>1 DEF InOrder
  <2>9. run = "middleware" => hand[1] < nextId'
    BY <1>1, <2>1, <2>3 DEF InOrder
  <2> QED
    BY <2>1, <2>4, <2>5, <2>6, <2>7, <2>8, <2>9 DEF InOrder
<1>3. CASE RefuseSend
  <2>1. /\ nextId' = nextId + 1 /\ channel' = channel
        /\ passed' = passed /\ run' = run /\ hand' = hand
    BY <1>3 DEF RefuseSend, runVars
  <2>2. run = "middleware" => hand[1] \in Nat
    BY HubAssumption DEF TypeOK, MessageIds
  <2> QED
    BY <1>1, <2>1, <2>2 DEF InOrder
<1>4. CASE Recv
  <2>1. /\ channel # <<>> /\ hand' = <<Head(channel)>> /\ channel' = Tail(channel)
        /\ run' = "middleware" /\ passed' = passed /\ nextId' = nextId
    BY <1>4 DEF Recv, producerVars
  <2>2. /\ Len(channel) \in Nat \ {0} /\ hand'[1] = channel[1]
        /\ DOMAIN channel' = 1 .. Len(channel) - 1
        /\ \A j \in 1 .. Len(channel) - 1 : channel'[j] = channel[j + 1]
    BY <1>1, <2>1, EmptySeq, HeadTailProperties, LenProperties
  <2>3. \A j \in DOMAIN channel' :
           j \in Nat /\ j + 1 \in DOMAIN channel /\ 1 < j + 1 /\ channel'[j] = channel[j + 1]
    BY <1>1, <2>2
  <2>4. 1 \in DOMAIN channel
    BY <1>1, <2>2
  <2>5. ASSUME NEW i \in DOMAIN channel', NEW j \in DOMAIN channel', i < j
        PROVE  channel'[i] < channel'[j]
    <3>1. i + 1 < j + 1 /\ i + 1 \in DOMAIN channel /\ j + 1 \in DOMAIN channel
      BY <2>5, <2>3
    <3>2. channel[i + 1] < channel[j + 1]
      BY <3>1 DEF InOrder
    <3> QED
      BY <2>3, <3>2
  <2>6. ASSUME NEW j \in DOMAIN channel'
        PROVE  channel'[j] < nextId /\ hand'[1] < channel'[j]
    <3>1. channel[j + 1] < nextId /\ channel[1] < channel[j + 1]
      BY <2>3, <2>4 DEF InOrder
    <3> QED
      BY <2>2, <2>3, <3>1
  <2>7. ASSUME NEW i \in DOMAIN passed
        PROVE  passed[i].id < hand'[1] /\ \A j \in DOMAIN channel' : passed[i].id < channel'[j]
    <3>1. \A j \in DOMAIN channel : passed[i].id < channel[j]
      BY DEF InOrder
    <3> QED
      BY <2>2, <2>3, <2>4, <3>1
  <2>8. hand'[1] < nextId
    BY <1>1, <2>2 DEF InOrder
  <2> QED
    BY <2>1, <2>5, <2>6, <2>7, <2>8 DEF InOrder
<1>5. CASE MiddlewarePass
  <2>1. PICK msg \in Message :
           /\ msg.id = hand[1] /\ passed' = Append(passed, msg)
           /\ run = "middleware" /\ run' # "middleware" /\ channel' = channel /\ nextId' = nextId
    <3>1. PICK route \in Routes : passed' = Append(passed, [id |-> hand[1], route_to |-> route])
      BY <1>5 DEF MiddlewarePass
    <3>2. [id |-> hand[1], route_to |-> route] \in Message
      BY <1>5 DEF MiddlewarePass, TypeOK, Message
    <3> QED
      BY <1>5, <3>1, <3>2 DEF MiddlewarePass, producerVars
  <2>2. /\ DOMAIN passed' = 1 .. Len(passed) + 1
        /\ \A i \in 1 .. Len(passed) : passed'[i] = passed[i]
        /\ passed'[Len(passed) + 1] = msg
    BY <1>1, <2>1, AppendProperties, LenProperties
  <2>3. msg.id \in Nat
    BY HubAssumption DEF Message, MessageIds
  <2>4. \A i, j \in DOMAIN passed' : i < j => passed'[i].id < passed'[j].id
    BY <1>1, <2>1, <2>2, <2>3 DEF InOrder
  <2>5. \A i \in DOMAIN passed' :
           passed'[i].id < nextId /\ \A j \in DOMAIN channel : passed'[i].id < channel[j]
    BY <1>1, <2>1, <2>2, <2>3 DEF InOrder
  <2> QED
    BY <2>1, <2>4, <2>5 DEF InOrder
<1>6. CASE MiddlewareFilter
  BY <1>6 DEF MiddlewareFilter, producerVars, InOrder
<1>7. CASE CancelRun
  <2>1. /\ run' = "cancelled" /\ channel' = <<>> /\ passed' = passed /\ nextId' = nextId
        /\ DOMAIN channel' = {}
    BY <1>7 DEF CancelRun, producerVars
  <2> QED
    BY <2>1 DEF InOrder
<1>8. CASE ~(Send \/ RefuseSend \/ Recv \/ MiddlewarePass \/ MiddlewareFilter \/ CancelRun)
  <2>1. /\ passed' = passed /\ channel' = channel /\ nextId' = nextId /\ hand' = hand
        /\ run' = run \/ run' \in {"recv", "joining", "done"}
    BY <1>8, OffPath DEF RecordOverflow, SignalShutdown, JoinFlush
  <2> QED
    BY <2>1 DEF InOrder
<1> QED
  BY <1>2, <1>3, <1>4, <1>5, <1>6, <1>7, <1>8

(* run() and flush_loop() keep in step. *)
LEMMA StagesStep == TypeOK /\ Stages /\ [Next]_vars => Stages'
<1> SUFFICES ASSUME TypeOK, Stages, [Next]_vars PROVE Stages'
  OBVIOUS
<1>1. CASE CloneSender
  BY <1>1 DEF Stages, CloneSender, ringVars, runVars, flushVars
<1>2. CASE DropSender
  BY <1>2 DEF Stages, DropSender, ringVars, runVars, flushVars
<1>3. CASE Send
  BY <1>3 DEF Stages, Send, ringVars, runVars, flushVars
<1>4. CASE RefuseSend
  BY <1>4 DEF Stages, RefuseSend, ringVars, runVars, flushVars
<1>5. CASE Recv
  BY <1>5 DEF Stages, Recv, ringVars, producerVars, flushVars
<1>6. CASE MiddlewarePass
  <2>1. /\ run = "middleware" /\ run' \in {"recv", "overflow"} /\ shutdown' = shutdown
        /\ flush' = flush /\ turn' = turn
    BY <1>6 DEF MiddlewarePass, flushVars
  <2> QED
    BY <2>1 DEF Stages
<1>7. CASE MiddlewareFilter
  BY <1>7 DEF Stages, MiddlewareFilter, ringVars, producerVars, flushVars
<1>8. CASE SignalShutdown
  BY <1>8 DEF Stages, SignalShutdown, ringVars, producerVars, flushVars
<1>9. CASE JoinFlush
  BY <1>9 DEF Stages, JoinFlush, ringVars, producerVars, flushVars
<1>10. CASE CancelRun
  BY <1>10 DEF Stages, CancelRun, ringVars, producerVars, flushVars
<1>11. CASE FlushCheck
  BY <1>11 DEF Stages, FlushCheck, ringVars, producerVars, runVars
<1>12. CASE FlushCheckEmpty
  BY <1>12 DEF Stages, FlushCheckEmpty, IsEmpty, ringVars, producerVars, runVars
<1>13. CASE FlushWake
  <2>1. /\ flush = "select" /\ flush' \in {"check", "emit"} /\ turn' = turn
        /\ run' = run /\ shutdown' = shutdown /\ channel' = channel /\ senders' = senders
    BY <1>13 DEF FlushWake, producerVars, runVars
  <2> QED
    BY <2>1 DEF Stages
<1>14. CASE SkipEmitter
  BY <1>14 DEF Stages, SkipEmitter, ringVars, producerVars, runVars
<1>15. CASE CallEmit /\ flush' \in {"emit", "panicked"}
  <2>1. /\ flush = "emit" /\ run' = run /\ shutdown' = shutdown /\ channel' = channel
        /\ senders' = senders
    BY <1>15 DEF CallEmit, producerVars, runVars
  <2> QED
    BY <1>15, <2>1 DEF Stages
<1>16. CASE EndBatch
  BY <1>16 DEF Stages, EndBatch, ringVars, producerVars, runVars
<1>17. CASE UNCHANGED vars
  BY <1>17 DEF Stages, vars, ringVars, producerVars, runVars, flushVars
<1>18. EmitOk \/ EmitErr \/ EmitPanic => CallEmit /\ flush' \in {"emit", "panicked"}
  BY DEF EmitOk, EmitErr, EmitPanic, CallEmit
<1>19. CASE RecordOverflow
  BY <1>19 DEF Stages, RecordOverflow, ringVars, producerVars, flushVars
<1> QED
  BY <1>1, <1>2, <1>3, <1>4, <1>5, <1>6, <1>7, <1>8, <1>9, <1>10, <1>11, <1>12,
     <1>13, <1>14, <1>15, <1>16, <1>17, <1>18, <1>19
     DEF Next, RunNext, FlushNext

(* No accepted message disappears on its way into the buffer. *)
LEMMA AccountedStep == TypeOK /\ Stages /\ Accounted /\ [Next]_vars => Accounted'
<1> SUFFICES ASSUME TypeOK, Stages, Accounted, [Next]_vars PROVE Accounted'
  OBVIOUS
<1>1. /\ channel \in Seq(MessageIds) /\ passed \in Seq(Message)
      /\ Len(passed) \in Nat /\ DOMAIN passed = 1 .. Len(passed)
      /\ hand # <<>> => run = "middleware" /\ ToSet(hand) = {hand[1]}
  <2>1. channel \in Seq(MessageIds) /\ passed \in Seq(Message)
    BY DEF TypeOK
  <2>2. run # "middleware" => hand = <<>>
    BY DEF TypeOK
  <2>3. run = "middleware" => hand \in [1 .. 1 -> MessageIds]
    BY DEF TypeOK
  <2>4. run = "middleware" => ToSet(hand) = {hand[1]}
    BY <2>3 DEF ToSet
  <2> QED
    BY <2>1, <2>2, <2>4, LenProperties
<1>2. ToSet(<<>>) = {} /\ \A x : ToSet(<<x>>) = {x}
  BY DEF ToSet
<1>3. CASE Send
  <2>1. /\ channel' = channel \o <<nextId>> /\ <<nextId>> \in Seq(MessageIds)
    BY <1>1, <1>3, AppendIsConcat DEF Send
  <2>2. PICK one : one = <<nextId>>
    OBVIOUS
  <2>3. ToSet(channel') = ToSet(channel) \union {nextId}
    <3>1. channel \in Seq(MessageIds) /\ one \in Seq(MessageIds)
      BY <1>1, <2>1, <2>2
    <3>2. ToSet(channel \o one) = ToSet(channel) \union ToSet(one)
      BY <3>1, ToSetConcat
    <3> QED
      BY <1>2, <2>1, <2>2, <3>2
  <2>4. /\ accepted' = accepted \union {nextId} /\ passed' = passed /\ hand' = hand
        /\ filtered' = filtered /\ run' = run /\ shutdown' = shutdown
    BY <1>3 DEF Send, runVars
  <2> QED
    BY <2>3, <2>4 DEF Accounted
<1>4. CASE RefuseSend
  BY <1>4 DEF Accounted, RefuseSend, runVars
<1>5. CASE Recv
  <2>1. PICK x, rest : x = Head(channel) /\ rest = Tail(channel)
    OBVIOUS
  <2>2. /\ channel # <<>> /\ hand' = <<x>> /\ channel' = rest /\ accepted' = accepted
        /\ passed' = passed /\ filtered' = filtered /\ run = "recv" /\ shutdown' = shutdown
    BY <1>5, <2>1 DEF Recv, producerVars
  <2>3. <<x>> \in Seq(MessageIds) /\ rest \in Seq(MessageIds) /\ channel = <<x>> \o rest
    BY <1>1, <2>1, <2>2, HeadTailProperties
  <2>4. PICK one : one = <<x>>
    OBVIOUS
  <2>5. ToSet(channel) = ToSet(one) \union ToSet(rest)
    BY <2>3, <2>4, ToSetConcat
  <2>6. hand = <<>>
    BY <2>2 DEF TypeOK
  <2> QED
    BY <1>2, <2>2, <2>4, <2>5, <2>6 DEF Accounted
<1>6. CASE MiddlewarePass
  <2>1. PICK msg :
           /\ msg.id = hand[1] /\ passed' = Append(passed, msg) /\ msg \in Message
           /\ run = "middleware" /\ hand' = <<>> /\ channel' = channel
           /\ accepted' = accepted /\ filtered' = filtered
    <3>1. PICK route \in Routes : passed' = Append(passed, [id |-> hand[1], route_to |-> route])
      BY <1>6 DEF MiddlewarePass
    <3>2. [id |-> hand[1], route_to |-> route] \in Message
      BY <1>6 DEF MiddlewarePass, TypeOK, Message
    <3> QED
      BY <1>6, <3>1, <3>2 DEF MiddlewarePass, producerVars
  <2>2. /\ DOMAIN passed' = 1 .. Len(passed) + 1
        /\ \A i \in 1 .. Len(passed) : passed'[i] = passed[i]
        /\ passed'[Len(passed) + 1] = msg
    BY <1>1, <2>1, AppendProperties, LenProperties
  <2>3. \E i \in DOMAIN passed' : passed'[i].id = hand[1]
    BY <1>1, <2>1, <2>2
  <2>4. \A i \in DOMAIN passed : \E k \in DOMAIN passed' : passed'[k].id = passed[i].id
    BY <1>1, <2>2
  <2>5. ToSet(hand) \subseteq {hand[1]}
    BY <1>1, <1>2
  <2>6. \A id \in accepted :
           \/ id \in filtered \/ id \in ToSet(channel) \/ id \in ToSet(hand)
           \/ \E i \in DOMAIN passed : passed[i].id = id
    BY <2>1 DEF Accounted
  <2>7. \A id \in accepted' :
           \/ id \in filtered' \/ id \in ToSet(channel')
           \/ \E i \in DOMAIN passed' : passed'[i].id = id
    BY <2>1, <2>3, <2>4, <2>5, <2>6
  <2> QED
    BY <2>7 DEF Accounted
<1>7. CASE MiddlewareFilter
  <2>1. /\ run = "middleware" /\ filtered' = filtered \union {hand[1]} /\ passed' = passed
        /\ channel' = channel /\ accepted' = accepted
    BY <1>7 DEF MiddlewareFilter, producerVars
  <2>2. ToSet(hand) \subseteq {hand[1]}
    BY <1>1, <1>2
  <2> QED
    BY <2>1, <2>2 DEF Accounted
<1>8. CASE CancelRun
  <2>1. /\ accepted' = accepted /\ filtered' = filtered /\ passed' = passed
        /\ run' = "cancelled" /\ shutdown' = shutdown
    BY <1>8 DEF CancelRun, producerVars
  <2>2. shutdown => channel = <<>> /\ hand = <<>>
    BY DEF Stages, TypeOK
  <2> QED
    BY <1>2, <2>1, <2>2 DEF Accounted
<1>9. CASE ~(Send \/ RefuseSend \/ Recv \/ MiddlewarePass \/ MiddlewareFilter \/ CancelRun)
  <2>1. /\ passed' = passed /\ channel' = channel /\ hand' = hand
        /\ accepted' = accepted /\ filtered' = filtered
    BY <1>9, OffPath
  <2>2. run' # "cancelled" \/ shutdown' => run # "cancelled" \/ shutdown
    <3>1. RecordOverflow \/ SignalShutdown \/ JoinFlush => run # "cancelled"
      BY DEF RecordOverflow, SignalShutdown, JoinFlush
    <3>2. ~SignalShutdown => shutdown' = shutdown
      BY <1>9 DEF Next, RunNext, FlushNext, CloneSender, DropSender, RecordOverflow, JoinFlush,
                  FlushCheck,
                  FlushCheckEmpty, FlushWake, SkipEmitter, EmitOk, EmitErr, EmitPanic,
                  CallEmit, EndBatch, vars
    <3>3. run' = run \/ RecordOverflow \/ SignalShutdown \/ JoinFlush
      BY <1>9, OffPath
    <3> QED
      BY <3>1, <3>2, <3>3
  <2> QED
    BY <2>1, <2>2 DEF Accounted
<1> QED
  BY <1>3, <1>4, <1>5, <1>6, <1>7, <1>8, <1>9

-------------------------------------------------------------------------------
(* Delivery.  What was evicted left the buffer, and what an emitter was    *)
(* called with are messages.                                               *)
Delivery ==
    /\ evicted \subseteq ToSet(departed)
    /\ sent \in [EmitterIds -> Seq(Message)]
    /\ ExactFanOut

(* No message is both in the buffer and in its past. *)
LEMMA Apart ==
    ASSUME TypeOK, FifoBuffer, InOrder
    PROVE  ToSet(departed) \cap ToSet(messages) = {}
<1> DEFINE m == Len(departed)
           n == Len(messages)
<1>1. /\ m \in Nat /\ n \in Nat /\ DOMAIN departed = 1 .. m /\ DOMAIN messages = 1 .. n
      /\ DOMAIN passed = 1 .. m + n
      /\ \A i \in 1 .. m : passed[i] = departed[i]
      /\ \A i \in 1 .. n : passed[m + i] = messages[i]
  <2>1. departed \in Seq(Message) /\ messages \in Seq(Message) /\ passed = departed \o messages
    BY DEF TypeOK, FifoBuffer
  <2> QED
    BY <2>1, LenProperties, ConcatProperties
<1>2. \A i \in 1 .. m + n : passed[i].id \in Nat
  <2>1. passed \in Seq(Message) /\ \A i \in DOMAIN passed : passed[i] \in Message
    BY LenProperties DEF TypeOK
  <2>2. \A msg \in Message : msg.id \in Nat
    BY HubAssumption DEF Message, MessageIds
  <2>3. \A i \in DOMAIN passed : passed[i].id \in Nat
    BY <2>1, <2>2, Zenon
  <2> QED
    BY <1>1, <2>3, Zenon
<1> HIDE DEF m, n
<1>3. ASSUME NEW i \in 1 .. m, NEW j \in 1 .. n PROVE departed[i] # messages[j]
  <2>1. i \in DOMAIN passed /\ m + j \in DOMAIN passed /\ i < m + j
    BY <1>1
  <2>2. passed[i].id < passed[m + j].id
    BY <2>1 DEF InOrder
  <2>3. passed[i] # passed[m + j]
    BY <1>1, <1>2, <2>1, <2>2
  <2> QED
    BY <1>1, <2>3
<1> QED
  BY <1>1, <1>3 DEF ToSet

(* A batch and a message in it are for an emitter by its routing, or by    *)
(* its destinations.                                                       *)
LEMMA RoutingAgrees ==
    ASSUME NEW e \in EmitterIds
    PROVE  {msg \in Message : e \in Destinations(msg)} = {msg \in Message : RoutedTo(msg, e)}
BY DEF Destinations, RoutedTo

(* What a push adds to the past of the buffer is evicted, so what was      *)
(* flushed stays the same.                                                 *)
LEMMA PushFlushed ==
    ASSUME TypeOK, FifoBuffer, InOrder, Delivery, MiddlewarePass
    PROVE  Flushed' = Flushed /\ evicted' \subseteq ToSet(departed')
<1>1. PICK out : out = Evicting
  OBVIOUS
<1>2. /\ out \in Seq(Message) /\ departed \in Seq(Message) /\ messages \in Seq(Message)
      /\ departed' = departed \o out /\ evicted' = evicted \union ToSet(out)
  <2>1. departed \in Seq(Message) /\ messages \in Seq(Message)
    BY DEF TypeOK
  <2>2. out \in Seq(Message) /\ departed' = departed \o out
    BY <1>1, PushStep
  <2>3. evicted' = evicted \union ToSet(out)
    BY <1>1 DEF MiddlewarePass, ToSet
  <2> QED
    BY <2>1, <2>2, <2>3
<1>3. ToSet(out) \subseteq ToSet(messages)
  <2>1. CASE ~IsFull \/ messages = <<>>
    <3>1. out = <<>>
      BY <1>1, <2>1, SubSeqEmpty DEF Evicting
    <3> QED
      BY <3>1 DEF ToSet
  <2>2. CASE IsFull /\ messages # <<>>
    <3>1. Len(messages) \in Nat \ {0} /\ DOMAIN messages = 1 .. Len(messages)
      BY <1>2, <2>2, EmptySeq, LenProperties
    <3>2. /\ 1 \in 1 .. Len(messages) /\ out = SubSeq(messages, 1, 1)
          /\ \A i \in 1 .. 1 : messages[i] \in Message
      BY <1>1, <1>2, <2>2, <3>1, LenProperties DEF Evicting
    <3>3. Len(out) = 1 /\ out[1] = messages[1]
      BY <3>1, <3>2, SubSeqProperties
    <3>4. DOMAIN out = 1 .. 1
      BY <1>2, <3>3, LenProperties
    <3> QED
      BY <3>1, <3>2, <3>3, <3>4 DEF ToSet
  <2> QED
    BY <2>1, <2>2
<1>4. ToSet(departed) \cap ToSet(out) = {}
  BY <1>3, Apart
<1>5. Keep(departed, Message \ evicted') = Keep(departed, Message \ evicted)
  <2>1. PICK V, W : V = Message \ evicted' /\ W = Message \ evicted
    OBVIOUS
  <2>2. \A x \in ToSet(departed) : x \in V <=> x \in W
    BY <1>2, <1>4, <2>1
  <2>3. Keep(departed, V) = Keep(departed, W)
    BY <1>2, <2>2, KeepAgree
  <2> QED
    BY <2>1, <2>3
<1>6. PICK kept : kept = Message \ evicted'
  OBVIOUS
<1>7. Keep(out, kept) = <<>>
  <2>1. ToSet(out) \cap kept = {}
    BY <1>2, <1>6
  <2> QED
    BY <1>2, <2>1, KeepAll
<1>8. /\ Keep(departed, kept) \in Seq(Message)
      /\ Keep(departed \o out, kept) = Keep(departed, kept) \o Keep(out, kept)
  <2>1. departed \in Seq(Message) /\ out \in Seq(Message)
    BY <1>2
  <2>2. Keep(departed, kept) \in Seq(Message)
    BY <2>1, KeepType
  <2>3. Keep(departed \o out, kept) = Keep(departed, kept) \o Keep(out, kept)
    BY <2>1, KeepConcat
  <2> QED
    BY <2>2, <2>3
<1>9. Keep(departed, kept) \o <<>> = Keep(departed, kept)
  BY <1>8, ConcatEmptySeq
<1>10. Flushed' = Keep(departed \o out, kept)
  BY <1>2, <1>6 DEF Flushed
<1>11. Flushed' = Flushed
  BY <1>5, <1>6, <1>7, <1>8, <1>9, <1>10 DEF Flushed
<1>12. ToSet(departed \o out) = ToSet(departed) \union ToSet(out)
  BY <1>2, ToSetConcat
<1> QED
  BY <1>2, <1>11, <1>12 DEF Delivery

(* What a drain adds to it was flushed. *)
LEMMA DrainFlushed ==
    ASSUME TypeOK, FifoBuffer, InOrder, Delivery, FlushWake
    PROVE  /\ batch' \in Seq(Message) /\ Flushed \in Seq(Message)
           /\ Flushed' = Flushed \o batch' /\ evicted' \subseteq ToSet(departed')
<1>1. PICK out : out = Oldest(BatchSize)
  OBVIOUS
<1>2. /\ out \in Seq(Message) /\ departed \in Seq(Message) /\ messages \in Seq(Message)
      /\ messages' \in Seq(Message) /\ out \o messages' = messages
      /\ departed' = departed \o out /\ evicted' = evicted /\ batch' = out
  <2>1. departed \in Seq(Message) /\ messages \in Seq(Message)
    BY DEF TypeOK
  <2>2. messages' \in Seq(Message) /\ out \in Seq(Message) /\ out \o messages' = messages
    BY <1>1, HubAssumption, DrainLemma DEF FlushWake, TypeOK
  <2>3. departed' = departed \o out /\ evicted' = evicted /\ batch' = out
    BY <1>1 DEF FlushWake
  <2> QED
    BY <2>1, <2>2, <2>3
<1>3. ToSet(out) \subseteq ToSet(messages)
  <2>1. ToSet(out \o messages') = ToSet(out) \union ToSet(messages')
    BY <1>2, ToSetConcat, ZenonT(30)
  <2> QED
    BY <1>2, <2>1
<1>4. ToSet(out) \cap evicted = {}
  BY <1>3, Apart DEF Delivery
<1>5. PICK kept : kept = Message \ evicted
  OBVIOUS
<1>6. Keep(out, kept) = out
  <2>1. ToSet(out) \subseteq Message
    BY <1>2, LenProperties DEF ToSet
  <2>2. ToSet(out) \subseteq kept
    BY <1>4, <1>5, <2>1
  <2> QED
    BY <1>2, <2>2, KeepAll
<1>7. /\ Keep(departed, kept) \in Seq(Message)
      /\ Keep(departed \o out, kept) = Keep(departed, kept) \o Keep(out, kept)
  <2>1. departed \in Seq(Message) /\ out \in Seq(Message)
    BY <1>2
  <2>2. Keep(departed, kept) \in Seq(Message)
    BY <2>1, KeepType
  <2>3. Keep(departed \o out, kept) = Keep(departed, kept) \o Keep(out, kept)
    BY <2>1, KeepConcat
  <2> QED
    BY <2>2, <2>3
<1>8. Flushed' = Keep(departed \o out, kept) /\ Flushed = Keep(departed, kept)
  BY <1>2, <1>5 DEF Flushed
<1>9. ToSet(departed \o out) = ToSet(departed) \union ToSet(out)
  BY <1>2, ToSetConcat
<1> QED
  BY <1>2, <1>6, <1>7, <1>8, <1>9 DEF Delivery

(* The fan-out of a message to one emitter, as ExactFanOut states it. *)
Meant(e) == {msg \in Message : e \in Destinations(msg)}

(* Every step keeps the account between what was flushed and what each     *)
(* emitter was called with.                                                *)
LEMMA DeliveryStep ==
    TypeOK /\ FifoBuffer /\ InOrder /\ Stages /\ Delivery /\ [Next]_vars => Delivery'
<1> SUFFICES ASSUME TypeOK, FifoBuffer, InOrder, Stages, Delivery, [Next]_vars
             PROVE  Delivery'
  OBVIOUS
<1>1. /\ batch \in Seq(Message) /\ turn \in Nat /\ turn \in 1 .. Len(Emitters) + 1
      /\ Len(Emitters) \in Nat /\ sent \in [EmitterIds -> Seq(Message)]
      /\ EmitterIds \subseteq Nat
      /\ forwarded \in [EmitterIds -> Nat] /\ failed \in [EmitterIds -> Nat]
  BY HubAssumption, LenProperties DEF TypeOK, Delivery, EmitterIds
<1>2. \A e \in EmitterIds :
        /\ sent[e] \o (IF e >= turn THEN Keep(batch, Meant(e)) ELSE <<>>)
             = Keep(Flushed, Meant(e))
        /\ flush # "panicked" => forwarded[e] + failed[e] = Len(sent[e])
  BY DEF Delivery, ExactFanOut, Meant
<1>3. ASSUME evicted' \subseteq ToSet(departed'), sent' \in [EmitterIds -> Seq(Message)],
             \A e \in EmitterIds :
               /\ sent'[e] \o (IF e >= turn' THEN Keep(batch', Meant(e)) ELSE <<>>)
                    = Keep(Flushed', Meant(e))
               /\ flush' # "panicked" => forwarded'[e] + failed'[e] = Len(sent'[e])
      PROVE  Delivery'
  BY <1>3 DEF Delivery, ExactFanOut, Meant
<1>4. CASE MiddlewarePass
  <2>1. /\ sent' = sent /\ batch' = batch /\ turn' = turn /\ flush' = flush
        /\ forwarded' = forwarded /\ failed' = failed
    BY <1>4 DEF MiddlewarePass, flushVars, stats
  <2>2. Flushed' = Flushed /\ evicted' \subseteq ToSet(departed')
    BY <1>4, PushFlushed
  <2> QED
    BY <1>1, <1>2, <1>3, <2>1, <2>2
<1>5. CASE FlushWake
  <2>1. /\ sent' = sent /\ turn' = turn /\ flush = "select" /\ flush' # "panicked"
        /\ forwarded' = forwarded /\ failed' = failed
    BY <1>5 DEF FlushWake, stats
  <2>2. turn = 1 /\ batch = <<>>
    BY <2>1 DEF Stages, TypeOK
  <2>3. /\ batch' \in Seq(Message) /\ Flushed \in Seq(Message)
        /\ Flushed' = Flushed \o batch' /\ evicted' \subseteq ToSet(departed')
    BY <1>5, DrainFlushed
  <2>4. ASSUME NEW e \in EmitterIds
        PROVE  sent'[e] \o (IF e >= turn' THEN Keep(batch', Meant(e)) ELSE <<>>)
                 = Keep(Flushed', Meant(e))
    <3>1. PICK S, b, w, f : S = sent[e] /\ b = batch' /\ w = Meant(e) /\ f = Flushed
      OBVIOUS
    <3>2. S \in Seq(Message) /\ b \in Seq(Message) /\ f \in Seq(Message)
      BY <1>1, <2>3, <3>1
    <3>3. S \o <<>> = Keep(f, w)
      <4>1. e >= turn
        BY <1>1, <2>2 DEF EmitterIds
      <4>2. S \o Keep(<<>>, w) = Keep(f, w)
        BY <1>2, <2>2, <3>1, <4>1
      <4> QED
        BY <4>2, KeepOne
    <3>4. S \o <<>> = S
      BY <3>2, ConcatEmptySeq
    <3>5. Keep(f \o b, w) = Keep(f, w) \o Keep(b, w)
      BY <3>2, KeepConcat
    <3>6. e >= turn'
      BY <1>1, <2>1, <2>2 DEF EmitterIds
    <3> QED
      BY <2>1, <2>3, <3>1, <3>3, <3>4, <3>5, <3>6
  <2> QED
    BY <1>1, <1>2, <1>3, <2>1, <2>3, <2>4
<1>6. CASE SkipEmitter
  <2>1. /\ sent' = sent /\ batch' = batch /\ turn' = turn + 1 /\ flush' = flush
        /\ forwarded' = forwarded /\ failed' = failed /\ Flushed' = Flushed
        /\ evicted' = evicted /\ departed' = departed
        /\ turn \in EmitterIds /\ RoutedCount = 0
    BY <1>6 DEF SkipEmitter, stats, Flushed
  <2>2. Keep(batch, Meant(turn)) = <<>>
    <3>1. RoutedEvents \in Seq(Message) /\ Len(RoutedEvents) = 0
      BY <1>1, <2>1, RoutedCountType DEF RoutedCount
    <3>2. RoutedEvents = <<>>
      BY <3>1, EmptySeq
    <3> QED
      BY <2>1, <3>2, RoutingAgrees DEF RoutedEvents, Meant
  <2>3. ASSUME NEW e \in EmitterIds
        PROVE  sent'[e] \o (IF e >= turn' THEN Keep(batch', Meant(e)) ELSE <<>>)
                 = Keep(Flushed', Meant(e))
    <3>1. CASE e = turn
      <4>1. e >= turn /\ ~(e >= turn')
        BY <1>1, <2>1, <3>1
      <4> QED
        BY <1>2, <2>1, <2>2, <3>1, <4>1
    <3>2. CASE e # turn
      <4>1. e >= turn <=> e >= turn'
        BY <1>1, <2>1, <3>2
      <4> QED
        BY <1>2, <2>1, <4>1
    <3> QED
      BY <3>1, <3>2
  <2> QED
    BY <1>1, <1>2, <1>3, <2>1, <2>3 DEF Delivery
<1>7. CASE CallEmit /\ (EmitOk \/ EmitErr \/ EmitPanic)
  <2>1. /\ turn \in EmitterIds /\ sent' = [sent EXCEPT ![turn] = @ \o RoutedEvents]
        /\ turn' = turn + 1 /\ batch' = batch
        /\ evicted' = evicted /\ departed' = departed /\ Flushed' = Flushed
        /\ flush = "emit"
    BY <1>7 DEF CallEmit, Flushed
  <2>2. RoutedEvents \in Seq(Message) /\ RoutedCount \in Nat /\ RoutedCount = Len(RoutedEvents)
    BY <1>1, RoutedCountType DEF RoutedCount
  <2>3. RoutedEvents = Keep(batch, Meant(turn))
    BY <2>1, RoutingAgrees DEF RoutedEvents, Meant
  <2>4. sent[turn] \in Seq(Message)
    BY <1>1, <2>1
  <2>5. /\ sent[turn] \o RoutedEvents \in Seq(Message)
        /\ Len(sent[turn] \o RoutedEvents) = Len(sent[turn]) + Len(RoutedEvents)
        /\ (sent[turn] \o RoutedEvents) \o <<>> = sent[turn] \o RoutedEvents
    <3>1. PICK a, b : a = sent[turn] /\ b = RoutedEvents
      OBVIOUS
    <3>2. a \in Seq(Message) /\ b \in Seq(Message)
      BY <2>2, <2>4, <3>1
    <3>3. a \o b \in Seq(Message) /\ Len(a \o b) = Len(a) + Len(b)
      BY <3>2, ConcatProperties
    <3>4. (a \o b) \o <<>> = a \o b
      BY <3>3, ConcatEmptySeq
    <3> QED
      BY <3>1, <3>3, <3>4
  <2>6. sent' \in [EmitterIds -> Seq(Message)]
    BY <1>1, <2>1, <2>5
  <2>7. ASSUME NEW e \in EmitterIds
        PROVE  sent'[e] \o (IF e >= turn' THEN Keep(batch', Meant(e)) ELSE <<>>)
                 = Keep(Flushed', Meant(e))
    <3>1. CASE e = turn
      <4>1. e >= turn /\ ~(e >= turn')
        BY <1>1, <2>1, <3>1
      <4>2. sent'[e] = sent[turn] \o RoutedEvents
        BY <1>1, <2>1, <3>1
      <4>3. sent[turn] \o RoutedEvents = Keep(Flushed, Meant(e))
        BY <1>2, <2>1, <2>3, <3>1, <4>1
      <4> QED
        BY <2>1, <2>5, <4>1, <4>2, <4>3
    <3>2. CASE e # turn
      <4>1. e >= turn <=> e >= turn'
        BY <1>1, <2>1, <3>2
      <4>2. sent'[e] = sent[e]
        BY <1>1, <2>1, <3>2
      <4> QED
        BY <1>2, <2>1, <4>1, <4>2
    <3> QED
      BY <3>1, <3>2
  <2>8. ASSUME NEW e \in EmitterIds, flush' # "panicked"
        PROVE  forwarded'[e] + failed'[e] = Len(sent'[e])
    <3>1. /\ forwarded[e] \in Nat /\ failed[e] \in Nat
          /\ forwarded[e] + failed[e] = Len(sent[e])
      BY <1>1, <1>2, <2>1
    <3>2. EmitOk \/ EmitErr
      BY <1>7, <2>8 DEF EmitPanic
    <3>3. CASE e = turn
      <4>1. Len(sent'[e]) = Len(sent[e]) + RoutedCount
        BY <1>1, <2>1, <2>2, <2>5, <3>3
      <4>2. CASE EmitOk
        <5>1. forwarded'[e] = forwarded[e] + RoutedCount /\ failed'[e] = failed[e]
          BY <1>1, <3>3, <4>2 DEF EmitOk
        <5>2. PICK x, y, c : x = forwarded[e] /\ y = failed[e] /\ c = RoutedCount
          OBVIOUS
        <5>3. (x + c) + y = (x + y) + c
          BY <2>2, <3>1, <5>2
        <5> QED
          BY <3>1, <4>1, <5>1, <5>2, <5>3
      <4>3. CASE EmitErr
        <5>1. failed'[e] = failed[e] + RoutedCount /\ forwarded'[e] = forwarded[e]
          BY <1>1, <3>3, <4>3 DEF EmitErr
        <5>2. PICK x, y, c : x = forwarded[e] /\ y = failed[e] /\ c = RoutedCount
          OBVIOUS
        <5>3. x + (y + c) = (x + y) + c
          BY <2>2, <3>1, <5>2
        <5> QED
          BY <3>1, <4>1, <5>1, <5>2, <5>3
      <4> QED
        BY <3>2, <4>2, <4>3
    <3>4. CASE e # turn
      <4>1. sent'[e] = sent[e] /\ forwarded'[e] = forwarded[e] /\ failed'[e] = failed[e]
        BY <1>1, <2>1, <3>2, <3>4 DEF EmitOk, EmitErr
      <4> QED
        BY <3>1, <4>1
    <3> QED
      BY <3>3, <3>4
  <2> QED
    BY <1>3, <2>1, <2>6, <2>7, <2>8 DEF Delivery
<1>8. CASE EndBatch
  <2>1. /\ sent' = sent /\ batch' = <<>> /\ turn' = 1 /\ flush = "emit"
        /\ forwarded' = forwarded /\ failed' = failed /\ Flushed' = Flushed
        /\ evicted' = evicted /\ departed' = departed /\ turn \notin EmitterIds
    BY <1>8 DEF EndBatch, stats, Flushed
  <2>2. ASSUME NEW e \in EmitterIds
        PROVE  sent'[e] \o (IF e >= turn' THEN Keep(batch', Meant(e)) ELSE <<>>)
                 = Keep(Flushed', Meant(e))
    <3>1. ~(e >= turn)
      BY <1>1, <2>1 DEF EmitterIds
    <3>2. sent[e] \o <<>> = Keep(Flushed, Meant(e))
      BY <1>2, <3>1
    <3>3. Keep(<<>>, Meant(e)) = <<>>
      BY KeepOne
    <3> QED
      BY <2>1, <3>2, <3>3
  <2> QED
    BY <1>1, <1>2, <1>3, <2>1, <2>2 DEF Delivery
<1>9. CASE ~(MiddlewarePass \/ FlushWake \/ SkipEmitter \/ EmitOk \/ EmitErr \/ EmitPanic \/ EndBatch)
  <2>1. /\ sent' = sent /\ batch' = batch /\ turn' = turn
        /\ forwarded' = forwarded /\ failed' = failed
        /\ flush' # "panicked" => flush # "panicked"
    BY <1>9 DEF Next, RunNext, FlushNext, CloneSender, DropSender, Send, RefuseSend, Recv,
               RecordOverflow, MiddlewareFilter, SignalShutdown, JoinFlush, CancelRun,
               FlushCheck, FlushCheckEmpty, vars, flushVars, stats
  <2>2. evicted' = evicted /\ departed' = departed
    BY <1>9, OtherSteps
  <2>3. Flushed' = Flushed
    BY <2>2 DEF Flushed
  <2> QED
    BY <1>1, <1>2, <1>3, <2>1, <2>2, <2>3 DEF Delivery
<1>10. EmitOk \/ EmitErr \/ EmitPanic => CallEmit
  BY DEF EmitOk, EmitErr, EmitPanic
<1> QED
  BY <1>4, <1>5, <1>6, <1>7, <1>8, <1>9, <1>10

-------------------------------------------------------------------------------
(* The inductive invariant of the pipeline: fan-out is exact because       *)
(* evicted and flushed messages are never the same one (InOrder, with the  *)
(* order of the buffer), and the exit of the flush loop means that nothing *)
(* is left because of where the two tasks then are (Stages).               *)
Inv == TypeOK /\ FifoBuffer /\ InOrder /\ Stages /\ Accounted /\ Delivery

(* It holds initially, ... *)
LEMMA InvInit == Init => InOrder /\ Stages /\ Accounted /\ Delivery
<1> SUFFICES ASSUME Init PROVE InOrder /\ Stages /\ Accounted /\ Delivery
  OBVIOUS
<1>1. /\ passed = <<>> /\ channel = <<>> /\ departed = <<>> /\ batch = <<>> /\ turn = 1
      /\ run = "recv" /\ flush = "check" /\ shutdown = FALSE
      /\ accepted = {} /\ evicted = {}
      /\ forwarded = [e \in EmitterIds |-> 0] /\ failed = [e \in EmitterIds |-> 0]
      /\ sent = [e \in EmitterIds |-> <<>>]
  BY DEF Init
<1>2. InOrder /\ Stages /\ Accounted
  BY <1>1 DEF InOrder, Stages, Accounted
<1>3. \A w : Keep(<<>>, w) = <<>>
  BY KeepOne
<1>4. Flushed = <<>>
  BY <1>1, <1>3 DEF Flushed
<1>5. <<>> \o <<>> = <<>> /\ Len(<<>>) = 0 /\ <<>> \in Seq(Message)
  BY EmptySeq
<1>6. ExactFanOut
  BY <1>1, <1>3, <1>4, <1>5 DEF ExactFanOut
<1>7. Delivery
  BY <1>1, <1>5, <1>6 DEF Delivery
<1> QED
  BY <1>2, <1>7

(* ... and in every reachable state. *)
THEOREM InvHolds == Spec => []Inv
<1>1. Init => InOrder /\ Stages /\ Accounted /\ Delivery
  BY InvInit
<1>2. /\ TypeOK /\ FifoBuffer /\ InOrder /\ Stages /\ Accounted /\ Delivery /\ [Next]_vars
      => (InOrder /\ Stages /\ Accounted /\ Delivery)'
  BY OrderStep, StagesStep, AccountedStep, DeliveryStep
<1>3. Spec => []TypeOK
  BY TypeCorrect
<1>4. Spec => []FifoBuffer
  BY BufferIsFifo
<1> QED
  BY <1>1, <1>2, <1>3, <1>4, PTL DEF Spec, Inv

(* Every emitter is called with exactly the drained messages meant for it, *)
(* each once and in order, whatever the others answer; forwarded and       *)
(* failed count each once.  For every list of emitters, every routing,     *)
(* every capacity and batch size.                                          *)
THEOREM FanOutIsExact == Spec => []ExactFanOut
<1>1. Inv => ExactFanOut
  BY DEF Inv, Delivery
<1> QED
  BY <1>1, InvHolds, PTL

(* When the flush loop has exited, every message that a send accepted was  *)
(* filtered, evicted, or given to every emitter it is routed to.           *)
THEOREM ShutdownIsGraceful == Spec => []GracefulShutdown
<1>1. Inv => GracefulShutdown
  <2> SUFFICES ASSUME Inv, flush = "exited", NEW id \in accepted,
                      id \notin filtered, ~(\E msg \in evicted : msg.id = id)
               PROVE  Offered(id)
    BY DEF GracefulShutdown
  <2>1. TypeOK /\ FifoBuffer /\ Stages /\ Accounted /\ Delivery
    BY DEF Inv
  <2>2. shutdown /\ messages = <<>> /\ channel = <<>> /\ hand = <<>> /\ batch = <<>>
    BY <2>1 DEF Stages, TypeOK
  <2>3. PICK i \in DOMAIN passed : passed[i].id = id
    <3>1. ToSet(channel) = {} /\ ToSet(hand) = {}
      BY <2>2 DEF ToSet
    <3> QED
      BY <2>1, <2>2, <3>1 DEF Accounted
  <2>4. departed \in Seq(Message) /\ passed = departed
    <3>1. departed \in Seq(Message) /\ passed = departed \o <<>>
      BY <2>1, <2>2 DEF TypeOK, FifoBuffer
    <3> QED
      BY <3>1, ConcatEmptySeq
  <2>5. PICK msg : msg = passed[i]
    OBVIOUS
  <2>6. msg \in ToSet(departed) /\ msg \in Message /\ msg \notin evicted
    BY <2>3, <2>4, <2>5, LenProperties DEF ToSet
  <2>7. Flushed \in Seq(Message) /\ msg \in ToSet(Flushed)
    <3>1. PICK kept : kept = Message \ evicted
      OBVIOUS
    <3>2. Keep(departed, kept) \in Seq(Message)
      BY <2>4, KeepType
    <3>3. ToSet(Keep(departed, kept)) = ToSet(departed) \cap kept
      BY <2>4, KeepSet
    <3> QED
      BY <2>6, <3>1, <3>2, <3>3 DEF Flushed
  <2>8. ASSUME NEW e \in Destinations(msg)
        PROVE  \E j \in DOMAIN sent[e] : sent[e][j] = msg
    <3>1. e \in EmitterIds
      BY DEF Destinations
    <3>2. PICK w, f, to : w = Meant(e) /\ f = Flushed /\ to = sent[e]
      OBVIOUS
    <3>3. /\ to \in Seq(Message) /\ f \in Seq(Message)
          /\ to \o (IF e >= turn THEN Keep(<<>>, w) ELSE <<>>) = Keep(f, w)
      BY <2>1, <2>2, <2>7, <3>1, <3>2 DEF Delivery, ExactFanOut, Meant
    <3>4. Keep(<<>>, w) = <<>> /\ to \o <<>> = to
      BY <3>3, KeepOne, ConcatEmptySeq
    <3>5. to = Keep(f, w)
      BY <3>3, <3>4
    <3>6. ToSet(Keep(f, w)) = ToSet(f) \cap w
      BY <3>3, KeepSet
    <3>7. msg \in w
      BY <2>6, <3>2 DEF Meant
    <3>8. msg \in ToSet(to)
      BY <2>7, <3>2, <3>5, <3>6, <3>7
    <3> QED
      BY <3>2, <3>8 DEF ToSet
  <2> QED
    BY <2>3, <2>5, <2>8 DEF Offered
<1> QED
  BY <1>1, InvHolds, PTL

(* Once run() has returned, no step calls an emitter, moves a counter or   *)
(* touches the buffer.                                                     *)
THEOREM QuietAfterRun == Spec => QuietAfterReturn
<1>1. TypeOK /\ Stages /\ [Next]_vars
        => [run = "done" => UNCHANGED <<sent, stats, messages>>]_vars
  <2> SUFFICES ASSUME TypeOK, Stages, [Next]_vars, run = "done"
               PROVE  UNCHANGED <<sent, stats, messages>>
    OBVIOUS
  <2>1. flush \in {"exited", "panicked"} /\ run = "done"
    BY DEF Stages
  <2> QED
    BY <2>1 DEF Next, RunNext, FlushNext, CloneSender, DropSender, Send, RefuseSend,
               Recv, MiddlewarePass, RecordOverflow, MiddlewareFilter, SignalShutdown,
               JoinFlush, CancelRun, FlushCheck, FlushCheckEmpty, FlushWake, SkipEmitter, EmitOk,
               EmitErr, EmitPanic, CallEmit, EndBatch, vars, ringVars, flushVars, stats
<1>2. Inv => TypeOK /\ Stages
  BY DEF Inv
<1> QED
  BY <1>1, <1>2, InvHolds, PTL DEF Spec, QuietAfterReturn
===============================================================================
