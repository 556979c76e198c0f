---------------------------------- MODULE Hub ----------------------------------
(***************************************************************************)
(* The message pipeline of gateway/src/hub.rs:                             *)
(*                                                                         *)
(*   MessageSender clones -> mpsc channel -> run(): middleware -> ring     *)
(*   buffer -> flush_loop(): route -> emitters                             *)
(*                                                                         *)
(* run() and flush_loop() are two tasks that share the ring buffer and a   *)
(* watch flag (shutdown).  A step of a task is what it does between two    *)
(* points where the other can be seen: an await, or an access to shared    *)
(* state.  Messages are numbered in the order producers offer them; the    *)
(* only part of a message the pipeline reads is its route_to list.         *)
(***************************************************************************)
EXTENDS RingBuffer, Selection

CONSTANTS
    EmitterName,        \* names an emitter can have
    Emitters,           \* names of the registered emitters, in registration order
    Routes,             \* the route_to sets messages leave the middleware with
    ChannelCapacity,    \* 1024 in Hub::build
    BatchSize,          \* Hub::batch_size
    MaxMessages,        \* bound: messages the producers offer
    MaxSenders          \* bound: MessageSender clones alive at once

ASSUME HubAssumption ==
    /\ Emitters \in Seq(EmitterName)
    /\ ChannelCapacity \in Nat \ {0}
    /\ BatchSize \in Nat \ {0}
    /\ MaxMessages \in Nat
    /\ MaxSenders \in Nat \ {0}

EmitterIds == 1 .. Len(Emitters)

MessageIds == 1 .. MaxMessages

Message == [id : MessageIds, route_to : Routes]

VARIABLES
    senders,            \* live MessageSender clones
    nextId,             \* number of the next message a producer offers
    channel,            \* the mpsc channel
    run,                \* where run() is
    hand,               \* the message run() holds: <<>> or one id
    shutdown,           \* value of the watch channel
    flush,              \* where flush_loop() is
    batch,              \* flush_loop's messages / events
    turn,               \* index of the emitter the batch goes to next
    received,           \* Prometheus counters: messages received,
    filteredCount,      \*   dropped("middleware_filtered"),
    overflowCount,      \*   dropped("buffer_overflow"),
    forwarded,          \*   forwarded, per emitter,
    failed              \*   dropped(<emitter>), per emitter

(* History: what has happened to each message so far. *)
VARIABLES
    accepted,           \* ids whose send returned Ok
    filtered,           \* ids the middleware returned None for
    passed,             \* messages pushed into the buffer, in order
    departed,           \* messages that left the buffer, in order
    evicted,            \* those of them that an overflow pushed out
    sent                \* per emitter, the events its emit was called with

producerVars == <<senders, nextId, accepted>>
runVars      == <<run, hand, filtered, passed>>
flushVars    == <<flush, batch, turn, sent>>
stats        == <<received, filteredCount, overflowCount, forwarded, failed>>
vars == <<ringVars, producerVars, channel, runVars, shutdown, flushVars, stats,
          departed, evicted>>

Init ==
    /\ RingInit
    /\ senders = 1 /\ nextId = 1 /\ channel = <<>>
    /\ run = "recv" /\ hand = <<>>
    /\ shutdown = FALSE
    /\ flush = "check" /\ batch = <<>> /\ turn = 1
    /\ received = 0 /\ filteredCount = 0 /\ overflowCount = 0
    /\ forwarded = [e \in EmitterIds |-> 0]
    /\ failed = [e \in EmitterIds |-> 0]
    /\ accepted = {} /\ filtered = {}
    /\ passed = <<>> /\ departed = <<>> /\ evicted = {}
    /\ sent = [e \in EmitterIds |-> <<>>]

-------------------------------------------------------------------------------
(* Producers. *)

CloneSender ==
    /\ senders \in 1 .. MaxSenders - 1
    /\ senders' = senders + 1
    /\ UNCHANGED <<ringVars, nextId, accepted, channel, runVars, shutdown,
                   flushVars, stats, departed, evicted>>

DropSender ==
    /\ senders > 0
    /\ senders' = senders - 1
    /\ UNCHANGED <<ringVars, nextId, accepted, channel, runVars, shutdown,
                   flushVars, stats, departed, evicted>>

(* run() owns the receiver and drops it when it returns or is cancelled. *)
ReceiverAlive == run \notin {"done", "cancelled"}

(* send (which waits for room) and try_send, when they return Ok. *)
Send ==
    /\ senders > 0 /\ nextId \in MessageIds
    /\ ReceiverAlive /\ Len(channel) < ChannelCapacity
    /\ channel' = Append(channel, nextId)
    /\ accepted' = accepted \union {nextId}
    /\ nextId' = nextId + 1
    /\ UNCHANGED <<ringVars, senders, runVars, shutdown, flushVars, stats,
                   departed, evicted>>

(* try_send on a full channel; either call once the receiver is gone. *)
RefuseSend ==
    /\ senders > 0 /\ nextId \in MessageIds
    /\ ~ReceiverAlive \/ Len(channel) = ChannelCapacity
    /\ nextId' = nextId + 1
    /\ UNCHANGED <<ringVars, senders, accepted, channel, runVars, shutdown,
                   flushVars, stats, departed, evicted>>

-------------------------------------------------------------------------------
(* run(). *)

Recv ==
    /\ run = "recv" /\ channel # <<>>
    /\ hand' = <<Head(channel)>>
    /\ channel' = Tail(channel)
    /\ received' = received + 1
    /\ run' = "middleware"
    /\ UNCHANGED <<filteredCount, overflowCount, forwarded, failed, ringVars, producerVars, filtered, passed, shutdown, flushVars,
                   departed, evicted>>

(* What an overflowing push throws out: the oldest message, if there is one. *)
Evicting == IF IsFull THEN SubSeq(messages, 1, 1) ELSE <<>>

(* The chain returns Some(msg), with the route_to its producer or a Router *)
(* gave it, and the message goes into the buffer.                          *)
MiddlewarePass ==
    /\ run = "middleware"
    /\ \E route \in Routes :
         LET msg == [id |-> hand[1], route_to |-> route]
         IN  Push(msg) /\ passed' = Append(passed, msg)
    /\ departed' = departed \o Evicting
    /\ evicted' = evicted \union {Evicting[i] : i \in DOMAIN Evicting}
    /\ run' = IF dropped' > dropped THEN "overflow" ELSE "recv"
    /\ hand' = <<>>
    /\ UNCHANGED <<producerVars, channel, filtered, shutdown, flushVars, stats>>

(* push() returned 1, and only now, the lock released, the drop is counted. *)
RecordOverflow ==
    /\ run = "overflow"
    /\ overflowCount' = overflowCount + 1
    /\ run' = "recv"
    /\ UNCHANGED <<received, filteredCount, forwarded, failed, ringVars, producerVars,
                   channel, hand, filtered, passed, shutdown, flushVars, departed, evicted>>

(* The chain returns None: filtered, rate limited, or held back. *)
MiddlewareFilter ==
    /\ run = "middleware"
    /\ filtered' = filtered \union {hand[1]}
    /\ filteredCount' = filteredCount + 1
    /\ run' = "recv" /\ hand' = <<>>
    /\ UNCHANGED <<received, overflowCount, forwarded, failed, ringVars, producerVars, channel, passed, shutdown, flushVars,
                   departed, evicted>>

(* Faulty variant: the shutdown signal is never sent. *)
ForgetShutdown ==
    /\ run = "recv" /\ senders = 0 /\ channel = <<>>
    /\ run' = "joining"
    /\ UNCHANGED <<ringVars, producerVars, channel, hand, filtered, passed, shutdown,
                   flushVars, stats, departed, evicted>>

(* recv returns None once every sender is gone and the channel is empty. *)
SignalShutdown ==
    /\ run = "recv" /\ senders = 0 /\ channel = <<>>
    /\ shutdown' = TRUE
    /\ run' = "joining"
    /\ UNCHANGED <<ringVars, producerVars, channel, hand, filtered, passed,
                   flushVars, stats, departed, evicted>>

(* Faulty variant: the flush task is not awaited. *)
DetachFlush ==
    /\ run = "joining"
    /\ run' = "done"
    /\ UNCHANGED <<ringVars, producerVars, channel, hand, filtered, passed,
                   shutdown, flushVars, stats, departed, evicted>>

(* flush_handle.await; a panicked flush task is logged and Ok returned. *)
JoinFlush ==
    /\ run = "joining" /\ flush \in {"exited", "panicked"}
    /\ run' = "done"
    /\ UNCHANGED <<ringVars, producerVars, channel, hand, filtered, passed,
                   shutdown, flushVars, stats, departed, evicted>>

(* The caller drops run()'s future at one of its awaits (a timeout around  *)
(* it, as in the tests).  What it owns goes: the channel's contents and    *)
(* the message in hand.  The spawned flush task keeps running.             *)
CancelRun ==
    /\ run \in {"recv", "middleware", "joining"}
    /\ run' = "cancelled"
    /\ hand' = <<>> /\ channel' = <<>>
    /\ UNCHANGED <<ringVars, producerVars, filtered, passed, shutdown, flushVars,
                   stats, departed, evicted>>

-------------------------------------------------------------------------------
(* flush_loop(). *)

(* Faulty variant: leaves as soon as the flag is set, without the buffer test. *)
FlushCheckFlagOnly ==
    /\ flush = "check"
    /\ flush' = IF shutdown THEN "exited" ELSE "select"
    /\ UNCHANGED <<ringVars, producerVars, channel, runVars, shutdown, batch, turn,
                   sent, stats, departed, evicted>>

(* The loop's exit test reads the watch flag ... *)
FlushCheck ==
    /\ flush = "check"
    /\ flush' = IF shutdown THEN "empty" ELSE "select"
    /\ UNCHANGED <<ringVars, producerVars, channel, runVars, shutdown, batch, turn,
                   sent, stats, departed, evicted>>

(* ... and then, only if it is set, the buffer. *)
FlushCheckEmpty ==
    /\ flush = "empty"
    /\ flush' = IF IsEmpty THEN "exited" ELSE "select"
    /\ UNCHANGED <<ringVars, producerVars, channel, runVars, shutdown, batch, turn,
                   sent, stats, departed, evicted>>

(* Faulty variant: an empty drain ends the loop instead of the iteration. *)
FlushWakeBreaksOnEmpty ==
    /\ flush = "select"
    /\ Drain(BatchSize)
    /\ batch' = Oldest(BatchSize)
    /\ departed' = departed \o Oldest(BatchSize)
    /\ flush' = IF batch' = <<>> THEN "exited" ELSE "emit"
    /\ UNCHANGED <<producerVars, channel, runVars, shutdown, turn, sent, stats,
                   evicted>>

(* The sleep elapses, or changed() returns; both arms go on to the drain. *)
FlushWake ==
    /\ flush = "select"
    /\ Drain(BatchSize)
    /\ batch' = Oldest(BatchSize)
    /\ departed' = departed \o Oldest(BatchSize)
    /\ flush' = IF batch' = <<>> THEN "check" ELSE "emit"
    /\ UNCHANGED <<producerVars, channel, runVars, shutdown, turn, sent, stats,
                   evicted>>

RoutedTo(msg, e) == msg.route_to = {} \/ Emitters[e] \in msg.route_to

RoutedEvents == Keep(batch, {msg \in Message : RoutedTo(msg, turn)})

RoutedCount == Len(RoutedEvents)

(* Nothing in the batch is for this emitter: emit is not called. *)
SkipEmitter ==
    /\ flush = "emit" /\ turn \in EmitterIds /\ RoutedCount = 0
    /\ turn' = turn + 1
    /\ UNCHANGED <<ringVars, producerVars, channel, runVars, shutdown, flush, batch,
                   sent, stats, departed, evicted>>

(* emit(&routed_events) is called with the events meant for this emitter. *)
CallEmit ==
    /\ flush = "emit" /\ turn \in EmitterIds /\ RoutedCount > 0
    /\ sent' = [sent EXCEPT ![turn] = @ \o RoutedEvents]
    /\ turn' = turn + 1
    /\ UNCHANGED <<ringVars, producerVars, channel, runVars, shutdown, batch,
                   departed, evicted>>

EmitOk ==
    /\ CallEmit
    /\ forwarded' = [forwarded EXCEPT ![turn] = @ + RoutedCount]
    /\ UNCHANGED <<flush, received, filteredCount, overflowCount, failed>>

(* Faulty variant: the first failure abandons the emitters that follow. *)
EmitErrAborts ==
    /\ flush = "emit" /\ turn \in EmitterIds /\ RoutedCount > 0
    /\ sent' = [sent EXCEPT ![turn] = @ \o RoutedEvents]
    /\ turn' = Len(Emitters) + 1
    /\ failed' = [failed EXCEPT ![turn] = @ + RoutedCount]
    /\ UNCHANGED <<received, filteredCount, overflowCount, forwarded, ringVars, producerVars, channel, runVars, shutdown, flush, batch,
                   departed, evicted>>

(* A failure is counted; the events are not kept and the loop goes on. *)
EmitErr ==
    /\ CallEmit
    /\ failed' = [failed EXCEPT ![turn] = @ + RoutedCount]
    /\ UNCHANGED <<flush, received, filteredCount, overflowCount, forwarded>>

(* emit panics and takes the flush task down with it. *)
EmitPanic ==
    /\ CallEmit
    /\ flush' = "panicked"
    /\ UNCHANGED stats

EndBatch ==
    /\ flush = "emit" /\ turn \notin EmitterIds
    /\ flush' = "check"
    /\ batch' = <<>>
    /\ turn' = 1
    /\ UNCHANGED <<ringVars, producerVars, channel, runVars, shutdown, sent, stats,
                   departed, evicted>>

-------------------------------------------------------------------------------
RunNext == Recv \/ MiddlewarePass \/ RecordOverflow \/ MiddlewareFilter \/ SignalShutdown
           \/ JoinFlush

FlushNext == FlushCheck \/ FlushCheckEmpty \/ FlushWake \/ SkipEmitter \/ EmitOk
             \/ EmitErr \/ EmitPanic \/ EndBatch

Next ==
    \/ CloneSender \/ DropSender \/ Send \/ RefuseSend
    \/ RunNext \/ CancelRun
    \/ FlushNext

Spec == Init /\ [][Next]_vars

(* The runtime keeps polling both tasks, the middleware returns, the flush *)
(* interval elapses, and emit returns: the network emitters bound every    *)
(* request by a timeout.  Nothing is assumed of the producers.             *)
Fairness == WF_vars(RunNext) /\ WF_vars(FlushNext)

FairSpec == Spec /\ Fairness

-------------------------------------------------------------------------------
(* Properties. *)

(* Type correctness, with the buffer's bound: the buffer never outgrows    *)
(* its capacity (RingBuffer::push), a capacity of 0 counting as 1.         *)
TypeOK ==
    /\ messages \in Seq(Message)
    /\ Len(messages) <= IF Capacity = 0 THEN 1 ELSE Capacity
    /\ pushed \in Nat /\ dropped \in Nat /\ drained \in Nat
    /\ senders \in 0 .. MaxSenders
    /\ nextId \in 1 .. MaxMessages + 1
    /\ channel \in Seq(MessageIds) /\ Len(channel) <= ChannelCapacity
    /\ run \in {"recv", "middleware", "overflow", "joining", "done", "cancelled"}
    /\ hand \in IF run = "middleware" THEN [1 .. 1 -> MessageIds] ELSE {<<>>}
    /\ shutdown \in BOOLEAN
    /\ flush \in {"check", "empty", "select", "emit", "exited", "panicked"}
    /\ batch \in Seq(Message)
    /\ flush \in {"emit", "panicked"} <=> batch # <<>>
    /\ turn \in 1 .. Len(Emitters) + 1
    /\ received \in Nat /\ filteredCount \in Nat /\ overflowCount \in Nat
    /\ forwarded \in [EmitterIds -> Nat] /\ failed \in [EmitterIds -> Nat]
    /\ accepted \subseteq MessageIds /\ filtered \subseteq MessageIds
    /\ passed \in Seq(Message) /\ departed \in Seq(Message)
    /\ evicted \subseteq Message
    /\ DOMAIN sent = EmitterIds

(* The buffer is first-in first-out under every interleaving of push,      *)
(* overflow and drain: what has left it (flushed or evicted) followed by   *)
(* what is in it is exactly what was pushed, in the order it was pushed.   *)
(* In particular an overflow always costs the oldest message.              *)
FifoBuffer == passed = departed \o messages

(* The Prometheus counters and the buffer's own counters agree: every      *)
(* message run() received is in hand, filtered, buffered, dropped by an    *)
(* overflow, or drained, and is counted once; a drop by run() itself, in   *)
(* the step after the push.  (A cancelled run() loses the message in hand; *)
(* a zero-capacity buffer counts drops of nothing.)                        *)
CountersBalance ==
    Capacity > 0 =>
      /\ overflowCount + (IF run = "overflow" THEN 1 ELSE 0) = dropped
      /\ drained + dropped = Len(departed)
      /\ run # "cancelled" =>
           received =
             Len(hand) + filteredCount + dropped + drained + Len(messages)

Flushed == Keep(departed, Message \ evicted)

Destinations(msg) ==
    IF msg.route_to = {} THEN EmitterIds
    ELSE {e \in EmitterIds : Emitters[e] \in msg.route_to}

(* Every emitter is called with exactly the drained messages meant for it, *)
(* each once and in buffer order, whatever other emitters fail and however *)
(* the batches fall (flush_loop's fan-out; the batch in progress is still  *)
(* to come for the emitters whose turn is not over).  Each is counted once *)
(* as forwarded or failed, but for the batch whose emit panicked.          *)
ExactFanOut ==
    \A e \in EmitterIds :
       LET meant == {msg \in Message : e \in Destinations(msg)}
       IN  /\ sent[e] \o (IF e >= turn THEN Keep(batch, meant) ELSE <<>>) = Keep(Flushed, meant)
           /\ flush # "panicked" =>
                forwarded[e] + failed[e] = Len(sent[e])

(* The message was in the buffer and every emitter it names was called. *)
Offered(id) ==
    \E i \in DOMAIN passed :
       /\ passed[i].id = id
       /\ \A e \in Destinations(passed[i]) :
            \E j \in DOMAIN sent[e] : sent[e][j] = passed[i]

(* Graceful shutdown (run's step 5, flush_loop's "drains the buffer        *)
(* completely before exiting"): when the flush loop has exited, every      *)
(* message a send accepted was filtered, evicted, or given to every        *)
(* emitter it is routed to.                                                *)
GracefulShutdown ==
    flush = "exited" =>
      \A id \in accepted :
         \/ id \in filtered
         \/ \E msg \in evicted : msg.id = id
         \/ Offered(id)

(* Once run() has returned, no emitter is called any more and no counter   *)
(* moves: the caller may tear the emitters down.                           *)
QuietAfterReturn ==
    [][run = "done" => UNCHANGED <<sent, stats, messages>>]_vars

(* When the last sender is dropped, run() returns, unless it is cancelled: *)
(* also when an emitter keeps failing, or panics.                          *)
ShutdownCompletes == senders = 0 ~> run \in {"done", "cancelled"}

(* Every message that reaches the buffer is evicted or offered to all its  *)
(* emitters, even when run() is cancelled, unless an emitter's panic kills *)
(* the flush task.                                                         *)
EveryMessageOffered ==
    \A id \in MessageIds :
       (\E i \in DOMAIN passed : passed[i].id = id)
         ~> \/ Offered(id)
            \/ \E msg \in evicted : msg.id = id
            \/ flush = "panicked"
===============================================================================
