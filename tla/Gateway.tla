--------------------------------- MODULE Gateway ---------------------------------
(***************************************************************************)
(* The gateway process: the gRPC service of gateway/src/server.rs, which   *)
(* puts events into the ring buffer, the plugin registry that delivers     *)
(* them, and the shutdown of gateway/src/main.rs.                          *)
(*                                                                         *)
(* Unary calls and stream tasks share the buffer and the counter           *)
(* events_processed; each access is a step of its own.  The loop that      *)
(* drains the buffer into emit_with_routing() belongs to the program that  *)
(* embeds the gateway (main.rs starts none).                               *)
(***************************************************************************)
EXTENDS RingBuffer, PluginRegistry, Messages

CONSTANTS
    Caller,             \* unary calls that may be in progress at once
    Stream,
    Sources,
    Event,              \* what clients send; any of them any number of times
    AckCapacity,        \* 32 in stream_events
    None,               \* no answer
    DrainSize,          \* what the embedding loop drains at once
    MaxEvents,          \* bound: events stored in all
    MaxPerRequest,      \* bound: events in one request
    MaxBatches          \* bound: batches of one stream

(* The protocol's Event, but for its timestamp. *)
IsEvent(e) ==
    /\ e = [id |-> e.id, source |-> e.source, event_type |-> e.event_type,
            metadata |-> e.metadata, payload |-> e.payload, route_to |-> e.route_to]
    /\ {e.id, e.source} \subseteq STRING /\ IsMetadata(e.metadata)
    /\ {e.event_type, e.route_to} \subseteq Seq(STRING)
    /\ e.payload \in Payload

(* Nothing is assumed of ids: a client may repeat one, and does when it    *)
(* retries.                                                                *)
ASSUME GatewayAssumption ==
    /\ IsFiniteSet(Caller) /\ IsFiniteSet(Stream)
    /\ AckCapacity \in Nat /\ DrainSize \in Nat
    /\ MaxEvents \in Nat /\ MaxPerRequest \in Nat /\ MaxBatches \in Nat
    /\ \A e \in Event : IsEvent(e)

BatchStatus == {"ok", "unimplemented"}

ASSUME NoneAssumption == None \notin [status : BatchStatus, event_ids : Seq(STRING)]

VARIABLES
    events_processed,
    unary,              \* where each unary call is: "idle", "count"
    held,               \* its event's place among those stored, 0 without one
    stream,             \* where each stream task is
    reply,              \* the answer it is about to send
    acks,               \* its channel to the client
    listening,          \* the client holds the receiving end
    batches,            \* batches received, for the bound
    server              \* "serving", "closing" emitters, "stopping", "exited"

(* History: the events pushed, in order, which are told apart by their     *)
(* places there; the places of those whose caller was told that they are   *)
(* dropped; and, for each stream, the places of the batch that is not      *)
(* counted yet, the answers that the client can still expect, and the good *)
(* batches taken after it had left.                                        *)
VARIABLES stored, exhausted, placed, due, orphans

unaryVars == <<unary, held>>
intake == <<ringVars, stored, exhausted>>
streamHistory == <<due, orphans>>
streamVars == <<stream, reply, acks, listening, batches, placed, streamHistory>>
vars == <<intake, registryVars, events_processed, unaryVars, streamVars, server>>

Init ==
    /\ RingInit /\ RegistryInit
    /\ events_processed = 0
    /\ unary = [c \in Caller |-> "idle"] /\ held = [c \in Caller |-> 0]
    /\ stream = [s \in Stream |-> "closed"] /\ reply = [s \in Stream |-> None]
    /\ acks = [s \in Stream |-> <<>>] /\ listening = [s \in Stream |-> FALSE]
    /\ server = "serving"
    /\ stored = <<>> /\ exhausted = {}
    /\ batches = [s \in Stream |-> 0] /\ placed = [s \in Stream |-> {}]
    /\ due = [s \in Stream |-> <<>>] /\ orphans = [s \in Stream |-> 0]

Accepting == server \in {"serving", "closing"}

Running == server # "exited"

Ids(events) == [k \in DOMAIN events |-> events[k].id]

(* Where events are stored next. *)
Places(events) == Len(stored) + 1 .. Len(stored) + Len(events)

--------------------------------------------------------------------------------
(* Requests. *)

(* The oneof payload of IngestEvent and IngestBatch, and the events in it: *)
(* for raw bytes, those that the source's ingestor would make of them.     *)
(* The same event may come again, in one request or in several.            *)
Requests ==
    LET lengths == {n \in 0 .. MaxPerRequest : Len(stored) + n <= MaxEvents}
        events == UNION {[1 .. n -> Event] : n \in lengths}
    IN  [payload : {"ready"}, events : events]
          \union [payload : {"raw"}, source : Sources, events : events]
          \union [payload : {"none"}]

(* An IngestEvent holds one event, not a list. *)
EventRequests == {request \in Requests : request.payload = "ready" => Len(request.events) = 1}

(* process_batch_with_registry() *)
ProcessBatch(request) ==
    CASE request.payload = "ready" -> {[status |-> "ok", events |-> request.events]}
      [] request.payload = "raw" ->
           {[status |-> IF t.error = "none" THEN "ok" ELSE "unimplemented", events |-> t.events] :
              t \in Ingest(request.source, request.events)}
      [] request.payload = "none" -> {[status |-> "ok", events |-> <<>>]}

(* An Ack with the ids of a batch's events, or the error; the buffer's     *)
(* length and capacity, which an Ack also carries, are left out.           *)
Answer(p) == [status |-> p.status, event_ids |-> Ids(p.events)]

FirstOf(events) == IF events = <<>> THEN <<>> ELSE <<Head(events)>>

(* process_event(): one event, the first of several, and an error without  *)
(* any.                                                                    *)
ProcessEvent(request) ==
    {[status |-> IF p.status = "ok" /\ p.events = <<>> THEN "invalid_argument" ELSE p.status,
      events |-> FirstOf(p.events)] : p \in ProcessBatch(request)}

--------------------------------------------------------------------------------
(* RingBuffer::push with several messages: as one, over and over, under one *)
(* lock; the counters are moved once, at the end.                          *)

PushOne(acc, msg) ==
    LET full == Len(acc.queue) >= Capacity
    IN  [queue |-> Append(IF full THEN PopFront(acc.queue) ELSE acc.queue, msg),
         dropped |-> acc.dropped + IF full THEN 1 ELSE 0]

AfterPush(msgs) == FoldLeft(PushOne, [queue |-> messages, dropped |-> 0], msgs)

PushEvents(events) ==
    LET after == AfterPush([k \in DOMAIN events |-> MessageFrom(events[k])])
    IN  /\ messages' = after.queue
        /\ pushed' = pushed + Len(after.queue) + after.dropped
        /\ dropped' = dropped + after.dropped
        /\ stored' = stored \o events
        /\ UNCHANGED drained

--------------------------------------------------------------------------------
(* send_event() *)

(* The request is turned away, or its event is pushed; a push that evicts  *)
(* ends the call with an error.                                            *)
SendEvent(c) ==
    /\ Accepting /\ unary[c] = "idle"
    /\ \E p \in UNION {ProcessEvent(request) : request \in EventRequests} :
         IF p.status # "ok"
         THEN UNCHANGED <<ringVars, stored, unaryVars, exhausted>>
         ELSE /\ PushEvents(p.events)
              /\ IF dropped' > dropped
                 THEN /\ exhausted' = exhausted \union Places(p.events)
                      /\ UNCHANGED unaryVars
                 ELSE /\ unary' = [unary EXCEPT ![c] = "count"]
                      /\ held' = [held EXCEPT ![c] = Len(stored')]
                      /\ UNCHANGED exhausted
    /\ UNCHANGED <<registryVars, events_processed, streamVars, server>>

(* The Ack is returned. *)
CountEvent(c) ==
    /\ Running /\ unary[c] = "count"
    /\ events_processed' = events_processed + 1
    /\ unary' = [unary EXCEPT ![c] = "idle"]
    /\ held' = [held EXCEPT ![c] = 0]
    /\ UNCHANGED <<intake, registryVars, streamVars, server>>

--------------------------------------------------------------------------------
(* stream_events() and the task it spawns *)

OpenStream(s) ==
    /\ Accepting /\ stream[s] = "closed"
    /\ stream' = [stream EXCEPT ![s] = "recv"]
    /\ listening' = [listening EXCEPT ![s] = TRUE]
    /\ UNCHANGED <<intake, registryVars, events_processed, unaryVars, reply, acks,
                   batches, placed, streamHistory, server>>

(* The next batch, or rather what comes of it: events are pushed, and      *)
(* counted in the next step; a failed or empty batch goes on to its answer. *)
RecvBatch(s) ==
    /\ Running /\ stream[s] = "recv" /\ batches[s] < MaxBatches
    /\ batches' = [batches EXCEPT ![s] = @ + 1]
    /\ \E p \in UNION {ProcessBatch(request) : request \in Requests} :
         /\ reply' = [reply EXCEPT ![s] = Answer(p)]
         /\ placed' = [placed EXCEPT ![s] = Places(p.events)]
         /\ due' = [due EXCEPT ![s] = IF listening[s] THEN Append(@, Answer(p)) ELSE <<>>]
         /\ orphans' = [orphans EXCEPT ![s] =
                          IF ~listening[s] /\ p.status = "ok" THEN @ + 1 ELSE @]
         /\ IF p.events = <<>>
            THEN /\ stream' = [stream EXCEPT ![s] = "send"]
                 /\ UNCHANGED <<ringVars, stored>>
            ELSE /\ stream' = [stream EXCEPT ![s] = "count"]
                 /\ PushEvents(p.events)
    /\ UNCHANGED <<registryVars, events_processed, unaryVars, acks, listening, server,
                   exhausted>>

(* Faulty variant: the batch counts as one. *)
CountBatchOnce(s) ==
    /\ Running /\ stream[s] = "count"
    /\ events_processed' = events_processed + 1
    /\ stream' = [stream EXCEPT ![s] = "send"]
    /\ placed' = [placed EXCEPT ![s] = {}]
    /\ UNCHANGED <<intake, registryVars, unaryVars, reply, acks, listening, batches,
                   streamHistory, server>>

CountBatch(s) ==
    /\ Running /\ stream[s] = "count"
    /\ events_processed' = events_processed + Len(reply[s].event_ids)
    /\ stream' = [stream EXCEPT ![s] = "send"]
    /\ placed' = [placed EXCEPT ![s] = {}]
    /\ UNCHANGED <<intake, registryVars, unaryVars, reply, acks, listening, batches,
                   streamHistory, server>>

(* Faulty variant: an answer is skipped when the channel is full. *)
SendReplyTry(s) ==
    /\ Running /\ stream[s] = "send" /\ listening[s]
    /\ stream' = [stream EXCEPT ![s] = "recv"]
    /\ reply' = [reply EXCEPT ![s] = None]
    /\ IF Len(acks[s]) < AckCapacity
       THEN acks' = [acks EXCEPT ![s] = Append(@, reply[s])]
       ELSE UNCHANGED acks
    /\ UNCHANGED <<intake, registryVars, events_processed, unaryVars, listening,
                   batches, placed, streamHistory, server>>

(* Faulty variant: the channel has no bound. *)
SendReplyUnbounded(s) ==
    /\ Running /\ stream[s] = "send" /\ listening[s]
    /\ acks' = [acks EXCEPT ![s] = Append(@, reply[s])]
    /\ stream' = [stream EXCEPT ![s] = "recv"]
    /\ reply' = [reply EXCEPT ![s] = None]
    /\ UNCHANGED <<intake, registryVars, events_processed, unaryVars, listening,
                   batches, placed, streamHistory, server>>

(* tx.send() waits for room in the channel. *)
SendReply(s) ==
    /\ Running /\ stream[s] = "send" /\ listening[s] /\ Len(acks[s]) < AckCapacity
    /\ acks' = [acks EXCEPT ![s] = Append(@, reply[s])]
    /\ stream' = [stream EXCEPT ![s] = "recv"]
    /\ reply' = [reply EXCEPT ![s] = None]
    /\ UNCHANGED <<intake, registryVars, events_processed, unaryVars, listening,
                   batches, placed, streamHistory, server>>

(* Faulty variant: the result of the send is never looked at. *)
SendFailsUnseen(s) ==
    /\ Running /\ stream[s] = "send" /\ ~listening[s]
    /\ stream' = [stream EXCEPT ![s] = "recv"]
    /\ reply' = [reply EXCEPT ![s] = None]
    /\ UNCHANGED <<intake, registryVars, events_processed, unaryVars, acks, listening,
                   batches, placed, streamHistory, server>>

(* Nobody receives: the loop ends on an Ack, and goes on after an error. *)
SendFails(s) ==
    /\ Running /\ stream[s] = "send" /\ ~listening[s]
    /\ stream' = [stream EXCEPT ![s] = IF reply[s].status = "ok" THEN "ended" ELSE "recv"]
    /\ reply' = [reply EXCEPT ![s] = None]
    /\ UNCHANGED <<intake, registryVars, events_processed, unaryVars, acks, listening,
                   batches, placed, streamHistory, server>>

(* Faulty variant: only a proper end is noticed, not a broken stream. *)
EndStreamProperly(s) ==
    /\ Running /\ stream[s] = "recv" /\ listening[s]
    /\ stream' = [stream EXCEPT ![s] = "ended"]
    /\ UNCHANGED <<intake, registryVars, events_processed, unaryVars, reply, acks,
                   listening, batches, placed, streamHistory, server>>

(* The request stream ends or breaks. *)
EndStream(s) ==
    /\ Running /\ stream[s] = "recv"
    /\ stream' = [stream EXCEPT ![s] = "ended"]
    /\ UNCHANGED <<intake, registryVars, events_processed, unaryVars, reply, acks,
                   listening, batches, placed, streamHistory, server>>

(* External: the client reads an answer ... *)
ReadAnswer(s) ==
    /\ listening[s] /\ acks[s] # <<>>
    /\ acks' = [acks EXCEPT ![s] = Tail(@)]
    /\ due' = [due EXCEPT ![s] = Tail(@)]
    /\ UNCHANGED <<intake, registryVars, events_processed, unaryVars, stream, reply,
                   listening, batches, placed, orphans, server>>

(* ... or goes away, with what it has not read. *)
Disconnect(s) ==
    /\ Running /\ listening[s]
    /\ listening' = [listening EXCEPT ![s] = FALSE]
    /\ acks' = [acks EXCEPT ![s] = <<>>]
    /\ due' = [due EXCEPT ![s] = <<>>]
    /\ UNCHANGED <<intake, registryVars, events_processed, unaryVars, stream, reply,
                   batches, placed, orphans, server>>

--------------------------------------------------------------------------------
(* Delivery, and the end of the process. *)

(* External: the embedding program's loop passes drained events on. *)
Forward ==
    /\ Running /\ ~IsEmpty
    /\ LET batch == Oldest(DrainSize)
       IN  BeginEmit([k \in DOMAIN batch |-> EventFrom(batch[k])])
    /\ Drain(DrainSize)
    /\ UNCHANGED <<events_processed, unaryVars, streamVars, server, stored,
                   exhausted>>

Emit ==
    /\ Running /\ CallEmitter
    /\ UNCHANGED <<intake, events_processed, unaryVars, streamVars, server>>

(* Ctrl+C or SIGTERM; also at once, if the Ctrl+C handler cannot be        *)
(* installed.                                                              *)
Signal ==
    /\ server = "serving"
    /\ server' = "closing"
    /\ closing' = 1
    /\ UNCHANGED <<intake, emitVars, down, events_processed, unaryVars, streamVars>>

CloseEmitter ==
    /\ server = "closing" /\ ShutdownEmitter
    /\ UNCHANGED <<intake, events_processed, unaryVars, streamVars, server>>

(* shutdown_signal() returns only now: until then requests are accepted. *)
StopAccepting ==
    /\ server = "closing" /\ closing > Len(Emitters)
    /\ server' = "stopping"
    /\ UNCHANGED <<intake, registryVars, events_processed, unaryVars, streamVars>>

(* The server has ended the calls in progress, a stream's when its task    *)
(* has ended and all answers are read, and main() returns.                 *)
Exit ==
    /\ server = "stopping"
    /\ \A c \in Caller : unary[c] = "idle"
    /\ \A s \in Stream : listening[s] => stream[s] = "ended" /\ acks[s] = <<>>
    /\ server' = "exited"
    /\ UNCHANGED <<intake, registryVars, events_processed, unaryVars, streamVars>>

UnaryNext(c) == SendEvent(c) \/ CountEvent(c)

StreamTask(s) == CountBatch(s) \/ SendReply(s) \/ SendFails(s)

StreamNext(s) ==
    \/ OpenStream(s) \/ RecvBatch(s) \/ StreamTask(s) \/ EndStream(s)
    \/ ReadAnswer(s) \/ Disconnect(s)

Next ==
    \/ \E c \in Caller : UnaryNext(c)
    \/ \E s \in Stream : StreamNext(s)
    \/ Forward \/ Emit \/ Signal \/ CloseEmitter \/ StopAccepting \/ Exit

(* An emitter's shutdown() ends, and the runtime runs a stream's task when *)
(* it can go on; a client that has gone away has reset its connection, so  *)
(* its request stream breaks.  Nothing else is needed: no answer must be   *)
(* read, no request or signal must come.                                   *)
Fairness ==
    /\ WF_vars(CloseEmitter)
    /\ \A s \in Stream : WF_vars(StreamTask(s)) /\ WF_vars(~listening[s] /\ EndStream(s))

Spec == Init /\ [][Next]_vars /\ Fairness

--------------------------------------------------------------------------------
(* Properties. *)

(* Type correctness; a stream's channel never holds more than its bound. *)
TypeOK ==
    /\ RegistryTypeOK
    /\ \A k \in DOMAIN messages : IsMessage(messages[k])
    /\ events_processed \in 0 .. MaxEvents
    /\ unary \in [Caller -> {"idle", "count"}]
    /\ \A c \in Caller : held[c] = 0 <=> unary[c] = "idle"
    /\ stream \in [Stream -> {"closed", "recv", "count", "send", "ended"}]
    /\ \A s \in Stream : reply[s] = None <=> stream[s] \notin {"count", "send"}
    /\ \A s \in Stream : Len(acks[s]) <= AckCapacity
    /\ server \in {"serving", "closing", "stopping", "exited"}

(* `some` is `all` with elements left out. *)
IsSubsequence(some, all) ==
    \E at \in [DOMAIN some -> DOMAIN all] :
      /\ \A j, k \in DOMAIN some : j < k => at[j] < at[k]
      /\ \A k \in DOMAIN some : some[k] = all[at[k]]

(* The events that have left the buffer. *)
Departed == SubSeq(stored, 1, Len(stored) - Len(messages))

(* Events with these ids were stored next to each other. *)
StoredTogether(ids) ==
    \E p \in 0 .. Len(stored) - Len(ids) : \A k \in DOMAIN ids : ids[k] = stored[p + k].id

(* Each event put into the buffer stays in order with its content through  *)
(* both conversions, and leaves it once: to the emitters, in order, or by  *)
(* an eviction that is counted.  The ids of an Ack still due to a client   *)
(* are those of events that were stored, together and in that order.  All  *)
(* of this however unary calls, streams and the draining loop interleave,  *)
(* and although an event may be sent again.                                *)
AckedStored ==
    LET kept == [k \in DOMAIN messages |-> EventFrom(messages[k])]
    IN  /\ IsSuffix(kept, stored)
        /\ IsSubsequence(handed, Departed)
        /\ Capacity > 0 => Len(stored) = Len(messages) + Len(handed) + dropped
        /\ \A s \in Stream : \A k \in DOMAIN due[s] : StoredTogether(due[s][k].event_ids)

(* server.rs:188, "Buffer full, event dropped": an event whose caller was  *)
(* told this is not in the buffer.                                         *)
DroppedIsDropped == exhausted \subseteq DOMAIN Departed

(* The places of the events whose call is between push and count. *)
Uncounted ==
    {held[c] : c \in {c \in Caller : unary[c] = "count"}}
      \union UNION {placed[s] : s \in {s \in Stream : stream[s] = "count"}}

(* events_processed, which health() reports, is the number of events       *)
(* stored, but for those whose call is still between push and count, and   *)
(* for those whose caller was told that they were dropped.                 *)
ProcessedCount ==
    events_processed + Cardinality(Uncounted) + Cardinality(exhausted) = Len(stored)

(* What a listening client still has to read, and the answer in work, are  *)
(* exactly the answers to its batches, in order: an Ack with the event ids *)
(* or the error.  A full channel delays them, a failed batch holds up none *)
(* behind it, and none is lost or repeated.                                *)
StreamAnswersInOrder ==
    \A s \in Stream : listening[s] =>
      due[s] = acks[s] \o IF reply[s] = None THEN <<>> ELSE <<reply[s]>>

(* server.rs:143 and :170 end the loop when nobody receives the Ack: of a  *)
(* client that has left, at most one good batch is still taken.            *)
OrphansBounded == \A s \in Stream : orphans[s] <= 1

(* The task of a stream whose client has left ends, wherever it was: with  *)
(* a batch in work, waiting for room in the channel, or between batches.   *)
StreamTasksEnd ==
    \A s \in Stream :
      (stream[s] # "closed" /\ ~listening[s]) ~> (stream[s] = "ended" \/ server = "exited")

(* main.rs:113, "Graceful shutdown of emitters": after the signal every    *)
(* emitter is shut down, although one of them fails to.                    *)
EmittersShutDown == (server = "closing") ~> (down = DOMAIN Emitters)
================================================================================
