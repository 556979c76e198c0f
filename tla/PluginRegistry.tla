----------------------------- MODULE PluginRegistry -----------------------------
(***************************************************************************)
(* The plugin registry of gateway/src/registry.rs and the emitters behind  *)
(* it: emit_with_routing() as a loop that awaits one emitter after the     *)
(* other, ingest() as a choice among what an ingestor may return, and      *)
(* shutdown().  An emitter's name is that of its type: "stdout"            *)
(* (emit/stdout.rs), "webhook" (emit/webhook.rs), or any other Emitter     *)
(* (emit/mod.rs), so two webhooks share a name.                            *)
(***************************************************************************)
EXTENDS Selection

CONSTANTS
    Emitters,           \* the names of the registered emitters, in order
    Ingestors           \* the sources that have an ingestor

ASSUME RegistryAssumption == Emitters \in Seq(STRING)

VARIABLES
    calls,              \* emit_with_routing(): the calls of emit() its loops have left
    emitted_count,      \* StdoutEmitter's count, by emitter
    closing             \* shutdown(): the emitter its loop has reached

(* History: all events handed to emit_with_routing(), the events each      *)
(* emitter was called with, and the emitters that were shut down.          *)
VARIABLES handed, offered, down

emitVars == <<calls, emitted_count, handed, offered>>
registryVars == <<emitVars, closing, down>>

RegistryInit ==
    /\ calls = <<>>
    /\ emitted_count = [i \in DOMAIN Emitters |-> 0]
    /\ closing = 0
    /\ handed = <<>>
    /\ offered = [i \in DOMAIN Emitters |-> <<>>]
    /\ down = {}

--------------------------------------------------------------------------------
(* ingest() *)

PluginError == {"Init", "Transform", "Send", "Connection", "NotReady", "Shutdown"}

(* An ingestor decodes the bytes into `events`, or fails in its own way. *)
IngestorResults(events) ==
    [error : {"none"}, events : {events}] \union [error : PluginError, events : {<<>>}]

(* Without an ingestor for the source there is an error. *)
Ingest(source, events) ==
    IF source \in Ingestors THEN IngestorResults(events)
    ELSE {[error |-> "Transform", events |-> <<>>]}

--------------------------------------------------------------------------------
(* The emitters. *)

(* reqwest's outcome decides: a success status, another status, or none    *)
(* (refused, timed out).                                                   *)
WebhookResult(response) ==
    CASE response = "success" -> "Ok"
      [] response = "status"  -> "Send"
      [] response = "none"    -> "Connection"

(* What emit() returns.  Writing to stdout fails silently. *)
EmitResults(name) ==
    CASE name = "stdout"  -> {"Ok"}
      [] name = "webhook" -> {WebhookResult(r) : r \in {"success", "status", "none"}}
      [] OTHER            -> {"Ok"} \union PluginError

(* What is printed is left out. *)
StdoutCount(name, count, events) == IF name = "stdout" THEN count + Len(events) ELSE count

(* The trait's shutdown() does nothing, and those two emitters keep it. *)
ShutdownResults(name) ==
    IF name \in {"stdout", "webhook"} THEN {"Ok"} ELSE {"Ok"} \union PluginError

--------------------------------------------------------------------------------
(* emit_with_routing() *)

Broadcast(events) == Keep(events, {e \in ToSet(events) : e.route_to = <<>>})

Routed(events) == Keep(events, {e \in ToSet(events) : e.route_to # <<>>})

(* An event is entered under each of its routes: twice if one is repeated. *)
Copies(event, name) == [hit \in DOMAIN Keep(event.route_to, {name}) |-> event]

RoutedTo(events, name) == Gather(events, [e \in ToSet(events) |-> Copies(e, name)])

(* One call for each emitter whose share of the events is not empty. *)
CallsOf(share) ==
    LET all == [i \in DOMAIN Emitters |-> [emitter |-> i, events |-> share[i]]]
    IN  Keep(all, {call \in ToSet(all) : call.events # <<>>})

(* The two loops: emit_to_all() with the broadcast events, if there are    *)
(* any, then each emitter that has events under its name.                  *)
Plan(events) ==
    CallsOf([i \in DOMAIN Emitters |-> Broadcast(events)])
      \o CallsOf([i \in DOMAIN Emitters |-> RoutedTo(events, Emitters[i])])

BeginEmit(events) ==
    /\ calls = <<>>
    /\ calls' = Plan(events)
    /\ handed' = handed \o events
    /\ UNCHANGED <<emitted_count, offered, closing, down>>

(* Faulty variant: an error ends the round. *)
AfterEmitStops(result) == IF result = "Ok" THEN Tail(calls) ELSE <<>>

(* An error is logged and the next emitter has its turn; the number of     *)
(* successes, which emit_with_routing() returns, is left out.              *)
AfterEmit(result) == Tail(calls)

CallEmitter ==
    /\ calls # <<>>
    /\ LET i == Head(calls).emitter
           events == Head(calls).events
       IN  /\ calls' \in {AfterEmit(result) : result \in EmitResults(Emitters[i])}
           /\ offered' = [offered EXCEPT ![i] = @ \o events]
           /\ emitted_count' = [emitted_count EXCEPT ![i] =
                                  StdoutCount(Emitters[i], @, events)]
    /\ UNCHANGED <<handed, closing, down>>

--------------------------------------------------------------------------------
(* shutdown() *)

(* Faulty variant: an error ends the loop. *)
AfterShutdownStops(result) == IF result = "Ok" THEN closing + 1 ELSE Len(Emitters) + 1

(* An error is logged and the next emitter has its turn. *)
AfterShutdown(result) == closing + 1

ShutdownEmitter ==
    /\ closing \in DOMAIN Emitters
    /\ closing' \in {AfterShutdown(result) : result \in ShutdownResults(Emitters[closing])}
    /\ down' = down \union {closing}
    /\ UNCHANGED emitVars

--------------------------------------------------------------------------------
(* Properties. *)

RegistryTypeOK ==
    /\ \A k \in DOMAIN calls : calls[k].emitter \in DOMAIN Emitters /\ calls[k].events # <<>>
    /\ emitted_count \in [DOMAIN Emitters -> Nat]
    /\ closing \in 0 .. Len(Emitters) + 1
    /\ down \subseteq DOMAIN Emitters

(* registry.rs:138-139, "Events are sent only to emitters whose names      *)
(* match the route_to field. If route_to is empty, sends to all emitters": *)
(* between calls, each emitter has been called with exactly the broadcast  *)
(* events and its own routed ones, each group in order, whatever the       *)
(* others answered (registry.rs:95-96, "Failures are logged but don't stop *)
(* delivery to other emitters"); a repeated route is a repeated delivery.  *)
(* The stdout emitter has counted what it printed.                         *)
RegistryFanOut ==
    calls = <<>> =>
      \A i \in DOMAIN Emitters :
        /\ Broadcast(offered[i]) = Broadcast(handed)
        /\ Routed(offered[i]) = RoutedTo(handed, Emitters[i])
        /\ Emitters[i] = "stdout" => emitted_count[i] = Len(offered[i])
================================================================================
