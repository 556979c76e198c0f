-------------------------------- MODULE Messages --------------------------------
(***************************************************************************)
(* The envelope of gateway/src/message.rs and the stateless middleware     *)
(* that look at it or change it: middleware/{mod,validator,router,         *)
(* enricher}.rs.  A stage of a chain is a record: its kind and what it was *)
(* configured with.  What a stage returns is a sequence of no message      *)
(* (filtered) or one.                                                      *)
(*                                                                         *)
(* A payload is its form and the pieces of content it is made of, one unit *)
(* of length each; a message type is the sequence of its dotted parts;     *)
(* timestamps and the wording of errors are left out.                      *)
(***************************************************************************)
EXTENDS Selection, TLC

Form == {"empty", "json", "text", "binary"}

Payload ==
    {p \in [form : Form, content : Seq(STRING)] : p.form = "empty" => p.content = <<>>}

IsMetadata(md) == DOMAIN md \subseteq STRING /\ md \in [DOMAIN md -> STRING]

NoMetadata == <<>>

(* `of` is history: the numbers of the inputs that the message carries.    *)
IsEnvelope(m) ==
    m = [id |-> m.id, source |-> m.source, message_type |-> m.message_type,
         metadata |-> m.metadata, payload |-> m.payload, route_to |-> m.route_to, of |-> m.of]

IsMessage(m) ==
    /\ IsEnvelope(m)
    /\ {m.id, m.source} \subseteq STRING /\ IsMetadata(m.metadata)
    /\ {m.message_type, m.route_to} \subseteq Seq(STRING)
    /\ m.payload \in Payload
    /\ m.of \subseteq Nat

(* Message::with_id; Message::new differs in taking a fresh id. *)
NewMessage(id, source, message_type, payload) ==
    [id |-> id, source |-> source, message_type |-> message_type,
     metadata |-> NoMetadata, payload |-> payload, route_to |-> <<>>, of |-> {}]

(* HashMap::extend: the new value of a key replaces the old one. *)
Extend(map, entries) ==
    [k \in DOMAIN map \union DOMAIN entries |->
       IF k \in DOMAIN entries THEN entries[k] ELSE map[k]]

(* with_metadata, and every other insertion. *)
WithMetadata(m, md) == [m EXCEPT !.metadata = Extend(@, md)]

WithRoutes(m, routes) == [m EXCEPT !.route_to = routes]

ShouldRouteTo(m, output) == m.route_to = <<>> \/ output \in ToSet(m.route_to)

(* Faulty variant: the routes are lost on the way. *)
MessageFromUnrouted(event) ==
    [id |-> event.id, source |-> event.source, message_type |-> event.event_type,
     metadata |-> event.metadata, payload |-> event.payload, route_to |-> <<>>,
     of |-> {}]

(* The conversions from and to the protocol's Event, whose fields have     *)
(* other names.                                                            *)
MessageFrom(event) ==
    [id |-> event.id, source |-> event.source, message_type |-> event.event_type,
     metadata |-> event.metadata, payload |-> event.payload, route_to |-> event.route_to,
     of |-> {}]

EventFrom(m) ==
    [id |-> m.id, source |-> m.source, event_type |-> m.message_type,
     metadata |-> m.metadata, payload |-> m.payload, route_to |-> m.route_to]

PayloadLen(m) == Len(m.payload.content)

IsUtf8(m) == m.payload.form # "binary"

IsJson(m) == m.payload.form = "json"

--------------------------------------------------------------------------------
(* Middleware without state of its own. *)

Filtered(keeps, m) == IF keeps THEN <<m>> ELSE <<>>

(* Validator::json, non_empty and max_size. *)
Valid(stage, m) ==
    CASE stage.check = "json"      -> IsJson(m)
      [] stage.check = "non_empty" -> PayloadLen(m) > 0
      [] stage.check = "max_size"  -> PayloadLen(m) <= stage.max_bytes

InvalidTag ==
    [k \in {"polku.validator.error", "polku.validator.valid"} |->
       IF k = "polku.validator.valid" THEN "false" ELSE "reason"]

(* What is written out in the code is a string, which TLC evaluates and    *)
(* the proofs use.                                                         *)
ASSUME TagAssumption ==
    {"polku.validator.error", "polku.validator.valid", "reason", "false"} \subseteq STRING

Validate(stage, m) ==
    IF Valid(stage, m) THEN <<m>>
    ELSE IF stage.on_invalid = "Drop" THEN <<>> ELSE <<WithMetadata(m, InvalidTag)>>

(* The rules of Router: by source, by prefix of the type, or the default.  *)
(* A type is the sequence of the pieces it is made of, cut so finely that  *)
(* every rule's prefix is a sequence of whole pieces; starts_with is then  *)
(* IsPrefix.                                                               *)
Matches(rule, m) ==
    CASE rule.on = "source"      -> m.source = rule.source
      [] rule.on = "type_prefix" -> IsPrefix(rule.prefix, m.message_type)
      [] rule.on = "default"     -> TRUE

(* The first rule that matches decides; without one the routes stay. *)
Route(stage, m) ==
    LET first == SelectInSeq(stage.rules, LAMBDA rule : Matches(rule, m))
    IN  <<IF first = 0 THEN m ELSE WithRoutes(m, stage.rules[first].targets)>>

(* enrich_fn's answer is the stage's; its await ends with the stage. *)
Enrich(stage, m) == <<WithMetadata(m, stage.metadata)>>

Pure == {"passthrough", "filter", "transform", "validator", "router", "enricher"}

Processed(stage, m) ==
    CASE stage.mw = "passthrough" -> <<m>>
      [] stage.mw = "filter"      -> Filtered(m.source \in stage.sources, m)
      [] stage.mw = "transform"   -> <<[m EXCEPT !.message_type = stage.message_type]>>
      [] stage.mw = "validator"   -> Validate(stage, m)
      [] stage.mw = "router"      -> Route(stage, m)
      [] stage.mw = "enricher"    -> Enrich(stage, m)
================================================================================
