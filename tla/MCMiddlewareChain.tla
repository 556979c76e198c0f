--------------------------- MODULE MCMiddlewareChain ---------------------------
(* Instances of MiddlewareChain: the messages callers bring, and chains    *)
(* that between them have every kind of stage.                             *)
EXTENDS MiddlewareChain

PayloadOf(form, pieces) == [form |-> form, content |-> pieces]

Routed ==
    WithRoutes(WithMetadata(NewMessage("a", "s1", <<"user", "created">>, PayloadOf("json", <<"x">>)),
                            "tenant" :> "acme"),
               <<"kafka", "metrics">>)
Broadcast ==
    WithMetadata(NewMessage("b", "s2", <<"user">>, PayloadOf("text", <<"y">>)), "tenant" :> "zeta")
Binary == NewMessage("b", "s2", <<"order">>, PayloadOf("binary", <<"z">>))
Empty == NewMessage("a", "s1", <<"order">>, PayloadOf("empty", <<>>))

Throttling == [mw |-> "throttle"]
Deduplicating == [mw |-> "deduplicator"]
Sampling == [mw |-> "sampler", threshold |-> {63}]       \* rate 0.5
Aggregating(strategy) == [mw |-> "aggregator", strategy |-> strategy]
Validating(property, action) ==
    [mw |-> "validator", check |-> property, max_bytes |-> 1, on_invalid |-> action]
Routing ==
    [mw |-> "router",
     rules |-> <<[on |-> "source", source |-> "s2", targets |-> <<"kafka">>],
                 [on |-> "type_prefix", prefix |-> <<"user">>, targets |-> <<"users", "metrics">>]>>]
Enriching == [mw |-> "enricher", metadata |-> "region" :> "eu" @@ "tenant" :> "common"]

MCChains ==
    {<<>>,
     <<Throttling, Sampling>>,
     <<Deduplicating>>,
     <<Validating("non_empty", "Drop"), [mw |-> "filter", sources |-> {"s1"}],
       [mw |-> "transform", message_type |-> <<"seen">>], [mw |-> "passthrough"]>>,
     <<Routing, Aggregating("Concat"), Enriching>>,
     <<Validating("json", "Tag"), Aggregating("JsonArray"), Validating("max_size", "Drop")>>,
     <<Sampling, Aggregating("Last")>>,
     <<Aggregating("First"), [mw |-> "router", rules |-> <<[on |-> "default", targets |-> <<"kafka">>]>>]>>}

(* The throttle and the deduplicator look at nothing but source and id:    *)
(* two messages do for them.                                               *)
MCInputs(stages) ==
    {Routed, Broadcast}
      \union IF \E i \in DOMAIN stages : stages[i] \in {Throttling, Deduplicating}
             THEN {} ELSE {Binary, Empty}

LruInputs(stages) ==
    {NewMessage("a", s, <<"order">>, PayloadOf("empty", <<>>)) : s \in Source \ {"aggregated"}}
LruChains == {<<Throttling>>}

BroadcastChains == {<<Aggregating("JsonArray")>>}

MCSeed == {1, 5, 40}

Symmetry == Permutations(Task)
================================================================================
