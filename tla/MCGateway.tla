------------------------------- MODULE MCGateway -------------------------------
(* An instance of Gateway: a broadcast event, and one for two of the       *)
(* emitters, one of them twice.                                            *)
EXTENDS Gateway

MCEmitters == <<"webhook", "plugin", "stdout">>

MCEventTo(route, id) ==
    [id |-> id, source |-> "agent", event_type |-> <<"log">>,
     metadata |-> NoMetadata, payload |-> [form |-> "text", content |-> <<"x">>],
     route_to |-> route]

MCEvent == {MCEventTo(<<>>, "1"), MCEventTo(<<"plugin", "stdout", "plugin">>, "2")}
================================================================================
