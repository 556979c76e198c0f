------------------------------- MODULE Aggregator -------------------------------
(***************************************************************************)
(* The aggregator of gateway/src/middleware/aggregator.rs: messages are    *)
(* held in a mutex-protected buffer until there are batch_size of them,    *)
(* then one message made of all of them goes on.  The push and the take    *)
(* are under one lock, so process() is one step; combine() runs after the  *)
(* lock on messages nobody else can reach.                                 *)
(***************************************************************************)
EXTENDS Messages

CONSTANT BatchSize      \* new() panics on 0

CountKey == "polku.aggregator.count"

(* What is written out in the code, or formatted, is a string. *)
ASSUME AggregatorAssumption ==
    /\ BatchSize \in Nat \ {0}
    /\ {"", "newline", "aggregate", "aggregated", CountKey} \subseteq STRING
    /\ \A n \in 1 .. BatchSize : ToString(n) \in STRING

AggregateStrategy == {"JsonArray", "Concat", "Last", "First"}

VARIABLE buffer         \* messages held for an incomplete batch

VARIABLE batches        \* History: what was combined, and into what

aggregatorVars == <<buffer, batches>>

AggregatorInit == buffer = <<>> /\ batches = <<>>

--------------------------------------------------------------------------------
(* combine() *)

(* A message's entry in the JSON array: its JSON value, else its text; a   *)
(* payload that is neither becomes the empty string.                       *)
JsonEntry(m) == IF m.payload.form \in {"json", "text"} THEN m.payload.content ELSE <<"">>

(* Lines of text.  One JSON document is still one with a newline behind it. *)
ConcatForm(parts) ==
    LET forms == [i \in DOMAIN parts |-> parts[i].payload.form]
        lines == Keep(forms, Form \ {"empty"})
    IN  IF "binary" \in ToSet(forms) THEN "binary"
        ELSE IF lines = <<"json">> THEN "json" ELSE "text"

Lines(parts) == [m \in ToSet(parts) |-> Append(m.payload.content, "newline")]

CombinedPayload(strategy, parts) ==
    CASE strategy = "JsonArray" ->
           [form |-> "json",
            content |-> Gather(parts, [m \in ToSet(parts) |-> JsonEntry(m)])]
      [] strategy = "Concat" ->
           [form |-> ConcatForm(parts), content |-> Gather(parts, Lines(parts))]
      [] strategy = "Last"  -> Last(parts).payload
      [] strategy = "First" -> Head(parts).payload

(* Faulty variant: the first message wins on conflict. *)
MergedMetadataFirst(parts) ==
    FoldLeft(LAMBDA md, m : Extend(m.metadata, md), NoMetadata, parts)

(* The last message wins on conflict. *)
MergedMetadata(parts) ==
    FoldLeft(LAMBDA md, m : Extend(md, m.metadata), NoMetadata, parts)

CommonSource(parts) ==
    IF \A i \in DOMAIN parts : parts[i].source = parts[1].source
    THEN parts[1].source ELSE "aggregated"

(* Collected, sorted and deduplicated. *)
MergedRoutes(parts) ==
    SetToSeq(UNION {ToSet(parts[i].route_to) : i \in DOMAIN parts})

Combine(strategy, parts, id) ==
    [id |-> id,
     source |-> CommonSource(parts),
     message_type |-> Append(parts[1].message_type, "aggregate"),
     metadata |-> Extend(MergedMetadata(parts), [k \in {CountKey} |-> ToString(Len(parts))]),
     payload |-> CombinedPayload(strategy, parts),
     route_to |-> MergedRoutes(parts),
     of |-> UNION {parts[i].of : i \in DOMAIN parts}]

--------------------------------------------------------------------------------
(* process() and flush() *)

(* The generator's fresh id, told apart by an input: each is in one batch, *)
(* and no stage sees both inputs and batches.                              *)
FreshId(parts) == ToString(CHOOSE n \in parts[1].of : TRUE)

Record(strategy, parts) ==
    batches' = Append(batches, [parts |-> parts, strategy |-> strategy,
                                whole |-> Combine(strategy, parts, FreshId(parts))])

(* Faulty variant: the batch is copied out of the buffer, which keeps it. *)
CopyBatch(strategy, parts) ==
    /\ Record(strategy, parts)
    /\ buffer' = parts

TakeBatch(strategy, parts) ==
    /\ Record(strategy, parts)
    /\ buffer' = <<>>

Hold(m) ==
    /\ Len(buffer) + 1 < BatchSize
    /\ buffer' = Append(buffer, m)
    /\ UNCHANGED batches

Complete(strategy, m) ==
    /\ Len(buffer) + 1 >= BatchSize
    /\ TakeBatch(strategy, Append(buffer, m))

Flush(strategy) ==
    /\ buffer # <<>>
    /\ TakeBatch(strategy, buffer)

(* What the last of them returned. *)
LastWhole == Last(batches).whole

--------------------------------------------------------------------------------
(* Properties. *)

AggregatorTypeOK ==
    /\ Len(buffer) < BatchSize
    /\ \A i \in DOMAIN buffer : IsMessage(buffer[i])
    /\ \A i \in DOMAIN batches : IsMessage(batches[i].whole)

(* An output the batch is routed to is one that some part was for, and     *)
(* every explicit route of a part is one of the batch's, once.             *)
RoutesOfParts(b) ==
    LET routes == UNION {ToSet(b.parts[i].route_to) : i \in DOMAIN b.parts}
    IN  /\ \A e \in routes \union {"elsewhere"} :
             ShouldRouteTo(b.whole, e) => \E i \in DOMAIN b.parts : ShouldRouteTo(b.parts[i], e)
        /\ ToSet(b.whole.route_to) = routes
        /\ Len(b.whole.route_to) = Cardinality(routes)

(* The batch's metadata has the keys of the parts', and a key has the      *)
(* value of the last part that has it (aggregator.rs:21, "last message     *)
(* wins"); only the count is the aggregator's own.                         *)
MetadataOfLast(b) ==
    /\ DOMAIN b.whole.metadata
         = {CountKey} \union UNION {DOMAIN b.parts[i].metadata : i \in DOMAIN b.parts}
    /\ \A i \in DOMAIN b.parts : \A k \in DOMAIN b.parts[i].metadata :
         \/ k = CountKey
         \/ \E j \in DOMAIN b.parts : j > i /\ k \in DOMAIN b.parts[j].metadata
         \/ b.whole.metadata[k] = b.parts[i].metadata[k]

(* Each text is in `whole`, in one piece and behind the one before it. *)
InOrder(text, whole) ==
    \E from \in [DOMAIN text -> 0 .. Len(whole)] :
      /\ \A i \in DOMAIN text : \A k \in DOMAIN text[i] :
           from[i] + k <= Len(whole) /\ whole[from[i] + k] = text[i][k]
      /\ \A i, j \in DOMAIN text : i < j => from[i] + Len(text[i]) <= from[j]

(* Under the strategies that combine payloads (aggregator.rs:40-44) the    *)
(* payload of every part is in the batch in one piece, each behind the one *)
(* before it; in a JSON array one that is not text is left out.            *)
PayloadsKept(b) ==
    b.strategy \in {"JsonArray", "Concat"} =>
      LET whole == b.whole.payload.content
          text == [i \in DOMAIN b.parts |-> IF b.strategy = "Concat" \/ IsUtf8(b.parts[i])
                                           THEN b.parts[i].payload.content ELSE <<>>]
      IN  InOrder(text, whole)

(* A batch stands for its parts: an output it is routed to is one that     *)
(* some part was for, every explicit route of a part survives the merge    *)
(* once, conflicting metadata is resolved in arrival order and no text is  *)
(* lost or reordered.                                                      *)
BatchSpeaksForParts ==
    \A n \in DOMAIN batches :
      /\ RoutesOfParts(batches[n]) /\ MetadataOfLast(batches[n]) /\ PayloadsKept(batches[n])

(* message.rs:60, "If empty, message goes to all outputs": what was for an *)
(* output, as a part of a batch still is.                                  *)
BroadcastKept ==
    \A n \in DOMAIN batches : \A i \in DOMAIN batches[n].parts :
      \A e \in ToSet(batches[n].whole.route_to) \union {"elsewhere"} :
        ShouldRouteTo(batches[n].parts[i], e) => ShouldRouteTo(batches[n].whole, e)
================================================================================
