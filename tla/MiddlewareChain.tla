----------------------------- MODULE MiddlewareChain -----------------------------
(***************************************************************************)
(* The middleware chain of gateway/src/middleware/mod.rs, over stages of   *)
(* every kind.  process(&self) may be called by several tasks at once (the *)
(* middleware is Send + Sync and synchronises itself); the Hub's runner is *)
(* the case of one task.  Each task carries one message through the        *)
(* stages; a stage without shared state is one step, the others take the   *)
(* steps of their modules.                                                 *)
(***************************************************************************)
EXTENDS Throttle, Deduplicator, Sampler, Aggregator

CONSTANTS
    Chains,             \* the configurations: sequences of stages
    Inputs(_),          \* the messages the callers of a chain bring
    MaxMessages,        \* bound: messages brought in all
    Idle                \* a task without a message

Stateful == {"throttle", "deduplicator", "sampler", "aggregator"}

(* A stage and the types of what it is configured with. *)
IsStage(stage) ==
    /\ stage.mw \in Pure \union Stateful
    /\ stage.mw = "transform" => stage.message_type \in Seq(STRING)
    /\ stage.mw = "router" =>
         /\ Len(stage.rules) \in Nat
         /\ \A i \in 1 .. Len(stage.rules) : stage.rules[i].targets \in Seq(STRING)
    /\ stage.mw = "enricher" => IsMetadata(stage.metadata)
    /\ stage.mw = "aggregator" => stage.strategy \in AggregateStrategy

(* "aggregated" is the source of a batch whose parts differ in theirs.  A  *)
(* chain has one stage of each stateful kind: the state is that stage's.   *)
ASSUME ChainAssumption ==
    /\ "aggregated" \in Source
    /\ MaxMessages \in Nat /\ \A n \in 1 .. MaxMessages : ToString(n) \in STRING
    /\ \A stages \in Chains :
         /\ Len(stages) \in Nat /\ DOMAIN stages = 1 .. Len(stages)
         /\ \A i \in DOMAIN stages : IsStage(stages[i])
         /\ \A i, j \in DOMAIN stages :
              stages[i].mw = stages[j].mw /\ stages[i].mw \in Stateful => i = j
         /\ \A m \in Inputs(stages) : IsMessage(m) /\ m.source \in Source

VARIABLES
    chain,              \* the configuration, fixed at the start
    hand,               \* the message each task carries
    at                  \* the stage each task has reached; 0 without a message

(* History: messages brought in, the inputs that were filtered, and how    *)
(* often each input has left the chain.                                    *)
VARIABLES taken, filtered, delivered

taskVars == <<hand, at, taken, filtered, delivered>>
vars == <<now, throttleVars, dedupVars, samplerVars, aggregatorVars, chain, taskVars>>

Init ==
    /\ ClockInit /\ ThrottleInit /\ DedupInit /\ SamplerInit /\ AggregatorInit
    /\ chain \in Chains
    /\ hand = [t \in Task |-> Idle]
    /\ at = [t \in Task |-> 0]
    /\ taken = 0
    /\ filtered = {}
    /\ delivered = [n \in 1 .. MaxMessages |-> 0]

--------------------------------------------------------------------------------
(* MiddlewareChain::process(): what becomes of a message between stages. *)

Stage(t) == chain[at[t]]

AtStage(t, kind) == at[t] # 0 /\ Stage(t).mw = kind

Release(t) ==
    /\ hand' = [hand EXCEPT ![t] = Idle]
    /\ at' = [at EXCEPT ![t] = 0]

Deliver(m) ==
    delivered' = [n \in DOMAIN delivered |-> delivered[n] + IF n \in m.of THEN 1 ELSE 0]

(* Some(msg) goes to the next stage, or is the chain's result. *)
Advance(t, m) ==
    IF at[t] = Len(chain)
    THEN Release(t) /\ Deliver(m)
    ELSE /\ hand' = [hand EXCEPT ![t] = m]
         /\ at' = [at EXCEPT ![t] = @ + 1]
         /\ UNCHANGED delivered

(* None ends it: `?` returns at once. *)
Filter(t) ==
    /\ filtered' = filtered \union hand[t].of
    /\ Release(t)
    /\ UNCHANGED <<taken, delivered>>

Return(t, ok) ==
    IF ok THEN Advance(t, hand[t]) /\ UNCHANGED <<taken, filtered>> ELSE Filter(t)

(* A caller brings a message. *)
Bring(t) ==
    /\ at[t] = 0 /\ taken < MaxMessages
    /\ taken' = taken + 1
    /\ \E m \in Inputs(chain) : Advance(t, [m EXCEPT !.of = {taken + 1}])
    /\ UNCHANGED <<now, throttleVars, dedupVars, samplerVars, aggregatorVars, chain, filtered>>

PureStage(t) ==
    /\ at[t] # 0 /\ Stage(t).mw \in Pure
    /\ LET out == Processed(Stage(t), hand[t])
       IN  IF out = <<>> THEN Filter(t)
           ELSE Advance(t, out[1]) /\ UNCHANGED <<taken, filtered>>
    /\ UNCHANGED <<now, throttleVars, dedupVars, samplerVars, aggregatorVars, chain>>

ThrottleStage(t) ==
    /\ AtStage(t, "throttle")
    /\ \/ Miss(t, hand[t].source) /\ UNCHANGED taskVars
       \/ \E ok \in BOOLEAN : ThrottleAnswers(t, hand[t].source, ok) /\ Return(t, ok)
    /\ UNCHANGED <<now, dedupVars, samplerVars, aggregatorVars, chain>>

DedupStage(t) ==
    /\ AtStage(t, "deduplicator")
    /\ \/ DedupAdvances(t) /\ UNCHANGED taskVars
       \/ FirstSight(t, hand[t].id) /\ Return(t, TRUE)
       \/ Duplicate(t, hand[t].id) /\ Return(t, FALSE)
    /\ UNCHANGED <<now, throttleVars, samplerVars, aggregatorVars, chain>>

SamplerStage(t) ==
    /\ AtStage(t, "sampler")
    /\ \/ (LoadState(t) \/ SwapFails(t)) /\ UNCHANGED taskVars
       \/ \E keep \in BOOLEAN : SwapState(t, keep, Stage(t).threshold) /\ Return(t, keep)
    /\ UNCHANGED <<now, throttleVars, dedupVars, aggregatorVars, chain>>

(* A held message is None to the chain, like a filtered one. *)
AggregatorStage(t) ==
    /\ AtStage(t, "aggregator")
    /\ \/ Hold(hand[t]) /\ Release(t) /\ UNCHANGED delivered
       \/ Complete(Stage(t).strategy, hand[t]) /\ Advance(t, LastWhole')
    /\ UNCHANGED <<now, throttleVars, dedupVars, samplerVars, chain, taken, filtered>>

(* External: the owner of the aggregator calls flush() and takes what it   *)
(* returns; nothing in the gateway does.                                   *)
FlushPending ==
    /\ \E i \in DOMAIN chain : chain[i].mw = "aggregator" /\ Flush(chain[i].strategy)
    /\ Deliver(LastWhole')
    /\ UNCHANGED <<now, throttleVars, dedupVars, samplerVars, chain, hand, at, taken, filtered>>

Time ==
    /\ Tick
    /\ UNCHANGED <<throttleVars, dedupVars, samplerVars, aggregatorVars, chain, taskVars>>

Next ==
    \/ Time \/ FlushPending
    \/ \E t \in Task :
         \/ Bring(t) \/ PureStage(t) \/ ThrottleStage(t) \/ DedupStage(t)
         \/ SamplerStage(t) \/ AggregatorStage(t)

Spec == Init /\ [][Next]_vars

--------------------------------------------------------------------------------
(* Properties. *)

(* Type correctness of the chain and of every stage's state. *)
TypeOK ==
    /\ now \in 0 .. MaxTime
    /\ ThrottleTypeOK /\ DedupTypeOK /\ SamplerTypeOK /\ AggregatorTypeOK
    /\ chain \in Chains
    /\ \A t \in Task : IF at[t] = 0 THEN hand[t] = Idle
                       ELSE IsMessage(hand[t]) /\ at[t] \in DOMAIN chain
    /\ taken \in 0 .. MaxMessages
    /\ filtered \subseteq 1 .. taken
    /\ delivered \in [1 .. MaxMessages -> Nat]

Times(n) ==
      Quantify(Task, LAMBDA t : at[t] # 0 /\ n \in hand[t].of)
    + Quantify(DOMAIN buffer, LAMBDA i : n \in buffer[i].of)
    + (IF n \in filtered THEN 1 ELSE 0)
    + delivered[n]

(* No message is lost or duplicated on its way: each one that was brought  *)
(* is in exactly one place, with a task, held by the aggregator, filtered  *)
(* by a stage, or delivered, on its own or as part of one batch, although  *)
(* the tasks share the stages' state and flush() may come at any time.     *)
EveryMessageOnce == \A n \in 1 .. taken : Times(n) = 1
================================================================================
