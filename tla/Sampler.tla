--------------------------------- MODULE Sampler ---------------------------------
(***************************************************************************)
(* The probabilistic sampler of gateway/src/middleware/sampler.rs: a       *)
(* xorshift64 state in one atomic, advanced by a compare-and-swap loop.    *)
(* compare_exchange_weak may fail for no reason, so a failing exchange has *)
(* no guard.                                                               *)
(***************************************************************************)
EXTENDS TaskClock, Xorshift64, Sequences

CONSTANTS
    Seed,               \* the word the sampler is seeded with
    NotLoaded           \* next_random() has loaded nothing yet

ASSUME SamplerAssumption == Seed \in SUBSET Bit

VARIABLES
    prng,               \* the atomic state
    loaded              \* the `old` of each task

VARIABLE drawn          \* History: the numbers next_random() returned

samplerVars == <<prng, loaded, drawn>>

SamplerInit ==
    /\ prng = Seeded(Seed)
    /\ loaded = [t \in Task |-> NotLoaded]
    /\ drawn = <<>>

LoadState(t) ==
    /\ loaded[t] = NotLoaded
    /\ loaded' = [loaded EXCEPT ![t] = prng]
    /\ UNCHANGED <<prng, drawn>>

(* Faulty variant: the next state is stored, not exchanged. *)
StoreState(t, keep, threshold) ==
    /\ loaded[t] # NotLoaded
    /\ prng' = Xorshift(loaded[t])
    /\ drawn' = Append(drawn, prng')
    /\ keep = AtMost(prng', threshold)
    /\ loaded' = [loaded EXCEPT ![t] = NotLoaded]

(* The exchange succeeds; should_sample() compares what it returns. *)
SwapState(t, keep, threshold) ==
    /\ loaded[t] # NotLoaded /\ prng = loaded[t]
    /\ prng' = Xorshift(loaded[t])
    /\ drawn' = Append(drawn, prng')
    /\ keep = AtMost(prng', threshold)
    /\ loaded' = [loaded EXCEPT ![t] = NotLoaded]

SwapFails(t) ==
    /\ loaded[t] # NotLoaded
    /\ loaded' = [loaded EXCEPT ![t] = NotLoaded]
    /\ UNCHANGED <<prng, drawn>>

--------------------------------------------------------------------------------
(* Properties. *)

SamplerTypeOK ==
    /\ prng \in SUBSET Bit
    /\ \A t \in Task : loaded[t] = NotLoaded \/ loaded[t] \in SUBSET Bit
    /\ drawn \in Seq(SUBSET Bit)

(* sampler.rs:14, "Thread-safe using atomic xorshift64 PRNG": whoever      *)
(* draws, the numbers together are one run of the generator from the seed, *)
(* none skipped, none drawn twice and none zero, so concurrency does not   *)
(* bias the sample.                                                        *)
RandomStream ==
    LET state == <<Seeded(Seed)>> \o drawn
    IN  /\ prng = state[Len(state)]
        /\ \A i \in 1 .. Len(drawn) : drawn[i] = Xorshift(state[i]) /\ drawn[i] # {}
================================================================================
