------------------------------- MODULE TokenBucket -------------------------------
(***************************************************************************)
(* The lock-free token bucket of gateway/src/middleware/rate_limiter.rs    *)
(* (the per-source buckets of throttle.rs are the same code), used by      *)
(* threads that call try_acquire() concurrently.                           *)
(*                                                                         *)
(* The shared state is two atomics, `tokens` and `last_refill`; a step is  *)
(* one atomic access, or the reading of the clock.  compare_exchange_weak  *)
(* may fail for no reason, so a failing exchange has no guard.             *)
(***************************************************************************)
EXTENDS Integers, FiniteSets

CONSTANTS
    Thread,
    Burst,              \* messages the full bucket allows at once
    RefillNanos,        \* nanoseconds a token takes; at least 1 for rates up to 10^9
    Scale,              \* token units per message, 1000 in the code
    MaxTime             \* bound: where the clock stops

ASSUME BucketAssumption ==
    /\ Burst \in Nat
    /\ RefillNanos \in Nat \ {0}
    /\ Scale \in Nat \ {0}
    /\ MaxTime \in Nat

Capacity == Burst * Scale

VARIABLES
    now,                \* nanoseconds since `start`
    tokens,
    last_refill,
    pc,                 \* where each thread is in try_acquire()
    nowSeen,            \* refill's now_nanos
    lastSeen,           \* refill's last
    claimed,            \* the refill intervals whose tokens the thread has to add
    tokensSeen          \* the `current` of the loop the thread is in

(* History: calls that returned true, and the refill intervals whose       *)
(* tokens have been added.  Interval k ends at k * RefillNanos.            *)
VARIABLES granted, credited

shared == <<now, tokens, last_refill>>
vars == <<shared, pc, nowSeen, lastSeen, claimed, tokensSeen, granted, credited>>

Init ==
    /\ now = 0 /\ tokens = Capacity /\ last_refill = 0
    /\ pc = [t \in Thread |-> "idle"]
    /\ nowSeen = [t \in Thread |-> 0]
    /\ lastSeen = [t \in Thread |-> 0]
    /\ claimed = [t \in Thread |-> {}]
    /\ tokensSeen = [t \in Thread |-> 0]
    /\ granted = 0 /\ credited = {}

Tick ==
    /\ now < MaxTime
    /\ now' = now + 1
    /\ UNCHANGED <<tokens, last_refill, pc, nowSeen, lastSeen, claimed, tokensSeen,
                   granted, credited>>

GoTo(t, label) == pc' = [pc EXCEPT ![t] = label]

-------------------------------------------------------------------------------
(* refill() *)

ReadClock(t) ==
    /\ pc[t] = "idle"
    /\ nowSeen' = [nowSeen EXCEPT ![t] = now]
    /\ GoTo(t, "refill")
    /\ UNCHANGED <<shared, lastSeen, claimed, tokensSeen, granted, credited>>

(* Faulty variant: a plain subtraction, which wraps (on a 16-bit word). *)
ElapsedWrapping(t, last) == (nowSeen[t] - last) % 2^16

(* now_nanos.saturating_sub(last): another thread may have moved           *)
(* last_refill past the time this thread read.                             *)
Elapsed(t, last) == IF nowSeen[t] < last THEN 0 ELSE nowSeen[t] - last

LoadLastRefill(t) ==
    /\ pc[t] = "refill"
    /\ lastSeen' = [lastSeen EXCEPT ![t] = last_refill]
    /\ GoTo(t, IF Elapsed(t, last_refill) < RefillNanos THEN "take" ELSE "claim")
    /\ UNCHANGED <<shared, nowSeen, claimed, tokensSeen, granted, credited>>

Intervals(t) == Elapsed(t, lastSeen[t]) \div RefillNanos

NewLast(t) == lastSeen[t] + Intervals(t) * RefillNanos

(* Faulty variant: the new refill time is stored, not exchanged. *)
ClaimByStore(t) ==
    /\ pc[t] = "claim"
    /\ last_refill' = NewLast(t)
    /\ claimed' = [claimed EXCEPT ![t] =
                     (lastSeen[t] \div RefillNanos) + 1
                       .. (lastSeen[t] \div RefillNanos) + Intervals(t)]
    /\ GoTo(t, "add")
    /\ UNCHANGED <<now, tokens, nowSeen, lastSeen, tokensSeen, granted, credited>>

(* The exchange on last_refill: the winner owns the elapsed intervals. *)
ClaimIntervals(t) ==
    /\ pc[t] = "claim" /\ last_refill = lastSeen[t]
    /\ last_refill' = NewLast(t)
    /\ claimed' = [claimed EXCEPT ![t] =
                     (last_refill \div RefillNanos) + 1
                       .. (last_refill \div RefillNanos) + Intervals(t)]
    /\ GoTo(t, "add")
    /\ UNCHANGED <<now, tokens, nowSeen, lastSeen, tokensSeen, granted, credited>>

ClaimFails(t) ==
    /\ pc[t] = "claim"
    /\ GoTo(t, "refill")
    /\ UNCHANGED <<shared, nowSeen, lastSeen, claimed, tokensSeen, granted, credited>>

(* Faulty variant: the cap is forgotten. *)
RefilledUncapped(t, current) == current + Cardinality(claimed[t]) * Scale

(* tokens after tokens_to_add = intervals * refill_amount, capped. *)
Refilled(t, current) ==
    LET sum == current + Cardinality(claimed[t]) * Scale
    IN  IF sum < Capacity THEN sum ELSE Capacity

(* The thread's intervals are settled: added, or worth nothing to a full   *)
(* bucket.                                                                 *)
Settle(t) ==
    /\ credited' = credited \union claimed[t]
    /\ claimed' = [claimed EXCEPT ![t] = {}]

LoadToAdd(t) ==
    /\ pc[t] = "add"
    /\ tokensSeen' = [tokensSeen EXCEPT ![t] = tokens]
    /\ IF Refilled(t, tokens) = tokens
       THEN GoTo(t, "take") /\ Settle(t)
       ELSE GoTo(t, "addcas") /\ UNCHANGED <<claimed, credited>>
    /\ UNCHANGED <<shared, nowSeen, lastSeen, granted>>

(* Faulty variant: the new count is stored, not exchanged. *)
AddByStore(t) ==
    /\ pc[t] = "addcas"
    /\ tokens' = Refilled(t, tokensSeen[t])
    /\ Settle(t)
    /\ GoTo(t, "take")
    /\ UNCHANGED <<now, last_refill, nowSeen, lastSeen, tokensSeen, granted>>

AddTokens(t) ==
    /\ pc[t] = "addcas" /\ tokens = tokensSeen[t]
    /\ tokens' = Refilled(t, tokensSeen[t])
    /\ Settle(t)
    /\ GoTo(t, "take")
    /\ UNCHANGED <<now, last_refill, nowSeen, lastSeen, tokensSeen, granted>>

AddFails(t) ==
    /\ pc[t] = "addcas"
    /\ GoTo(t, "add")
    /\ UNCHANGED <<shared, nowSeen, lastSeen, claimed, tokensSeen, granted, credited>>

-------------------------------------------------------------------------------
(* try_acquire(), after refill() *)

(* The locals go out of scope when the call returns. *)
Return(t) ==
    /\ GoTo(t, "idle")
    /\ nowSeen' = [nowSeen EXCEPT ![t] = 0]
    /\ lastSeen' = [lastSeen EXCEPT ![t] = 0]
    /\ tokensSeen' = [tokensSeen EXCEPT ![t] = 0]

LoadToTake(t) ==
    /\ pc[t] = "take" /\ tokens >= Scale
    /\ tokensSeen' = [tokensSeen EXCEPT ![t] = tokens]
    /\ GoTo(t, "takecas")
    /\ UNCHANGED <<shared, nowSeen, lastSeen, claimed, granted, credited>>

Deny(t) ==
    /\ pc[t] = "take" /\ tokens < Scale
    /\ Return(t)
    /\ UNCHANGED <<shared, claimed, granted, credited>>

Grant(t) ==
    /\ pc[t] = "takecas" /\ tokens = tokensSeen[t]
    /\ tokens' = tokensSeen[t] - Scale
    /\ granted' = granted + 1
    /\ Return(t)
    /\ UNCHANGED <<now, last_refill, claimed, credited>>

TakeFails(t) ==
    /\ pc[t] = "takecas"
    /\ GoTo(t, "take")
    /\ UNCHANGED <<shared, nowSeen, lastSeen, claimed, tokensSeen, granted, credited>>

Next ==
    \/ Tick
    \/ \E t \in Thread :
         \/ ReadClock(t) \/ LoadLastRefill(t) \/ ClaimIntervals(t) \/ ClaimFails(t)
         \/ LoadToAdd(t) \/ AddTokens(t) \/ AddFails(t)
         \/ LoadToTake(t) \/ Deny(t) \/ Grant(t) \/ TakeFails(t)

Spec == Init /\ [][Next]_vars

-------------------------------------------------------------------------------
(* Properties. *)

(* Type correctness; the bucket never holds more than its capacity.        *)
TypeOK ==
    /\ now \in 0 .. MaxTime
    /\ tokens \in 0 .. Capacity
    /\ last_refill \in Nat
    /\ pc \in [Thread -> {"idle", "refill", "claim", "add", "addcas", "take", "takecas"}]
    /\ nowSeen \in [Thread -> Nat]
    /\ lastSeen \in [Thread -> Nat]
    /\ claimed \in [Thread -> SUBSET Nat]
    /\ tokensSeen \in [Thread -> 0 .. Capacity]
    /\ granted \in Nat
    /\ credited \subseteq Nat

(* Every refill interval up to last_refill is owned once: its tokens have  *)
(* been added, or exactly one thread is about to add them.  No race of two *)
(* refills adds an interval twice or loses one.                            *)
IntervalsOwnedOnce ==
    /\ last_refill = (last_refill \div RefillNanos) * RefillNanos
    /\ credited \union UNION {claimed[t] : t \in Thread}
         = 1 .. last_refill \div RefillNanos
    /\ \A t \in Thread :
         /\ claimed[t] \intersect credited = {}
         /\ \A u \in Thread \ {t} : claimed[t] \intersect claimed[u] = {}

(* The refill clock never runs ahead of the real one, though threads       *)
(* compute it from clock readings that may be stale.                       *)
RefillNotAhead == last_refill <= now

(* The limit itself (rate_limiter.rs:14, "Allows `rate` messages per       *)
(* second with a burst capacity of `burst` messages"): by time now, no     *)
(* more than the burst and one message per elapsed interval were let       *)
(* through, however the threads interleave; what is still in the bucket    *)
(* counts against the same allowance.                                      *)
RateLimit ==
    granted * Scale + tokens <= Capacity + (now \div RefillNanos) * Scale
===============================================================================
