----------------------------- MODULE CircuitBreaker -----------------------------
(***************************************************************************)
(* The circuit breaker of gateway/src/emit/resilience/circuit_breaker.rs,  *)
(* shared by concurrent callers of emit().                                 *)
(*                                                                         *)
(* A call is two steps, each under the write lock of the breaker's state:  *)
(* should_allow_request() before the wrapped emitter is awaited, and       *)
(* record_success() or record_failure() after it.  Between them any number *)
(* of other calls may move the breaker, so an outcome can be recorded in   *)
(* another state than the one that admitted the call.                      *)
(*                                                                         *)
(* Time enters the code only as "has reset_timeout passed since            *)
(* last_failure_time": `cooled` holds that answer.                         *)
(***************************************************************************)
EXTENDS Naturals, FiniteSets

CONSTANTS
    Caller,                 \* tasks that share the breaker
    FailureThreshold,       \* CircuitBreakerConfig, field by field
    SuccessThreshold,
    HalfOpenMaxRequests,
    CountCap,               \* bound: where the consecutive-failure count stops
    CounterMod              \* where the metrics wrap: 2^64 in the code

(* Above FailureThreshold the failure count is never compared again (the   *)
(* circuit is not Closed until a success clears it), so stopping it there  *)
(* loses nothing.                                                          *)
ASSUME BreakerAssumption ==
    /\ IsFiniteSet(Caller)
    /\ FailureThreshold \in Nat /\ SuccessThreshold \in Nat
    /\ HalfOpenMaxRequests \in Nat
    /\ CountCap \in Nat /\ CountCap >= FailureThreshold /\ CountCap >= 1
    /\ CounterMod \in Nat \ {0}

VARIABLES
    state,                  \* CircuitBreakerState, field by field
    consecutive_failures,
    consecutive_successes,
    half_open_requests,
    cooled,                 \* reset_timeout has passed since last_failure_time
    open_count,             \* metrics: times opened, requests rejected
    rejected_count,
    inflight,               \* callers awaiting the wrapped emitter
    probing                 \* of those, the ones admitted in HalfOpen

(* History: of the probes, those the current half-open period admitted.    *)
VARIABLE current

breaker == <<state, consecutive_failures, consecutive_successes,
             half_open_requests, cooled>>
metrics == <<open_count, rejected_count>>
vars == <<breaker, metrics, inflight, probing, current>>

Init ==
    /\ state = "Closed"
    /\ consecutive_failures = 0
    /\ consecutive_successes = 0
    /\ half_open_requests = 0
    /\ cooled = FALSE           \* last_failure_time is None
    /\ open_count = 0 /\ rejected_count = 0
    /\ inflight = {} /\ probing = {} /\ current = {}

-------------------------------------------------------------------------------
(* should_allow_request(), by the state it finds. *)

AllowClosed(c) ==
    /\ c \notin inflight /\ state = "Closed"
    /\ inflight' = inflight \union {c}
    /\ UNCHANGED <<breaker, metrics, probing, current>>

(* Faulty variant: lets the request through and stays open. *)
StartProbingInOpen(c) ==
    /\ c \notin inflight /\ state = "Open" /\ cooled
    /\ inflight' = inflight \union {c}
    /\ UNCHANGED <<breaker, metrics, probing, current>>

(* The caller that finds the timeout elapsed becomes the first probe. *)
StartProbing(c) ==
    /\ c \notin inflight /\ state = "Open" /\ cooled
    /\ state' = "HalfOpen"
    /\ half_open_requests' = 1
    /\ consecutive_successes' = 0
    /\ inflight' = inflight \union {c}
    /\ probing' = probing \union {c}
    /\ current' = {c}
    /\ UNCHANGED <<consecutive_failures, cooled, metrics>>

(* Faulty variant: off by one, the last slot is never given out. *)
AllowProbeStrict(c) ==
    /\ c \notin inflight /\ state = "HalfOpen"
    /\ half_open_requests + 1 < HalfOpenMaxRequests
    /\ half_open_requests' = half_open_requests + 1
    /\ inflight' = inflight \union {c}
    /\ probing' = probing \union {c}
    /\ current' = current \union {c}
    /\ UNCHANGED <<state, consecutive_failures, consecutive_successes, cooled, metrics>>

(* Faulty variant: a half-open request is not counted. *)
AllowProbeUncounted(c) ==
    /\ c \notin inflight /\ state = "HalfOpen"
    /\ half_open_requests < HalfOpenMaxRequests
    /\ inflight' = inflight \union {c}
    /\ probing' = probing \union {c}
    /\ current' = current \union {c}
    /\ UNCHANGED <<breaker, metrics>>

AllowProbe(c) ==
    /\ c \notin inflight /\ state = "HalfOpen"
    /\ half_open_requests < HalfOpenMaxRequests
    /\ half_open_requests' = half_open_requests + 1
    /\ inflight' = inflight \union {c}
    /\ probing' = probing \union {c}
    /\ current' = current \union {c}
    /\ UNCHANGED <<state, consecutive_failures, consecutive_successes, cooled, metrics>>

(* NotReady: the wrapped emitter is not called. *)
Reject(c) ==
    /\ c \notin inflight
    /\ \/ state = "Open" /\ ~cooled
       \/ state = "HalfOpen" /\ half_open_requests >= HalfOpenMaxRequests
    /\ rejected_count' = (rejected_count + 1) % CounterMod
    /\ UNCHANGED <<breaker, open_count, inflight, probing, current>>

Admit(c) == AllowClosed(c) \/ StartProbing(c) \/ AllowProbe(c)

-------------------------------------------------------------------------------
(* The wrapped emitter answered. *)

Answered(c) ==
    /\ c \in inflight
    /\ inflight' = inflight \ {c}
    /\ probing' = probing \ {c}

(* Faulty variant: any success closes the circuit, also in Open. *)
SucceedClosesAlways(c) ==
    /\ Answered(c)
    /\ consecutive_failures' = 0
    /\ consecutive_successes' = consecutive_successes
    /\ state' = "Closed"
    /\ half_open_requests' = 0
    /\ current' = {}
    /\ UNCHANGED <<cooled, metrics>>

(* Faulty variant: closing keeps the failures counted before. *)
SucceedKeepsFailures(c) ==
    LET successes == consecutive_successes + 1
        closes    == successes >= SuccessThreshold
    IN  /\ Answered(c)
        /\ IF state = "HalfOpen"
           THEN /\ consecutive_successes' = successes
                /\ state' = IF closes THEN "Closed" ELSE "HalfOpen"
                /\ half_open_requests' = IF closes THEN 0 ELSE half_open_requests
                /\ current' = IF closes THEN {} ELSE current \ {c}
                /\ UNCHANGED consecutive_failures
           ELSE /\ consecutive_failures' = 0
                /\ UNCHANGED <<state, consecutive_successes, half_open_requests, current>>
        /\ UNCHANGED <<cooled, metrics>>

(* record_success *)
Succeed(c) ==
    LET successes == consecutive_successes + 1
        closes    == successes >= SuccessThreshold
    IN  /\ Answered(c)
        /\ consecutive_failures' = 0
        /\ IF state = "HalfOpen"
           THEN /\ consecutive_successes' = successes
                /\ state' = IF closes THEN "Closed" ELSE "HalfOpen"
                /\ half_open_requests' = IF closes THEN 0 ELSE half_open_requests
                /\ current' = IF closes THEN {} ELSE current \ {c}
           ELSE UNCHANGED <<state, consecutive_successes, half_open_requests, current>>
        /\ UNCHANGED <<cooled, metrics>>

(* Faulty variant: re-opening does not give the half-open slots back. *)
FailKeepsSlots(c) ==
    LET failures == IF consecutive_failures < CountCap
                    THEN consecutive_failures + 1 ELSE CountCap
        opens    == \/ state = "Closed" /\ failures >= FailureThreshold
                    \/ state = "HalfOpen"
    IN  /\ Answered(c)
        /\ consecutive_successes' = 0
        /\ consecutive_failures' = failures
        /\ cooled' = FALSE
        /\ state' = IF opens THEN "Open" ELSE state
        /\ open_count' = (open_count + IF opens THEN 1 ELSE 0) % CounterMod
        /\ UNCHANGED <<half_open_requests, current, rejected_count>>

(* record_failure *)
Fail(c) ==
    LET failures == IF consecutive_failures < CountCap
                    THEN consecutive_failures + 1 ELSE CountCap
        opens    == \/ state = "Closed" /\ failures >= FailureThreshold
                    \/ state = "HalfOpen"
    IN  /\ Answered(c)
        /\ consecutive_successes' = 0
        /\ consecutive_failures' = failures
        /\ cooled' = FALSE
        /\ state' = IF opens THEN "Open" ELSE state
        /\ half_open_requests' = IF state = "HalfOpen" THEN 0 ELSE half_open_requests
        /\ current' = IF state = "HalfOpen" THEN {} ELSE current
        /\ open_count' = (open_count + IF opens THEN 1 ELSE 0) % CounterMod
        /\ UNCHANGED rejected_count

(* reset_timeout passes since the last recorded failure.  The code asks    *)
(* only when it is Open, and what opened it was a failure.                 *)
Cool ==
    /\ state = "Open" /\ ~cooled
    /\ cooled' = TRUE
    /\ UNCHANGED <<state, consecutive_failures, consecutive_successes,
                   half_open_requests, metrics, inflight, probing, current>>

Next ==
    \/ \E c \in Caller : Admit(c) \/ Reject(c) \/ Succeed(c) \/ Fail(c)
    \/ Cool

Spec == Init /\ [][Next]_vars

(* Traffic goes on (every caller keeps calling), the wrapped emitter       *)
(* answers every call (the network emitters time out), and time passes.    *)
Fairness ==
    /\ \A c \in Caller : WF_vars(Admit(c)) /\ WF_vars(Succeed(c) \/ Fail(c))
    /\ WF_vars(Cool)

FairSpec == Spec /\ Fairness

-------------------------------------------------------------------------------
(* Properties. *)

AtLeastOne(n) == IF n = 0 THEN 1 ELSE n

(* Type correctness; every current probe is a probe, every probe a call. *)
TypeOK ==
    /\ state \in {"Closed", "Open", "HalfOpen"}
    /\ consecutive_failures \in 0 .. CountCap
    /\ consecutive_successes \in Nat
    /\ half_open_requests \in Nat
    /\ cooled \in BOOLEAN
    /\ open_count \in 0 .. CounterMod - 1 /\ rejected_count \in 0 .. CounterMod - 1
    /\ inflight \subseteq Caller /\ probing \subseteq inflight
    /\ current \subseteq probing

(* The count that should_allow_request and the two record functions keep   *)
(* of half-open requests covers every probe of the current half-open       *)
(* period, is bounded by the configured maximum (0 still lets the          *)
(* transition's own request through), and is cleared outside HalfOpen,     *)
(* whatever calls of earlier periods end meanwhile.                        *)
ProbeBudget ==
    /\ Cardinality(current) <= half_open_requests
    /\ half_open_requests <= AtLeastOne(HalfOpenMaxRequests)
    /\ state = "HalfOpen" <=> half_open_requests > 0

(* A closed circuit is below the failure threshold and a half-open one     *)
(* below the success threshold, also when outcomes of calls admitted in    *)
(* other states are recorded in it: no threshold is passed unnoticed.      *)
BelowThresholds ==
    /\ state = "Closed" => consecutive_failures < AtLeastOne(FailureThreshold)
    /\ state = "HalfOpen" => consecutive_successes < AtLeastOne(SuccessThreshold)

Gate == INSTANCE BreakerGate WITH
    Limit  <- AtLeastOne(HalfOpenMaxRequests),
    mode   <- state,
    calls  <- inflight,
    budget <- IF state = "HalfOpen"
              THEN AtLeastOne(HalfOpenMaxRequests) - half_open_requests ELSE 0

(* The breaker keeps the promise BreakerGate states: fail fast while open, *)
(* at most half_open_max_requests calls in a half-open period, no way from *)
(* Open to Closed but through HalfOpen.                                    *)
KeepsGate == Gate!GateSpec

(* An open circuit is given another chance: however many late failures     *)
(* push last_failure_time forward, a probe is let through in the end.      *)
OpenIsTemporary == state = "Open" ~> state = "HalfOpen"

(* A half-open circuit decides.  This needs half_open_max_requests >=      *)
(* success_threshold: a period admits no more than the former, and closes  *)
(* only after the latter.                                                  *)
HalfOpenResolves == state = "HalfOpen" ~> state # "HalfOpen"

(* What the doc comment of half_open_max_requests says: "Maximum           *)
(* concurrent requests allowed in HalfOpen state" (circuit_breaker.rs:34), *)
(* read of the requests the half-open state let through.                   *)
ConcurrentProbesBounded ==
    state = "HalfOpen" => Cardinality(probing) <= HalfOpenMaxRequests
===============================================================================
