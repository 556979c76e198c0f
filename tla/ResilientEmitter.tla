---------------------------- MODULE ResilientEmitter ----------------------------
(***************************************************************************)
(* The emitter stack that ResilientEmitter::build nests, from the outside: *)
(*                                                                         *)
(*   FailureCaptureEmitter -> CircuitBreakerEmitter -> RetryEmitter ->     *)
(*   GrpcEmitter                                                           *)
(*                                                                         *)
(* (gateway/src/emit/resilience/*.rs and gateway/src/emit/grpc.rs), called *)
(* by concurrent tasks.  The breaker is the module CircuitBreaker; a call  *)
(* it admits may take several attempts, and an attempt is one spawned      *)
(* request per event.  GrpcEmitter joins the requests in order and returns *)
(* at the first error, so requests behind it go on by themselves while the *)
(* retry sends the whole batch again.                                      *)
(***************************************************************************)
EXTENDS Integers, Sequences, FiniteSets, SequencesExt

CONSTANTS
    Caller, FailureThreshold, SuccessThreshold, HalfOpenMaxRequests,
    CountCap, CounterMod,       \* see CircuitBreaker
    MaxAttempts,                \* BackoffConfig::max_attempts: retries after the first try
    InitialDelay, MaxDelay,     \* in microseconds
    Multiplier,
    JitterQuarters,             \* BackoffConfig::jitter_factor, in quarters
    BatchLen,                   \* events in a batch
    FailureCapacity,            \* FailureBuffer::capacity
    StoreFullBatch,             \* FailureCaptureConfig::store_full_batch
    MaxCalls                    \* bound: calls of emit() in all

ASSUME StackAssumption ==
    /\ IsFiniteSet(Caller)
    /\ {FailureThreshold, SuccessThreshold, HalfOpenMaxRequests} \subseteq Nat
    /\ {CountCap, CounterMod} \subseteq Nat \ {0} /\ CountCap >= FailureThreshold
    /\ {MaxAttempts, InitialDelay, MaxDelay, Multiplier, JitterQuarters} \subseteq Nat
    /\ BatchLen \in Nat \ {0}
    /\ FailureCapacity \in Nat
    /\ StoreFullBatch \in BOOLEAN
    /\ MaxCalls \in Nat

Lesser(a, b) == IF a < b THEN a ELSE b

Greater(a, b) == IF a < b THEN b ELSE a

Positions == 1 .. BatchLen

Event == [call : 1 .. MaxCalls, pos : Positions]

Request == [call : 1 .. MaxCalls, attempt : 0 .. MaxAttempts, pos : Positions]

VARIABLES
    state, consecutive_failures, consecutive_successes, half_open_requests,
    cooled, open_count, rejected_count, inflight, probing, current
                                \* the breaker: see CircuitBreaker

VARIABLES
    calls,                      \* calls of emit() so far; a call is its number
    stage,                      \* where each caller is in its call
    call,                       \* the call it makes
    attempt,                    \* RetryEmitter's loop counter
    result,                     \* how its attempt's requests ended so far, by position
    retry_count,
    recovered_count,
    running,                    \* requests the backend has not answered
    failures,                   \* the FailureBuffer: the captured events
    total_captured,
    total_dropped

(* History: events that reached the backend; calls that returned Ok, that  *)
(* returned Err, and that used up their retries; events captured, those    *)
(* that left the FailureBuffer, and how many of them were drained.         *)
VARIABLES delivered, acked, refused, exhausted, captured, left, drained

breakerVars == <<state, consecutive_failures, consecutive_successes, half_open_requests,
                 cooled, open_count, rejected_count, inflight, probing, current>>
retryVars   == <<attempt, retry_count, recovered_count>>
bufferVars  == <<failures, total_captured, total_dropped, captured, left, drained>>
vars == <<breakerVars, calls, stage, call, retryVars, result, running, bufferVars,
          delivered, acked, refused, exhausted>>

Breaker == INSTANCE CircuitBreaker

Init ==
    /\ Breaker!Init
    /\ calls = 0
    /\ stage = [c \in Caller |-> "idle"]
    /\ call = [c \in Caller |-> 0]
    /\ attempt = [c \in Caller |-> 0]
    /\ result = [c \in Caller |-> [p \in Positions |-> "pending"]]
    /\ retry_count = 0 /\ recovered_count = 0
    /\ running = {}
    /\ failures = <<>> /\ total_captured = 0 /\ total_dropped = 0
    /\ delivered = {} /\ acked = {} /\ refused = {} /\ exhausted = {}
    /\ captured = <<>> /\ left = <<>> /\ drained = 0

-------------------------------------------------------------------------------
(* GrpcEmitter *)

(* One task per event; nothing is known of the answers yet. *)
Spawn(c, id, try) ==
    /\ running' = running \union {[call |-> id, attempt |-> try, pos |-> p] : p \in Positions}
    /\ result' = [result EXCEPT ![c] = [p \in Positions |-> "pending"]]

(* A request ends.  One that fails may have reached the backend: it timed  *)
(* out on its way back.  Nobody waits for it if its attempt is over.       *)
Answer(req, arrives, answer) ==
    /\ req \in running
    /\ running' = running \ {req}
    /\ delivered' = IF arrives THEN delivered \union {[call |-> req.call, pos |-> req.pos]}
                               ELSE delivered
    /\ result' = [c \in Caller |->
                    IF stage[c] = "joining" /\ call[c] = req.call /\ attempt[c] = req.attempt
                    THEN [result[c] EXCEPT ![req.pos] = answer] ELSE result[c]]
    /\ UNCHANGED <<breakerVars, calls, stage, call, retryVars, bufferVars, acked, refused,
                   exhausted>>

RequestOk(req) == Answer(req, TRUE, "ok")

RequestErr(req) == \E arrives \in BOOLEAN : Answer(req, arrives, "err")

(* Faulty variant: the outcome of the last request decides. *)
AllOkLast(c) == result[c][BatchLen] = "ok"

(* The handles are awaited in order: all must be Ok ... *)
AllOk(c) == \A p \in Positions : result[c][p] = "ok"

(* ... and the first Err ends the wait, whatever runs behind it. *)
FirstErr(c) ==
    \E p \in Positions :
       /\ result[c][p] = "err"
       /\ \A q \in 1 .. p - 1 : result[c][q] = "ok"

-------------------------------------------------------------------------------
(* BackoffConfig *)

(* The generator's number, as the fraction of the jitter that is added or  *)
(* taken away.  The delay grows with it: the ends, both of which can       *)
(* occur, and the middle will do.                                          *)
RandJitter == {-1, 0, 1}

BaseDelay(n) == Lesser(InitialDelay * Multiplier ^ (n - 1), MaxDelay)

Jittered(n, jitter) == (4 * BaseDelay(n) + jitter * BaseDelay(n) * JitterQuarters) \div 4

(* Faulty variant: no least delay. *)
DelayUnfloored(n, jitter) == IF n = 0 THEN 0 ELSE Greater(Jittered(n, jitter), 0)

(* In whole microseconds, and at least one of them. *)
DelayForAttempt(n, jitter) == IF n = 0 THEN 0 ELSE Greater(Jittered(n, jitter), 1)

-------------------------------------------------------------------------------
(* A call of emit(), from FailureCaptureEmitter down. *)

EmitAdmitted(c) ==
    /\ stage[c] = "idle" /\ calls < MaxCalls
    /\ Breaker!Admit(c)
    /\ calls' = calls + 1
    /\ call' = [call EXCEPT ![c] = calls + 1]
    /\ attempt' = [attempt EXCEPT ![c] = 0]
    /\ Spawn(c, calls + 1, 0)
    /\ stage' = [stage EXCEPT ![c] = "joining"]
    /\ UNCHANGED <<retry_count, recovered_count, bufferVars, delivered, acked, refused,
                   exhausted>>

(* NotReady, which FailureCaptureEmitter treats like any other error. *)
EmitRejected(c) ==
    /\ stage[c] = "idle" /\ calls < MaxCalls
    /\ Breaker!Reject(c)
    /\ calls' = calls + 1
    /\ call' = [call EXCEPT ![c] = calls + 1]
    /\ stage' = [stage EXCEPT ![c] = "capture"]
    /\ UNCHANGED <<retryVars, result, running, bufferVars, delivered, acked, refused,
                   exhausted>>

(* The attempt succeeded: Ok through retry, breaker and capture. *)
CallSucceeds(c) ==
    /\ stage[c] = "joining" /\ AllOk(c)
    /\ recovered_count' = recovered_count + IF attempt[c] > 0 THEN 1 ELSE 0
    /\ Breaker!Succeed(c)
    /\ acked' = acked \union {call[c]}
    /\ stage' = [stage EXCEPT ![c] = "idle"]
    /\ call' = [call EXCEPT ![c] = 0]
    /\ attempt' = [attempt EXCEPT ![c] = 0]
    /\ result' = [result EXCEPT ![c] = [p \in Positions |-> "pending"]]
    /\ UNCHANGED <<calls, retry_count, running, bufferVars, delivered, refused, exhausted>>

(* Faulty variant: the attempts are not counted. *)
AttemptFailsUncounted(c) ==
    /\ stage[c] = "joining" /\ FirstErr(c) /\ attempt[c] < MaxAttempts
    /\ stage' = [stage EXCEPT ![c] = "backoff"]
    /\ UNCHANGED <<breakerVars, calls, call, retryVars, result, running, bufferVars, delivered,
                   acked, refused, exhausted>>

(* The next attempt counts as a retry if it has a delay to sleep. *)
AttemptFails(c) ==
    /\ stage[c] = "joining" /\ FirstErr(c) /\ attempt[c] < MaxAttempts
    /\ attempt' = [attempt EXCEPT ![c] = @ + 1]
    /\ \E jitter \in RandJitter :
         retry_count' = retry_count + IF DelayForAttempt(attempt[c] + 1, jitter) = 0 THEN 0 ELSE 1
    /\ stage' = [stage EXCEPT ![c] = "backoff"]
    /\ result' = [result EXCEPT ![c] = [p \in Positions |-> "pending"]]
    /\ UNCHANGED <<breakerVars, calls, call, recovered_count, running, bufferVars, delivered,
                   acked, refused, exhausted>>

Resend(c) ==
    /\ stage[c] = "backoff"
    /\ Spawn(c, call[c], attempt[c])
    /\ stage' = [stage EXCEPT ![c] = "joining"]
    /\ UNCHANGED <<breakerVars, calls, call, retryVars, bufferVars, delivered, acked, refused,
                   exhausted>>

(* Faulty variant: the error returns without being recorded. *)
GiveUpUnrecorded(c) ==
    /\ stage[c] = "joining" /\ FirstErr(c) /\ attempt[c] = MaxAttempts
    /\ exhausted' = exhausted \union {call[c]}
    /\ stage' = [stage EXCEPT ![c] = "capture"]
    /\ result' = [result EXCEPT ![c] = [p \in Positions |-> "pending"]]
    /\ UNCHANGED <<breakerVars, calls, call, retryVars, running, bufferVars, delivered, acked,
                   refused>>

(* All retries are used up: one failure for the breaker. *)
GiveUp(c) ==
    /\ stage[c] = "joining" /\ FirstErr(c) /\ attempt[c] = MaxAttempts
    /\ Breaker!Fail(c)
    /\ exhausted' = exhausted \union {call[c]}
    /\ stage' = [stage EXCEPT ![c] = "capture"]
    /\ result' = [result EXCEPT ![c] = [p \in Positions |-> "pending"]]
    /\ UNCHANGED <<calls, call, retryVars, running, bufferVars, delivered, acked, refused>>

-------------------------------------------------------------------------------
(* FailureBuffer *)

(* What is captured of a failed batch: all of it, or its first event. *)
CapturedPositions == IF StoreFullBatch THEN BatchLen ELSE 1

FailedEvents(id) == [p \in 1 .. CapturedPositions |-> [call |-> id, pos |-> p]]

(* Faulty variant: when the buffer is full the new event is not stored. *)
StoreIfRoom(acc, event) ==
    IF Len(acc.queue) >= FailureCapacity
    THEN [acc EXCEPT !.lost = Append(@, event), !.dropped = @ + 1]
    ELSE [acc EXCEPT !.queue = Append(@, event)]

(* Faulty variant: the capacity is not looked at. *)
StoreAlways(acc, event) == [acc EXCEPT !.queue = Append(@, event)]

(* One turn of push's loop: a full buffer first loses its oldest event     *)
(* (pop_front, which finds nothing when the capacity is 0).                *)
Store(acc, event) ==
    IF Len(acc.queue) >= FailureCapacity
    THEN [queue   |-> Append(IF acc.queue = <<>> THEN <<>> ELSE Tail(acc.queue), event),
          lost    |-> acc.lost \o SubSeq(acc.queue, 1, 1),
          dropped |-> acc.dropped + 1]
    ELSE [acc EXCEPT !.queue = Append(@, event)]

(* How many events the buffer can hold: one, if its capacity is 0. *)
Room == IF FailureCapacity = 0 THEN 1 ELSE FailureCapacity

(* The failed events go into the buffer and the error to the caller. *)
Capture(c) ==
    LET events == FailedEvents(call[c])
        stored == FoldLeft(Store, [queue |-> failures, lost |-> <<>>, dropped |-> 0], events)
    IN  /\ stage[c] = "capture"
        /\ failures' = stored.queue
        /\ total_captured' = total_captured + Len(events)
        /\ total_dropped' = total_dropped + stored.dropped
        /\ captured' = captured \o events
        /\ left' = left \o stored.lost
        /\ refused' = refused \union {call[c]}
        /\ stage' = [stage EXCEPT ![c] = "idle"]
        /\ call' = [call EXCEPT ![c] = 0]
        /\ attempt' = [attempt EXCEPT ![c] = 0]
        /\ UNCHANGED <<breakerVars, calls, retry_count, recovered_count, result, running, drained,
                       delivered, acked, exhausted>>

(* drain(n), by whoever inspects the buffer; clear() is drain of all. *)
DrainFailures(n) ==
    LET count == Lesser(n, Len(failures))
    IN  /\ failures # <<>>
        /\ failures' = SubSeq(failures, count + 1, Len(failures))
        /\ left' = left \o SubSeq(failures, 1, count)
        /\ drained' = drained + count
        /\ UNCHANGED <<breakerVars, calls, stage, call, retryVars, result, running,
                       total_captured, total_dropped, captured, delivered, acked, refused,
                       exhausted>>

(* reset_timeout passes. *)
Cool ==
    /\ Breaker!Cool
    /\ UNCHANGED <<calls, stage, call, retryVars, result, running, bufferVars, delivered,
                   acked, refused, exhausted>>

-------------------------------------------------------------------------------
Proceed(c) == CallSucceeds(c) \/ AttemptFails(c) \/ Resend(c) \/ GiveUp(c) \/ Capture(c)

Next ==
    \/ \E c \in Caller : EmitAdmitted(c) \/ EmitRejected(c) \/ Proceed(c)
    \/ \E req \in running : RequestOk(req) \/ RequestErr(req)
    \/ \E n \in 1 .. Room : DrainFailures(n)
    \/ Cool

Spec == Init /\ [][Next]_vars

(* A call that can go on does; every request is answered or times out. *)
Fairness ==
    /\ \A c \in Caller : WF_vars(Proceed(c))
    /\ WF_vars(\E req \in running : RequestOk(req) \/ RequestErr(req))

FairSpec == Spec /\ Fairness

-------------------------------------------------------------------------------
(* Properties. *)

(* Type correctness, with the bound of the failure buffer. *)
TypeOK ==
    /\ Breaker!TypeOK
    /\ calls \in 0 .. MaxCalls
    /\ stage \in [Caller -> {"idle", "joining", "backoff", "capture"}]
    /\ call \in [Caller -> 0 .. MaxCalls]
    /\ attempt \in [Caller -> 0 .. MaxAttempts]
    /\ result \in [Caller -> [Positions -> {"pending", "ok", "err"}]]
    /\ retry_count \in Nat /\ recovered_count \in Nat
    /\ running \subseteq Request
    /\ failures \in Seq(Event)
    /\ Len(failures) <= Room
    /\ total_captured \in Nat /\ total_dropped \in Nat
    /\ delivered \subseteq Event
    /\ captured \in Seq(Event) /\ left \in Seq(Event) /\ drained \in Nat

(* Ok means delivered: when the stack returns Ok, every event of the batch *)
(* has reached the backend, whichever attempts failed and whichever of     *)
(* their requests were still under way (GrpcEmitter::emit's join loop      *)
(* inside RetryEmitter::emit).                                             *)
AckedDelivered == \A e \in Event : e.call \in acked => e \in delivered

(* Nothing that failed is lost silently: what was captured, oldest first,  *)
(* is what has left the failure buffer followed by what it holds; every    *)
(* failed call, a rejected one too, was captured once; and the totals      *)
(* account for each event (FailureCaptureEmitter::emit and                 *)
(* FailureBuffer::push, drain and clear by concurrent tasks).              *)
FailuresKept ==
    /\ captured = left \o failures
    /\ ToSet(captured) = UNION {ToSet(FailedEvents(id)) : id \in refused}
    /\ Len(captured) = CapturedPositions * Cardinality(refused)
    /\ total_captured = Len(captured)
    /\ FailureCapacity > 0 => total_dropped + drained = Len(left)

(* The breaker sees one outcome for each call it admits: the calls it      *)
(* counts as running are those at work on an attempt, so no half-open slot *)
(* leaks and no call is recorded twice, however many attempts it makes.    *)
EveryAdmissionRecorded ==
    inflight = {c \in Caller : stage[c] \in {"joining", "backoff"}}

(* Retries are spent as configured and counted: a call that gave up made   *)
(* max_attempts of them, one that recovered at least one, and no call more *)
(* than max_attempts.  Since only an attempt with a delay is counted, no   *)
(* jitter may bring a delay down to zero.                                  *)
RetriesSpent ==
    /\ recovered_count + MaxAttempts * Cardinality(exhausted) <= retry_count
    /\ retry_count <= MaxAttempts * calls

(* Every call of emit() returns, under any mix of failures. *)
CallsReturn == \A c \in Caller : stage[c] # "idle" ~> stage[c] = "idle"

(* What the tests of the stack say: "Circuit opens after threshold,        *)
(* preventing retry storms" and "Should not retry when circuit is open"    *)
(* (gateway/tests/resilience_integration.rs:167 and :206).                 *)
NoRetryWhenOpen == [][state = "Open" => \A c \in Caller : ~Resend(c)]_vars
===============================================================================
