-------------------------- MODULE CircuitBreakerProofs --------------------------
(***************************************************************************)
(* The circuit breaker's invariants, and that it implements BreakerGate,   *)
(* for every configuration and every finite set of callers.                *)
(***************************************************************************)
EXTENDS CircuitBreaker, FiniteSetTheorems, TLAPS

(* The inductive invariant.  Type correctness alone is not inductive: that *)
(* no current probe survives the end of its period is ProbeBudget's.       *)
Inv == TypeOK /\ ProbeBudget

(* A counter that wraps at its width stays in its range. *)
LEMMA Wraps ==
    ASSUME NEW x \in Nat
    PROVE  x % CounterMod \in 0 .. CounterMod - 1
BY BreakerAssumption

(* Outside HalfOpen there is no current probe. *)
LEMMA NoneCurrent ==
    ASSUME Inv
    PROVE  /\ IsFiniteSet(current) /\ Cardinality(current) \in Nat
           /\ state # "HalfOpen" => half_open_requests = 0 /\ current = {}
<1>1. IsFiniteSet(current)
  BY BreakerAssumption, FS_Subset DEF Inv, TypeOK
<1>2. Cardinality(current) \in Nat
  BY <1>1, FS_CardinalityType
<1>3. state # "HalfOpen" => half_open_requests = 0 /\ Cardinality(current) = 0
  BY <1>2 DEF Inv, TypeOK, ProbeBudget
<1> QED
  BY <1>1, <1>2, <1>3, FS_EmptySet

(* A new breaker satisfies the invariant. *)
LEMMA InvInit == Init => Inv
<1> SUFFICES ASSUME Init PROVE Inv
  OBVIOUS
<1>1. TypeOK
  <2>1. cooled \in BOOLEAN
    BY DEF Init
  <2>2. /\ consecutive_failures \in 0 .. CountCap /\ consecutive_successes \in Nat
        /\ half_open_requests \in Nat
        /\ open_count \in 0 .. CounterMod - 1 /\ rejected_count \in 0 .. CounterMod - 1
    BY BreakerAssumption DEF Init
  <2>3. /\ state \in {"Closed", "Open", "HalfOpen"}
        /\ inflight \subseteq Caller /\ probing \subseteq inflight
        /\ current \subseteq probing
    BY DEF Init
  <2> QED
    BY <2>1, <2>2, <2>3 DEF TypeOK
<1>2. Cardinality(current) = 0
  BY FS_EmptySet DEF Init
<1>3. ProbeBudget
  BY <1>2, BreakerAssumption DEF Init, ProbeBudget, AtLeastOne
<1> QED
  BY <1>1, <1>3 DEF Inv

(* Every step of the breaker keeps Inv. *)
LEMMA InvStep == Inv /\ [Next]_vars => Inv'
<1> SUFFICES ASSUME Inv, [Next]_vars PROVE Inv'
  OBVIOUS
<1> USE BreakerAssumption
<1>0. /\ IsFiniteSet(current) /\ Cardinality(current) \in Nat
      /\ state # "HalfOpen" => half_open_requests = 0 /\ current = {}
  BY NoneCurrent
<1>1. ASSUME NEW c \in Caller, AllowClosed(c) PROVE Inv'
  BY <1>1 DEF Inv, TypeOK, ProbeBudget, AllowClosed, breaker, metrics
<1>2. ASSUME NEW c \in Caller, StartProbing(c) PROVE Inv'
  <2>1. TypeOK'
    BY <1>2 DEF Inv, TypeOK, StartProbing, metrics
  <2>2. Cardinality(current') = 1
    BY <1>2, FS_Singleton DEF StartProbing
  <2>3. ProbeBudget'
    BY <1>2, <2>2 DEF ProbeBudget, StartProbing, AtLeastOne
  <2> QED
    BY <2>1, <2>3 DEF Inv
<1>3. ASSUME NEW c \in Caller, AllowProbe(c) PROVE Inv'
  <2>1. TypeOK'
    BY <1>3 DEF Inv, TypeOK, AllowProbe, metrics
  <2>2. Cardinality(current') = Cardinality(current) + 1
    BY <1>0, <1>3, FS_AddElement DEF Inv, TypeOK, AllowProbe
  <2>3. ProbeBudget'
    BY <1>0, <1>3, <2>2 DEF Inv, TypeOK, ProbeBudget, AllowProbe, AtLeastOne
  <2> QED
    BY <2>1, <2>3 DEF Inv
<1>4. ASSUME NEW c \in Caller, Reject(c) PROVE Inv'
  <2>1. rejected_count' \in 0 .. CounterMod - 1
    BY <1>4, Wraps DEF Reject, Inv, TypeOK
  <2> QED
    BY <1>4, <2>1 DEF Inv, TypeOK, ProbeBudget, Reject, breaker
<1>5. ASSUME NEW c \in Caller, Succeed(c) PROVE Inv'
  <2>1. inflight' \subseteq Caller /\ probing' = probing \ {c} /\ probing' \subseteq inflight'
    BY <1>5 DEF Inv, TypeOK, Succeed, Answered
  <2>2. CASE state = "HalfOpen" /\ consecutive_successes + 1 < SuccessThreshold
    <3>0. ~(consecutive_successes + 1 >= SuccessThreshold)
      BY <2>2 DEF Inv, TypeOK
    <3>1. /\ state' = state /\ half_open_requests' = half_open_requests
          /\ current' = current \ {c}
          /\ consecutive_successes' = consecutive_successes + 1
      BY <1>5, <2>2, <3>0 DEF Succeed
    <3>2. Cardinality(current') \in Nat /\ Cardinality(current') <= Cardinality(current)
      <4>1. IsFiniteSet(current \ {c})
        BY <1>0, FS_RemoveElement
      <4>2. Cardinality(current \ {c}) =
              IF c \in current THEN Cardinality(current) - 1 ELSE Cardinality(current)
        BY <1>0, FS_RemoveElement
      <4>3. Cardinality(current \ {c}) \in Nat
        BY <4>1, FS_CardinalityType
      <4> QED
        BY <1>0, <3>1, <4>2, <4>3
    <3>3. TypeOK'
      BY <1>5, <2>1, <3>1 DEF Inv, TypeOK, Succeed, metrics
    <3>4. ProbeBudget'
      BY <1>0, <3>1, <3>2 DEF Inv, TypeOK, ProbeBudget, AtLeastOne
    <3> QED
      BY <3>3, <3>4 DEF Inv
  <2>3. CASE state = "HalfOpen" /\ consecutive_successes + 1 >= SuccessThreshold
    <3>1. /\ state' = "Closed" /\ half_open_requests' = 0 /\ current' = {}
          /\ consecutive_successes' = consecutive_successes + 1
      BY <1>5, <2>3 DEF Succeed
    <3>2. Cardinality(current') = 0
      BY <3>1, FS_EmptySet
    <3>3. TypeOK'
      BY <1>5, <2>1, <3>1 DEF Inv, TypeOK, Succeed, metrics
    <3>4. ProbeBudget'
      BY <3>1, <3>2 DEF ProbeBudget, AtLeastOne
    <3> QED
      BY <3>3, <3>4 DEF Inv
  <2>4. CASE state # "HalfOpen"
    <3>1. UNCHANGED <<state, consecutive_successes, half_open_requests, current>>
      BY <1>5, <2>4 DEF Succeed
    <3>2. TypeOK'
      BY <1>0, <1>5, <2>1, <2>4, <3>1 DEF Inv, TypeOK, Succeed, metrics
    <3> QED
      BY <3>1, <3>2 DEF Inv, ProbeBudget
  <2>5. consecutive_successes \in Nat
    BY DEF Inv, TypeOK
  <2> QED
    BY <2>2, <2>3, <2>4, <2>5
<1>6. ASSUME NEW c \in Caller, Fail(c) PROVE Inv'
  <2>1. current' = {} /\ half_open_requests' = 0
    BY <1>0, <1>6 DEF Fail
  <2>2. Cardinality(current') = 0
    BY <2>1, FS_EmptySet
  <2>3. state' \in {"Closed", "Open"}
    BY <1>6 DEF Fail, Inv, TypeOK
  <2>4. open_count' \in 0 .. CounterMod - 1
    <3>1. PICK n \in {0, 1} : open_count' = (open_count + n) % CounterMod
      BY <1>6 DEF Fail
    <3>2. open_count + n \in Nat
      BY DEF Inv, TypeOK
    <3> QED
      BY <3>1, <3>2, Wraps
  <2>5. consecutive_failures' \in 0 .. CountCap
    BY <1>6 DEF Fail, Inv, TypeOK
  <2>6. TypeOK'
    <3>1. cooled' \in BOOLEAN
      BY <1>6 DEF Fail
    <3>2. consecutive_successes' \in Nat /\ rejected_count' \in 0 .. CounterMod - 1
      BY <1>6 DEF Fail, Inv, TypeOK
    <3>3. /\ inflight' \subseteq Caller /\ probing' \subseteq inflight'
          /\ current' \subseteq probing'
      BY <1>6, <2>1 DEF Fail, Answered, Inv, TypeOK
    <3> QED
      BY <2>1, <2>3, <2>4, <2>5, <3>1, <3>2, <3>3 DEF TypeOK
  <2>7. ProbeBudget'
    BY <2>1, <2>2, <2>3 DEF ProbeBudget, AtLeastOne
  <2> QED
    BY <2>6, <2>7 DEF Inv
<1>7. CASE Cool
  BY <1>7 DEF Inv, TypeOK, ProbeBudget, Cool, metrics
<1>8. CASE UNCHANGED vars
  BY <1>8 DEF Inv, TypeOK, ProbeBudget, vars, breaker, metrics
<1> QED
  BY <1>1, <1>2, <1>3, <1>4, <1>5, <1>6, <1>7, <1>8 DEF Next, Admit

(* The invariant always holds. *)
LEMMA InvAlways == Spec => []Inv
BY InvInit, InvStep, PTL DEF Spec

(* Every reachable state is well typed. *)
THEOREM TypeCorrect == Spec => []TypeOK
<1>1. Inv => TypeOK
  BY DEF Inv
<1> QED
  BY <1>1, InvAlways, PTL

(* The half-open request count covers the current probes and respects the  *)
(* configured maximum, for every configuration and number of callers.      *)
THEOREM ProbesWithinBudget == Spec => []ProbeBudget
<1>1. Inv => ProbeBudget
  BY DEF Inv
<1> QED
  BY <1>1, InvAlways, PTL

(* No threshold is passed unnoticed, for every configuration. *)
THEOREM ThresholdsRespected == Spec => []BelowThresholds
<1>1. Init => BelowThresholds
  BY BreakerAssumption DEF Init, BelowThresholds, AtLeastOne
<1>2. Inv /\ BelowThresholds /\ [Next]_vars => BelowThresholds'
  <2> SUFFICES ASSUME Inv, BelowThresholds, [Next]_vars PROVE BelowThresholds'
    OBVIOUS
  <2> USE BreakerAssumption
  <2>1. ASSUME NEW c \in Caller, AllowClosed(c) PROVE BelowThresholds'
    BY <2>1 DEF BelowThresholds, AllowClosed, breaker
  <2>2. ASSUME NEW c \in Caller, StartProbing(c) PROVE BelowThresholds'
    BY <2>2 DEF BelowThresholds, StartProbing, AtLeastOne
  <2>3. ASSUME NEW c \in Caller, AllowProbe(c) PROVE BelowThresholds'
    BY <2>3 DEF BelowThresholds, AllowProbe
  <2>4. ASSUME NEW c \in Caller, Reject(c) PROVE BelowThresholds'
    BY <2>4 DEF BelowThresholds, Reject, breaker
  <2>5. ASSUME NEW c \in Caller, Succeed(c) PROVE BelowThresholds'
    BY <2>5 DEF BelowThresholds, Succeed, AtLeastOne, Inv, TypeOK
  <2>6. ASSUME NEW c \in Caller, Fail(c) PROVE BelowThresholds'
    BY <2>6 DEF BelowThresholds, Fail, AtLeastOne, Inv, TypeOK
  <2>7. CASE Cool
    BY <2>7 DEF BelowThresholds, Cool
  <2>8. CASE UNCHANGED vars
    BY <2>8 DEF BelowThresholds, vars, breaker
  <2> QED
    BY <2>1, <2>2, <2>3, <2>4, <2>5, <2>6, <2>7, <2>8 DEF Next, Admit
<1> QED
  BY <1>1, <1>2, InvAlways, PTL DEF Spec

(* A breaker as it is built is a gate as it is built ... *)
LEMMA GateStarts == Init => Gate!GateInit
BY DEF Init, Gate!GateInit

(* ... and a step of the breaker is a step of the gate, or none. *)
LEMMA GateSteps == Inv /\ [Next]_vars => [Gate!GateNext]_(Gate!gateVars)
<1> SUFFICES ASSUME Inv, [Next]_vars PROVE [Gate!GateNext]_(Gate!gateVars)
  OBVIOUS
<1> USE BreakerAssumption
<1>0. /\ half_open_requests \in Nat
      /\ state # "HalfOpen" => half_open_requests = 0
  BY NoneCurrent DEF Inv, TypeOK
<1>1. ASSUME NEW c \in Caller, AllowClosed(c) PROVE Gate!Start(c)
  BY <1>1 DEF AllowClosed, breaker, Gate!Start
<1>2. ASSUME NEW c \in Caller, StartProbing(c) PROVE Gate!BeginPeriod(c)
  BY <1>2 DEF StartProbing, Gate!BeginPeriod
<1>3. ASSUME NEW c \in Caller, AllowProbe(c) PROVE Gate!StartProbe(c)
  BY <1>0, <1>3 DEF AllowProbe, Gate!StartProbe, AtLeastOne
<1>4. ASSUME NEW c \in Caller, Succeed(c) PROVE Gate!Finish(c)
  BY <1>0, <1>4 DEF Succeed, Answered, Gate!Finish, Gate!Successors, Inv, TypeOK
<1>5. ASSUME NEW c \in Caller, Fail(c) PROVE Gate!Finish(c)
  BY <1>0, <1>5 DEF Fail, Answered, Gate!Finish, Gate!Successors, Inv, TypeOK
<1>6. ASSUME NEW c \in Caller, Reject(c) PROVE UNCHANGED Gate!gateVars
  BY <1>6 DEF Reject, breaker, Gate!gateVars
<1>7. CASE Cool
  BY <1>7 DEF Cool, Gate!gateVars
<1>8. CASE UNCHANGED vars
  BY <1>8 DEF vars, breaker, Gate!gateVars
<1> QED
  BY <1>1, <1>2, <1>3, <1>4, <1>5, <1>6, <1>7, <1>8 DEF Next, Admit, Gate!GateNext

(* The breaker implements BreakerGate: the initial states map to initial   *)
(* states, and every step to a step of the gate or to a stutter.           *)
THEOREM ImplementsGate == Spec => KeepsGate
BY GateStarts, GateSteps, InvAlways, PTL DEF Spec, KeepsGate, Gate!GateSpec
===============================================================================
