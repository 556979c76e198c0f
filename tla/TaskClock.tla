------------------------------- MODULE TaskClock -------------------------------
(***************************************************************************)
(* What the stateful middleware share: the tasks that call process(&self)  *)
(* on it concurrently, and the monotonic clock (std::time::Instant) they   *)
(* read.                                                                   *)
(***************************************************************************)
EXTENDS Integers, FiniteSets

CONSTANTS
    Task,               \* callers of the middleware chain
    MaxTime             \* bound: where the clock stops

ASSUME ClockAssumption == IsFiniteSet(Task) /\ MaxTime \in Nat

VARIABLE now

ClockInit == now = 0

Tick ==
    /\ now < MaxTime
    /\ now' = now + 1

(* HashMap::insert, which they keep their tables with: a new key, or a new *)
(* value for an old one.                                                   *)
Insert(map, key, value) ==
    [k \in DOMAIN map \union {key} |-> IF k = key THEN value ELSE map[k]]
================================================================================
