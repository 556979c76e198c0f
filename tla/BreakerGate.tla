------------------------------- MODULE BreakerGate -------------------------------
(***************************************************************************)
(* What a circuit breaker promises the backend behind it, with no counters *)
(* and no clock: when calls may start, and between which modes it moves.   *)
(*                                                                         *)
(*  - while Closed, any caller may start a call;                           *)
(*  - while Open, none may, but for the one whose start begins a half-open *)
(*    period;                                                              *)
(*  - a half-open period lets at most Limit calls start, that one included;*)
(*  - the mode changes otherwise only when a call ends, and never from     *)
(*    Open to Closed.                                                      *)
(***************************************************************************)
EXTENDS Naturals

CONSTANTS Caller, Limit

VARIABLES mode, calls, budget

gateVars == <<mode, calls, budget>>

GateInit == mode = "Closed" /\ calls = {} /\ budget = 0

Start(c) ==
    /\ c \notin calls /\ mode = "Closed"
    /\ calls' = calls \union {c}
    /\ UNCHANGED <<mode, budget>>

BeginPeriod(c) ==
    /\ c \notin calls /\ mode = "Open"
    /\ mode' = "HalfOpen"
    /\ budget' = Limit - 1
    /\ calls' = calls \union {c}

StartProbe(c) ==
    /\ c \notin calls /\ mode = "HalfOpen" /\ budget > 0
    /\ budget' = budget - 1
    /\ calls' = calls \union {c}
    /\ UNCHANGED mode

Successors == [Closed |-> {"Closed", "Open"},
               Open |-> {"Open"},
               HalfOpen |-> {"HalfOpen", "Closed", "Open"}]

Finish(c) ==
    /\ c \in calls
    /\ calls' = calls \ {c}
    /\ mode' \in Successors[mode]
    /\ budget' = IF mode' = "HalfOpen" THEN budget ELSE 0

GateNext == \E c \in Caller : Start(c) \/ BeginPeriod(c) \/ StartProbe(c) \/ Finish(c)

GateSpec == GateInit /\ [][GateNext]_gateVars
===============================================================================
