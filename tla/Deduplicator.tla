------------------------------ MODULE Deduplicator ------------------------------
(***************************************************************************)
(* The deduplicator of gateway/src/middleware/dedup.rs.  check() reads the *)
(* clock first, then counts the operation with an atomic, perhaps resets   *)
(* the count and cleans up under the mutex, and then takes the mutex again *)
(* to decide; other tasks run between any two of these, so the time it     *)
(* decides with may be old.                                                *)
(***************************************************************************)
EXTENDS TaskClock, Sequences, Functions

CONSTANTS
    Ttl,
    CleanupInterval     \* at least 1: with_cleanup_interval takes max(1)

ASSUME DedupAssumption == Ttl \in Nat /\ CleanupInterval \in Nat \ {0}

VARIABLES
    seen,               \* id -> the clock reading it was last let through with
    ops_since_cleanup,
    check,              \* where each task is in check()
    reading             \* check()'s `now`

(* History: for each id, the admissions in order, each with the clock      *)
(* reading it was decided with and the time it happened.                   *)
VARIABLE admitted

dedupVars == <<seen, ops_since_cleanup, check, reading, admitted>>

DedupInit ==
    /\ seen = <<>>
    /\ ops_since_cleanup = 0
    /\ check = [t \in Task |-> "idle"]
    /\ reading = [t \in Task |-> 0]
    /\ admitted = <<>>

ReadNow(t) ==
    /\ check[t] = "idle"
    /\ reading' = [reading EXCEPT ![t] = now]
    /\ check' = [check EXCEPT ![t] = "count"]
    /\ UNCHANGED <<seen, ops_since_cleanup, admitted>>

(* Faulty variant: the cleanup is due at exactly the interval, so the      *)
(* count can run past it while the reset is outstanding.                   *)
CountOpExactly(t) ==
    /\ check[t] = "count"
    /\ ops_since_cleanup' = ops_since_cleanup + 1
    /\ check' = [check EXCEPT ![t] =
                   IF ops_since_cleanup = CleanupInterval THEN "reset" ELSE "lock"]
    /\ UNCHANGED <<seen, reading, admitted>>

(* fetch_add *)
CountOp(t) ==
    /\ check[t] = "count"
    /\ ops_since_cleanup' = ops_since_cleanup + 1
    /\ check' = [check EXCEPT ![t] =
                   IF ops_since_cleanup >= CleanupInterval THEN "reset" ELSE "lock"]
    /\ UNCHANGED <<seen, reading, admitted>>

ResetOps(t) ==
    /\ check[t] = "reset"
    /\ ops_since_cleanup' = 0
    /\ check' = [check EXCEPT ![t] = "cleanup"]
    /\ UNCHANGED <<seen, reading, admitted>>

(* Faulty variant: the window is one unit short. *)
FreshShort(last_seen, at) == at - last_seen < Ttl - 1

(* duration_since saturates at zero: last_seen may be later than `at`. *)
Fresh(last_seen, at) == at - last_seen < Ttl

(* cleanup(): the entries that are fresh for this task's reading stay. *)
Cleanup(t) ==
    /\ check[t] = "cleanup"
    /\ seen' = Restrict(seen, {id \in DOMAIN seen : Fresh(seen[id], reading[t])})
    /\ check' = [check EXCEPT ![t] = "lock"]
    /\ UNCHANGED <<ops_since_cleanup, reading, admitted>>

LeaveCheck(t) ==
    /\ check' = [check EXCEPT ![t] = "idle"]
    /\ reading' = [reading EXCEPT ![t] = 0]

Duplicate(t, id) ==
    /\ check[t] = "lock"
    /\ id \in DOMAIN seen /\ Fresh(seen[id], reading[t])
    /\ LeaveCheck(t)
    /\ UNCHANGED <<seen, ops_since_cleanup, admitted>>

Admissions(id) == IF id \in DOMAIN admitted THEN admitted[id] ELSE <<>>

(* New, or expired: recorded with the reading, and let through. *)
FirstSight(t, id) ==
    /\ check[t] = "lock"
    /\ ~(id \in DOMAIN seen /\ Fresh(seen[id], reading[t]))
    /\ seen' = Insert(seen, id, reading[t])
    /\ admitted' = Insert(admitted, id,
                          Append(Admissions(id), [read |-> reading[t], at |-> now]))
    /\ LeaveCheck(t)
    /\ UNCHANGED ops_since_cleanup

DedupAdvances(t) == ReadNow(t) \/ CountOp(t) \/ ResetOps(t) \/ Cleanup(t)

--------------------------------------------------------------------------------
(* Properties. *)

DedupTypeOK ==
    /\ \A id \in DOMAIN seen : seen[id] \in 0 .. now
    /\ ops_since_cleanup \in Nat
    /\ check \in [Task -> {"idle", "count", "reset", "cleanup", "lock"}]
    /\ reading \in [Task -> 0 .. now]
    /\ \A id \in DOMAIN admitted : admitted[id] \in Seq([read : 0 .. now, at : 0 .. now])

(* dedup.rs:24, "Duplicates (same ID within window) are dropped": two      *)
(* admissions of one id are a window apart, counted from the first one's   *)
(* clock reading.  Stale readings, an admission recorded over a newer one  *)
(* and cleanups that run with an old time all leave this intact; counted   *)
(* from the moment of the first admission it would be false.               *)
DuplicateWindow ==
    \A id \in DOMAIN admitted : \A i \in 2 .. Len(admitted[id]) :
      admitted[id][i].at - admitted[id][i - 1].read >= Ttl

(* dedup.rs:28, "every `cleanup_interval` ops": however the reset, which   *)
(* is a store after the fetch_add, races with other increments, the count  *)
(* exceeds the interval by at most one for each task, so a cleanup is      *)
(* never put off longer (and the 32-bit counter never wraps).              *)
CleanupBounded == ops_since_cleanup <= CleanupInterval + Cardinality(Task)
================================================================================
