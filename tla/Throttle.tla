-------------------------------- MODULE Throttle --------------------------------
(***************************************************************************)
(* The per-source throttle of gateway/src/middleware/throttle.rs: a map    *)
(* from sources to token buckets behind a read-write lock, with the        *)
(* eviction of one bucket when the map is full.                            *)
(*                                                                         *)
(* What happens under one lock is one step, so a call is one step (the     *)
(* source has a bucket) or two (it has none).  The atomics inside a bucket *)
(* are the subject of TokenBucket; here a bucket answers in one step.      *)
(* Tokens are counted in messages: the code's unit is 1000 per message     *)
(* throughout.                                                             *)
(***************************************************************************)
EXTENDS TaskClock, Functions

CONSTANTS
    Source,
    Burst,
    RefillNanos,        \* 10^9 / rate; for rate 0 longer than any run
    MaxSources

ASSUME ThrottleAssumption ==
    Burst \in Nat /\ RefillNanos \in Nat \ {0} /\ MaxSources \in Nat

VARIABLES
    buckets,            \* a bucket for each tracked source
    missed              \* tasks between the read lock and the write lock

(* History: when each source was last served and, since it got the bucket  *)
(* it has, when that was and how many messages were let through; the last  *)
(* eviction, with the last use of every source tracked then.               *)
VARIABLES used, since, grants, eviction

throttleVars == <<buckets, missed, used, since, grants, eviction>>

NoEviction == [victim |-> "none", used |-> <<>>]

ThrottleInit ==
    /\ buckets = <<>>
    /\ missed = {}
    /\ used = [s \in Source |-> 0]
    /\ since = [s \in Source |-> 0]
    /\ grants = [s \in Source |-> 0]
    /\ eviction = NoEviction

--------------------------------------------------------------------------------
(* One bucket.  Its times are measured from its own creation. *)

NewBucket == [tokens |-> Burst, last_refill |-> 0, created |-> now, last_access |-> 0]

Lesser(a, b) == IF a < b THEN a ELSE b

Refilled(b) ==
    LET intervals == (now - b.created - b.last_refill) \div RefillNanos
    IN  [b EXCEPT !.last_refill = @ + intervals * RefillNanos,
                  !.tokens = Lesser(@ + intervals, Burst)]

Grants(b) == Refilled(b).tokens > 0

(* The bucket after TrackedBucket::try_acquire(). *)
Acquired(b) ==
    [Refilled(b) EXCEPT !.last_access = now - b.created,
                        !.tokens = IF @ > 0 THEN @ - 1 ELSE 0]

(* Source s is answered from bucket b, which is in the map `tracked` from  *)
(* here on; ok is the answer.                                              *)
Serve(s, b, tracked, ok) ==
    /\ ok = Grants(b)
    /\ buckets' = Insert(tracked, s, Acquired(b))
    /\ used' = [used EXCEPT ![s] = now]
    /\ since' = [since EXCEPT ![s] = IF s \in DOMAIN buckets THEN @ ELSE now]
    /\ grants' = [grants EXCEPT ![s] = (IF s \in DOMAIN buckets THEN @ ELSE 0)
                                         + (IF ok THEN 1 ELSE 0)]

--------------------------------------------------------------------------------
(* get_or_create_bucket() *)

FastPath(t, s, ok) ==
    /\ t \notin missed /\ s \in DOMAIN buckets
    /\ Serve(s, buckets[s], buckets, ok)
    /\ UNCHANGED <<missed, eviction>>

Miss(t, s) ==
    /\ t \notin missed /\ s \notin DOMAIN buckets
    /\ missed' = missed \union {t}
    /\ UNCHANGED <<buckets, used, since, grants, eviction>>

(* The double check: another task inserted the bucket in between. *)
SlowHit(t, s, ok) ==
    /\ t \in missed /\ s \in DOMAIN buckets
    /\ Serve(s, buckets[s], buckets, ok)
    /\ missed' = missed \ {t}
    /\ UNCHANGED eviction

(* min_by_key over a HashMap: among equal keys any bucket may come first. *)
LruSources ==
    {s \in DOMAIN buckets :
       \A u \in DOMAIN buckets : buckets[s].last_access <= buckets[u].last_access}

(* Faulty variant: room is made only once the map is over its limit. *)
AtCapacityLate == Cardinality(DOMAIN buckets) > MaxSources

AtCapacity == Cardinality(DOMAIN buckets) >= MaxSources

(* What evict_lru() may remove: there is nothing to remove from an empty   *)
(* map.                                                                    *)
Evictable ==
    IF AtCapacity /\ DOMAIN buckets # {} THEN {{s} : s \in LruSources} ELSE {{}}

RecordEviction(victims) ==
    eviction' = IF victims = {} THEN eviction
                ELSE [victim |-> CHOOSE s \in victims : TRUE,
                      used |-> Restrict(used, DOMAIN buckets)]

(* Faulty variant: the write lock does not look again. *)
CreateUnchecked(t, s, ok) ==
    /\ t \in missed
    /\ \E victims \in Evictable :
         /\ Serve(s, NewBucket, Restrict(buckets, DOMAIN buckets \ victims), ok)
         /\ RecordEviction(victims)
    /\ missed' = missed \ {t}

CreateBucket(t, s, ok) ==
    /\ t \in missed /\ s \notin DOMAIN buckets
    /\ \E victims \in Evictable :
         /\ Serve(s, NewBucket, Restrict(buckets, DOMAIN buckets \ victims), ok)
         /\ RecordEviction(victims)
    /\ missed' = missed \ {t}

ThrottleAnswers(t, s, ok) ==
    FastPath(t, s, ok) \/ SlowHit(t, s, ok) \/ CreateBucket(t, s, ok)

--------------------------------------------------------------------------------
(* Properties. *)

ThrottleTypeOK ==
    /\ DOMAIN buckets \subseteq Source
    /\ \A s \in DOMAIN buckets :
         buckets[s] \in [tokens : 0 .. Burst, last_refill : 0 .. now,
                         created : 0 .. now, last_access : 0 .. now]
    /\ missed \subseteq Task

(* throttle.rs:27, "Set `max_sources` to limit memory usage": the map      *)
(* never tracks more sources than that, whichever tasks race to insert;    *)
(* with max_sources 0 it still holds one, because evict_lru() has nothing  *)
(* to remove and the insert follows.                                       *)
SourcesBounded ==
    Cardinality(DOMAIN buckets) <= IF MaxSources = 0 THEN 1 ELSE MaxSources

(* throttle.rs:22, "Each source gets its own token bucket with the         *)
(* configured rate/burst": from the moment a source has a bucket, no more  *)
(* than the burst and one message per elapsed interval get through,        *)
(* although two first messages of a source race between the locks.         *)
PerSourceLimit ==
    \A s \in DOMAIN buckets : grants[s] <= Burst + (now - since[s]) \div RefillNanos

(* throttle.rs:27-28, "When exceeded, the least recently used bucket is    *)
(* evicted": no source tracked at the last eviction had been unused for    *)
(* longer than the one evicted.                                            *)
EvictsLeastRecent ==
    eviction # NoEviction =>
      \A s \in DOMAIN eviction.used : eviction.used[eviction.victim] <= eviction.used[s]
================================================================================
