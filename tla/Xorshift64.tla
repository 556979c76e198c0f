------------------------------- MODULE Xorshift64 -------------------------------
(***************************************************************************)
(* The xorshift64 generator of gateway/src/middleware/sampler.rs, written  *)
(* out again for the jitter of gateway/src/emit/resilience/retry.rs.  A    *)
(* u64 is the set of the positions of its one bits, so that a shift moves  *)
(* positions and drops the ones that leave the word.                       *)
(***************************************************************************)
EXTENDS Integers, FiniteSetsExt

Bit == 0 .. 63

Shl(x, k) == {i \in Bit : i - k \in x}

Shr(x, k) == {i \in Bit : i + k \in x}

Xorshift(x) ==
    LET a == SymDiff(x, Shl(x, 13))
        b == SymDiff(a, Shr(a, 7))
    IN  SymDiff(b, Shl(b, 17))

(* The unsigned comparison x <= y: at the highest bit where the words      *)
(* differ, y has the one.                                                  *)
AtMost(x, y) == x = y \/ Max(SymDiff(x, y)) \in y

(* seed | 1 *)
Seeded(seed) == seed \union {0}
================================================================================
