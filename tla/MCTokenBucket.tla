------------------------------ MODULE MCTokenBucket ------------------------------
(* Model checking TokenBucket: the threads are interchangeable. *)
EXTENDS TokenBucket, TLC

ThreadSymmetry == Permutations(Thread)
===============================================================================
