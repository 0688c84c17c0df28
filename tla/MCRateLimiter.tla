----------------------------- MODULE MCRateLimiter -----------------------------
(* Instances of RateLimiter for TLC. *)
EXTENDS RateLimiter, TLC

CONSTANTS w1, w2, node, key

TwoThreads == {w1, w2}

Interchangeable == Permutations(Threads)

=============================================================================
