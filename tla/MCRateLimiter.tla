--------------------------- MODULE MCRateLimiter ----------------------------
(* Instances of RateLimiter for TLC. *)
EXTENDS RateLimiter, TLC

RequestSymmetry == Permutations(Requests)
=============================================================================
