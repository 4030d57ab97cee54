--------------------------- MODULE MCRateLimiter ---------------------------
(* Instances of RateLimiter for TLC.                                       *)
EXTENDS RateLimiter, TLC

CONSTANTS a, b

TwoIps == {a, b}

Symmetry == Permutations(Ip)
=============================================================================
