----------------------------- MODULE RateLimitMC -----------------------------
(* Small instances of RateLimit for TLC. *)
EXTENDS RateLimit, TLC

CONSTANTS k1, k2, q1, q2

TwoKeys == {k1, k2}
TwoRequests == {q1, q2}
Symmetric == Permutations(TwoRequests)
=============================================================================
