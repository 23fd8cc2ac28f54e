--------------------------- MODULE MCRateLimiter ---------------------------
EXTENDS RateLimiter, TLC

\* What the *_RATE_LIMIT_BURST and *_RATE_LIMIT_RPS variables may say, nonsense included.
MCConfigs == {[capacity |-> c, rate |-> r] : c \in {-1, 0, 2}, r \in {0, 1, 2}}

ProcSymmetry == Permutations(Procs)
=============================================================================
