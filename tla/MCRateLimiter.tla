---------------------------- MODULE MCRateLimiter ----------------------------
(* Two threads and two clients, each let through twice in a window of two   *)
(* ticks, the buckets pruned as soon as there are two, and five ticks: so *)
(* that three windows meet one stretch of two ticks.                        *)
EXTENDS RateLimiter, TLC

CONSTANTS t1, t2, k1, k2

mcThreads == {t1, t2}
mcKeys == {k1, k2}
mcSymmetry == Permutations(mcThreads) \cup Permutations(mcKeys)
=============================================================================
