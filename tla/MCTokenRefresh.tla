--------------------------- MODULE MCTokenRefresh ---------------------------
(* Up to two instances, a live read and a recovery on up to two grants.    *)
EXTENDS TokenRefresh, TLC

CONSTANTS r1, r2, l1, v1

RunnerSymmetry == Permutations(Runners)
=============================================================================
