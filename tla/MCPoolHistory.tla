--------------------------- MODULE MCPoolHistory ---------------------------
(* A small instance of the pool with its history, for the rotation limits.  *)
EXTENDS PoolHistory, TLC

Symmetry == Permutations(Clients)
=============================================================================
