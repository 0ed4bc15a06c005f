----------------------------- MODULE MCTorPool -----------------------------
(* Small instances of the pool for TLC: the .cfg files give the constants.  *)
EXTENDS PoolClaims, TLC

Symmetry == Permutations(Clients)
=============================================================================
