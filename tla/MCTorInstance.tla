---------------------------- MODULE MCTorInstance ----------------------------
(* Small instances of the instance lifecycle for TLC: the .cfg file gives   *)
(* the constants.                                                           *)
EXTENDS TorInstance
=============================================================================
