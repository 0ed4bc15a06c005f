--------------------------- MODULE MCControlClient ---------------------------
(* Small instances of the control connection for TLC: the .cfg files give   *)
(* the constants.                                                           *)
EXTENDS ControlClient
=============================================================================
