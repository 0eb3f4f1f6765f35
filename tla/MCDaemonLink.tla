---------------------------- MODULE MCDaemonLink ----------------------------
(* Model-checking instances of DaemonLink. *)
EXTENDS DaemonLink
=============================================================================
