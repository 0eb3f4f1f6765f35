-------------------------- MODULE MCSessionService --------------------------
(***************************************************************************)
(* Instances of SessionService for TLC.  Requests, sessions and terminals  *)
(* are interchangeable.                                                    *)
(***************************************************************************)
EXTENDS SessionService, TLC

Interchangeable ==
  Permutations(Sessions) \cup Permutations(Terminals) \cup Permutations(Tasks)
=============================================================================
