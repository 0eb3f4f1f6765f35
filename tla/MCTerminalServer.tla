------------------------- MODULE MCTerminalServer -------------------------
(***************************************************************************)
(* Instances of TerminalServer for TLC.  Clients are interchangeable, and  *)
(* so are terminals: no operator chooses among either.                     *)
(***************************************************************************)
EXTENDS TerminalServer, TLC

Interchangeable == Permutations(Clients) \cup Permutations(Terminals)
=============================================================================
