------------------------- MODULE MCTerminalViewers -------------------------
(***************************************************************************)
(* Two scenarios of TerminalServer with two clients for TLC.  The          *)
(* constants of the configuration are those both use.  Clients are         *)
(* interchangeable.                                                        *)
(***************************************************************************)
EXTENDS TerminalServer, TLC

VARIABLE scenario   \* "sizes" or "removal"

(* Viewports of two sizes come and go at a terminal whose process runs on. *)
Viewports == INSTANCE TerminalServer WITH
  Events <- {}, Operations <- {"attach", "detach", "start"}

RunsOn == \A t \in Terminals : live'[t].end = live[t].end

(* A terminal whose drains may throw is stopped and removed under its viewers. *)
Removals == INSTANCE TerminalServer WITH
  MaxSize <- 1, Operations <- {"attach", "start", "stop", "remove"}

ViewersInit == scenario \in {"sizes", "removal"} /\ Init

ViewersNext ==
  /\ UNCHANGED scenario
  /\ \/ scenario = "sizes" /\ Viewports!Next /\ RunsOn
     \/ scenario = "removal" /\ Removals!Next

ViewersSpec == ViewersInit /\ [][ViewersNext]_<<vars, scenario>>

Interchangeable == Permutations(Clients)
=============================================================================
