------------------------ MODULE MCTerminalScenarios ------------------------
(***************************************************************************)
(* Two scenarios of TerminalServer for TLC: in each a part of what may     *)
(* happen does, so that the rest may be larger.  The constants of the      *)
(* configuration are those both use.  Clients are interchangeable.         *)
(***************************************************************************)
EXTENDS TerminalServer, TLC

VARIABLE scenario   \* "together", or the one client that stays

(* One client follows, and looks at, a terminal that signals and restarts. *)
Reader == INSTANCE TerminalServer WITH
  Progresses <- {}, Operations <- {"attach", "mark", "start", "restart"},
  Events <- {"bell", "promptFinished", "readFails"}, Activities <- {"waiting", "finished"}

(* Two clients follow a terminal whose state moves. *)
Followers == INSTANCE TerminalServer WITH
  MaxRuns <- 1, ControlCapacity <- 2, Operations <- {"mark", "rename", "start"},
  Events <- {"bell"}, Activities <- {"working"}

(* The others have closed their connections before c does anything. *)
Alone(c) == \A d \in Clients \ {c} : conn'[d].phase = "closed"

ScenariosInit == scenario \in Clients \cup {"together"} /\ Init

ScenariosNext ==
  /\ UNCHANGED scenario
  /\ \/ scenario = "together" /\ Followers!Next
     \/ scenario # "together" /\ Reader!Next /\ Alone(scenario)

ScenariosSpec == ScenariosInit /\ [][ScenariosNext]_<<vars, scenario>>

Interchangeable == Permutations(Clients)
=============================================================================
