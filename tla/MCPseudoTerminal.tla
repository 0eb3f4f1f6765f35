-------------------------- MODULE MCPseudoTerminal --------------------------
(***************************************************************************)
(* Instances of PseudoTerminal for TLC: one terminal whose ring wraps and  *)
(* grows, or two that write little and share the table.  Terminals are     *)
(* interchangeable.                                                        *)
(***************************************************************************)
EXTENDS PseudoTerminal, TLC

CONSTANT SharedBytes   \* bound: bytes a child writes when there are two

Spawned == {t \in Terminals : Reading(t)}

SharedIsSmall ==
  Cardinality(Spawned) > 1 => \A t \in Spawned : pty[t].written <= SharedBytes

RingSpec == Init /\ [][Next /\ SharedIsSmall']_vars

Interchangeable == Permutations(Terminals)
=============================================================================
