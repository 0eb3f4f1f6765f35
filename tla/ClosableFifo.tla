---------------------------- MODULE ClosableFifo ----------------------------
(***************************************************************************)
(* What a bounded queue promises its producers and its one consumer: a     *)
(* line of items, served from the front, that can be closed.  The first    *)
(* Capacity of them are in the queue; those behind are still in the hands  *)
(* of producers that wait, and are given up when the line is closed.  A    *)
(* queue that drops gives up its oldest item and never has anyone wait.    *)
(*                                                                         *)
(* Items are numbered in the order they are pushed.                        *)
(***************************************************************************)
EXTENDS Naturals, Sequences

CONSTANTS Capacity,  \* items a queue holds
          MaxItems   \* bound on the pushes of a behaviour

VARIABLES
  policy,   \* what happens to a push at capacity
  line,     \* the items to be served
  pushed,   \* how many pushes there were
  served,   \* the items the consumer was given
  closed,   \* no more items are taken
  waiting,  \* the consumer waits for an item
  ended     \* the consumer was told there will be none, or left

vars == <<policy, line, pushed, served, closed, waiting, ended>>

Policies == {"block", "dropOldest"}

Init ==
  /\ policy \in Policies
  /\ line = <<>> /\ served = <<>>
  /\ pushed = 0
  /\ closed = FALSE /\ waiting = FALSE /\ ended = FALSE

Ignore ==
  /\ closed
  /\ pushed' = pushed + 1
  /\ UNCHANGED <<policy, line, served, closed, waiting, ended>>

Hand ==
  /\ ~closed /\ waiting
  /\ pushed' = pushed + 1
  /\ served' = Append(served, pushed + 1)
  /\ waiting' = FALSE
  /\ UNCHANGED <<policy, line, closed, ended>>

Join ==
  /\ ~closed /\ ~waiting
  /\ policy = "block" \/ Len(line) < Capacity
  /\ pushed' = pushed + 1
  /\ line' = Append(line, pushed + 1)
  /\ UNCHANGED <<policy, served, closed, waiting, ended>>

Displace ==
  /\ ~closed /\ ~waiting
  /\ policy = "dropOldest" /\ Len(line) = Capacity
  /\ pushed' = pushed + 1
  /\ line' = Append(Tail(line), pushed + 1)
  /\ UNCHANGED <<policy, served, closed, waiting, ended>>

Serve ==
  /\ ~waiting /\ ~ended
  /\ line # <<>>
  /\ served' = Append(served, Head(line))
  /\ line' = Tail(line)
  /\ UNCHANGED <<policy, pushed, closed, waiting, ended>>

Await ==
  /\ ~waiting /\ ~ended
  /\ line = <<>>
  /\ IF closed THEN ended' = TRUE /\ UNCHANGED waiting
     ELSE waiting' = TRUE /\ UNCHANGED ended
  /\ UNCHANGED <<policy, line, pushed, served, closed>>

Kept == IF Len(line) < Capacity THEN Len(line) ELSE Capacity

(* A consumer that leaves closes the line behind it. *)
Close(leaving) ==
  /\ leaving => ~waiting /\ ~ended
  /\ closed' = TRUE
  /\ line' = IF closed THEN line ELSE SubSeq(line, 1, Kept)
  /\ waiting' = FALSE
  /\ ended' = (ended \/ waiting \/ leaving)
  /\ UNCHANGED <<policy, pushed, served>>

Next ==
  \/ pushed < MaxItems /\ (Ignore \/ Hand \/ Join \/ Displace)
  \/ Serve \/ Await
  \/ \E leaving \in BOOLEAN : Close(leaving)

Spec == Init /\ [][Next]_vars
=============================================================================
