---------------------------- MODULE BoundedQueue ----------------------------
(***************************************************************************)
(* boundedQueue of packages/support/src/bounded.ts, the queue between the  *)
(* daemon's handlers and the pump of each connection: a ring of slots, the *)
(* producers blocked behind it, and the promise of a parked consumer.  A   *)
(* call runs to its end before another starts.                             *)
(*                                                                         *)
(* Items are numbered in the order they are pushed.  The consumer is one   *)
(* `for await` loop: it does not ask again while it waits (the code throws *)
(* if it does) nor after it was told that it is done.                      *)
(***************************************************************************)
EXTENDS Naturals, Sequences

CONSTANTS Capacity,  \* options.capacity
          MaxItems   \* bound on the pushes of a behaviour

ASSUME BoundedQueueAssumption == Capacity \in Nat \ {0} /\ MaxItems \in Nat

VARIABLES
  policy,    \* options.onOverflow
  slots,     \* 0: undefined
  head,
  size,
  finished,
  blocked,   \* the items of producers whose push has not resolved
  waiting,   \* the consumer's promise is unresolved
  pushed,    \* how many pushes there were
  pending,   \* the items whose push has not resolved, as their producers see it
  served,    \* the items the consumer was given
  ended      \* the consumer was told it is done, or broke out of its loop

vars == <<policy, slots, head, size, finished, blocked, waiting, pushed, pending,
          served, ended>>

Items == 1..MaxItems
Empty == 0
Policies == {"block", "dropOldest"}
At(index) == index % Capacity

Init ==
  /\ policy \in Policies
  /\ slots = [i \in 0..(Capacity - 1) |-> Empty]
  /\ head = 0 /\ size = 0
  /\ finished = FALSE
  /\ blocked = <<>>
  /\ waiting = FALSE
  /\ pushed = 0 /\ pending = {}
  /\ served = <<>> /\ ended = FALSE

-----------------------------------------------------------------------------
(* Mutation: the item is stored whether or not the consumer waits for one. *)
EnqueueUnseen(item) ==
  /\ slots' = [slots EXCEPT ![At(head + size)] = item]
  /\ size' = size + 1
  /\ UNCHANGED <<waiting, served>>

(* A waiting consumer is handed the item past the ring. *)
Enqueue(item) ==
  IF waiting
  THEN /\ waiting' = FALSE
       /\ served' = Append(served, item)
       /\ UNCHANGED <<slots, size>>
  ELSE /\ slots' = [slots EXCEPT ![At(head + size)] = item]
       /\ size' = size + 1
       /\ UNCHANGED <<waiting, served>>

(* Mutation: the item that is replaced is not discounted. *)
ReplaceOldestUncounted(item) ==
  /\ slots' = [slots EXCEPT ![head] = item]
  /\ head' = At(head + 1)
  /\ size' = size + 1
  /\ UNCHANGED <<waiting, served>>

(* With the ring full, head + size is the slot the oldest item leaves. *)
ReplaceOldest(item) ==
  /\ slots' = [slots EXCEPT ![head] = item]
  /\ head' = At(head + 1)
  /\ UNCHANGED <<size, waiting, served>>

Push ==
  /\ pushed < MaxItems
  /\ pushed' = pushed + 1
  /\ UNCHANGED <<policy, finished, ended>>
  /\ \/ /\ finished
        /\ UNCHANGED <<slots, head, size, blocked, waiting, pending, served>>
     \/ /\ ~finished /\ size < Capacity
        /\ Enqueue(pushed')
        /\ UNCHANGED <<head, blocked, pending>>
     \/ /\ ~finished /\ size = Capacity /\ policy = "dropOldest"
        /\ ReplaceOldest(pushed')
        /\ UNCHANGED <<blocked, pending>>
     \/ /\ ~finished /\ size = Capacity /\ policy = "block"
        /\ blocked' = Append(blocked, pushed')
        /\ pending' = pending \cup {pushed'}
        /\ UNCHANGED <<slots, head, size, waiting, served>>

(* Mutation: the freed slot is reckoned from the new head and the old size. *)
AdvanceMisplaced ==
  /\ head' = At(head + 1)
  /\ IF blocked = <<>>
     THEN /\ slots' = [slots EXCEPT ![head] = Empty]
          /\ size' = size - 1
          /\ UNCHANGED <<blocked, pending>>
     ELSE /\ slots' = [slots EXCEPT ![head] = Empty, ![At(head + 1 + size)] = Head(blocked)]
          /\ blocked' = Tail(blocked)
          /\ pending' = pending \ {Head(blocked)}
          /\ UNCHANGED size

(* The head leaves its slot; the first blocked producer's item, if there is *)
(* one, goes behind the items left, and its push resolves.                  *)
Advance ==
  /\ head' = At(head + 1)
  /\ IF blocked = <<>>
     THEN /\ slots' = [slots EXCEPT ![head] = Empty]
          /\ size' = size - 1
          /\ UNCHANGED <<blocked, pending>>
     ELSE /\ slots' = [slots EXCEPT ![head] = Empty, ![At(head + size)] = Head(blocked)]
          /\ blocked' = Tail(blocked)
          /\ pending' = pending \ {Head(blocked)}
          /\ UNCHANGED size

(* iterator.next *)
NextItem ==
  /\ ~waiting /\ ~ended
  /\ UNCHANGED <<policy, finished, pushed>>
  /\ \/ /\ size > 0
        /\ served' = Append(served, slots[head])
        /\ Advance
        /\ UNCHANGED <<waiting, ended>>
     \/ /\ size = 0 /\ finished
        /\ ended' = TRUE
        /\ UNCHANGED <<slots, head, size, blocked, waiting, pending, served>>
     \/ /\ size = 0 /\ ~finished
        /\ waiting' = TRUE
        /\ UNCHANGED <<slots, head, size, blocked, pending, served, ended>>

(* Mutation: the producers are let go of without an answer. *)
ReleaseSilently ==
  /\ blocked' = <<>>
  /\ UNCHANGED pending

(* Every blocked producer's push resolves, and its item is lost. *)
Release ==
  /\ blocked' = <<>>
  /\ pending' = pending \ {blocked[i] : i \in DOMAIN blocked}

(* finish: a waiting consumer is told it is done. *)
Finish ==
  /\ ~finished
  /\ finished' = TRUE
  /\ Release
  /\ ended' = (ended \/ waiting)
  /\ waiting' = FALSE
  /\ UNCHANGED <<policy, slots, head, size, pushed, served>>

(* iterator.return, when the loop is left: it finishes the queue. *)
Return ==
  /\ ~waiting /\ ~ended
  /\ finished' = TRUE
  /\ Release
  /\ ended' = TRUE
  /\ UNCHANGED <<policy, slots, head, size, waiting, pushed, served>>

Next == Push \/ NextItem \/ Finish \/ Return

Spec == Init /\ [][Next]_vars

-----------------------------------------------------------------------------
(* Every variable has its type: head and size never leave the ring, however *)
(* pushes that displace and producers that refill alternate.                *)
TypeOK ==
  /\ policy \in Policies
  /\ slots \in [0..(Capacity - 1) -> Items \cup {Empty}]
  /\ head \in 0..(Capacity - 1)
  /\ size \in 0..Capacity
  /\ finished \in BOOLEAN
  /\ blocked \in Seq(Items)
  /\ waiting \in BOOLEAN
  /\ pushed \in 0..MaxItems
  /\ pending \subseteq Items
  /\ served \in Seq(Items)
  /\ ended \in BOOLEAN

(* A parked consumer has nothing to take and a producer waits only for a    *)
(* full ring: no item is left lying with its reader asleep.                 *)
NobodyWaitsInVain ==
  /\ waiting => size = 0 /\ ~finished
  /\ blocked # <<>> => size = Capacity /\ policy = "block" /\ ~finished

(* A push is unresolved exactly while its item is blocked, so that nobody   *)
(* waits for a queue that was finished.                                     *)
PendingAreBlocked == pending = {blocked[i] : i \in DOMAIN blocked}

(* The items of the ring in the order they will be served, then those of    *)
(* the blocked producers.                                                   *)
Line ==
  [i \in 1..(size + Len(blocked)) |->
     IF i <= size THEN slots[At(head + i - 1)] ELSE blocked[i - size]]

Fifo == INSTANCE ClosableFifo WITH line <- Line, closed <- finished

(* Ring, blocked producers and parked consumer together are a closable      *)
(* line: nothing is lost, repeated or served out of turn.                   *)
ServesInTurn == Fifo!Spec
=============================================================================
