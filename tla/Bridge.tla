------------------------------- MODULE Bridge -------------------------------
(***************************************************************************)
(* The desktop shell's bridge between the daemon's socket and the WebView  *)
(* (apps/desktop/src-tauri/src/bridge.rs): per connection a pump that      *)
(* reads the socket into two bounded queues, and the commands the WebView  *)
(* invokes.  Each runs on a thread of its own: a step reaches from one     *)
(* lock, or await, to the next.                                            *)
(*                                                                         *)
(* The frames of a kind are numbered as the daemon sent them; a poll's     *)
(* answer is the numbers it carries.  FrameSplitter's output is what was   *)
(* sent, in reads of any size, or an error; writes to the daemon are left  *)
(* out.                                                                    *)
(***************************************************************************)
EXTENDS Naturals, Sequences, FiniteSets

CONSTANTS MaxID,       \* bound: connections opened, one after another
          Kinds,       \* control and output frames
          Capacity,    \* BRIDGE_CONTROL_ and _OUTPUT_QUEUE_CAPACITY, taken to be one
          MaxHeld,     \* BRIDGE_CONNECTION_CAPACITY
          MaxFrames    \* bound: frames of a kind per connection

BridgeAssumption ==
  {MaxID, MaxFrames} \subseteq Nat /\ {Capacity, MaxHeld} \subseteq Nat \ {0}

VARIABLES
  link,    \* [IDs -> Link]: each Connection
  held,    \* BridgeState.connections
  opened,  \* how many were
  poll,    \* [IDs -> Poll]: the bridge_receive under way
  close    \* [IDs -> where its bridge_close is]

Closes == {"no", "end", "notify", "shut", "done"}

vars == <<link, held, opened, poll, close>>

IDs == 1..MaxID

Link == [queues : [Kinds -> Seq(1..MaxFrames)], severed : BOOLEAN, ended : BOOLEAN,
         read : [Kinds -> 0..MaxFrames], pump : {"read", "notify", "last", "done"},
         writer : {"open", "shut"}]
NewLink == [queues |-> [k \in Kinds |-> <<>>], severed |-> FALSE, ended |-> FALSE,
            read |-> [k \in Kinds |-> 0], pump |-> "read", writer |-> "open"]

\* got and last: how many frames of a kind were answered, and the last of them.
Poll == [at : {"none", "lookup", "register", "check", "wait", "forget", "sever", "shut", "over"},
         told : BOOLEAN, got : [Kinds -> 0..MaxFrames], last : [Kinds -> 0..MaxFrames]]
NoPoll == [at |-> "none", told |-> FALSE, got |-> [k \in Kinds |-> 0], last |-> [k \in Kinds |-> 0]]

Init ==
  /\ link = [c \in IDs |-> NewLink]
  /\ held = {} /\ opened = 0
  /\ poll = [c \in IDs |-> NoPoll]
  /\ close = [c \in IDs |-> "no"]

-----------------------------------------------------------------------------
\* notify_waiters reaches every future that has been registered.
Told(p) == [p EXCEPT !.told = @ \/ p.at \in {"check", "wait"}]

Owes(l) == \E k \in Kinds : l.queues[k] # <<>>
Quiet(l) == ~l.severed /\ ~l.ended /\ ~Owes(l)

\* bridge_connect: the oldest connections make room.
Connect ==
  /\ opened < MaxID
  /\ opened' = opened + 1
  /\ LET stale == {c \in held : Cardinality({d \in held : d >= c}) >= MaxHeld} IN
       /\ held' = (held \ stale) \cup {opened'}
       /\ link' = [c \in IDs |-> IF c \in stale THEN [link[c] EXCEPT !.ended = TRUE] ELSE link[c]]
       /\ poll' = [c \in IDs |-> IF c \in stale THEN Told(poll[c]) ELSE poll[c]]
  /\ UNCHANGED close

\* Queues::push of the frames of one read, under one lock: those that fit, and
\* for the first that does not the connection is severed.
Pushed(l, kind, count) ==
  LET numbers == [i \in 1..count |-> l.read[kind] + i]
      room == Capacity - Len(l.queues[kind])
  IN  [l EXCEPT !.read[kind] = @ + count,
                !.queues[kind] = @ \o SubSeq(numbers, 1, IF count < room THEN count ELSE room),
                !.severed = @ \/ count > room]

PumpReads(c, kind, count) ==
  /\ c <= opened /\ link[c].pump = "read"
  /\ link[c].read[kind] + count <= MaxFrames
  /\ link' = [link EXCEPT ![c] = [Pushed(@, kind, count) EXCEPT !.pump = "notify"]]
  /\ UNCHANGED <<held, opened, poll, close>>

\* The end of the stream, or a frame that is refused: the pump's last word.
PumpEnds(c) ==
  /\ c <= opened /\ link[c].pump = "read"
  /\ \/ link' = [link EXCEPT ![c].ended = TRUE, ![c].pump = "last"]
     \/ link' = [link EXCEPT ![c].severed = TRUE, ![c].pump = "last"]
  /\ UNCHANGED <<held, opened, poll, close>>

PumpNotifies(c) ==
  /\ link[c].pump \in {"notify", "last"}
  /\ link' = [link EXCEPT ![c].pump = IF @ = "last" THEN "done" ELSE "read"]
  /\ poll' = [poll EXCEPT ![c] = Told(@)]
  /\ UNCHANGED <<held, opened, close>>

-----------------------------------------------------------------------------
(* bridge_receive; the WebView polls again as soon as it has an answer, until *)
(* it is told of the end or of an error.                                      *)

PollStep(c, p) == poll' = [poll EXCEPT ![c] = p] /\ UNCHANGED <<opened, close>>

Receive(c) ==
  /\ c <= opened /\ poll[c].at = "none"
  /\ PollStep(c, [poll[c] EXCEPT !.at = IF c \in held THEN "register" ELSE "over"])
  /\ UNCHANGED <<link, held>>

\* A future made now is told of what is notified from now on.
Registers(c) ==
  /\ poll[c].at = "register"
  /\ PollStep(c, [poll[c] EXCEPT !.at = "check", !.told = FALSE])
  /\ UNCHANGED <<link, held>>

\* drain
Answered(c) ==
  LET lasts == [k \in Kinds |-> link[c].queues[k]] IN
  /\ link' = [link EXCEPT ![c].queues = [k \in Kinds |-> <<>>]]
  /\ PollStep(c, [poll[c] EXCEPT
       !.at = "none",
       !.got = [k \in Kinds |-> @[k] + Len(lasts[k])],
       !.last = [k \in Kinds |-> IF lasts[k] = <<>> THEN @[k] ELSE lasts[k][Len(lasts[k])]]])

\* Mutation: what is owed is answered before the overflow is looked at.
ChecksOwedFirst(c) ==
  /\ poll[c].at = "check"
  /\ UNCHANGED held
  /\ \/ Owes(link[c]) /\ Answered(c)
     \/ /\ ~Owes(link[c])
        /\ PollStep(c, [poll[c] EXCEPT !.at = IF link[c].severed THEN "sever"
                                              ELSE IF link[c].ended THEN "forget" ELSE "wait"])
        /\ UNCHANGED link

Checks(c) ==
  /\ poll[c].at = "check"
  /\ UNCHANGED held
  /\ \/ ~link[c].severed /\ Owes(link[c]) /\ Answered(c)
     \/ /\ link[c].severed \/ ~Owes(link[c])
        /\ PollStep(c, [poll[c] EXCEPT !.at = IF link[c].severed THEN "sever"
                                              ELSE IF link[c].ended THEN "forget" ELSE "wait"])
        /\ UNCHANGED link

Wakes(c) ==
  /\ poll[c].at = "wait" /\ poll[c].told
  /\ PollStep(c, [poll[c] EXCEPT !.at = "register"])
  /\ UNCHANGED <<link, held>>

\* The connection is taken out; severed, its writer is shut down if it was there.
Forgets(c) ==
  /\ poll[c].at \in {"forget", "sever"}
  /\ held' = held \ {c}
  /\ PollStep(c, [poll[c] EXCEPT !.at = IF @ = "sever" /\ c \in held THEN "shut" ELSE "over"])
  /\ UNCHANGED link

Shuts(c) ==
  /\ poll[c].at = "shut"
  /\ link' = [link EXCEPT ![c].writer = "shut"]
  /\ PollStep(c, [poll[c] EXCEPT !.at = "over"])
  /\ UNCHANGED held

-----------------------------------------------------------------------------
(* bridge_close *)

Close(c) ==
  /\ c <= opened /\ close[c] = "no"
  /\ held' = held \ {c}
  /\ close' = [close EXCEPT ![c] = IF c \in held THEN "end" ELSE "done"]
  /\ UNCHANGED <<link, opened, poll>>

CloseEnds(c) ==
  /\ close[c] = "end"
  /\ link' = [link EXCEPT ![c].ended = TRUE]
  /\ close' = [close EXCEPT ![c] = "notify"]
  /\ UNCHANGED <<held, opened, poll>>

CloseNotifies(c) ==
  /\ close[c] = "notify"
  /\ poll' = [poll EXCEPT ![c] = Told(@)]
  /\ close' = [close EXCEPT ![c] = "shut"]
  /\ UNCHANGED <<link, held, opened>>

CloseShuts(c) ==
  /\ close[c] = "shut"
  /\ link' = [link EXCEPT ![c].writer = "shut"]
  /\ close' = [close EXCEPT ![c] = "done"]
  /\ UNCHANGED <<held, opened, poll>>

Next ==
  \/ Connect
  \/ \E c \in IDs :
       \/ \E k \in Kinds, n \in 1..MaxFrames : PumpReads(c, k, n)
       \/ PumpEnds(c) \/ PumpNotifies(c)
       \/ Receive(c) \/ Registers(c) \/ Checks(c) \/ Wakes(c) \/ Forgets(c) \/ Shuts(c)
       \/ Close(c) \/ CloseEnds(c) \/ CloseNotifies(c) \/ CloseShuts(c)

Spec == Init /\ [][Next]_vars

-----------------------------------------------------------------------------
TypeOK ==
  /\ link \in [IDs -> Link] /\ poll \in [IDs -> Poll] /\ close \in [IDs -> Closes]
  /\ opened \in 0..MaxID /\ held \subseteq 1..opened

\* Of each kind the WebView has been answered the frames from the first on, none
\* skipped ("Nothing is ever dropped. Overflow severs the connection"), and a
\* poll sleeps only while there is nothing to answer, or while whoever made it
\* otherwise is about to say so.
NothingIsWithheld ==
  \A c \in IDs :
    /\ poll[c].got = poll[c].last
    /\ poll[c].at = "wait" /\ ~poll[c].told =>
         Quiet(link[c]) \/ link[c].pump \in {"notify", "last"} \/ close[c] = "notify"
=============================================================================
