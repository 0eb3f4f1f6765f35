--------------------------- MODULE PseudoTerminal ---------------------------
(***************************************************************************)
(* Pseudo-terminals: the ring a reader thread fills and the daemon's       *)
(* thread drains, the gate between two water marks, the hang-up, and the   *)
(* table that keeps an exit code for a handle whose terminal is gone       *)
(* (packages/pty/native/src/lib.rs, packages/pty/src/pseudo-terminal.ts).  *)
(*                                                                         *)
(* The k-th byte a child writes is k, so order and loss show.  A step of   *)
(* the reader is what it does between two points where the other thread    *)
(* can see it: it checks the gate with the ring locked, waits, reads into  *)
(* the ring unlocked, commits.  Failed descriptors, writes, resizes and    *)
(* signals are left out.                                                   *)
(***************************************************************************)
EXTENDS Naturals, Sequences, FiniteSets

CONSTANTS
  Terminals,   \* terminals that may be spawned, one after another
  MaxBytes,    \* bound: bytes a child writes
  HighWater, LowWater, ReadSize,
  DrainSize,   \* DRAIN_BUFFER_SIZE
  MaxSlots,    \* MAX_TERMINALS
  MaxGeneration, \* MAX_GENERATION
  KernelSize   \* bound: bytes the kernel holds for a reader

None == "none"

ASSUME PseudoTerminalAssumption ==
  /\ {MaxBytes, LowWater} \subseteq Nat
  /\ {HighWater, ReadSize, DrainSize, MaxSlots, MaxGeneration, KernelSize} \subseteq Nat \ {0}
  /\ LowWater < HighWater
  /\ None \notin Terminals

(* No slot runs through its generations: 2^19 - 1 in the code. *)
ASSUME GenerationsAssumption ==
  IsFiniteSet(Terminals) /\ Cardinality(Terminals) <= MaxGeneration

VARIABLES
  pty,     \* [Terminals -> Pty(n)]: the native side of each terminal
  side,    \* [Terminals -> Side]: NativePseudoTerminal
  table,   \* sequence of slots: [generation, of: who occupies it, code]
  free     \* retired slots, oldest first

vars == <<pty, side, table, free>>

Ceiling == HighWater + ReadSize
Smaller(m, n) == IF m < n THEN m ELSE n

(* The reader: where it is, and the bytes it holds between read and commit. *)
Places == {"gate", "parking", "parked", "poll", "tail", "read", "commit",
           "close", "reap", "store", "publish", "retire", "done"}

Pty(capacity) ==
  [child : {"unborn", "running", "mute", "dead"},
   written : 0..MaxBytes, taken : 0..MaxBytes,      \* by the child, by the reader
   buf : [0..capacity - 1 -> 0..MaxBytes],
   head : 0..Ceiling, tail : 0..Ceiling, len : 0..Ceiling,
   paused : BOOLEAN, stopped : BOOLEAN,
   at : Places, room : 0..ReadSize, hungUp : BOOLEAN, master : BOOLEAN,
   wake : BOOLEAN, shutdown : BOOLEAN, finished : BOOLEAN,
   code : {None} \cup Terminals]                    \* its own exit code

Side ==
  [running : BOOLEAN, closed : BOOLEAN, status : {None} \cup Terminals,
   delivered : 0..MaxBytes,
   handle : (1..MaxSlots) \X (0..MaxGeneration),   \* a slot and its generation
   doing : {"nothing", "notify", "wake"}]

Slot == [generation : 1..MaxGeneration, of : {None} \cup Terminals, code : {None} \cup Terminals]

Unborn ==
  [child |-> "unborn", written |-> 0, taken |-> 0,
   buf |-> [i \in 0..Smaller(ReadSize, Ceiling) - 1 |-> 0],
   head |-> 0, tail |-> 0, len |-> 0, paused |-> FALSE, stopped |-> FALSE,
   at |-> "gate", room |-> 0, hungUp |-> FALSE, master |-> TRUE,
   wake |-> FALSE, shutdown |-> FALSE, finished |-> FALSE, code |-> None]

Init ==
  /\ pty = [t \in Terminals |-> Unborn]
  /\ side = [t \in Terminals |->
               [running |-> FALSE, closed |-> FALSE, status |-> None, delivered |-> 0,
                handle |-> <<1, 0>>, doing |-> "nothing"]]
  /\ table = <<>> /\ free = <<>>

CapacityOf(p) == Cardinality(DOMAIN p.buf)
Alive(t) == pty[t].child \in {"running", "mute"}
Reading(t) == pty[t].child # "unborn"

(* One thread runs the daemon: nothing else of it happens inside a call. *)
InNoCall == \A t \in Terminals : side[t].doing = "nothing"

-----------------------------------------------------------------------------
(* The ring *)

(* gate_closed: what the latch becomes. *)
GateOf(p) == p.len >= HighWater \/ (p.paused /\ p.len > LowWater)

(* The capacities grow_for comes by, and the first that has room for want. *)
Doubles(n, capacity) == \E k \in 0..Ceiling : n = capacity * 2^k
SizeFor(p, want) ==
  LET enough == {n \in CapacityOf(p)..Ceiling :
                   n = Ceiling \/ (Doubles(n, CapacityOf(p)) /\ n >= p.len + want)}
  IN  CHOOSE n \in enough : \A m \in enough : n <= m

(* Mutation: the bytes are copied as they lie, not as they are read. *)
GrownAsItLies(p, want) ==
  LET size == SizeFor(p, want)
  IN  IF size = CapacityOf(p) THEN p
      ELSE [p EXCEPT
              !.buf = [i \in 0..size - 1 |-> IF i < CapacityOf(p) THEN p.buf[i] ELSE 0],
              !.head = 0, !.tail = p.len]

(* grow_for: doubling, with the readable bytes copied to the front. *)
Grown(p, want) ==
  LET size == SizeFor(p, want)
  IN  IF size = CapacityOf(p) THEN p
      ELSE [p EXCEPT
              !.buf = [i \in 0..size - 1 |->
                         IF i < p.len THEN p.buf[(p.head + i) % CapacityOf(p)] ELSE 0],
              !.head = 0, !.tail = p.len]

(* writable_tail: what is free, up to the end of the buffer. *)
RoomOf(p) ==
  Smaller(Smaller(CapacityOf(p) - p.len, CapacityOf(p) - p.tail), ReadSize)

Committed(p) == [p EXCEPT !.tail = (@ + p.room) % CapacityOf(p), !.len = @ + p.room, !.room = 0]

(* drain_into; what has been copied out is as good as gone. *)
DrainedBy(p, n) ==
  [p EXCEPT !.buf = [i \in DOMAIN p.buf |->
                       IF (i + CapacityOf(p) - p.head) % CapacityOf(p) < n THEN 0 ELSE p.buf[i]],
            !.head = (@ + n) % CapacityOf(p), !.len = @ - n]

-----------------------------------------------------------------------------
(* The handle table *)

SlotOf(t) == table[side[t].handle[1]]
Holds(t) == /\ side[t].handle[1] <= Len(table)
            /\ SlotOf(t).generation = side[t].handle[2]

(* occupied(handle) *)
Occupied(t) == Holds(t) /\ SlotOf(t).of # None

(* retire_if_settled, for a terminal that has become p: whoever comes second *)
(* to the rendezvous of hang-up and reader keeps the code and frees the slot. *)
Retires(t, p) ==
  IF p.shutdown /\ p.finished /\ Occupied(t)
    THEN /\ table' = [table EXCEPT ![side[t].handle[1]] =
                        [@ EXCEPT !.of = None, !.code = p.code]]
         /\ free' = Append(free, side[t].handle[1])
    ELSE UNCHANGED <<table, free>>

(* jpty_exit_code *)
ExitCode(t) ==
  IF ~Holds(t) THEN None
  ELSE IF SlotOf(t).of # None THEN pty[SlotOf(t).of].code ELSE SlotOf(t).code

NextGeneration(g) == IF g >= MaxGeneration THEN 1 ELSE g + 1

(* jpty_spawn and allocate_slot: the slot retired longest ago, or a new one. *)
Spawn(t) ==
  /\ InNoCall
  /\ pty[t].child = "unborn"
  /\ free # <<>> \/ Len(table) < MaxSlots
  /\ LET i == IF free # <<>> THEN Head(free) ELSE Len(table) + 1
         g == NextGeneration(IF free # <<>> THEN table[i].generation ELSE 0)
         slot == [generation |-> g, of |-> t, code |-> None]
     IN  /\ table' = IF free # <<>> THEN [table EXCEPT ![i] = slot] ELSE Append(table, slot)
         /\ free' = IF free # <<>> THEN Tail(free) ELSE free
         /\ side' = [side EXCEPT ![t].running = TRUE, ![t].handle = <<i, g>>]
  /\ pty' = [pty EXCEPT ![t].child = "running"]

-----------------------------------------------------------------------------
(* The child *)

Unread(t) == pty[t].written - pty[t].taken

ChildWrites(t) ==
  /\ pty[t].child = "running" /\ pty[t].master
  /\ pty[t].written < MaxBytes /\ Unread(t) < KernelSize
  /\ pty' = [pty EXCEPT ![t].written = @ + 1]
  /\ UNCHANGED <<side, table, free>>

(* It closes its end of the terminal and lives on, or it dies. *)
ChildLeaves(t) ==
  /\ \/ pty[t].child = "running" /\ pty' = [pty EXCEPT ![t].child = "mute"]
     \/ Alive(t) /\ pty' = [pty EXCEPT ![t].child = "dead"]
  /\ UNCHANGED <<side, table, free>>

-----------------------------------------------------------------------------
(* The reader thread: read_loop and run_reader *)

Reader(t, p) ==
  /\ pty' = [pty EXCEPT ![t] = p]
  /\ UNCHANGED <<side, table, free>>

(* The lock is held from here to the wait; a hang-up does not ask for it. *)
ChecksGate(t) ==
  LET p == pty[t] IN
  /\ Reading(t) /\ p.at = "gate"
  /\ Reader(t, IF p.shutdown THEN [p EXCEPT !.at = "close", !.hungUp = TRUE]
               ELSE [p EXCEPT !.paused = GateOf(p),
                              !.at = IF GateOf(p) THEN "parking" ELSE "poll"])

Parks(t) ==
  /\ pty[t].at = "parking"
  /\ Reader(t, [pty[t] EXCEPT !.at = "parked"])

(* A condition variable may wake for no reason. *)
WakesSpuriously(t) ==
  /\ pty[t].at = "parked"
  /\ Reader(t, [pty[t] EXCEPT !.at = "gate"])

Polls(t) ==
  LET p == pty[t]
      readable == Unread(t) > 0 \/ p.child # "running"
  IN  /\ p.at = "poll"
      /\ p.wake \/ readable
      /\ Reader(t, IF p.wake /\ p.shutdown
                     THEN [p EXCEPT !.wake = FALSE, !.at = "close", !.hungUp = TRUE]
                     ELSE [p EXCEPT !.wake = FALSE, !.at = IF readable THEN "tail" ELSE "gate"])

FindsRoom(t) ==
  LET p == Grown(pty[t], ReadSize) IN
  /\ pty[t].at = "tail"
  /\ Reader(t, IF RoomOf(p) = 0 THEN [p EXCEPT !.at = "gate"]
               ELSE [p EXCEPT !.at = "read", !.room = RoomOf(p)])

(* The ring is written with its lock released, and committed under it. *)
Reads(t) ==
  LET p == pty[t]
      n == Smaller(p.room, Unread(t))
  IN  /\ p.at = "read"
      /\ Reader(t, IF n = 0 THEN [p EXCEPT !.at = "reap", !.room = 0]
                   ELSE [p EXCEPT !.at = "commit", !.room = n, !.taken = @ + n,
                                  !.buf = [i \in DOMAIN p.buf |->
                                             IF i \in p.tail..p.tail + n - 1
                                             THEN p.taken + 1 + i - p.tail ELSE p.buf[i]]])

Commits(t) ==
  /\ pty[t].at = "commit"
  /\ Reader(t, [Committed(pty[t]) EXCEPT !.at = "gate"])

(* Hung up, it closes first; at the end of the stream only after waitpid. *)
ClosesFirst(t) ==
  /\ pty[t].at = "close"
  /\ Reader(t, [pty[t] EXCEPT !.master = FALSE, !.at = "reap"])

(* Mutation: the stop is published before there is a code. *)
ReapsAnnounced(t) ==
  /\ pty[t].at = "reap" /\ pty[t].child = "dead"
  /\ Reader(t, [pty[t] EXCEPT !.master = FALSE, !.at = "store", !.stopped = TRUE])

Reaps(t) ==
  /\ pty[t].at = "reap" /\ pty[t].child = "dead"
  /\ Reader(t, [pty[t] EXCEPT !.master = FALSE, !.at = "store"])

StoresCode(t) ==
  /\ pty[t].at = "store"
  /\ Reader(t, [pty[t] EXCEPT !.code = t, !.finished = TRUE, !.at = "publish"])

Publishes(t) ==
  /\ pty[t].at = "publish"
  /\ Reader(t, [pty[t] EXCEPT !.stopped = TRUE, !.at = "retire"])

ReaderRetires(t) ==
  /\ pty[t].at = "retire"
  /\ pty' = [pty EXCEPT ![t].at = "done"]
  /\ Retires(t, pty[t])
  /\ UNCHANGED side

ReaderStep(t) ==
  \/ ChecksGate(t) \/ Parks(t) \/ Polls(t) \/ FindsRoom(t) \/ Reads(t) \/ Commits(t)
  \/ ClosesFirst(t) \/ Reaps(t) \/ StoresCode(t) \/ Publishes(t) \/ ReaderRetires(t)

-----------------------------------------------------------------------------
(* The daemon's thread *)

Notified(p) == IF p.at = "parked" THEN [p EXCEPT !.at = "gate"] ELSE p

(* Mutation: the reader is woken only by a drain of a ring above the mark. *)
DrainQuietly(t) ==
  LET n == Smaller(pty[t].len, DrainSize) IN
  /\ InNoCall /\ side[t].running /\ n > 0
  /\ pty[t].at # "parking"
  /\ pty' = [pty EXCEPT ![t] = DrainedBy(@, n)]
  /\ side' = [side EXCEPT ![t].delivered = @ + n,
                          ![t].doing = IF pty[t].len >= HighWater THEN "notify" ELSE @]
  /\ UNCHANGED <<table, free>>

(* drain() of what there is; the reader is notified once the lock is let go. *)
Drain(t) ==
  LET n == Smaller(pty[t].len, DrainSize) IN
  /\ InNoCall /\ side[t].running /\ n > 0
  /\ pty[t].at # "parking"
  /\ pty' = [pty EXCEPT ![t] = DrainedBy(@, n)]
  /\ side' = [side EXCEPT ![t].delivered = @ + n, ![t].doing = "notify"]
  /\ UNCHANGED <<table, free>>

Notify(t) ==
  /\ side[t].doing = "notify"
  /\ pty' = [pty EXCEPT ![t] = Notified(@)]
  /\ side' = [side EXCEPT ![t].doing = "nothing"]
  /\ UNCHANGED <<table, free>>

(* drain() of an empty ring whose reader has stopped, or of a bad handle. *)
DrainEnds(t) ==
  /\ InNoCall /\ side[t].running
  /\ ~Occupied(t) \/ (pty[t].stopped /\ pty[t].len = 0)
  /\ side' = [side EXCEPT ![t].running = FALSE, ![t].status = ExitCode(t)]
  /\ UNCHANGED <<pty, table, free>>

(* close(): the flag and SIGHUP, then both wakes; the caller holds no lock. *)
Close(t) ==
  /\ InNoCall
  /\ Reading(t) /\ ~side[t].closed
  /\ side' = [side EXCEPT ![t].closed = TRUE, ![t].running = FALSE,
                          ![t].doing = IF Occupied(t) THEN "wake" ELSE "nothing"]
  /\ pty' = IF Occupied(t) THEN [pty EXCEPT ![t].shutdown = TRUE] ELSE pty
  /\ UNCHANGED <<table, free>>

Wake(t) ==
  LET p == [Notified(pty[t]) EXCEPT !.wake = TRUE] IN
  /\ side[t].doing = "wake"
  /\ pty' = [pty EXCEPT ![t] = p]
  /\ side' = [side EXCEPT ![t].doing = "nothing"]
  /\ Retires(t, p)

(* exitCode(), on every frame after the end until there is one. *)
AskExit(t) ==
  /\ InNoCall
  /\ Reading(t) /\ ~side[t].running /\ side[t].status = None
  /\ side' = [side EXCEPT ![t].status = ExitCode(t)]
  /\ UNCHANGED <<pty, table, free>>

Next ==
  \E t \in Terminals :
    \/ Spawn(t) \/ Drain(t) \/ Notify(t) \/ DrainEnds(t) \/ Close(t) \/ Wake(t) \/ AskExit(t)
    \/ ReaderStep(t) \/ WakesSpuriously(t)
    \/ ChildWrites(t) \/ ChildLeaves(t)

Spec == Init /\ [][Next]_vars

(* The reader thread runs, calls return, and every frame drains and asks. *)
FairSpec ==
  Spec /\ \A t \in Terminals :
            /\ WF_vars(ReaderStep(t)) /\ WF_vars(Notify(t)) /\ WF_vars(Wake(t))
            /\ WF_vars(Drain(t)) /\ WF_vars(DrainEnds(t)) /\ WF_vars(AskExit(t))

-----------------------------------------------------------------------------
(* Properties *)

TypeOK ==
  /\ pty = [t \in Terminals |-> pty[t]]
  /\ \A t \in Terminals : \E capacity \in 1..Ceiling : pty[t] \in Pty(capacity)
  /\ side \in [Terminals -> Side]
  /\ table \in Seq(Slot) /\ Len(table) <= MaxSlots
  /\ free \in Seq(1..MaxSlots)
  /\ \A k \in DOMAIN free : table[free[k]].of = None

(* However reads, growth and drains interleave, the ring holds the bytes    *)
(* that were read and not drained, each once, in the order they were written. *)
OutputInOrder ==
  \A t \in Terminals :
    LET p == pty[t] IN
    /\ p.taken = side[t].delivered + p.len + (IF p.at = "commit" THEN p.room ELSE 0)
    /\ \A i \in 0..p.len - 1 :
         p.buf[(p.head + i) % CapacityOf(p)] = side[t].delivered + i + 1

(* A reader sleeps at the gate only while the backlog is above the low mark, *)
(* or while the drain that lowered it is on its way to wake it.              *)
SleepsOnlyWhenFull ==
  \A t \in Terminals :
    pty[t].at \in {"parking", "parked"} =>
      pty[t].len > LowWater \/ side[t].doing = "notify"

(* A terminal that ended by itself has delivered all the child wrote and has *)
(* its exit code at once; and no terminal is ever told another one's.        *)
EndIsWhole ==
  \A t \in Terminals :
    /\ Reading(t) /\ ~side[t].running /\ ~side[t].closed =>
         side[t].delivered = pty[t].written /\ side[t].status = t
    /\ side[t].status \in {None, t}

(* A terminal that was hung up and whose child has died is soon known to    *)
(* have exited: "let the reader thread wind itself down".                   *)
ClosedIsReaped ==
  \A t \in Terminals :
    side[t].closed /\ pty[t].child = "dead" ~> side[t].status = t
=============================================================================
