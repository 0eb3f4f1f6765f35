----------------------- MODULE TerminalServer_proofs -----------------------
(***************************************************************************)
(* What holds of the daemon for any number of clients and terminals, any   *)
(* sizes, and any capacities of the queues, in three parts: what the       *)
(* methods of a live terminal keep; the types, the negotiated grids and    *)
(* the viewports that closing a connection releases; and what the clients  *)
(* see.                                                                    *)
(***************************************************************************)
EXTENDS TerminalServer, Integers, FiniteSetTheorems, SequenceTheorems, WellFoundedInduction, TLAPS

-----------------------------------------------------------------------------
(***************************************************************************)
(* What the methods of a live terminal keep: its type, and a grid of the   *)
(* size its clients negotiated.  The handlers that call them cite these    *)
(* lemmas.                                                                 *)
(***************************************************************************)

(* A non-empty set of natural numbers has a least element.  The library    *)
(* states it with an operator parameter, which cannot be instantiated; it  *)
(* follows from finite sets being well-founded under strict inclusion.     *)
LEMMA LeastNatural ==
  ASSUME NEW S \in SUBSET Nat, S # {}
  PROVE  \E n \in S : \A m \in S : n <= m
<1> DEFINE Segments == {1..n : n \in S}
<1>1. IsWellFoundedOn(StrictSubsetOrdering(Nat), FiniteSubsetsOf(Nat))
  BY FS_StrictSubsetOrderingWellFounded
<1>2. Segments \subseteq FiniteSubsetsOf(Nat)
  <2>1. SUFFICES ASSUME NEW n \in S PROVE 1..n \in FiniteSubsetsOf(Nat)
    OBVIOUS
  <2>2. IsFiniteSet(1..n)
    BY FS_Interval
  <2>3. QED
    BY <2>2 DEF FiniteSubsetsOf
<1>3. Segments # {}
  OBVIOUS
<1>4. PICK X \in Segments :
        \A Y \in Segments : ~ (<<Y, X>> \in StrictSubsetOrdering(Nat))
  <2> HIDE DEF Segments
  <2> QED BY <1>1, <1>2, <1>3, WFMin
<1>5. PICK n \in S : X = 1..n
  OBVIOUS
<1>6. ASSUME NEW m \in S, m < n PROVE FALSE
  <2>1. 1..m \subseteq 1..n /\ 1..m # 1..n
    BY <1>6
  <2>2. 1..m \in Segments
    OBVIOUS
  <2>3. <<1..m, X>> \in StrictSubsetOrdering(Nat)
    BY <2>1, <1>5 DEF StrictSubsetOrdering
  <2>4. QED
    BY <2>2, <2>3, <1>4
<1>7. QED
  BY <1>6

(* negotiatedSize is well defined once a client is attached: it is one of  *)
(* the attached viewports and no larger than any of them.                  *)
LEMMA NegotiatedSizeIsLeast ==
  ASSUME NEW views \in [Clients -> 0..MaxSize], \E c \in Clients : views[c] # 0
  PROVE  /\ NegotiatedSize(views) \in Sizes
         /\ \E c \in Clients : views[c] = NegotiatedSize(views)
         /\ \A c \in Clients : views[c] # 0 => NegotiatedSize(views) <= views[c]
<1> DEFINE attached == {views[c] : c \in {d \in Clients : views[d] # 0}}
<1>1. attached \in SUBSET Nat /\ attached # {} /\ attached \subseteq Sizes
  BY LiveTerminalAssumption DEF Sizes
<1>2. PICK n \in attached : \A m \in attached : n <= m
  <2> HIDE DEF attached
  <2> QED BY <1>1, LeastNatural
<1>3. /\ n \in Sizes
      /\ \E c \in Clients : views[c] = n
      /\ \A c \in Clients : views[c] # 0 => n <= views[c]
  BY <1>1, <1>2
<1>4. QED
  BY <1>3 DEF NegotiatedSize

(* What every method of a terminal keeps. *)
Sound(lt) == lt \in Terminal /\ Negotiated(lt)

(* The state a client is sent is one the wire knows. *)
LEMMA StateOfType ==
  ASSUME NEW lt \in Terminal
  PROVE  StateOf(lt) \in States
BY DEF Terminal, StateOf, States

LEMMA NewTerminalSound == Sound(NewTerminal)
BY LiveTerminalAssumption DEF Sound, NewTerminal, Terminal, Negotiated, Viewers

(* Every viewport and every grid is a size. *)
LEMMA SizesAreTyped == Sizes \subseteq 0..MaxSize /\ 0 \in 0..MaxSize /\ InitialSize \in Sizes
BY LiveTerminalAssumption DEF Sizes

(* applySize, given the size the attached clients negotiate. *)
LEMMA ResizedSound ==
  ASSUME NEW lt \in Terminal, Viewers(lt) # {}
  PROVE  /\ Sound(Resized(lt, NegotiatedSize(lt.views)))
         /\ Resized(lt, NegotiatedSize(lt.views)).views = lt.views
<1> DEFINE n == NegotiatedSize(lt.views)
<1>1. n \in 0..MaxSize
  BY NegotiatedSizeIsLeast, SizesAreTyped DEF Viewers, Terminal
<1>2. Viewers(lt) \in SUBSET Clients
  BY DEF Viewers
<1>3. CASE lt.emulator /\ lt.size # n
  <2> HIDE DEF n
  <2> DEFINE r == [lt EXCEPT !.size = n, !.owes = Viewers(lt)]
  <2>1. Resized(lt, n) = r
    BY <1>3 DEF Resized
  <2>2. r \in Terminal
    BY <1>1, <1>2 DEF Terminal
  <2>3. r.views = lt.views /\ r.size = n
    BY DEF Terminal
  <2>4. QED
    BY <2>1, <2>2, <2>3 DEF Sound, Negotiated, n
<1>4. CASE ~(lt.emulator /\ lt.size # n)
  BY <1>4 DEF Resized, Sound, Negotiated
<1>5. QED
  BY <1>3, <1>4

(* A terminal that differs from a sound one neither in its emulator, nor   *)
(* in its grid, nor in its viewports is as well negotiated.                *)
LEMMA SameGridNegotiated ==
  ASSUME NEW lt \in Terminal, Negotiated(lt), NEW new \in Terminal,
         new.emulator = lt.emulator, new.size = lt.size, new.views = lt.views
  PROVE  Negotiated(new)
BY DEF Negotiated, Viewers

(* attach() and resize. *)
LEMMA AttachedSound ==
  ASSUME NEW lt, Sound(lt), NEW c \in Clients, NEW v \in Sizes
  PROVE  /\ Sound(Attached(lt, c, v))
         /\ Attached(lt, c, v).views = [lt.views EXCEPT ![c] = v]
<1> DEFINE known == [lt EXCEPT !.views[c] = v]
           sized == Resized(known, NegotiatedSize(known.views))
           owing == [sized EXCEPT !.owes = @ \cup {c}]
<1>1. known \in Terminal /\ known.views = [lt.views EXCEPT ![c] = v]
  BY SizesAreTyped DEF Sound, Terminal
<1>2. Viewers(known) # {}
  BY <1>1, LiveTerminalAssumption DEF Viewers, Sizes, Sound, Terminal
<1>3. Sound(sized) /\ sized.views = known.views
  <2> HIDE DEF known
  <2> QED BY <1>1, <1>2, ResizedSound
<1>4. Sound(owing) /\ owing.views = sized.views
  <2> HIDE DEF sized
  <2>1. owing \in Terminal
    BY <1>3 DEF Sound, Terminal
  <2>2. owing.emulator = sized.emulator /\ owing.size = sized.size /\ owing.views = sized.views
    BY <1>3 DEF Sound, Terminal
  <2> HIDE DEF owing
  <2>3. QED
    BY <1>3, <2>1, <2>2, SameGridNegotiated DEF Sound
<1>5. Attached(lt, c, v) \in {sized, owing}
  BY DEF Attached
<1>6. QED
  <2> HIDE DEF known, sized, owing
  <2> QED BY <1>1, <1>3, <1>4, <1>5

(* One viewport leaves, or those of the clients in gone. *)
LEMMA DetachedSound ==
  ASSUME NEW lt, Sound(lt), NEW c \in Clients
  PROVE  /\ Sound(Detached(lt, c))
         /\ Detached(lt, c).views = [lt.views EXCEPT ![c] = 0]
<1> DEFINE left == [lt EXCEPT !.views[c] = 0, !.owes = @ \ {c}]
<1>1. left \in Terminal /\ left.views = [lt.views EXCEPT ![c] = 0]
  BY SizesAreTyped DEF Sound, Terminal
<1>2. Detached(lt, c) = IF Viewers(left) = {} THEN left
                        ELSE Resized(left, NegotiatedSize(left.views))
  BY DEF Detached
<1> HIDE DEF left
<1>3. CASE Viewers(left) = {}
  BY <1>1, <1>2, <1>3 DEF Sound, Negotiated
<1>4. CASE Viewers(left) # {}
  BY <1>1, <1>2, <1>4, ResizedSound
<1>5. QED
  BY <1>3, <1>4

(* start(), whether or not the spawn works, on a terminal whose process,   *)
(* if it has one, is given up: restart() closes it first.                  *)
LEMMA ForgottenType ==
  ASSUME NEW lt \in Terminal
  PROVE  /\ Forgotten(lt) \in Terminal
         /\ Forgotten(lt).views = lt.views
         /\ Forgotten(lt).run = lt.run
         /\ Forgotten(lt).emulator = FALSE
BY SizesAreTyped DEF Forgotten, Terminal

LEMMA SpawnedSound ==
  ASSUME NEW lt \in Terminal, lt.run < MaxRuns
  PROVE  Sound(Spawned(lt)) /\ Spawned(lt).views = lt.views
<1> DEFINE n == IF Viewers(lt) = {} THEN InitialSize ELSE NegotiatedSize(lt.views)
           f == Forgotten(lt)
           r == [f EXCEPT !.pty = "open", !.run = lt.run + 1, !.emulator = TRUE, !.size = n]
<1>1. n \in 0..MaxSize
  BY SizesAreTyped, NegotiatedSizeIsLeast DEF Viewers, Terminal
<1>2. lt.run + 1 \in 0..MaxRuns
  BY LiveTerminalAssumption DEF Terminal
<1>3. Spawned(lt) = r
  BY DEF Spawned
<1> HIDE DEF n, f
<1>4. f \in Terminal /\ f.views = lt.views
  BY ForgottenType DEF f
<1>5. r \in Terminal
  BY <1>1, <1>2, <1>4 DEF Terminal
<1>6. r.views = lt.views /\ r.size = n
  BY <1>4 DEF Terminal
<1>7. QED
  BY <1>3, <1>5, <1>6 DEF Sound, Negotiated, Viewers, n

LEMMA SpawnFailedSound ==
  ASSUME NEW lt \in Terminal
  PROVE  Sound(SpawnFailed(lt)) /\ SpawnFailed(lt).views = lt.views
<1> DEFINE f == Forgotten(lt)
<1>1. f \in Terminal /\ f.views = lt.views /\ f.emulator = FALSE
  BY ForgottenType
<1> HIDE DEF f
<1>2. SpawnFailed(lt) = [f EXCEPT !.end = "failed"]
  BY DEF SpawnFailed, f
<1>3. QED
  BY <1>1, <1>2 DEF Sound, Terminal, Negotiated

(* The methods that touch neither the grid nor the viewports. *)
LEMMA StoppedSound ==
  ASSUME NEW lt, Sound(lt)
  PROVE  Sound(Stopped(lt)) /\ Stopped(lt).views = lt.views
BY SameGridNegotiated DEF Sound, Stopped, Terminal

LEMMA EndedSound ==
  ASSUME NEW lt, Sound(lt), NEW end \in {"exited", "failed"}
  PROVE  Sound(Ended(lt, end)) /\ Ended(lt, end).views = lt.views
BY SameGridNegotiated DEF Sound, Ended, Terminal

LEMMA BelledSound ==
  ASSUME NEW lt, Sound(lt)
  PROVE  Sound(Belled(lt)) /\ Belled(lt).views = lt.views
BY SameGridNegotiated DEF Sound, Belled, Terminal

LEMMA ProgressedSound ==
  ASSUME NEW lt, Sound(lt), NEW p \in Progresses \cup {None}
  PROVE  Sound(Progressed(lt, p)) /\ Progressed(lt, p).views = lt.views
BY SameGridNegotiated DEF Sound, Progressed, Terminal

LEMMA ReportedSound ==
  ASSUME NEW lt, Sound(lt), NEW a \in Activities
  PROVE  Sound(Reported(lt, a)) /\ Reported(lt, a).views = lt.views
BY SameGridNegotiated DEF Sound, Reported, Terminal

LEMMA MarkedSound ==
  ASSUME NEW lt, Sound(lt), NEW raised \in BOOLEAN
  PROVE  Sound(Marked(lt, raised)) /\ Marked(lt, raised).views = lt.views
BY SameGridNegotiated DEF Sound, Marked, Terminal

LEMMA TypedSound ==
  ASSUME NEW lt, Sound(lt)
  PROVE  Sound(Typed(lt)) /\ Typed(lt).views = lt.views
BY SameGridNegotiated DEF Sound, Typed, Terminal

LEMMA FullyRepaintedSound ==
  ASSUME NEW lt, Sound(lt), NEW c \in Clients
  PROVE  Sound(FullyRepainted(lt, c)) /\ FullyRepainted(lt, c).views = lt.views
BY SameGridNegotiated DEF Sound, FullyRepainted, Terminal
-----------------------------------------------------------------------------
(***************************************************************************)
(* What holds of the daemon for any number of clients and terminals, any   *)
(* sizes, and any capacities of the queues: the types, the bounds of the   *)
(* queues included; every grid is the smallest viewport attached; and      *)
(* every viewport of an open connection is one its closing releases.       *)
(*                                                                         *)
(* The invariant is split into the books every handler ends by balancing   *)
(* in Finish (the terminals, the connections, and who is painted), and the *)
(* rest.  The proof of a handler shows that the books it hands to Finish   *)
(* are settled, and FinishKeeps does the sending and the closing.          *)
(***************************************************************************)

Bounded(cn) ==
  \A c \in Clients : /\ Len(cn[c].control) <= ControlCapacity
                     /\ Len(cn[c].output) <= OutputCapacity

Releasable(reg, lv, cn, at) ==
  \A c \in Clients, t \in Terminals :
    cn[c].phase = "open" =>
      /\ (t \in reg /\ lv[t].views[c] # 0) => t \in cn[c].rendering
      /\ c \in at[t] => t \in cn[c].rendering
      /\ t \in cn[c].rendering => t \in cn[c].attached

Settled(reg, lv, cn, at, fu) ==
  /\ \A t \in Terminals : Sound(lv[t])
  /\ lv \in [Terminals -> Terminal]
  /\ cn \in [Clients -> Connection]
  /\ at \in [Terminals -> SUBSET Clients]
  /\ fu \in [Terminals -> SUBSET Clients]
  /\ Bounded(cn)
  /\ Releasable(reg, lv, cn, at)

Books == Settled(registry, live, conn, attachments, full)

Rest ==
  /\ registry \subseteq Terminals
  /\ listed \subseteq Terminals
  /\ published \in [Terminals -> MaybeState]
  /\ timer \in BOOLEAN
  /\ tick \in Tick
  /\ pending \subseteq Awaited
  /\ view \in [Clients -> View]
  /\ drift \in [Clients -> SUBSET Terminals]
  /\ painted \in [Clients -> [Terminals -> [run : 0..MaxRuns, size : 0..MaxSize]]]

Inv == Books /\ Rest

LEMMA InvIsTheProperties ==
  Inv <=> TypeOK /\ GridIsNegotiated /\ ViewportsAreReleasable
BY DEF Inv, Books, Rest, Settled, Sound, Bounded, Releasable,
       TypeOK, GridIsNegotiated, ViewportsAreReleasable

-----------------------------------------------------------------------------
(* Messages. *)

LEMMA AboutType ==
  ASSUME NEW type \in {"state", "attention", "exited"}, NEW t \in Terminals,
         NEW lt \in Terminal
  PROVE  About(type, t, lt) \in Messages
BY StateOfType DEF About, Messages

LEMMA ReplyType == Reply \in Messages
BY DEF Reply, Messages

LEMMA SnapshotType ==
  ASSUME NEW lv \in [Terminals -> Terminal], NEW reg, NEW lst \in SUBSET Terminals
  PROVE  Snapshot(lv, reg, lst) \in Messages
<1>1. [t \in Terminals |-> IF t \in reg THEN StateOf(lv[t]) ELSE NoState]
        \in [Terminals -> MaybeState]
  BY StateOfType DEF MaybeState
<1>2. QED
  BY <1>1 DEF Snapshot, Messages

Queues == [Clients -> Seq(Messages)]

LEMMA QuietType == Quiet \in Queues
BY EmptySeq DEF Quiet, Queues

LEMMA ToType ==
  ASSUME NEW c \in Clients, NEW ms \in Seq(Messages)
  PROVE  To(c, ms) \in Queues
BY EmptySeq DEF To, Queues

LEMMA BroadcastType ==
  ASSUME NEW ms \in Seq(Messages)
  PROVE  Broadcast(ms) \in Queues
BY EmptySeq DEF Broadcast, Queues

LEMMA BothType ==
  ASSUME NEW p \in Queues, NEW q \in Queues
  PROVE  Both(p, q) \in Queues
BY ConcatProperties DEF Both, Queues

LEMMA ReconciledType ==
  ASSUME NEW t \in Terminals, NEW lt \in Terminal
  PROVE  Reconciled(t, lt) \in Seq(Messages)
BY AboutType, EmptySeq DEF Reconciled

-----------------------------------------------------------------------------
(* Finish: closing and sending keep the books settled. *)

LEMMA WithoutSound ==
  ASSUME NEW lt, Sound(lt), NEW gone \in SUBSET Clients
  PROVE  /\ Sound(Without(lt, gone))
         /\ Without(lt, gone).views = [c \in Clients |-> IF c \in gone THEN 0 ELSE lt.views[c]]
<1> DEFINE left == [lt EXCEPT !.views = [c \in Clients |-> IF c \in gone THEN 0 ELSE lt.views[c]],
                              !.owes = @ \ gone]
<1>1. /\ left \in Terminal
      /\ left.views = [c \in Clients |-> IF c \in gone THEN 0 ELSE lt.views[c]]
      /\ left.emulator = lt.emulator /\ left.size = lt.size
  BY SizesAreTyped DEF Sound, Terminal
<1>2. Without(lt, gone) = IF gone \cap Viewers(lt) = {} \/ Viewers(left) = {}
                          THEN left ELSE Resized(left, NegotiatedSize(left.views))
  BY DEF Without
<1> HIDE DEF left
<1>3. CASE Viewers(left) = {}
  BY <1>1, <1>2, <1>3 DEF Sound, Negotiated
<1>4. CASE gone \cap Viewers(lt) = {}
  <2>1. left.views = lt.views
    BY <1>1, <1>4 DEF Viewers, Sound, Terminal
  <2>2. QED
    BY <1>1, <1>2, <1>4, <2>1, SameGridNegotiated DEF Sound
<1>5. CASE Viewers(left) # {} /\ gone \cap Viewers(lt) # {}
  BY <1>1, <1>2, <1>5, ResizedSound
<1>6. QED
  BY <1>3, <1>4, <1>5

LEMMA SentType ==
  ASSUME NEW k \in Connection, NEW ms \in Seq(Messages), ~Stalls(k, ms),
         Len(k.control) <= ControlCapacity
  PROVE  /\ Sent(k, ms) \in Connection
         /\ Len(Sent(k, ms).control) <= ControlCapacity
         /\ Sent(k, ms).output = k.output
         /\ Sent(k, ms).phase = k.phase
         /\ Sent(k, ms).rendering = k.rendering
         /\ Sent(k, ms).attached = k.attached
<1> DEFINE longer == k.control \o ms
<1>1. longer \in Seq(Messages) /\ Len(longer) = Len(k.control) + Len(ms)
  BY ConcatProperties DEF Connection
<1>2. CASE k.phase = "open"
  <2>1. Len(longer) <= ControlCapacity
    <3>1. Len(k.control) \in Nat /\ Len(ms) \in Nat
      BY LenProperties DEF Connection
    <3>2. QED
      BY <1>1, <1>2, <3>1, TerminalServerAssumption DEF Stalls
  <2>2. Sent(k, ms) = [k EXCEPT !.control = longer]
    BY <1>2 DEF Sent
  <2> HIDE DEF longer
  <2>3. QED
    BY <1>1, <2>1, <2>2 DEF Connection
<1>3. CASE k.phase # "open"
  BY <1>3 DEF Sent
<1>4. QED
  BY <1>2, <1>3

LEMMA ClosedType ==
  ASSUME NEW k \in Connection
  PROVE  /\ Closed(k) \in Connection
         /\ Closed(k).phase = "closed"
         /\ Len(Closed(k).control) = 0 /\ Len(Closed(k).output) = 0
BY EmptySeq DEF Closed, Connection

(* Finish leaves the books settled, whichever connections it closes. *)
LEMMA FinishKeeps ==
  ASSUME NEW reg, NEW lv, NEW cn, NEW at, NEW fu, Settled(reg, lv, cn, at, fu),
         NEW q \in Queues, NEW gone \in SUBSET Clients,
         Finish(lv, cn, at, fu, q, gone)
  PROVE  Settled(reg, live', conn', attachments', full')
<1> DEFINE shut == gone \cup {c \in Clients : Stalls(cn[c], q[c])}
           out(t) == {c \in shut : t \in cn[c].attached}
<1>1. /\ live' = [t \in Terminals |-> Without(lv[t], out(t))]
      /\ conn' = [c \in Clients |-> IF c \in shut THEN Closed(cn[c]) ELSE Sent(cn[c], q[c])]
      /\ attachments' = [t \in Terminals |-> at[t] \ shut]
      /\ full' = [t \in Terminals |-> fu[t] \ shut]
  BY DEF Finish
<1>2. shut \in SUBSET Clients /\ \A t \in Terminals : out(t) \in SUBSET Clients
  OBVIOUS
<1>3. \A c \in Clients \ shut : ~Stalls(cn[c], q[c])
  OBVIOUS
<1>4. \A c \in Clients, t \in Terminals : c \notin shut => c \notin out(t)
  OBVIOUS
<1> HIDE DEF shut, out
<1>5. \A t \in Terminals :
        /\ Sound(live'[t])
        /\ live'[t].views = [c \in Clients |-> IF c \in out(t) THEN 0 ELSE lv[t].views[c]]
  BY <1>1, <1>2, WithoutSound DEF Settled
<1>6. live' \in [Terminals -> Terminal]
  BY <1>1, <1>5 DEF Sound
<1>7. ASSUME NEW c \in Clients
      PROVE  /\ conn'[c] \in Connection
             /\ Len(conn'[c].control) <= ControlCapacity
             /\ Len(conn'[c].output) <= OutputCapacity
             /\ conn'[c].phase = "open" =>
                  /\ c \notin shut
                  /\ cn[c].phase = "open"
                  /\ conn'[c].rendering = cn[c].rendering
                  /\ conn'[c].attached = cn[c].attached
  <2>1. /\ cn[c] \in Connection /\ q[c] \in Seq(Messages)
        /\ Len(cn[c].control) <= ControlCapacity /\ Len(cn[c].output) <= OutputCapacity
    BY DEF Settled, Bounded, Queues
  <2>2. CASE c \in shut
    <3>1. conn'[c] = Closed(cn[c])
      BY <1>1, <2>2
    <3>2. QED
      BY <2>1, <3>1, ClosedType, TerminalServerAssumption
  <2>3. CASE c \notin shut
    <3>1. conn'[c] = Sent(cn[c], q[c])
      BY <1>1, <2>3
    <3>2. ~Stalls(cn[c], q[c])
      BY <1>3, <2>3
    <3>3. QED
      BY <2>1, <2>3, <3>1, <3>2, SentType
  <2>4. QED
    BY <2>2, <2>3
<1>8. conn' \in [Clients -> Connection] /\ Bounded(conn')
  BY <1>1, <1>7 DEF Bounded
<1>9. /\ attachments' \in [Terminals -> SUBSET Clients]
      /\ full' \in [Terminals -> SUBSET Clients]
  BY <1>1 DEF Settled
<1>10. Releasable(reg, live', conn', attachments')
  <2>1. ASSUME NEW c \in Clients, NEW t \in Terminals, conn'[c].phase = "open"
        PROVE  /\ (t \in reg /\ live'[t].views[c] # 0) => t \in conn'[c].rendering
               /\ c \in attachments'[t] => t \in conn'[c].rendering
               /\ t \in conn'[c].rendering => t \in conn'[c].attached
    <3>1. /\ cn[c].phase = "open" /\ c \notin shut
          /\ conn'[c].rendering = cn[c].rendering /\ conn'[c].attached = cn[c].attached
      BY <1>7, <2>1
    <3>2. live'[t].views[c] = lv[t].views[c]
      BY <1>4, <1>5, <3>1
    <3>3. c \in attachments'[t] => c \in at[t]
      BY <1>1
    <3>4. QED
      BY <3>1, <3>2, <3>3 DEF Settled, Releasable
  <2>2. QED
    BY <2>1 DEF Releasable
<1>11. QED
  BY <1>5, <1>6, <1>8, <1>9, <1>10 DEF Settled

-----------------------------------------------------------------------------
(* What the handlers share. *)

(* A change of one terminal that leaves its viewports alone. *)
LEMMA TerminalChanged ==
  ASSUME NEW reg, NEW lv, NEW cn, NEW at, NEW fu, Settled(reg, lv, cn, at, fu),
         NEW t \in Terminals, NEW lt, Sound(lt), lt.views = lv[t].views
  PROVE  Settled(reg, [lv EXCEPT ![t] = lt], cn, at, fu)
<1> DEFINE new == [lv EXCEPT ![t] = lt]
<1>1. new \in [Terminals -> Terminal]
  BY DEF Settled, Sound
<1>2. \A u \in Terminals : Sound(new[u]) /\ new[u].views = lv[u].views
  BY DEF Settled
<1> HIDE DEF new
<1>3. Releasable(reg, new, cn, at)
  BY <1>2 DEF Settled, Releasable
<1>4. QED
  BY <1>1, <1>2, <1>3 DEF Settled, new

(* A request read, or taken to be dispatched. *)
LEMMA RequestChanged ==
  ASSUME NEW reg, NEW lv, NEW cn, NEW at, NEW fu, Settled(reg, lv, cn, at, fu),
         NEW c \in Clients, NEW r \in Requests \cup {NoRequest}
  PROVE  Settled(reg, lv, [cn EXCEPT ![c].request = r], at, fu)
<1> DEFINE k == [cn[c] EXCEPT !.request = r]
           new == [cn EXCEPT ![c] = k]
<1>1. cn[c] \in Connection
  BY DEF Settled
<1>2. /\ k \in Connection /\ k.control = cn[c].control /\ k.output = cn[c].output
      /\ k.phase = cn[c].phase /\ k.rendering = cn[c].rendering /\ k.attached = cn[c].attached
  BY <1>1 DEF Connection
<1>3. new = [cn EXCEPT ![c].request = r]
  OBVIOUS
<1> HIDE DEF k
<1>4. /\ new \in [Clients -> Connection]
      /\ \A d \in Clients : /\ new[d].control = cn[d].control /\ new[d].output = cn[d].output
                            /\ new[d].phase = cn[d].phase
                            /\ new[d].rendering = cn[d].rendering
                            /\ new[d].attached = cn[d].attached
  BY <1>2 DEF Settled
<1> HIDE DEF new
<1>5. Bounded(new) /\ Releasable(reg, lv, new, at)
  BY <1>4 DEF Settled, Bounded, Releasable
<1>6. QED
  BY <1>3, <1>4, <1>5 DEF Settled

LEMMA RelayKeeps ==
  ASSUME NEW t \in Terminals, NEW lt \in Terminal, NEW cn, NEW fu,
         published \in [Terminals -> MaybeState],
         Settled(registry, [live EXCEPT ![t] = lt], cn, attachments, fu),
         NEW more \in Queues, Relay(t, lt, cn, fu, more)
  PROVE  /\ Settled(registry, live', conn', attachments', full')
         /\ published' \in [Terminals -> MaybeState]
<1> DEFINE q == Both(Broadcast(Reconciled(t, lt)), more)
<1>1. q \in Queues
  BY ReconciledType, BroadcastType, BothType
<1>2. StateOf(lt) \in MaybeState
  BY StateOfType DEF MaybeState
<1>3. Finish([live EXCEPT ![t] = lt], cn, attachments, fu, q, {})
  BY DEF Relay
<1> HIDE DEF q
<1>4. QED
  BY <1>1, <1>2, <1>3, FinishKeeps DEF Relay

LEMMA DriftsType == Drifts => drift' \in [Clients -> SUBSET Terminals]
BY DEF Drifts

-----------------------------------------------------------------------------
(* Connections. *)

LEMMA CloseKeeps ==
  ASSUME Inv, NEW c \in Clients, Close(c), Drifts
  PROVE  Inv'
<1>1. Books'
  BY FinishKeeps, QuietType DEF Close, Inv, Books
<1>2. Rest'
  BY DriftsType DEF Close, Inv, Rest
<1>3. QED
  BY <1>1, <1>2 DEF Inv

LEMMA ReadRequestKeeps ==
  ASSUME Inv, NEW c \in Clients, NEW r \in Requests, ReadRequest(c, r), Drifts
  PROVE  Inv'
<1>1. Books'
  BY RequestChanged DEF ReadRequest, Inv, Books
<1>2. view' \in [Clients -> View]
  <2>1. r.terminal \in Terminals /\ view[c] \in View
    BY DEF Requests, Inv, Rest
  <2>2. PICK w \in SUBSET Terminals : view' = [view EXCEPT ![c].watching = w]
    BY <2>1 DEF ReadRequest, View
  <2>3. [view[c] EXCEPT !.watching = w] \in View
    BY <2>1 DEF View
  <2>4. QED
    BY <2>2, <2>3 DEF Inv, Rest
<1>3. Rest'
  BY <1>2, DriftsType DEF ReadRequest, Inv, Rest
<1>4. QED
  BY <1>1, <1>3 DEF Inv

LEMMA ReadInputKeeps ==
  ASSUME Inv, NEW c \in Clients, NEW t \in Terminals, ReadInput(c, t), Drifts
  PROVE  Inv'
<1>1. Books' /\ published' \in [Terminals -> MaybeState]
  <2>1. CASE t \notin registry
    BY <2>1, FinishKeeps, QuietType DEF ReadInput, Inv, Books, Rest
  <2>2. CASE t \in registry
    <3>1. PICK lt \in {Typed(live[t]), live[t]} : Relay(t, lt, conn, full, Quiet)
      BY <2>2 DEF ReadInput
    <3>2. Sound(lt) /\ lt.views = live[t].views
      BY TypedSound DEF Inv, Books, Settled
    <3>3. Settled(registry, [live EXCEPT ![t] = lt], conn, attachments, full)
      BY <3>2, TerminalChanged DEF Inv, Books
    <3>4. Settled(registry, live', conn', attachments', full')
            /\ published' \in [Terminals -> MaybeState]
      BY <3>1, <3>2, <3>3, RelayKeeps, QuietType DEF Sound, Inv, Rest
    <3>5. QED
      BY <3>4 DEF ReadInput, Books
  <2>3. QED
    BY <2>1, <2>2
<1>2. Rest'
  BY <1>1, DriftsType DEF ReadInput, Inv, Rest
<1>3. QED
  BY <1>1, <1>2 DEF Inv

LEMMA AppliedType ==
  ASSUME NEW v \in View, NEW m \in Messages
  PROVE  Applied(v, m) \in View
<1>1. CASE m.type \in {"state", "exited"}
  <2>1. m.terminal \in Terminals /\ m.state \in MaybeState
    BY <1>1 DEF Messages, MaybeState
  <2>2. QED
    BY <1>1, <2>1 DEF Applied, View
<1>2. CASE m.type = "snapshot"
  <2>1. m.states \in [Terminals -> MaybeState] /\ m.listed \in SUBSET Terminals
    BY <1>2 DEF Messages
  <2>2. QED
    BY <1>2, <2>1 DEF Applied, View
<1>3. CASE m.type \notin {"state", "exited", "snapshot"}
  BY <1>3 DEF Applied
<1>4. QED
  BY <1>1, <1>2, <1>3

LEMMA PumpControlKeeps ==
  ASSUME Inv, NEW c \in Clients, PumpControl(c), Drifts
  PROVE  Inv'
<1> DEFINE k == [conn[c] EXCEPT !.control = Tail(@)]
<1>1. conn[c] \in Connection /\ Len(conn[c].control) <= ControlCapacity
  BY DEF Inv, Books, Settled, Bounded
<1>2. /\ Head(conn[c].control) \in Messages
      /\ Tail(conn[c].control) \in Seq(Messages)
      /\ Len(Tail(conn[c].control)) <= ControlCapacity
  <2>1. conn[c].control \in Seq(Messages) /\ conn[c].control # <<>>
    BY <1>1 DEF Connection, PumpControl
  <2>2. Len(conn[c].control) \in Nat
    BY <2>1, LenProperties
  <2>3. QED
    BY <1>1, <2>1, <2>2, HeadTailProperties, TerminalServerAssumption
<1>3. /\ k \in Connection /\ Len(k.control) <= ControlCapacity
      /\ k.output = conn[c].output /\ k.phase = conn[c].phase
      /\ k.rendering = conn[c].rendering /\ k.attached = conn[c].attached
  BY <1>1, <1>2 DEF Connection
<1>4. conn' = [conn EXCEPT ![c] = k]
  BY DEF PumpControl
<1> HIDE DEF k
<1>5. /\ conn' \in [Clients -> Connection]
      /\ \A d \in Clients : /\ Len(conn'[d].control) <= ControlCapacity
                            /\ conn'[d].output = conn[d].output
                            /\ conn'[d].phase = conn[d].phase
                            /\ conn'[d].rendering = conn[d].rendering
                            /\ conn'[d].attached = conn[d].attached
  BY <1>3, <1>4 DEF Inv, Books, Settled, Bounded
<1>6. Books'
  <2>1. Bounded(conn') /\ Releasable(registry, live, conn', attachments)
    BY <1>5 DEF Inv, Books, Settled, Bounded, Releasable
  <2>2. QED
    BY <1>5, <2>1 DEF PumpControl, Inv, Books, Settled
<1>7. view' \in [Clients -> View]
  BY <1>2, AppliedType DEF PumpControl, Inv, Rest
<1>8. Rest'
  BY <1>7, DriftsType DEF PumpControl, Inv, Rest
<1>9. QED
  BY <1>6, <1>8 DEF Inv

LEMMA PumpOutputKeeps ==
  ASSUME Inv, NEW c \in Clients, PumpOutput(c), Drifts
  PROVE  Inv'
<1> DEFINE k == [conn[c] EXCEPT !.output = Tail(@)]
           popped == [conn EXCEPT ![c] = k]
<1>1. conn[c] \in Connection /\ Len(conn[c].output) <= OutputCapacity
  BY DEF Inv, Books, Settled, Bounded
<1>2. /\ Tail(conn[c].output) \in Seq(Terminals)
      /\ Len(Tail(conn[c].output)) <= OutputCapacity
  <2>1. conn[c].output \in Seq(Terminals) /\ conn[c].output # <<>>
    BY <1>1 DEF Connection, PumpOutput
  <2>2. Len(conn[c].output) \in Nat
    BY <2>1, LenProperties
  <2>3. QED
    BY <1>1, <2>1, <2>2, HeadTailProperties, TerminalServerAssumption
<1>3. /\ k \in Connection /\ Len(k.output) <= OutputCapacity
      /\ k.control = conn[c].control /\ k.phase = conn[c].phase
      /\ k.rendering = conn[c].rendering /\ k.attached = conn[c].attached
  BY <1>1, <1>2 DEF Connection
<1>4. PICK gone \in SUBSET Clients : Finish(live, popped, attachments, full, Quiet, gone)
  BY DEF PumpOutput
<1> HIDE DEF k
<1>5. /\ popped \in [Clients -> Connection]
      /\ \A d \in Clients : /\ Len(popped[d].output) <= OutputCapacity
                            /\ popped[d].control = conn[d].control
                            /\ popped[d].phase = conn[d].phase
                            /\ popped[d].rendering = conn[d].rendering
                            /\ popped[d].attached = conn[d].attached
  BY <1>3 DEF Inv, Books, Settled, Bounded
<1> HIDE DEF popped
<1>6. Settled(registry, live, popped, attachments, full)
  <2>1. Bounded(popped) /\ Releasable(registry, live, popped, attachments)
    BY <1>5 DEF Inv, Books, Settled, Bounded, Releasable
  <2>2. QED
    BY <1>5, <2>1 DEF Inv, Books, Settled
<1>7. Books'
  BY <1>4, <1>6, FinishKeeps, QuietType DEF PumpOutput, Books
<1>8. Rest'
  BY DriftsType DEF PumpOutput, Inv, Rest
<1>9. QED
  BY <1>7, <1>8 DEF Inv

-----------------------------------------------------------------------------
(* Requests.  Each is dispatched with the request taken from conn. *)

Taken(c) == [conn EXCEPT ![c].request = NoRequest]

LEMMA TakenKeeps ==
  ASSUME Inv, NEW c \in Clients
  PROVE  Settled(registry, live, Taken(c), attachments, full)
BY RequestChanged DEF Inv, Books, Taken

LEMMA TakenKeepsAttachments ==
  ASSUME Inv, NEW c \in Clients, NEW d \in Clients
  PROVE  /\ Taken(c)[d].rendering = conn[d].rendering
         /\ Taken(c)[d].attached = conn[d].attached
         /\ Taken(c)[d].phase = conn[d].phase
BY DEF Inv, Books, Settled, Connection, Taken

LEMMA ReplyQueueType == ASSUME NEW c \in Clients PROVE To(c, <<Reply>>) \in Queues
<1>1. <<Reply>> \in Seq(Messages)
  BY ReplyType
<1>2. QED
  BY <1>1, ToType

(* A request that is answered in the step that dispatches it. *)
LEMMA AnswerKeeps ==
  ASSUME Inv, NEW lv, NEW cn, NEW at, NEW fu, Settled(registry, lv, cn, at, fu),
         NEW q \in Queues, Finish(lv, cn, at, fu, q, {}),
         timer' = TRUE, UNCHANGED <<registry, listed, published, pending, tick, view>>,
         painted' \in [Clients -> [Terminals -> [run : 0..MaxRuns, size : 0..MaxSize]]],
         Drifts
  PROVE  Inv'
<1>1. Books'
  BY FinishKeeps DEF Books
<1>2. Rest'
  BY DriftsType DEF Inv, Rest
<1>3. QED
  BY <1>1, <1>2 DEF Inv

LEMMA PaintedStays ==
  ASSUME Inv, UNCHANGED painted
  PROVE  painted' \in [Clients -> [Terminals -> [run : 0..MaxRuns, size : 0..MaxSize]]]
BY DEF Inv, Rest

LEMMA AnsweredKeeps ==
  ASSUME Inv, NEW c \in Clients, NEW cn, Settled(registry, live, cn, attachments, full),
         Answered(c, cn), UNCHANGED <<tick, view>>, Drifts
  PROVE  Inv'
BY AnswerKeeps, ReplyQueueType, PaintedStays DEF Answered

LEMMA SubscribeKeeps ==
  ASSUME Inv, NEW c \in Clients, Subscribe(c, Taken(c)), UNCHANGED <<tick, view>>, Drifts
  PROVE  Inv'
<1> DEFINE cn == Taken(c)
           k == [cn[c] EXCEPT !.scoped = TRUE]
           new == [cn EXCEPT ![c] = k]
           q == To(c, <<Snapshot(live, registry, listed), Reply>>)
<1>1. Settled(registry, live, cn, attachments, full)
  BY TakenKeeps
<1>2. Finish(live, new, attachments, full, q, {})
  BY DEF Subscribe
<1>3. q \in Queues
  <2>1. Snapshot(live, registry, listed) \in Messages
    BY SnapshotType DEF Inv, Books, Rest, Settled
  <2>2. <<Snapshot(live, registry, listed), Reply>> \in Seq(Messages)
    BY <2>1, ReplyType
  <2>3. QED
    BY <2>2, ToType
<1> HIDE DEF cn, q
<1>4. /\ k \in Connection /\ k.control = cn[c].control /\ k.output = cn[c].output
      /\ k.phase = cn[c].phase /\ k.rendering = cn[c].rendering /\ k.attached = cn[c].attached
  BY <1>1 DEF Settled, Connection
<1> HIDE DEF k
<1>5. /\ new \in [Clients -> Connection]
      /\ \A d \in Clients : /\ new[d].control = cn[d].control /\ new[d].output = cn[d].output
                            /\ new[d].phase = cn[d].phase
                            /\ new[d].rendering = cn[d].rendering
                            /\ new[d].attached = cn[d].attached
  BY <1>1, <1>4 DEF Settled
<1> HIDE DEF new
<1>6. Settled(registry, live, new, attachments, full)
  <2>1. Bounded(new) /\ Releasable(registry, live, new, attachments)
    BY <1>1, <1>5 DEF Settled, Bounded, Releasable
  <2>2. QED
    BY <1>1, <1>5, <2>1 DEF Settled
<1>7. QED
  BY <1>2, <1>3, <1>6, AnswerKeeps, PaintedStays DEF Subscribe

(* Connection c becomes attached to as, of which it renders rs, while its  *)
(* viewports and attachments move along and nobody else gains one.         *)
Reattached(cn, c, as, rs) == [cn EXCEPT ![c].attached = as, ![c].rendering = rs]

MovesAlone(reg, lv, cn, at, c, as, rs, lv2, at2, fu2) ==
  /\ as \in SUBSET Terminals /\ rs \in SUBSET Terminals
  /\ lv2 \in [Terminals -> Terminal] /\ \A t \in Terminals : Sound(lv2[t])
  /\ at2 \in [Terminals -> SUBSET Clients]
  /\ fu2 \in [Terminals -> SUBSET Clients]
  /\ cn[c].phase = "open" =>
       /\ rs \subseteq as
       /\ \A t \in Terminals : /\ c \in at2[t] => t \in rs
                               /\ (t \in reg /\ lv2[t].views[c] # 0) => t \in rs
  /\ \A t \in Terminals, d \in Clients :
       d # c => /\ d \in at2[t] => d \in at[t]
                /\ lv2[t].views[d] = lv[t].views[d]

LEMMA ReattachedSettled ==
  ASSUME NEW reg, NEW lv, NEW cn, NEW at, NEW fu, Settled(reg, lv, cn, at, fu),
         NEW c \in Clients, NEW as, NEW rs, NEW lv2, NEW at2, NEW fu2,
         MovesAlone(reg, lv, cn, at, c, as, rs, lv2, at2, fu2)
  PROVE  Settled(reg, lv2, Reattached(cn, c, as, rs), at2, fu2)
<1> DEFINE new == Reattached(cn, c, as, rs)
           k == [cn[c] EXCEPT !.attached = as, !.rendering = rs]
<1>0. cn[c] \in Connection /\ cn \in [Clients -> Connection]
  BY DEF Settled
<1>1. new = [cn EXCEPT ![c] = k]
  BY <1>0 DEF Reattached
<1>2. /\ k \in Connection /\ k.control = cn[c].control /\ k.output = cn[c].output
      /\ k.phase = cn[c].phase /\ k.rendering = rs /\ k.attached = as
  BY <1>0 DEF Connection, MovesAlone
<1> HIDE DEF k, new
<1>3. /\ new \in [Clients -> Connection]
      /\ new[c] = k /\ \A d \in Clients \ {c} : new[d] = cn[d]
  BY <1>1, <1>2 DEF Settled
<1>4. Bounded(new)
  BY <1>2, <1>3 DEF Settled, Bounded
<1>5. Releasable(reg, lv2, new, at2)
  <2>1. ASSUME NEW t \in Terminals, NEW d \in Clients, new[d].phase = "open"
        PROVE  /\ (t \in reg /\ lv2[t].views[d] # 0) => t \in new[d].rendering
               /\ d \in at2[t] => t \in new[d].rendering
               /\ t \in new[d].rendering => t \in new[d].attached
    <3>1. CASE d = c
      BY <1>2, <1>3, <2>1, <3>1 DEF MovesAlone
    <3>2. CASE d # c
      BY <1>3, <2>1, <3>2 DEF Settled, Releasable, MovesAlone
    <3>3. QED
      BY <3>1, <3>2
  <2>2. QED
    BY <2>1 DEF Releasable
<1>6. QED
  BY <1>3, <1>4, <1>5 DEF Settled, MovesAlone, new

LEMMA AttachInputKeeps ==
  ASSUME Inv, NEW c \in Clients, NEW t \in Terminals, AttachInput(c, t, Taken(c)),
         UNCHANGED <<tick, view>>, Drifts
  PROVE  Inv'
<1> DEFINE cn == Taken(c)
           as == cn[c].attached \cup {t}
           rs == cn[c].rendering
<1>1. Settled(registry, live, cn, attachments, full)
  BY TakenKeeps
<1>2. Reattached(cn, c, as, rs) = [cn EXCEPT ![c].attached = as]
  <2>1. cn[c] \in Connection /\ cn \in [Clients -> Connection]
    BY <1>1 DEF Settled
  <2>2. [[cn[c] EXCEPT !.attached = as] EXCEPT !.rendering = rs] = [cn[c] EXCEPT !.attached = as]
    BY <2>1 DEF Connection
  <2> HIDE DEF as, rs, cn
  <2>3. QED
    BY <2>1, <2>2 DEF Reattached
<1> HIDE DEF cn
<1>3. Settled(registry, live, Reattached(cn, c, as, rs), attachments, full)
  <2>1. as \in SUBSET Terminals /\ rs \in SUBSET Terminals
    <3>1. cn[c] \in Connection
      BY <1>1 DEF Settled
    <3>2. QED
      BY <3>1 DEF Connection
  <2>2. cn[c].phase = "open" => rs \subseteq as
    BY <1>1, <2>1 DEF Settled, Releasable
  <2>3. cn[c].phase = "open" =>
          \A u \in Terminals : /\ c \in attachments[u] => u \in rs
                               /\ (u \in registry /\ live[u].views[c] # 0) => u \in rs
    BY <1>1 DEF Settled, Releasable
  <2>4. /\ live \in [Terminals -> Terminal] /\ \A u \in Terminals : Sound(live[u])
        /\ attachments \in [Terminals -> SUBSET Clients]
        /\ full \in [Terminals -> SUBSET Clients]
    BY <1>1 DEF Settled
  <2> HIDE DEF as, rs
  <2>5. MovesAlone(registry, live, cn, attachments, c, as, rs, live, attachments, full)
    BY <2>1, <2>2, <2>3, <2>4 DEF MovesAlone
  <2>6. QED
    BY <1>1, <2>5, ReattachedSettled
<1>4. Answered(c, Reattached(cn, c, as, rs))
  BY <1>2 DEF AttachInput, cn
<1>5. QED
  BY <1>3, <1>4, AnsweredKeeps

LEMMA AttachViewportKeeps ==
  ASSUME Inv, NEW c \in Clients, NEW t \in Terminals, NEW v \in Sizes,
         AttachViewport(c, t, v, Taken(c)), UNCHANGED <<tick, view>>, Drifts
  PROVE  Inv'
<1> DEFINE cn == Taken(c)
           as == cn[c].attached \cup {t}
           rs == cn[c].rendering \cup {t}
           lv2 == [live EXCEPT ![t] = Attached(live[t], c, v)]
           at2 == [attachments EXCEPT ![t] = @ \cup {c}]
           fu2 == [full EXCEPT ![t] = @ \cup {c}]
<1>1. Settled(registry, live, cn, attachments, full)
  BY TakenKeeps
<1>2. cn[c] \in Connection
  BY <1>1 DEF Settled
<1>3. Finish(lv2, Reattached(cn, c, as, rs), at2, fu2, To(c, <<Reply>>), {})
  BY DEF AttachViewport, Reattached
<1> HIDE DEF cn
<1>4. as \in SUBSET Terminals /\ rs \in SUBSET Terminals
  BY <1>2 DEF Connection
<1>5. cn[c].phase = "open" => rs \subseteq as
  BY <1>1, <1>4 DEF Settled, Releasable
<1>6. /\ \A u \in Terminals : Sound(live[u])
      /\ live \in [Terminals -> Terminal]
      /\ attachments \in [Terminals -> SUBSET Clients]
      /\ full \in [Terminals -> SUBSET Clients]
  BY <1>1 DEF Settled
<1>7. Sound(Attached(live[t], c, v)) /\ Attached(live[t], c, v).views = [live[t].views EXCEPT ![c] = v]
  BY <1>6, AttachedSound
<1>8. /\ lv2 \in [Terminals -> Terminal] /\ \A u \in Terminals : Sound(lv2[u])
      /\ \A u \in Terminals, d \in Clients : d # c => lv2[u].views[d] = live[u].views[d]
      /\ \A u \in Terminals : u # t => lv2[u].views[c] = live[u].views[c]
  <2>1. \A u \in Terminals : u # t => lv2[u] = live[u]
    BY <1>6
  <2>2. lv2[t] = Attached(live[t], c, v)
    BY <1>6
  <2>3. lv2 \in [Terminals -> Terminal]
    BY <1>6, <1>7 DEF Sound
  <2> HIDE DEF lv2
  <2>4. \A d \in Clients : d # c => lv2[t].views[d] = live[t].views[d]
    BY <1>6, <1>7, <2>2 DEF Terminal
  <2>5. QED
    BY <1>6, <1>7, <2>1, <2>2, <2>3, <2>4
<1>9. /\ at2 \in [Terminals -> SUBSET Clients] /\ fu2 \in [Terminals -> SUBSET Clients]
      /\ \A u \in Terminals, d \in Clients : d # c => (d \in at2[u] => d \in attachments[u])
      /\ \A u \in Terminals : u # t => at2[u] = attachments[u]
  BY <1>6
<1>10. cn[c].phase = "open" =>
         \A u \in Terminals : /\ c \in at2[u] => u \in rs
                              /\ (u \in registry /\ lv2[u].views[c] # 0) => u \in rs
  BY <1>1, <1>8, <1>9 DEF Settled, Releasable
<1>11. Settled(registry, lv2, Reattached(cn, c, as, rs), at2, fu2)
  <2>1. \A u \in Terminals, d \in Clients :
          d # c => /\ d \in at2[u] => d \in attachments[u]
                   /\ lv2[u].views[d] = live[u].views[d]
    BY <1>8, <1>9
  <2> HIDE DEF as, rs, lv2, at2, fu2
  <2>2. MovesAlone(registry, live, cn, attachments, c, as, rs, lv2, at2, fu2)
    BY <1>4, <1>5, <1>8, <1>9, <1>10, <2>1 DEF MovesAlone
  <2>3. QED
    BY <1>1, <2>2, ReattachedSettled
<1>12. painted' \in [Clients -> [Terminals -> [run : 0..MaxRuns, size : 0..MaxSize]]]
  <2> DEFINE p == Anew(t, c)
  <2>1. p \in [run : 0..MaxRuns, size : 0..MaxSize]
    <3>1. live[t].run \in 0..MaxRuns
      BY <1>6 DEF Terminal
    <3>2. QED
      BY <3>1, LiveTerminalAssumption DEF Anew, Unpainted
  <2>2. painted' = [painted EXCEPT ![c][t] = p]
    BY DEF AttachViewport
  <2> HIDE DEF p
  <2>3. QED
    BY <2>1, <2>2 DEF Inv, Rest
<1>13. timer' = TRUE /\ UNCHANGED <<registry, listed, published, pending>>
  BY DEF AttachViewport
<1>14. QED
  <2> HIDE DEF as, rs, lv2, at2, fu2
  <2> QED BY <1>3, <1>11, <1>12, <1>13, AnswerKeeps, ReplyQueueType

LEMMA DetachKeeps ==
  ASSUME Inv, NEW c \in Clients, NEW t \in Terminals,
         Detach(c, t, Taken(c)), UNCHANGED <<tick, view>>, Drifts
  PROVE  Inv'
<1> DEFINE cn == Taken(c)
           as == cn[c].attached \ {t}
           rs == cn[c].rendering \ {t}
           lv2 == IF t \in registry THEN [live EXCEPT ![t] = Detached(live[t], c)] ELSE live
           at2 == [attachments EXCEPT ![t] = @ \ {c}]
           fu2 == [full EXCEPT ![t] = @ \ {c}]
<1>1. Settled(registry, live, cn, attachments, full)
  BY TakenKeeps
<1>2. cn[c] \in Connection
  BY <1>1 DEF Settled
<1>3. Finish(lv2, Reattached(cn, c, as, rs), at2, fu2, To(c, <<Reply>>), {})
  BY DEF Detach, Reattached
<1> HIDE DEF cn
<1>4. as \in SUBSET Terminals /\ rs \in SUBSET Terminals
  BY <1>2 DEF Connection
<1>5. cn[c].phase = "open" => rs \subseteq as
  BY <1>1, <1>4 DEF Settled, Releasable
<1>6. /\ \A u \in Terminals : Sound(live[u])
      /\ live \in [Terminals -> Terminal]
      /\ attachments \in [Terminals -> SUBSET Clients]
      /\ full \in [Terminals -> SUBSET Clients]
  BY <1>1 DEF Settled
<1>7. Sound(Detached(live[t], c)) /\ Detached(live[t], c).views = [live[t].views EXCEPT ![c] = 0]
  BY <1>6, DetachedSound
<1>8. /\ lv2 \in [Terminals -> Terminal] /\ \A u \in Terminals : Sound(lv2[u])
      /\ \A u \in Terminals, d \in Clients : d # c => lv2[u].views[d] = live[u].views[d]
      /\ \A u \in Terminals : u # t => lv2[u].views[c] = live[u].views[c]
      /\ t \in registry => lv2[t].views[c] = 0
  <2>1. \A u \in Terminals : u # t => lv2[u] = live[u]
    BY <1>6
  <2>2. lv2[t] = IF t \in registry THEN Detached(live[t], c) ELSE live[t]
    BY <1>6
  <2>3. lv2 \in [Terminals -> Terminal]
    BY <1>6, <1>7 DEF Sound
  <2> HIDE DEF lv2
  <2>4. \A d \in Clients : d # c => lv2[t].views[d] = live[t].views[d]
    BY <1>6, <1>7, <2>2 DEF Terminal
  <2>5. t \in registry => lv2[t].views[c] = 0
    BY <1>6, <1>7, <2>2 DEF Terminal
  <2>6. QED
    BY <1>6, <1>7, <2>1, <2>2, <2>3, <2>4, <2>5
<1>9. /\ at2 \in [Terminals -> SUBSET Clients] /\ fu2 \in [Terminals -> SUBSET Clients]
      /\ \A u \in Terminals, d \in Clients : d \in at2[u] => d \in attachments[u]
      /\ c \notin at2[t]
  BY <1>6
<1>10. cn[c].phase = "open" =>
         \A u \in Terminals : /\ c \in at2[u] => u \in rs
                              /\ (u \in registry /\ lv2[u].views[c] # 0) => u \in rs
  BY <1>1, <1>8, <1>9 DEF Settled, Releasable
<1>11. Settled(registry, lv2, Reattached(cn, c, as, rs), at2, fu2)
  <2>1. \A u \in Terminals, d \in Clients :
          d # c => /\ d \in at2[u] => d \in attachments[u]
                   /\ lv2[u].views[d] = live[u].views[d]
    BY <1>8, <1>9
  <2> HIDE DEF as, rs, lv2, at2, fu2
  <2>2. MovesAlone(registry, live, cn, attachments, c, as, rs, lv2, at2, fu2)
    BY <1>4, <1>5, <1>8, <1>9, <1>10, <2>1 DEF MovesAlone
  <2>3. QED
    BY <1>1, <2>2, ReattachedSettled
<1>12. timer' = TRUE /\ UNCHANGED <<registry, listed, published, pending, painted>>
  BY DEF Detach
<1>13. QED
  <2> HIDE DEF as, rs, lv2, at2, fu2
  <2> QED BY <1>3, <1>11, <1>12, PaintedStays, AnswerKeeps, ReplyQueueType

LEMMA ResizeKeeps ==
  ASSUME Inv, NEW c \in Clients, NEW t \in Terminals, NEW v \in Sizes,
         Resize(c, t, v, Taken(c)), UNCHANGED <<tick, view>>, Drifts
  PROVE  Inv'
<1> DEFINE lv2 == IF t \in registry /\ t \in conn[c].rendering
                  THEN [live EXCEPT ![t] = Attached(live[t], c, v)] ELSE live
<1>1. Settled(registry, live, Taken(c), attachments, full)
  BY TakenKeeps
<1>2. Finish(lv2, Taken(c), attachments, full, Quiet, {})
  BY DEF Resize
<1>3. Settled(registry, lv2, Taken(c), attachments, full)
  <2>1. CASE t \in registry /\ t \in conn[c].rendering
    <3>1. /\ \A u \in Terminals : Sound(live[u])
          /\ live \in [Terminals -> Terminal]
      BY <1>1 DEF Settled
    <3>2. /\ Sound(Attached(live[t], c, v))
          /\ Attached(live[t], c, v).views = [live[t].views EXCEPT ![c] = v]
      BY <3>1, AttachedSound
    <3>3. /\ \A u \in Terminals : u # t => lv2[u] = live[u]
          /\ lv2[t] = Attached(live[t], c, v)
      BY <2>1, <3>1
    <3>4. lv2 \in [Terminals -> Terminal]
      BY <2>1, <3>1, <3>2 DEF Sound
    <3> HIDE DEF lv2
    <3>5. \A u \in Terminals, d \in Clients : (u # t \/ d # c) => lv2[u].views[d] = live[u].views[d]
      BY <3>1, <3>2, <3>3 DEF Terminal
    <3>6. t \in Taken(c)[c].rendering
      BY <2>1, TakenKeepsAttachments
    <3>7. Releasable(registry, lv2, Taken(c), attachments)
      BY <1>1, <3>5, <3>6 DEF Settled, Releasable
    <3>8. \A u \in Terminals : Sound(lv2[u])
      BY <3>1, <3>2, <3>3
    <3>9. QED
      BY <1>1, <3>4, <3>7, <3>8 DEF Settled
  <2>2. CASE ~(t \in registry /\ t \in conn[c].rendering)
    BY <1>1, <2>2
  <2>3. QED
    BY <2>1, <2>2
<1> HIDE DEF lv2
<1>4. QED
  BY <1>2, <1>3, PaintedStays, AnswerKeeps, QuietType DEF Resize

LEMMA MarkKeeps ==
  ASSUME Inv, NEW c \in Clients, NEW t \in Terminals, NEW unread \in BOOLEAN,
         Mark(c, t, unread, Taken(c)), UNCHANGED <<tick, view>>, Drifts
  PROVE  Inv'
<1> DEFINE lt == Marked(live[t], unread)
<1>1. Sound(live[t])
  BY DEF Inv, Books, Settled
<1>2. Sound(lt) /\ lt.views = live[t].views
  BY <1>1, MarkedSound
<1>3. Relay(t, lt, Taken(c), full, To(c, <<Reply>>))
  BY DEF Mark
<1> HIDE DEF lt
<1>4. Settled(registry, [live EXCEPT ![t] = lt], Taken(c), attachments, full)
  BY <1>2, TakenKeeps, TerminalChanged
<1>5. published \in [Terminals -> MaybeState]
  BY DEF Inv, Rest
<1>6. Settled(registry, live', conn', attachments', full')
        /\ published' \in [Terminals -> MaybeState]
  BY <1>2, <1>3, <1>4, <1>5, RelayKeeps, ReplyQueueType DEF Sound
<1>7. Books' /\ Rest'
  BY <1>6, DriftsType DEF Mark, Books, Inv, Rest
<1>8. QED
  BY <1>7 DEF Inv

LEMMA StopKeeps ==
  ASSUME Inv, NEW c \in Clients, NEW t \in Terminals,
         Stop(c, t, Taken(c)), UNCHANGED <<tick, view>>, Drifts
  PROVE  Inv'
<1> DEFINE lv2 == [live EXCEPT ![t] = Stopped(live[t])]
<1>1. Sound(live[t])
  BY DEF Inv, Books, Settled
<1>2. Settled(registry, lv2, Taken(c), attachments, full)
  BY <1>1, StoppedSound, TakenKeeps, TerminalChanged
<1>3. Finish(lv2, Taken(c), attachments, full, To(c, <<Reply>>), {})
  BY DEF Stop
<1>4. timer' = TRUE /\ UNCHANGED <<registry, listed, published, pending, painted>>
  BY DEF Stop
<1> HIDE DEF lv2
<1>5. QED
  BY <1>2, <1>3, <1>4, PaintedStays, AnswerKeeps, ReplyQueueType

(* What start() may make of a terminal. *)
LEMMA StartsSound ==
  ASSUME NEW before, Sound(before), NEW lt \in Starts(before)
  PROVE  Sound(lt) /\ lt.views = before.views
BY SpawnedSound, SpawnFailedSound DEF Starts, Sound

LEMMA LaterType ==
  ASSUME NEW c \in Clients, NEW t \in Terminals, NEW step \in {"launch", "publish"}
  PROVE  Later(c, t, step) \in Awaited
BY DEF Later, Awaited

(* A start of terminal t, from whichever terminal it starts. *)
LEMMA StartedKeeps ==
  ASSUME Inv, NEW c \in Clients, NEW t \in Terminals, NEW before, Sound(before),
         NEW cn, NEW awaited \in SUBSET Awaited, NEW reg \in SUBSET Terminals,
         \A lt : Sound(lt) /\ lt.views = before.views =>
                   Settled(reg, [live EXCEPT ![t] = lt], cn, attachments, full),
         Started(c, t, before, cn, awaited),
         registry' = reg, UNCHANGED <<listed, published, painted, tick, view>>, Drifts
  PROVE  Inv'
<1>1. PICK lt \in Starts(before), q \in {Quiet, To(c, <<Reply>>)} :
        Finish([live EXCEPT ![t] = lt], cn, attachments, full, q, {})
  BY DEF Started
<1>2. Sound(lt) /\ lt.views = before.views
  BY StartsSound
<1>3. Settled(reg, [live EXCEPT ![t] = lt], cn, attachments, full)
  BY <1>2
<1>4. q \in Queues
  BY QuietType, ReplyQueueType
<1>5. Settled(reg, live', conn', attachments', full')
  <2> DEFINE lv == [live EXCEPT ![t] = lt]
  <2> HIDE DEF lv
  <2>1. Settled(reg, lv, cn, attachments, full) /\ Finish(lv, cn, attachments, full, q, {})
    BY <1>1, <1>3 DEF lv
  <2>2. QED
    BY <1>4, <2>1, FinishKeeps
<1>6. pending' \in SUBSET Awaited /\ timer' \in BOOLEAN
  <2>1. Later(c, t, "publish") \in Awaited
    BY LaterType
  <2>2. timer \in BOOLEAN
    BY DEF Inv, Rest
  <2>3. pending' \in {awaited, awaited \cup {Later(c, t, "publish")}} /\ timer' \in BOOLEAN
    BY <2>2 DEF Started
  <2>4. QED
    BY <2>1, <2>3
<1>7. Books' /\ Rest'
  BY <1>5, <1>6, DriftsType DEF Books, Inv, Rest
<1>8. QED
  BY <1>7 DEF Inv

LEMMA StartKeeps ==
  ASSUME Inv, NEW c \in Clients, NEW t \in Terminals,
         NEW before \in {live[t], [live[t] EXCEPT !.pty = None]},
         Start(c, t, before, Taken(c)), UNCHANGED <<tick, view>>, Drifts
  PROVE  Inv'
<1>1. Sound(live[t])
  BY DEF Inv, Books, Settled
<1>2. Sound(before) /\ before.views = live[t].views
  BY <1>1, SameGridNegotiated DEF Sound, Terminal
<1>3. ASSUME NEW lt, Sound(lt), lt.views = before.views
      PROVE  Settled(registry, [live EXCEPT ![t] = lt], Taken(c), attachments, full)
  BY <1>2, <1>3, TakenKeeps, TerminalChanged
<1>4. registry \in SUBSET Terminals /\ pending \in SUBSET Awaited
  BY DEF Inv, Rest
<1>5. /\ Started(c, t, before, Taken(c), pending)
      /\ UNCHANGED <<registry, listed, published, painted>>
  BY DEF Start
<1>6. QED
  BY <1>2, <1>3, <1>4, <1>5, StartedKeeps

LEMMA AwaitKeeps ==
  ASSUME Inv, NEW c \in Clients, NEW t \in Terminals, NEW step \in {"launch", "publish"},
         Await(c, t, step, Taken(c)),
         UNCHANGED <<registry, listed, published, tick, view>>, Drifts
  PROVE  Inv'
<1>1. Books'
  BY TakenKeeps DEF Await, Books
<1>2. pending' \subseteq Awaited
  BY LaterType DEF Await, Inv, Rest
<1>3. Rest'
  BY <1>2, DriftsType DEF Await, Inv, Rest
<1>4. QED
  BY <1>1, <1>3 DEF Inv

LEMMA RemoveKeeps ==
  ASSUME Inv, NEW c \in Clients, NEW t \in Terminals,
         Remove(c, t, Taken(c)), UNCHANGED <<tick, view>>, Drifts
  PROVE  Inv'
<1>1. Sound(live[t])
  BY DEF Inv, Books, Settled
<1>2. Settled(registry, live', Taken(c), attachments, full)
  <2>1. Settled(registry, [live EXCEPT ![t] = Stopped(live[t])], Taken(c), attachments, full)
    BY <1>1, StoppedSound, TakenKeeps, TerminalChanged
  <2>2. live' \in {live, [live EXCEPT ![t] = Stopped(live[t])]}
    BY DEF Remove
  <2>3. QED
    BY <2>1, <2>2, TakenKeeps
<1>3. Settled(registry', live', Taken(c), attachments, full)
  BY <1>2 DEF Remove, Settled, Releasable
<1>4. Books'
  BY <1>3 DEF Remove, Books
<1>5. pending' \subseteq Awaited
  BY LaterType DEF Remove, Inv, Rest
<1>6. published' \in [Terminals -> MaybeState]
  BY DEF Remove, Inv, Rest, MaybeState
<1>7. /\ registry' \subseteq Terminals /\ listed' \subseteq Terminals
      /\ UNCHANGED <<timer, painted>>
  BY DEF Remove, Inv, Rest
<1>8. Rest'
  BY <1>5, <1>6, <1>7, DriftsType DEF Inv, Rest
<1>9. QED
  BY <1>4, <1>8 DEF Inv

LEMMA DispatchKeeps ==
  ASSUME Inv, NEW c \in Clients, Dispatch(c), Drifts
  PROVE  Inv'
<1> DEFINE r == conn[c].request
           t == r.terminal
<1>1. r \in Requests
  BY DEF Inv, Books, Settled, Connection, Dispatch
<1>2. t \in Terminals /\ r.arg \in 0..MaxSize /\ (r.op = "resize" => r.arg # 0)
  BY <1>1 DEF Requests
<1>3. r.arg # 0 => r.arg \in Sizes
  BY <1>2, LiveTerminalAssumption DEF Sizes
<1>4. UNCHANGED <<tick, view>>
  BY DEF Dispatch
<1>5. \/ r.op = "subscribe" /\ Subscribe(c, Taken(c))
      \/ r.op = "attach" /\ r.arg = 0 /\ AttachInput(c, t, Taken(c))
      \/ r.op = "attach" /\ r.arg # 0 /\ AttachViewport(c, t, r.arg, Taken(c))
      \/ r.op = "detach" /\ Detach(c, t, Taken(c))
      \/ r.op = "resize" /\ Resize(c, t, r.arg, Taken(c))
      \/ r.op = "mark" /\ Mark(c, t, r.arg = 1, Taken(c))
      \/ r.op = "stop" /\ Stop(c, t, Taken(c))
      \/ r.op = "start" /\ Start(c, t, live[t], Taken(c))
      \/ r.op = "restart" /\ Start(c, t, [live[t] EXCEPT !.pty = None], Taken(c))
      \/ r.op \in {"start", "restart"} /\ ResolveLaunch(c, t, Taken(c))
      \/ r.op = "rename" /\ Rename(c, t, Taken(c))
      \/ r.op = "remove" /\ Remove(c, t, Taken(c))
      \/ Unknown(r.op, t) /\ Answered(c, Taken(c))
  BY DEF Dispatch, Taken
<1> HIDE DEF t
<1>6. CASE r.op = "subscribe" /\ Subscribe(c, Taken(c))
  BY <1>4, <1>6, SubscribeKeeps
<1>7. CASE r.op = "attach" /\ r.arg = 0 /\ AttachInput(c, t, Taken(c))
  BY <1>2, <1>4, <1>7, AttachInputKeeps
<1>8. CASE r.op = "attach" /\ r.arg # 0 /\ AttachViewport(c, t, r.arg, Taken(c))
  BY <1>2, <1>3, <1>4, <1>8, AttachViewportKeeps
<1>9. CASE r.op = "detach" /\ Detach(c, t, Taken(c))
  BY <1>2, <1>4, <1>9, DetachKeeps
<1>10. CASE r.op = "resize" /\ Resize(c, t, r.arg, Taken(c))
  BY <1>2, <1>3, <1>4, <1>10, ResizeKeeps
<1>11. CASE r.op = "mark" /\ Mark(c, t, r.arg = 1, Taken(c))
  <2> DEFINE unread == r.arg = 1
  <2>1. unread \in BOOLEAN /\ Mark(c, t, unread, Taken(c))
    BY <1>11
  <2> HIDE DEF unread
  <2>2. QED
    BY <1>2, <1>4, <2>1, MarkKeeps
<1>12. CASE r.op = "stop" /\ Stop(c, t, Taken(c))
  BY <1>2, <1>4, <1>12, StopKeeps
<1>13. CASE r.op = "start" /\ Start(c, t, live[t], Taken(c))
  BY <1>2, <1>4, <1>13, StartKeeps
<1>14. CASE r.op = "restart" /\ Start(c, t, [live[t] EXCEPT !.pty = None], Taken(c))
  <2> DEFINE before == [live[t] EXCEPT !.pty = None]
  <2>1. before \in {live[t], [live[t] EXCEPT !.pty = None]} /\ Start(c, t, before, Taken(c))
    BY <1>14
  <2> HIDE DEF before
  <2>2. QED
    BY <1>2, <1>4, <2>1, StartKeeps
<1>15. CASE r.op \in {"start", "restart"} /\ ResolveLaunch(c, t, Taken(c))
  BY <1>2, <1>4, <1>15, AwaitKeeps DEF ResolveLaunch
<1>16. CASE r.op = "rename" /\ Rename(c, t, Taken(c))
  BY <1>2, <1>4, <1>16, AwaitKeeps DEF Rename
<1>17. CASE r.op = "remove" /\ Remove(c, t, Taken(c))
  BY <1>2, <1>4, <1>17, RemoveKeeps
<1>18. CASE Unknown(r.op, t) /\ Answered(c, Taken(c))
  BY <1>4, <1>18, TakenKeeps, AnsweredKeeps
<1>19. QED
  <2> HIDE DEF r
  <2> QED BY <1>5, <1>6, <1>7, <1>8, <1>9, <1>10, <1>11, <1>12, <1>13, <1>14, <1>15,
             <1>16, <1>17, <1>18 DEF t

LEMMA LaunchKeeps ==
  ASSUME Inv, NEW p \in pending, Launch(p), Drifts
  PROVE  Inv'
<1> DEFINE t == p.terminal
           c == p.client
           fresh == [NewTerminal EXCEPT !.run = live[t].run]
<1>1. c \in Clients /\ t \in Terminals /\ pending \ {p} \in SUBSET Awaited
  BY DEF Inv, Rest, Awaited
<1>2. UNCHANGED <<listed, published, tick, view, painted>>
  BY DEF Launch
<1>3. CASE t \in registry
  <2>1. Finish(live, conn, attachments, full, To(c, <<Reply>>), {})
          /\ pending' = pending \ {p} /\ timer' = TRUE /\ UNCHANGED registry
    BY <1>3 DEF Launch
  <2>2. Books'
    BY <1>1, <2>1, FinishKeeps, ReplyQueueType DEF Inv, Books
  <2>3. Rest'
    BY <1>1, <1>2, <2>1, DriftsType DEF Inv, Rest
  <2>4. QED
    BY <2>2, <2>3 DEF Inv
<1>4. CASE t \notin registry
  <2> DEFINE reg == registry \cup {t}
  <2>1. Started(c, t, fresh, conn, pending \ {p}) /\ registry' = reg
    BY <1>4 DEF Launch
  <2>2. live[t].run \in 0..MaxRuns
    BY <1>1 DEF Inv, Books, Settled, Terminal
  <2>3. Sound(fresh) /\ \A d \in Clients : fresh.views[d] = 0
    <3>1. Sound(NewTerminal) /\ \A d \in Clients : NewTerminal.views[d] = 0
      BY NewTerminalSound DEF NewTerminal
    <3>2. fresh \in Terminal /\ fresh.views = NewTerminal.views /\ fresh.size = NewTerminal.size
            /\ fresh.emulator = NewTerminal.emulator
      BY <2>2, <3>1 DEF Sound, Terminal
    <3> HIDE DEF fresh
    <3>3. QED
      BY <3>1, <3>2, SameGridNegotiated DEF Sound
  <2> HIDE DEF t, c, fresh
  <2>4. reg \in SUBSET Terminals
    BY <1>1 DEF Inv, Rest
  <2>5. ASSUME NEW lt, Sound(lt), lt.views = fresh.views
        PROVE  Settled(reg, [live EXCEPT ![t] = lt], conn, attachments, full)
    <3> DEFINE lv == [live EXCEPT ![t] = lt]
    <3>1. Settled(registry, live, conn, attachments, full)
      BY DEF Inv, Books
    <3>2. /\ lv \in [Terminals -> Terminal]
          /\ \A u \in Terminals : u # t => lv[u] = live[u]
          /\ lv[t] = lt
      BY <1>1, <2>5, <3>1 DEF Settled, Sound
    <3> HIDE DEF lv
    <3>3. \A u \in Terminals : Sound(lv[u])
      BY <2>5, <3>1, <3>2 DEF Settled
    <3>4. Releasable(reg, lv, conn, attachments)
      BY <1>1, <2>3, <2>5, <3>1, <3>2 DEF Settled, Releasable
    <3>5. QED
      BY <3>1, <3>2, <3>3, <3>4 DEF Settled, lv
  <2> HIDE DEF reg
  <2>6. QED
    BY <1>1, <1>2, <2>1, <2>3, <2>4, <2>5, StartedKeeps
<1>5. QED
  BY <1>3, <1>4

LEMMA PublishKeeps ==
  ASSUME Inv, NEW p \in pending, Publish(p), Drifts
  PROVE  Inv'
<1> DEFINE news == Broadcast(<<Snapshot(live, registry, listed)>>)
<1>1. p.client \in Clients
  BY DEF Inv, Rest, Awaited
<1>2. PICK saved \in BOOLEAN :
        Finish(live, conn, attachments, full,
               Both(IF saved THEN news ELSE Quiet, To(p.client, <<Reply>>)), {})
  BY DEF Publish
<1>3. Both(IF saved THEN news ELSE Quiet, To(p.client, <<Reply>>)) \in Queues
  <2>1. Snapshot(live, registry, listed) \in Messages
    BY SnapshotType DEF Inv, Books, Rest, Settled
  <2>2. <<Snapshot(live, registry, listed)>> \in Seq(Messages)
    BY <2>1
  <2>3. news \in Queues
    BY <2>2, BroadcastType
  <2> HIDE DEF news
  <2>4. (IF saved THEN news ELSE Quiet) \in Queues
    BY <2>3, QuietType
  <2>5. QED
    BY <1>1, <2>4, ReplyQueueType, BothType
<1>4. UNCHANGED registry
  BY DEF Publish
<1> HIDE DEF news
<1>5. Books'
  BY <1>2, <1>3, <1>4, FinishKeeps DEF Inv, Books
<1>6. Rest'
  BY DriftsType DEF Publish, Inv, Rest
<1>7. QED
  BY <1>5, <1>6 DEF Inv

-----------------------------------------------------------------------------
(* The frame loop. *)

LEMMA TickStartKeeps ==
  ASSUME Inv, TickStart, Drifts
  PROVE  Inv'
<1>1. tick' \in Tick
  <2>1. {t \in registry : IsLive(live[t])} \in SUBSET Terminals
    BY DEF Inv, Rest
  <2>2. PICK running \in SUBSET Terminals :
          tick' = [Idle EXCEPT !.phase = "feed", !.live = (running # {}), !.feed = running]
    BY <2>1 DEF TickStart
  <2>3. QED
    BY <2>2 DEF Idle, Tick
<1>2. Books' /\ Rest'
  BY <1>1, DriftsType DEF TickStart, Inv, Books, Rest
<1>3. QED
  BY <1>2 DEF Inv

(* The step takes t off the terminals to be drained. *)
LEMMA TickFeedType ==
  ASSUME tick \in Tick, NEW t \in Terminals, NEW failed \in SUBSET Terminals
  PROVE  /\ [tick EXCEPT !.feed = @ \ {t}] \in Tick
         /\ [tick EXCEPT !.feed = @ \ {t}, !.fed = t] \in Tick
         /\ [tick EXCEPT !.feed = @ \ {t}, !.fed = None] \in Tick
         /\ [tick EXCEPT !.feed = @ \ {t}, !.fed = None, !.failed = @ \cup {t}] \in Tick
BY DEF Tick

(* A terminal that reports, or ends, and is relayed. *)
LEMMA RelayedKeeps ==
  ASSUME Inv, NEW t \in Terminals, NEW lt, Sound(lt), lt.views = live[t].views,
         NEW more \in Queues, Relay(t, lt, conn, full, more), tick' \in Tick,
         UNCHANGED <<registry, listed, timer, pending, view, painted>>, Drifts
  PROVE  Inv'
<1>1. Settled(registry, [live EXCEPT ![t] = lt], conn, attachments, full)
  BY TerminalChanged DEF Inv, Books
<1>2. published \in [Terminals -> MaybeState] /\ lt \in Terminal
  BY DEF Inv, Rest, Sound
<1>3. Settled(registry, live', conn', attachments', full')
        /\ published' \in [Terminals -> MaybeState]
  BY <1>1, <1>2, RelayKeeps
<1>4. Books' /\ Rest'
  BY <1>3, DriftsType DEF Books, Inv, Rest
<1>5. QED
  BY <1>4 DEF Inv

LEMMA NewsType ==
  ASSUME NEW type \in {"attention", "exited"}, NEW t \in Terminals, NEW lt \in Terminal
  PROVE  Broadcast(<<About(type, t, lt)>>) \in Queues
<1>1. <<About(type, t, lt)>> \in Seq(Messages)
  BY AboutType
<1>2. QED
  BY <1>1, BroadcastType

LEMMA ReportsKeeps ==
  ASSUME Inv, NEW t \in Terminals, NEW lt, Sound(lt), lt.views = live[t].views,
         NEW signalled \in BOOLEAN, Reports(t, lt, signalled), Drifts
  PROVE  Inv'
<1> DEFINE more == IF signalled THEN Broadcast(<<About("attention", t, lt)>>) ELSE Quiet
<1>1. more \in Queues
  BY NewsType, QuietType DEF Sound
<1>2. Relay(t, lt, conn, full, more)
  BY DEF Reports
<1>3. tick' \in Tick
  BY TickFeedType DEF Reports, Inv, Rest
<1>4. UNCHANGED <<registry, listed, timer, pending, view, painted>>
  BY DEF Reports
<1> HIDE DEF more
<1>5. QED
  BY <1>1, <1>2, <1>3, <1>4, RelayedKeeps

LEMMA StreamEndsKeeps ==
  ASSUME Inv, NEW t \in Terminals, NEW end \in {"exited", "failed"},
         StreamEnds(t, end), Drifts
  PROVE  Inv'
<1> DEFINE lt == Ended(live[t], end)
           more == IF end = "exited" THEN Broadcast(<<About("exited", t, lt)>>) ELSE Quiet
<1>1. Sound(lt) /\ lt.views = live[t].views
  BY EndedSound DEF Inv, Books, Settled
<1>2. more \in Queues
  BY <1>1, NewsType, QuietType DEF Sound
<1>3. Relay(t, lt, conn, full, more)
  BY DEF StreamEnds
<1>4. tick' \in Tick
  BY TickFeedType DEF StreamEnds, Inv, Rest
<1>5. UNCHANGED <<registry, listed, timer, pending, view, painted>>
  BY DEF StreamEnds
<1> HIDE DEF more, lt
<1>6. QED
  BY <1>1, <1>2, <1>3, <1>4, <1>5, RelayedKeeps

LEMMA FeedStepsKeep ==
  ASSUME Inv, NEW t \in Terminals, FeedSteps(t), Drifts
  PROVE  Inv'
<1>1. Sound(live[t]) /\ tick \in Tick
  BY DEF Inv, Books, Settled, Rest
<1>2. CASE Bell(t)
  BY <1>1, <1>2, BelledSound, ReportsKeeps DEF Bell
<1>3. CASE PromptFinished(t)
  BY <1>1, <1>3, ReportsKeeps DEF PromptFinished
<1>4. ASSUME NEW p \in Progresses \cup {None}, Progress(t, p) PROVE Inv'
  BY <1>1, <1>4, ProgressedSound, ReportsKeeps DEF Progress
<1>5. ASSUME NEW a \in Activities, Activity(t, a) PROVE Inv'
  <2> DEFINE signalled == a # "working"
  <2>1. signalled \in BOOLEAN /\ Reports(t, Reported(live[t], a), signalled)
    BY <1>5 DEF Activity
  <2> HIDE DEF signalled
  <2>2. QED
    BY <1>1, <2>1, ReportedSound, ReportsKeeps
<1>6. CASE Drained(t)
  <2>1. tick' \in Tick
    BY <1>1, <1>6, TickFeedType DEF Drained
  <2>2. Books' /\ Rest'
    BY <1>6, <2>1, DriftsType DEF Drained, Inv, Books, Rest
  <2>3. QED
    BY <2>2 DEF Inv
<1>7. CASE DrainThrows(t)
  <2>1. tick' \in Tick
    BY <1>1, <1>7, TickFeedType DEF DrainThrows
  <2>2. Rest'
    BY <1>7, <2>1, DriftsType DEF DrainThrows, Inv, Rest
  <2>3. full' \in [Terminals -> SUBSET Clients]
    BY <1>7 DEF DrainThrows, Inv, Books, Settled
  <2>4. Books'
    BY <1>7, <2>3 DEF DrainThrows, Inv, Books, Settled
  <2>5. QED
    BY <2>2, <2>4 DEF Inv
<1>8. ASSUME NEW end \in {"exited", "failed"}, StreamEnds(t, end) PROVE Inv'
  BY <1>8, StreamEndsKeeps
<1>9. CASE ExitUnknown(t)
  <2> DEFINE lt == [live[t] EXCEPT !.pty = "ended"]
  <2>1. Sound(lt) /\ lt.views = live[t].views
    BY <1>1, SameGridNegotiated DEF Sound, Terminal
  <2>2. live' = [live EXCEPT ![t] = lt]
    BY <1>9 DEF ExitUnknown
  <2> HIDE DEF lt
  <2>3. Settled(registry, live', conn, attachments, full)
    BY <2>1, <2>2, TerminalChanged DEF Inv, Books
  <2>4. tick' \in Tick
    BY <1>1, <1>9, TickFeedType DEF ExitUnknown
  <2>5. Books' /\ Rest'
    BY <1>9, <2>3, <2>4, DriftsType DEF ExitUnknown, Books, Inv, Rest
  <2>6. QED
    BY <2>5 DEF Inv
<1>10. QED
  BY <1>2, <1>3, <1>4, <1>5, <1>6, <1>7, <1>8, <1>9 DEF FeedSteps

LEMMA PaintStartKeeps ==
  ASSUME Inv, PaintStart, Drifts
  PROVE  Inv'
<1>1. tick' \in Tick
  <2>1. {v \in (registry \ tick.failed) \X Clients : v[2] \in attachments[v[1]]}
          \in SUBSET (Terminals \X Clients)
    BY DEF Inv, Rest
  <2>2. PICK visits \in SUBSET (Terminals \X Clients) :
          tick' = [tick EXCEPT !.phase = "paint", !.paint = visits]
    BY <2>1 DEF PaintStart
  <2>3. tick \in Tick
    BY DEF Inv, Rest
  <2>4. QED
    BY <2>2, <2>3 DEF Tick
<1>2. Rest'
  BY <1>1, DriftsType DEF PaintStart, Inv, Rest
<1>3. /\ attachments' \in [Terminals -> SUBSET Clients]
      /\ full' \in [Terminals -> SUBSET Clients]
      /\ \A t \in Terminals : attachments'[t] \subseteq attachments[t]
  BY DEF PaintStart, Inv, Books, Settled
<1>4. Releasable(registry, live, conn, attachments')
  BY <1>3 DEF Inv, Books, Settled, Releasable
<1>5. Books'
  BY <1>3, <1>4 DEF PaintStart, Inv, Books, Settled
<1>6. QED
  BY <1>2, <1>5 DEF Inv

LEMMA TickEndKeeps ==
  ASSUME Inv, TickEnd, Drifts
  PROVE  Inv'
<1>1. tick' \in Tick /\ timer' \in BOOLEAN
  BY DEF TickEnd, Idle, Tick, Inv, Rest
<1>2. Books' /\ Rest'
  BY <1>1, DriftsType DEF TickEnd, Inv, Books, Rest
<1>3. QED
  BY <1>2 DEF Inv

LEMMA VisitsType ==
  ASSUME tick \in Tick, NEW gone
  PROVE  [tick EXCEPT !.paint = @ \ gone] \in Tick
BY DEF Tick

(* An output frame is queued only where hasRoom found a slot. *)
LEMMA DeliveredSettled ==
  ASSUME Inv, NEW t \in Terminals, NEW c \in Clients, HasRoom(c)
  PROVE  Settled(registry, live, Delivered(t, c), attachments, full)
<1> DEFINE k == [conn[c] EXCEPT !.output = Append(@, t)]
           new == Delivered(t, c)
<1>1. conn[c] \in Connection /\ conn \in [Clients -> Connection]
  BY DEF Inv, Books, Settled
<1>2. Append(conn[c].output, t) \in Seq(Terminals)
        /\ Len(Append(conn[c].output, t)) <= OutputCapacity
  <2>1. conn[c].output \in Seq(Terminals)
    BY <1>1 DEF Connection
  <2>2. Len(conn[c].output) \in Nat /\ Len(conn[c].output) < OutputCapacity
    BY <2>1, LenProperties DEF HasRoom
  <2>3. QED
    BY <2>1, <2>2, AppendProperties, TerminalServerAssumption
<1>3. /\ k \in Connection /\ Len(k.output) <= OutputCapacity
      /\ k.control = conn[c].control /\ k.phase = conn[c].phase
      /\ k.rendering = conn[c].rendering /\ k.attached = conn[c].attached
  BY <1>1, <1>2 DEF Connection
<1>4. new = [conn EXCEPT ![c] = k]
  BY <1>1 DEF Delivered
<1> HIDE DEF k, new
<1>5. /\ new \in [Clients -> Connection]
      /\ \A d \in Clients : /\ new[d].control = conn[d].control
                            /\ Len(new[d].output) <= OutputCapacity
                            /\ new[d].phase = conn[d].phase
                            /\ new[d].rendering = conn[d].rendering
                            /\ new[d].attached = conn[d].attached
  BY <1>1, <1>3, <1>4 DEF Inv, Books, Settled, Bounded
<1>6. Bounded(new) /\ Releasable(registry, live, new, attachments)
  BY <1>5 DEF Inv, Books, Settled, Bounded, Releasable
<1>7. QED
  BY <1>5, <1>6 DEF Inv, Books, Settled, new

LEMMA ScreenType ==
  ASSUME Inv, NEW t \in Terminals, NEW c \in Clients
  PROVE  [painted EXCEPT ![c][t] = Screen(t)]
           \in [Clients -> [Terminals -> [run : 0..MaxRuns, size : 0..MaxSize]]]
<1>1. Screen(t) \in [run : 0..MaxRuns, size : 0..MaxSize]
  BY DEF Screen, Inv, Books, Settled, Terminal
<1> DEFINE s == Screen(t)
<1> HIDE DEF s
<1>2. [painted EXCEPT ![c][t] = s]
        \in [Clients -> [Terminals -> [run : 0..MaxRuns, size : 0..MaxSize]]]
  BY <1>1 DEF Inv, Rest, s
<1>3. QED
  BY <1>2 DEF s

(* Debts paid or incurred do not touch the rest of the books. *)
LEMMA FullChanged ==
  ASSUME NEW reg, NEW lv, NEW cn, NEW at, NEW fu, Settled(reg, lv, cn, at, fu),
         NEW fu2 \in [Terminals -> SUBSET Clients]
  PROVE  Settled(reg, lv, cn, at, fu2)
BY DEF Settled

LEMMA PaintFullKeeps ==
  ASSUME Inv, NEW t \in Terminals, NEW c \in Clients, PaintFull(t, c), Drifts
  PROVE  Inv'
<1> DEFINE lt == FullyRepainted(live[t], c)
           cn == IF live[t].emulator THEN Delivered(t, c) ELSE conn
           fu == [full EXCEPT ![t] = @ \ {c}]
<1>1. Relay(t, lt, cn, fu, Quiet)
  BY DEF PaintFull
<1>2. Sound(lt) /\ lt.views = live[t].views
  BY FullyRepaintedSound DEF Inv, Books, Settled
<1>3. Settled(registry, live, cn, attachments, full)
  BY DeliveredSettled DEF PaintFull, Painting, Inv, Books
<1>4. fu \in [Terminals -> SUBSET Clients]
  BY DEF Inv, Books, Settled
<1> HIDE DEF lt, cn, fu
<1>5. Settled(registry, [live EXCEPT ![t] = lt], cn, attachments, fu)
  BY <1>2, <1>3, <1>4, TerminalChanged, FullChanged
<1>6. published \in [Terminals -> MaybeState] /\ lt \in Terminal
  BY <1>2 DEF Inv, Rest, Sound
<1>7. Settled(registry, live', conn', attachments', full')
        /\ published' \in [Terminals -> MaybeState]
  BY <1>1, <1>5, <1>6, QuietType, RelayKeeps
<1>8. tick' \in Tick
  BY VisitsType DEF PaintFull, Painting, Visits, Inv, Rest
<1>9. painted' \in [Clients -> [Terminals -> [run : 0..MaxRuns, size : 0..MaxSize]]]
  BY ScreenType, PaintedStays DEF PaintFull
<1>10. Books' /\ Rest'
  BY <1>7, <1>8, <1>9, DriftsType DEF PaintFull, Books, Inv, Rest
<1>11. QED
  BY <1>10 DEF Inv

LEMMA PaintOwedKeeps ==
  ASSUME Inv, NEW t \in Terminals, NEW c \in Clients, PaintOwed(t, c), Drifts
  PROVE  Inv'
<1> DEFINE lt == FullyRepainted(live[t], c)
           lv == [live EXCEPT ![t] = lt]
<1>1. Finish(lv, Delivered(t, c), attachments, full, Quiet, {})
  BY DEF PaintOwed
<1>2. Sound(lt) /\ lt.views = live[t].views
  BY FullyRepaintedSound DEF Inv, Books, Settled
<1> HIDE DEF lt
<1>3. Settled(registry, lv, Delivered(t, c), attachments, full)
  BY <1>2, DeliveredSettled, TerminalChanged DEF PaintOwed, Painting
<1> HIDE DEF lv
<1>4. Settled(registry, live', conn', attachments', full')
  BY <1>1, <1>3, QuietType, FinishKeeps
<1>5. tick' \in Tick
  BY VisitsType DEF PaintOwed, Painting, Visits, Inv, Rest
<1>6. painted' \in [Clients -> [Terminals -> [run : 0..MaxRuns, size : 0..MaxSize]]]
  BY ScreenType DEF PaintOwed
<1>7. Books' /\ Rest'
  BY <1>4, <1>5, <1>6, DriftsType DEF PaintOwed, Books, Inv, Rest
<1>8. QED
  BY <1>7 DEF Inv

LEMMA PaintStepsKeep ==
  ASSUME Inv, NEW t \in Terminals, NEW c \in Clients, PaintSteps(t, c), Drifts
  PROVE  Inv'
<1>1. tick \in Tick
  BY DEF Inv, Rest
<1>2. CASE SkipPaint(t, c)
  <2>1. full' \in [Terminals -> SUBSET Clients]
    BY <1>2 DEF SkipPaint, Inv, Books, Settled
  <2>2. tick' \in Tick
    BY <1>1, <1>2, VisitsType DEF SkipPaint, Visits
  <2>3. Books' /\ Rest'
    BY <1>2, <2>1, <2>2, FullChanged, DriftsType DEF SkipPaint, Inv, Books, Rest
  <2>4. QED
    BY <2>3 DEF Inv
<1>3. CASE PaintThrows(t, c)
  <2>1. /\ attachments' \in [Terminals -> SUBSET Clients]
        /\ full' \in [Terminals -> SUBSET Clients]
        /\ \A u \in Terminals : attachments'[u] \subseteq attachments[u]
    BY <1>3 DEF PaintThrows, Inv, Books, Settled
  <2>2. Releasable(registry, live, conn, attachments')
    BY <2>1 DEF Inv, Books, Settled, Releasable
  <2>3. Books'
    BY <1>3, <2>1, <2>2 DEF PaintThrows, Inv, Books, Settled
  <2>4. tick' \in Tick
    BY <1>1, <1>3 DEF PaintThrows, Tick
  <2>5. Rest'
    BY <1>3, <2>4, DriftsType DEF PaintThrows, Inv, Rest
  <2>6. QED
    BY <2>3, <2>5 DEF Inv
<1>4. CASE PaintDelta(t, c)
  <2>1. Settled(registry, live, conn', attachments, full)
    BY <1>4, DeliveredSettled DEF PaintDelta, Painting, Inv, Books
  <2>2. tick' \in Tick
    BY <1>1, <1>4, VisitsType DEF PaintDelta, Painting, Visits
  <2>3. Books' /\ Rest'
    BY <1>4, <2>1, <2>2, DriftsType DEF PaintDelta, Inv, Books, Rest
  <2>4. QED
    BY <2>3 DEF Inv
<1>5. QED
  BY <1>2, <1>3, <1>4, PaintFullKeeps, PaintOwedKeeps DEF PaintSteps

-----------------------------------------------------------------------------
(* The invariant, and what follows from it. *)

LEMMA InitInv ==
  ASSUME Init
  PROVE  Inv
<1>1. \A t \in Terminals : Sound(live[t]) /\ live[t] = NewTerminal
  BY NewTerminalSound DEF Init
<1>2. live \in [Terminals -> Terminal]
  BY NewTerminalSound DEF Init, Sound
<1> DEFINE k == [phase |-> "open", scoped |-> FALSE, attached |-> {}, rendering |-> {},
                 request |-> NoRequest, control |-> <<>>, output |-> <<>>]
<1>3. k \in Connection /\ Len(k.control) = 0 /\ Len(k.output) = 0
        /\ k.rendering = {} /\ k.attached = {}
  BY EmptySeq DEF Connection
<1>4. conn = [c \in Clients |-> k]
  BY DEF Init
<1> HIDE DEF k
<1>5. conn \in [Clients -> Connection] /\ Bounded(conn)
  BY <1>3, <1>4, TerminalServerAssumption DEF Bounded
<1>6. Releasable(registry, live, conn, attachments)
  BY <1>3, <1>4 DEF Init, Releasable
<1>7. Books
  BY <1>1, <1>2, <1>5, <1>6 DEF Init, Books, Settled
<1>8. Rest
  BY LiveTerminalAssumption DEF Init, Rest, Idle, Tick, View, MaybeState, Unpainted
<1>9. QED
  BY <1>7, <1>8 DEF Inv

LEMMA NextKeeps == Inv /\ [Next]_vars => Inv'
<1> SUFFICES ASSUME Inv, [Next]_vars PROVE Inv'
  OBVIOUS
<1>1. CASE UNCHANGED vars
  BY <1>1 DEF vars, Inv, Books, Rest
<1>2. ASSUME NEW c \in Clients, ClientSteps(c), Drifts PROVE Inv'
  BY <1>2, CloseKeeps, ReadRequestKeeps, ReadInputKeeps, PumpControlKeeps, PumpOutputKeeps,
     DispatchKeeps DEF ClientSteps
<1>3. ASSUME NEW p \in pending, Launch(p) \/ Publish(p), Drifts PROVE Inv'
  BY <1>3, LaunchKeeps, PublishKeeps
<1>4. QED
  BY <1>1, <1>2, <1>3, TickStartKeeps, FeedStepsKeep, PaintStartKeeps, PaintStepsKeep,
     TickEndKeeps DEF Next, Step

LEMMA SpecInv == Spec => []Inv
<1>1. Init => Inv
  BY InitInv
<1>2. QED
  BY <1>1, NextKeeps, PTL DEF Spec

(* Type correctness, for any number of clients and terminals; neither queue *)
(* of a connection ever holds more than its capacity, though handlers queue *)
(* first and close the connection that stalls after.                        *)
THEOREM TypeCorrect == Spec => []TypeOK
BY SpecInv, InvIsTheProperties, PTL

(* Whoever attaches, resizes, leaves or is closed, in any number and order, *)
(* a grid somebody is attached to is the smallest of the viewports.         *)
THEOREM GridsAreNegotiated == Spec => []GridIsNegotiated
BY SpecInv, InvIsTheProperties, PTL

(* What the daemon keeps for an open connection is what closeConnection     *)
(* walks: no interleaving of removals, launches and attachments lets a      *)
(* viewport or an attachment of an open connection escape it.               *)
THEOREM ClosingReleases == Spec => []ViewportsAreReleasable
BY SpecInv, InvIsTheProperties, PTL
-----------------------------------------------------------------------------
(***************************************************************************)
(* What the daemon's clients see, for any number of clients and terminals, *)
(* any sizes and any capacities: a client about to get a delta has a whole *)
(* screen under it; the records of who looks agree; the frame loop sleeps  *)
(* only when nothing needs it; and a subscribed client comes to believe    *)
(* the state of every terminal the relay has caught up with.               *)
(*                                                                         *)
(* Each property has an inductive invariant of its own on top of Inv, and  *)
(* a lemma of the form "this step leaves it alone" which most handlers     *)
(* fall under; the others are the places where the property is at stake.   *)
(* Finish, which ends every handler, is described once, by Ends.           *)
(***************************************************************************)

-----------------------------------------------------------------------------
(* What the methods of a terminal do to its process and to its debts. *)

SameProcess(lt, lt2) ==
  /\ lt2.pty = lt.pty /\ lt2.end = lt.end /\ lt2.attention = lt.attention
  /\ lt2.activity = lt.activity /\ lt2.progress = lt.progress

(* Client c looks at the terminal, and the terminal owes it no repaint. *)
UpToDate(lt, c) == lt.views[c] # 0 /\ c \notin lt.owes

(* Whoever is up to date after was so before, and the grid is the same. *)
Owing(lt, lt2) ==
  /\ lt2.run = lt.run /\ lt2.emulator = lt.emulator
  /\ \A c \in Clients : UpToDate(lt2, c) => UpToDate(lt, c) /\ lt2.size = lt.size

LEMMA OwingComposes ==
  ASSUME NEW lt, NEW lt1, NEW lt2, Owing(lt, lt1), Owing(lt1, lt2)
  PROVE  Owing(lt, lt2)
BY DEF Owing

LEMMA StateOfSameProcess ==
  ASSUME NEW lt \in Terminal, NEW lt2 \in Terminal, SameProcess(lt, lt2)
  PROVE  StateOf(lt2) = StateOf(lt)
BY DEF SameProcess, StateOf

LEMMA IsLiveMeans ==
  ASSUME NEW lt \in Terminal
  PROVE  IsLive(lt) <=> lt.end = None /\ lt.pty # None
BY DEF IsLive, StateOf, Terminal, None

(* applySize on a terminal whose viewports, or debts, have just changed. *)
LEMMA ResizedOwing ==
  ASSUME NEW lt \in Terminal, NEW n
  PROVE  /\ SameProcess(lt, Resized(lt, n))
         /\ Owing(lt, Resized(lt, n))
         /\ lt.owes \cap Viewers(lt) \subseteq Resized(lt, n).owes
         /\ Resized(lt, n).views = lt.views
<1>1. CASE lt.emulator /\ lt.size # n
  <2> DEFINE r == [lt EXCEPT !.size = n, !.owes = Viewers(lt)]
  <2>1. Resized(lt, n) = r
    BY <1>1 DEF Resized
  <2>2. /\ r.pty = lt.pty /\ r.end = lt.end /\ r.attention = lt.attention
        /\ r.activity = lt.activity /\ r.progress = lt.progress
        /\ r.run = lt.run /\ r.emulator = lt.emulator
        /\ r.views = lt.views /\ r.owes = Viewers(lt)
    BY DEF Terminal
  <2> HIDE DEF r
  <2>3. \A c \in Clients : ~UpToDate(r, c)
    BY <2>2 DEF UpToDate, Viewers
  <2>4. QED
    BY <2>1, <2>2, <2>3 DEF SameProcess, Owing
<1>2. CASE ~(lt.emulator /\ lt.size # n)
  BY <1>2 DEF Resized, SameProcess, Owing
<1>3. QED
  BY <1>1, <1>2

LEMMA WithoutOwing ==
  ASSUME NEW lt \in Terminal, NEW gone \in SUBSET Clients
  PROVE  /\ SameProcess(lt, Without(lt, gone))
         /\ Owing(lt, Without(lt, gone))
<1> DEFINE left == [lt EXCEPT !.views = [c \in Clients |-> IF c \in gone THEN 0 ELSE lt.views[c]],
                              !.owes = @ \ gone]
<1>1. /\ left \in Terminal /\ left.size = lt.size
      /\ left.views = [c \in Clients |-> IF c \in gone THEN 0 ELSE lt.views[c]]
      /\ left.owes = lt.owes \ gone
      /\ left.run = lt.run /\ left.emulator = lt.emulator
      /\ SameProcess(lt, left)
  BY SizesAreTyped DEF Terminal, SameProcess
<1>2. Without(lt, gone) = left \/ Without(lt, gone) = Resized(left, NegotiatedSize(left.views))
  BY DEF Without
<1> HIDE DEF left
<1>3. Owing(lt, left)
  BY <1>1 DEF Owing, UpToDate
<1>4. /\ SameProcess(left, Resized(left, NegotiatedSize(left.views)))
      /\ Owing(left, Resized(left, NegotiatedSize(left.views)))
  BY <1>1, ResizedOwing
<1>5. Owing(lt, Resized(left, NegotiatedSize(left.views)))
  BY <1>3, <1>4, OwingComposes
<1>6. QED
  BY <1>1, <1>2, <1>3, <1>4, <1>5 DEF SameProcess

(* A client that attaches first, or is overruled, is owed a whole screen. *)
LEMMA AttachedOwing ==
  ASSUME NEW lt \in Terminal, NEW c \in Clients, NEW v \in Sizes
  PROVE  /\ SameProcess(lt, Attached(lt, c, v))
         /\ Owing(lt, Attached(lt, c, v))
<1> DEFINE known == [lt EXCEPT !.views[c] = v]
           n     == NegotiatedSize(known.views)
           sized == Resized(known, n)
           owing == [sized EXCEPT !.owes = @ \cup {c}]
<1>1. /\ known \in Terminal /\ known.size = lt.size /\ known.owes = lt.owes
      /\ known.views = [lt.views EXCEPT ![c] = v]
      /\ known.run = lt.run /\ known.emulator = lt.emulator
      /\ SameProcess(lt, known)
  BY SizesAreTyped DEF Terminal, SameProcess
<1>2. Attached(lt, c, v) = IF lt.views[c] = 0 \/ n # v THEN owing ELSE sized
  BY DEF Attached
<1> HIDE DEF known
<1>3. Viewers(known) # {}
  BY <1>1, LiveTerminalAssumption DEF Viewers, Sizes, Terminal
<1>4. Sound(sized) /\ SameProcess(known, sized) /\ Owing(known, sized) /\ sized.views = known.views
  BY <1>1, <1>3, ResizedSound, ResizedOwing
<1> HIDE DEF sized
<1>5. /\ owing.owes = sized.owes \cup {c} /\ owing.views = sized.views /\ owing.size = sized.size
      /\ owing.run = sized.run /\ owing.emulator = sized.emulator
      /\ SameProcess(sized, owing)
  BY <1>4 DEF Sound, Terminal, SameProcess
<1> HIDE DEF owing
<1>6. \A d \in Clients : d # c => (UpToDate(known, d) => UpToDate(lt, d))
  BY <1>1 DEF UpToDate, Terminal
<1>7. ~UpToDate(owing, c) /\ \A d \in Clients : UpToDate(owing, d) => UpToDate(sized, d)
  BY <1>5 DEF UpToDate
<1>8. lt.views[c] # 0 => (UpToDate(known, c) => UpToDate(lt, c))
  BY <1>1 DEF UpToDate, Terminal
<1>9. CASE lt.views[c] = 0 \/ n # v
  <2>1. \A d \in Clients : UpToDate(owing, d) => UpToDate(lt, d) /\ owing.size = lt.size
    BY <1>1, <1>4, <1>5, <1>6, <1>7 DEF Owing
  <2>2. QED
    BY <1>1, <1>2, <1>4, <1>5, <1>9, <2>1 DEF Owing, SameProcess
<1>10. CASE ~(lt.views[c] = 0 \/ n # v)
  <2>1. \A d \in Clients : UpToDate(sized, d) => UpToDate(lt, d) /\ sized.size = lt.size
    BY <1>1, <1>4, <1>6, <1>8, <1>10 DEF Owing
  <2>2. QED
    BY <1>1, <1>2, <1>4, <1>10, <2>1 DEF Owing, SameProcess
<1>11. QED
  BY <1>9, <1>10

LEMMA DetachedOwing ==
  ASSUME NEW lt \in Terminal, NEW c \in Clients
  PROVE  /\ SameProcess(lt, Detached(lt, c))
         /\ Owing(lt, Detached(lt, c))
<1> DEFINE left == [lt EXCEPT !.views[c] = 0, !.owes = @ \ {c}]
<1>1. /\ left \in Terminal /\ left.size = lt.size
      /\ left.views = [lt.views EXCEPT ![c] = 0] /\ left.owes = lt.owes \ {c}
      /\ left.run = lt.run /\ left.emulator = lt.emulator
      /\ SameProcess(lt, left)
  BY SizesAreTyped DEF Terminal, SameProcess
<1>2. Detached(lt, c) = left \/ Detached(lt, c) = Resized(left, NegotiatedSize(left.views))
  BY DEF Detached
<1> HIDE DEF left
<1>3. Owing(lt, left)
  BY <1>1 DEF Owing, UpToDate, Terminal
<1>4. /\ SameProcess(left, Resized(left, NegotiatedSize(left.views)))
      /\ Owing(left, Resized(left, NegotiatedSize(left.views)))
  BY <1>1, ResizedOwing
<1>5. Owing(lt, Resized(left, NegotiatedSize(left.views)))
  BY <1>3, <1>4, OwingComposes
<1>6. QED
  BY <1>1, <1>2, <1>3, <1>4, <1>5 DEF SameProcess

(* What output, input and the end of a process do: the grid, the viewports *)
(* and the debts stay as they are.                                         *)
SameGrid(lt, lt2) ==
  /\ lt2.views = lt.views /\ lt2.owes = lt.owes /\ lt2.size = lt.size
  /\ lt2.run = lt.run /\ lt2.emulator = lt.emulator

LEMMA SameGridOwing ==
  ASSUME NEW lt, NEW lt2, SameGrid(lt, lt2)
  PROVE  Owing(lt, lt2)
BY DEF SameGrid, Owing, UpToDate

LEMMA MethodsKeepTheGrid ==
  ASSUME NEW lt \in Terminal
  PROVE  /\ SameGrid(lt, lt)
         /\ SameGrid(lt, Typed(lt))
         /\ SameGrid(lt, Stopped(lt))
         /\ SameGrid(lt, Belled(lt))
         /\ SameGrid(lt, [lt EXCEPT !.pty = "ended"])
         /\ SameGrid(lt, [lt EXCEPT !.pty = None])
         /\ \A raised \in BOOLEAN : SameGrid(lt, Marked(lt, raised))
         /\ \A p : SameGrid(lt, Progressed(lt, p))
         /\ \A a : SameGrid(lt, Reported(lt, a))
         /\ \A end : SameGrid(lt, Ended(lt, end))
BY DEF Terminal, SameGrid, Typed, Stopped, Belled, Marked, Progressed, Reported, Ended

-----------------------------------------------------------------------------
(* What Finish comes to: the connections in shut are closed, and the others *)
(* are sent what was queued for them.                                       *)
Ends(lv, cn, at, fu, q, shut) ==
  /\ shut \in SUBSET Clients
  /\ \A t \in Terminals : /\ lv[t] \in Terminal /\ live'[t] \in Terminal
                          /\ SameProcess(lv[t], live'[t]) /\ Owing(lv[t], live'[t])
                          /\ \A c \in Clients \ shut : live'[t].views[c] = lv[t].views[c]
                          /\ attachments'[t] = at[t] \ shut
                          /\ full'[t] = fu[t] \ shut
  /\ \A c \in Clients : conn'[c] = IF c \in shut THEN Closed(cn[c]) ELSE Sent(cn[c], q[c])

LEMMA FinishEnds ==
  ASSUME NEW lv \in [Terminals -> Terminal], \A t \in Terminals : Sound(lv[t]),
         NEW cn, NEW at, NEW fu, NEW q, NEW gone \in SUBSET Clients,
         Finish(lv, cn, at, fu, q, gone)
  PROVE  \E shut : Ends(lv, cn, at, fu, q, shut)
<1> DEFINE shut == gone \cup {c \in Clients : Stalls(cn[c], q[c])}
           out(t) == {c \in shut : t \in cn[c].attached}
<1>1. /\ live' = [t \in Terminals |-> Without(lv[t], out(t))]
      /\ conn' = [c \in Clients |-> IF c \in shut THEN Closed(cn[c]) ELSE Sent(cn[c], q[c])]
      /\ attachments' = [t \in Terminals |-> at[t] \ shut]
      /\ full' = [t \in Terminals |-> fu[t] \ shut]
  BY DEF Finish
<1>2. shut \in SUBSET Clients /\ \A t \in Terminals : out(t) \in SUBSET Clients /\ out(t) \subseteq shut
  OBVIOUS
<1> HIDE DEF shut, out
<1>3. ASSUME NEW t \in Terminals
      PROVE  /\ live'[t] \in Terminal
             /\ SameProcess(lv[t], live'[t]) /\ Owing(lv[t], live'[t])
             /\ \A c \in Clients \ shut : live'[t].views[c] = lv[t].views[c]
  <2>1. live'[t] = Without(lv[t], out(t))
    BY <1>1
  <2>2. /\ Sound(Without(lv[t], out(t)))
        /\ Without(lv[t], out(t)).views
             = [c \in Clients |-> IF c \in out(t) THEN 0 ELSE lv[t].views[c]]
    BY <1>2, WithoutSound
  <2>3. SameProcess(lv[t], Without(lv[t], out(t))) /\ Owing(lv[t], Without(lv[t], out(t)))
    BY <1>2, WithoutOwing
  <2>4. QED
    BY <1>2, <2>1, <2>2, <2>3 DEF Sound
<1>4. Ends(lv, cn, at, fu, q, shut)
  BY <1>1, <1>2, <1>3 DEF Ends
<1>5. QED
  BY <1>4

-----------------------------------------------------------------------------
(* Most steps are plain: nobody starts or stops looking at a terminal, but  *)
(* for the connections that close, nothing is painted in whole, and no      *)
(* process is started.                                                      *)
Plain ==
  /\ registry' = registry /\ painted' = painted
  /\ \E shut \in SUBSET Clients :
       /\ \A t \in Terminals :
            /\ Owing(live[t], live'[t])
            /\ \A c \in Clients \ shut : live'[t].views[c] = live[t].views[c]
            /\ attachments'[t] = attachments[t] \ shut
            /\ attachments'[t] \ full'[t] \subseteq attachments[t] \ full[t]
       /\ \A c \in shut : conn'[c].phase = "closed"
       /\ \A c \in Clients \ shut : /\ conn'[c].phase = conn[c].phase
                                    /\ conn'[c].rendering = conn[c].rendering

(* A connection whose queues or request change. *)
SameLooks(cn) ==
  \A c \in Clients : /\ cn[c] \in Connection /\ cn[c].phase = conn[c].phase
                     /\ cn[c].rendering = conn[c].rendering

LEMMA SentSame ==
  ASSUME NEW k \in Connection, NEW ms
  PROVE  /\ Sent(k, ms).phase = k.phase
         /\ Sent(k, ms).rendering = k.rendering
         /\ Sent(k, ms).scoped = k.scoped
         /\ Sent(k, ms).control = IF k.phase = "open" THEN k.control \o ms ELSE k.control
BY DEF Sent, Connection

LEMMA ClosedSame ==
  ASSUME NEW k \in Connection
  PROVE  Closed(k).phase = "closed" /\ Closed(k).rendering = k.rendering
BY DEF Closed, Connection

LEMMA ConnSameLooks == ASSUME Inv PROVE SameLooks(conn)
BY DEF Inv, Books, Settled, SameLooks

LEMMA TakenSameLooks ==
  ASSUME Inv, NEW c \in Clients
  PROVE  SameLooks(Taken(c))
<1>1. \A d \in Clients : Taken(c)[d] \in Connection
  BY TakenKeeps DEF Settled
<1>2. QED
  BY <1>1, TakenKeepsAttachments DEF SameLooks

LEMMA LiveTyped == ASSUME Inv PROVE live \in [Terminals -> Terminal] /\ \A t \in Terminals : Sound(live[t])
BY DEF Inv, Books, Settled

(* A handler that ends in Finish and leaves the viewports to it is plain. *)
LEMMA FinishIsPlain ==
  ASSUME Inv, NEW lv \in [Terminals -> Terminal],
         \A t \in Terminals : Sound(lv[t]) /\ SameGrid(live[t], lv[t]),
         NEW cn, SameLooks(cn), NEW fu, \A t \in Terminals : full[t] \subseteq fu[t],
         NEW q, NEW gone \in SUBSET Clients,
         Finish(lv, cn, attachments, fu, q, gone), UNCHANGED <<registry, painted>>
  PROVE  Plain
<1>1. PICK shut : Ends(lv, cn, attachments, fu, q, shut)
  BY FinishEnds
<1>2. ASSUME NEW t \in Terminals
      PROVE  /\ Owing(live[t], live'[t])
             /\ \A c \in Clients \ shut : live'[t].views[c] = live[t].views[c]
             /\ attachments'[t] = attachments[t] \ shut
             /\ attachments'[t] \ full'[t] \subseteq attachments[t] \ full[t]
  <2>1. Owing(live[t], live'[t])
    BY <1>1, SameGridOwing, OwingComposes DEF Ends
  <2>2. QED
    BY <1>1, <2>1 DEF Ends, SameGrid
<1>3. ASSUME NEW c \in Clients
      PROVE  IF c \in shut THEN conn'[c].phase = "closed"
             ELSE conn'[c].phase = conn[c].phase /\ conn'[c].rendering = conn[c].rendering
  BY <1>1, SentSame, ClosedSame DEF Ends, SameLooks
<1>4. shut \in SUBSET Clients
  BY <1>1 DEF Ends
<1>5. QED
  BY <1>2, <1>3, <1>4 DEF Plain

(* The same of a handler that changes one terminal. *)
LEMMA FinishOneIsPlain ==
  ASSUME Inv, NEW t \in Terminals, NEW lt, Sound(lt), SameGrid(live[t], lt),
         NEW cn, SameLooks(cn), NEW q,
         Finish([live EXCEPT ![t] = lt], cn, attachments, full, q, {}),
         UNCHANGED <<registry, painted>>
  PROVE  Plain
<1> DEFINE lv == [live EXCEPT ![t] = lt]
<1>1. lv \in [Terminals -> Terminal]
  BY LiveTyped DEF Sound
<1>2. \A u \in Terminals : Sound(lv[u]) /\ SameGrid(live[u], lv[u])
  <2>1. \A u \in Terminals : lv[u] = IF u = t THEN lt ELSE live[u]
    BY LiveTyped
  <2> HIDE DEF lv
  <2>2. QED
    BY <2>1, LiveTyped, MethodsKeepTheGrid
<1> HIDE DEF lv
<1>3. Finish(lv, cn, attachments, full, q, {})
  BY DEF lv
<1>4. QED
  BY <1>1, <1>2, <1>3, FinishIsPlain

LEMMA RelayIsPlain ==
  ASSUME Inv, NEW t \in Terminals, NEW lt, Sound(lt), SameGrid(live[t], lt),
         NEW cn, SameLooks(cn), NEW more, Relay(t, lt, cn, full, more),
         UNCHANGED <<registry, painted>>
  PROVE  Plain
BY FinishOneIsPlain DEF Relay

LEMMA FinishLiveIsPlain ==
  ASSUME Inv, NEW cn, SameLooks(cn), NEW q, NEW gone \in SUBSET Clients,
         Finish(live, cn, attachments, full, q, gone), UNCHANGED <<registry, painted>>
  PROVE  Plain
BY LiveTyped, MethodsKeepTheGrid, FinishIsPlain

(* A step that leaves the terminals and who looks as they are. *)
LEMMA NothingLooksDifferent ==
  ASSUME Inv, UNCHANGED <<live, registry, painted, attachments>>,
         \A t \in Terminals : full[t] \subseteq full'[t], SameLooks(conn')
  PROVE  Plain
<1>1. \A t \in Terminals : Owing(live[t], live'[t])
  BY LiveTyped, MethodsKeepTheGrid, SameGridOwing
<1>2. \A t \in Terminals : /\ attachments'[t] = attachments[t] \ {}
                           /\ attachments'[t] \ full'[t] \subseteq attachments[t] \ full[t]
  OBVIOUS
<1>3. \A c \in Clients \ {} : /\ conn'[c].phase = conn[c].phase
                              /\ conn'[c].rendering = conn[c].rendering
  BY DEF SameLooks
<1>4. {} \in SUBSET Clients /\ \A c \in {} : conn'[c].phase = "closed"
  OBVIOUS
<1>5. \A t \in Terminals : \A c \in Clients \ {} : live'[t].views[c] = live[t].views[c]
  OBVIOUS
<1>6. QED
  BY <1>1, <1>2, <1>3, <1>4, <1>5 DEF Plain

LEMMA CloseIsPlain ==
  ASSUME Inv, NEW c \in Clients, Close(c)
  PROVE  Plain
BY ConnSameLooks, FinishLiveIsPlain DEF Close

LEMMA ReadInputIsPlain ==
  ASSUME Inv, NEW c \in Clients, NEW t \in Terminals, ReadInput(c, t)
  PROVE  Plain
<1>1. UNCHANGED <<registry, painted>>
  BY DEF ReadInput
<1>2. CASE t \notin registry
  <2>1. Finish(live, conn, attachments, full, Quiet, {c})
    BY <1>2 DEF ReadInput
  <2>2. QED
    BY <1>1, <2>1, ConnSameLooks, FinishLiveIsPlain
<1>3. CASE t \in registry
  <2>1. PICK lt \in {Typed(live[t]), live[t]} : Relay(t, lt, conn, full, Quiet)
    BY <1>3 DEF ReadInput
  <2>2. Sound(lt) /\ SameGrid(live[t], lt)
    BY LiveTyped, TypedSound, MethodsKeepTheGrid
  <2>3. QED
    BY <1>1, <2>1, <2>2, ConnSameLooks, RelayIsPlain
<1>4. QED
  BY <1>2, <1>3

(* The connections after a request is read, or a frame is taken. *)
LEMMA RequestSameLooks ==
  ASSUME Inv, NEW c \in Clients, NEW r \in Requests
  PROVE  SameLooks([conn EXCEPT ![c].request = r])
<1> DEFINE k == [conn[c] EXCEPT !.request = r]
<1>1. k \in Connection /\ k.phase = conn[c].phase /\ k.rendering = conn[c].rendering
  BY ConnSameLooks DEF SameLooks, Connection
<1>2. conn \in [Clients -> Connection] /\ [conn EXCEPT ![c].request = r] = [conn EXCEPT ![c] = k]
  BY DEF Inv, Books, Settled
<1> HIDE DEF k
<1>3. QED
  BY <1>1, <1>2 DEF SameLooks

LEMMA PumpSameLooks ==
  ASSUME Inv, NEW c \in Clients
  PROVE  /\ conn[c].control # <<>> => SameLooks([conn EXCEPT ![c].control = Tail(@)])
         /\ conn[c].output # <<>> => SameLooks([conn EXCEPT ![c].output = Tail(@)])
<1>1. conn[c] \in Connection /\ conn \in [Clients -> Connection]
  BY DEF Inv, Books, Settled
<1>2. ASSUME conn[c].control # <<>>
      PROVE  SameLooks([conn EXCEPT ![c].control = Tail(@)])
  <2> DEFINE k == [conn[c] EXCEPT !.control = Tail(@)]
  <2>1. Tail(conn[c].control) \in Seq(Messages)
    BY <1>1, <1>2, HeadTailProperties DEF Connection
  <2>2. k \in Connection /\ k.phase = conn[c].phase /\ k.rendering = conn[c].rendering
    BY <1>1, <2>1 DEF Connection
  <2>3. [conn EXCEPT ![c].control = Tail(@)] = [conn EXCEPT ![c] = k]
    BY <1>1
  <2> HIDE DEF k
  <2>4. QED
    BY <1>1, <2>2, <2>3 DEF SameLooks
<1>3. ASSUME conn[c].output # <<>>
      PROVE  SameLooks([conn EXCEPT ![c].output = Tail(@)])
  <2> DEFINE k == [conn[c] EXCEPT !.output = Tail(@)]
  <2>1. Tail(conn[c].output) \in Seq(Terminals)
    BY <1>1, <1>3, HeadTailProperties DEF Connection
  <2>2. k \in Connection /\ k.phase = conn[c].phase /\ k.rendering = conn[c].rendering
    BY <1>1, <2>1 DEF Connection
  <2>3. [conn EXCEPT ![c].output = Tail(@)] = [conn EXCEPT ![c] = k]
    BY <1>1
  <2> HIDE DEF k
  <2>4. QED
    BY <1>1, <2>2, <2>3 DEF SameLooks
<1>4. QED
  BY <1>2, <1>3

LEMMA ConnectionStepsArePlain ==
  ASSUME Inv, NEW c \in Clients,
         \/ \E r \in Requests : ReadRequest(c, r)
         \/ PumpControl(c)
         \/ PumpOutput(c)
  PROVE  Plain
<1>1. ASSUME NEW r \in Requests, ReadRequest(c, r) PROVE Plain
  <2>1. SameLooks(conn')
    BY <1>1, RequestSameLooks DEF ReadRequest
  <2>2. UNCHANGED <<live, registry, painted, attachments, full>>
    BY <1>1 DEF ReadRequest
  <2>3. QED
    BY <2>1, <2>2, NothingLooksDifferent
<1>2. CASE PumpControl(c)
  <2>1. SameLooks(conn')
    BY <1>2, PumpSameLooks DEF PumpControl
  <2>2. UNCHANGED <<live, registry, painted, attachments, full>>
    BY <1>2 DEF PumpControl
  <2>3. QED
    BY <2>1, <2>2, NothingLooksDifferent
<1>3. CASE PumpOutput(c)
  <2> DEFINE popped == [conn EXCEPT ![c].output = Tail(@)]
  <2>1. SameLooks(popped)
    BY <1>3, PumpSameLooks DEF PumpOutput
  <2>2. PICK gone \in SUBSET Clients : Finish(live, popped, attachments, full, Quiet, gone)
    BY <1>3 DEF PumpOutput
  <2> HIDE DEF popped
  <2>3. UNCHANGED <<registry, painted>>
    BY <1>3 DEF PumpOutput
  <2>4. QED
    BY <2>1, <2>2, <2>3, FinishLiveIsPlain
<1>4. QED
  BY <1>1, <1>2, <1>3

-----------------------------------------------------------------------------
(* The requests, one by one. *)
LEMMA DispatchCases ==
  ASSUME Inv, NEW c \in Clients, Dispatch(c)
  PROVE  /\ NotInTick /\ UNCHANGED <<tick, view>>
         /\ \/ Subscribe(c, Taken(c))
            \/ Answered(c, Taken(c))
            \/ \E t \in Terminals :
                 \/ AttachInput(c, t, Taken(c))
                 \/ \E v \in Sizes : AttachViewport(c, t, v, Taken(c)) \/ Resize(c, t, v, Taken(c))
                 \/ Detach(c, t, Taken(c))
                 \/ \E unread \in BOOLEAN : Mark(c, t, unread, Taken(c))
                 \/ Stop(c, t, Taken(c))
                 \/ \E before \in {live[t], [live[t] EXCEPT !.pty = None]} :
                      Start(c, t, before, Taken(c))
                 \/ ResolveLaunch(c, t, Taken(c))
                 \/ Rename(c, t, Taken(c))
                 \/ "remove" \in Operations /\ Remove(c, t, Taken(c))
<1> DEFINE r == conn[c].request
           t == r.terminal
<1>1. r \in Requests
  BY DEF Inv, Books, Settled, Connection, Dispatch
<1>2. /\ t \in Terminals /\ r.arg \in 0..MaxSize /\ (r.op = "resize" => r.arg # 0)
      /\ (r.op = "remove" => "remove" \in Operations)
  BY <1>1 DEF Requests
<1>3. r.arg # 0 => r.arg \in Sizes
  BY <1>2, LiveTerminalAssumption DEF Sizes
<1>4. NotInTick /\ UNCHANGED <<tick, view>>
  BY DEF Dispatch
<1>5. \/ r.op = "subscribe" /\ Subscribe(c, Taken(c))
      \/ r.op = "attach" /\ r.arg = 0 /\ AttachInput(c, t, Taken(c))
      \/ r.op = "attach" /\ r.arg # 0 /\ AttachViewport(c, t, r.arg, Taken(c))
      \/ r.op = "detach" /\ Detach(c, t, Taken(c))
      \/ r.op = "resize" /\ Resize(c, t, r.arg, Taken(c))
      \/ r.op = "mark" /\ Mark(c, t, r.arg = 1, Taken(c))
      \/ r.op = "stop" /\ Stop(c, t, Taken(c))
      \/ r.op = "start" /\ Start(c, t, live[t], Taken(c))
      \/ r.op = "restart" /\ Start(c, t, [live[t] EXCEPT !.pty = None], Taken(c))
      \/ r.op \in {"start", "restart"} /\ ResolveLaunch(c, t, Taken(c))
      \/ r.op = "rename" /\ Rename(c, t, Taken(c))
      \/ r.op = "remove" /\ Remove(c, t, Taken(c))
      \/ Unknown(r.op, t) /\ Answered(c, Taken(c))
  BY DEF Dispatch, Taken
<1> HIDE DEF t, r
<1>6. \/ Subscribe(c, Taken(c))
      \/ Answered(c, Taken(c))
      \/ AttachInput(c, t, Taken(c))
      \/ \E v \in Sizes : AttachViewport(c, t, v, Taken(c)) \/ Resize(c, t, v, Taken(c))
      \/ Detach(c, t, Taken(c))
      \/ \E unread \in BOOLEAN : Mark(c, t, unread, Taken(c))
      \/ Stop(c, t, Taken(c))
      \/ \E before \in {live[t], [live[t] EXCEPT !.pty = None]} : Start(c, t, before, Taken(c))
      \/ ResolveLaunch(c, t, Taken(c))
      \/ Rename(c, t, Taken(c))
      \/ "remove" \in Operations /\ Remove(c, t, Taken(c))
  <2>1. CASE r.op = "mark" /\ Mark(c, t, r.arg = 1, Taken(c))
    <3> DEFINE unread == r.arg = 1
    <3>1. unread \in BOOLEAN /\ Mark(c, t, unread, Taken(c))
      BY <2>1
    <3> HIDE DEF unread
    <3>2. QED
      BY <3>1
  <2>2. CASE ~(r.op = "mark" /\ Mark(c, t, r.arg = 1, Taken(c)))
    <3>1. CASE r.op \in {"attach", "resize"}
      BY <1>2, <1>3, <1>5, <2>2, <3>1
    <3>2. CASE r.op \notin {"attach", "resize"}
      BY <1>2, <1>5, <2>2, <3>2
    <3>3. QED
      BY <3>1, <3>2
  <2>3. QED
    BY <2>1, <2>2
<1>7. QED
  BY <1>2, <1>4, <1>6

LEMMA AttachInputSameLooks ==
  ASSUME Inv, NEW c \in Clients, NEW t \in Terminals
  PROVE  SameLooks([Taken(c) EXCEPT ![c].attached = @ \cup {t}])
<1> DEFINE cn == Taken(c)
           k == [cn[c] EXCEPT !.attached = @ \cup {t}]
<1>1. cn \in [Clients -> Connection]
  BY TakenKeeps DEF Settled
<1>2. SameLooks(cn)
  BY TakenSameLooks
<1> HIDE DEF cn
<1>3. k \in Connection /\ k.phase = cn[c].phase /\ k.rendering = cn[c].rendering
  BY <1>1 DEF Connection
<1>4. [cn EXCEPT ![c].attached = @ \cup {t}] = [cn EXCEPT ![c] = k]
  BY <1>1
<1> HIDE DEF k
<1>5. QED
  BY <1>1, <1>2, <1>3, <1>4 DEF SameLooks, cn

LEMMA SubscribeSameLooks ==
  ASSUME Inv, NEW c \in Clients
  PROVE  SameLooks([Taken(c) EXCEPT ![c].scoped = TRUE])
<1> DEFINE cn == Taken(c)
           k == [cn[c] EXCEPT !.scoped = TRUE]
<1>1. cn \in [Clients -> Connection]
  BY TakenKeeps DEF Settled
<1>2. SameLooks(cn)
  BY TakenSameLooks
<1> HIDE DEF cn
<1>3. k \in Connection /\ k.phase = cn[c].phase /\ k.rendering = cn[c].rendering
  BY <1>1 DEF Connection
<1>4. [cn EXCEPT ![c].scoped = TRUE] = [cn EXCEPT ![c] = k]
  BY <1>1
<1> HIDE DEF k
<1>5. QED
  BY <1>1, <1>2, <1>3, <1>4 DEF SameLooks, cn

LEMMA RequestsArePlain ==
  ASSUME Inv, NEW c \in Clients, NEW t \in Terminals,
         \/ Subscribe(c, Taken(c))
         \/ Answered(c, Taken(c)) /\ UNCHANGED painted
         \/ AttachInput(c, t, Taken(c))
         \/ \E unread \in BOOLEAN : Mark(c, t, unread, Taken(c))
         \/ Stop(c, t, Taken(c))
         \/ ResolveLaunch(c, t, Taken(c))
         \/ Rename(c, t, Taken(c))
  PROVE  Plain
<1>0. SameLooks(Taken(c))
  BY TakenSameLooks
<1>1. CASE Subscribe(c, Taken(c))
  BY <1>1, SubscribeSameLooks, FinishLiveIsPlain DEF Subscribe
<1>2. CASE Answered(c, Taken(c))
  BY <1>0, <1>2, FinishLiveIsPlain DEF Answered
<1>3. CASE AttachInput(c, t, Taken(c))
  BY <1>3, AttachInputSameLooks, FinishLiveIsPlain DEF AttachInput, Answered
<1>4. ASSUME NEW unread \in BOOLEAN, Mark(c, t, unread, Taken(c)) PROVE Plain
  <2>1. Sound(Marked(live[t], unread)) /\ SameGrid(live[t], Marked(live[t], unread))
    BY LiveTyped, MarkedSound, MethodsKeepTheGrid
  <2>2. QED
    BY <1>0, <1>4, <2>1, RelayIsPlain DEF Mark
<1>5. CASE Stop(c, t, Taken(c))
  <2>1. Sound(Stopped(live[t])) /\ SameGrid(live[t], Stopped(live[t]))
    BY LiveTyped, StoppedSound, MethodsKeepTheGrid
  <2>2. Finish([live EXCEPT ![t] = Stopped(live[t])], Taken(c), attachments, full,
               To(c, <<Reply>>), {})
    BY <1>5 DEF Stop
  <2>3. UNCHANGED <<registry, painted>>
    BY <1>5 DEF Stop
  <2>4. QED
    BY <1>0, <2>1, <2>2, <2>3, FinishOneIsPlain
<1>6. CASE ResolveLaunch(c, t, Taken(c)) \/ Rename(c, t, Taken(c))
  <2>1. UNCHANGED <<live, registry, painted, attachments, full>> /\ conn' = Taken(c)
    BY <1>6 DEF ResolveLaunch, Rename, Await
  <2>2. QED
    BY <1>0, <2>1, NothingLooksDifferent
<1>7. QED
  BY <1>1, <1>2, <1>3, <1>4, <1>5, <1>6

LEMMA PublishIsPlain ==
  ASSUME Inv, NEW p \in pending, Publish(p)
  PROVE  Plain
<1>1. PICK q : Finish(live, conn, attachments, full, q, {})
  BY DEF Publish
<1>2. UNCHANGED <<registry, painted>>
  BY DEF Publish
<1>3. QED
  BY <1>1, <1>2, ConnSameLooks, FinishLiveIsPlain

LEMMA FeedStepsArePlain ==
  ASSUME Inv, NEW t \in Terminals, FeedSteps(t)
  PROVE  Plain
<1>1. Sound(live[t]) /\ live[t] \in Terminal
  BY LiveTyped
<1>2. SameLooks(conn)
  BY ConnSameLooks
<1>3. ASSUME NEW lt, Sound(lt), SameGrid(live[t], lt), NEW signalled, Reports(t, lt, signalled)
      PROVE  Plain
  <2>1. PICK more : Relay(t, lt, conn, full, more)
    BY <1>3 DEF Reports
  <2>2. UNCHANGED <<registry, painted>>
    BY <1>3 DEF Reports
  <2>3. QED
    BY <1>2, <1>3, <2>1, <2>2, RelayIsPlain
<1>4. CASE Bell(t)
  BY <1>1, <1>3, <1>4, BelledSound, MethodsKeepTheGrid DEF Bell
<1>5. CASE PromptFinished(t)
  BY <1>1, <1>3, <1>5, MethodsKeepTheGrid DEF PromptFinished
<1>6. ASSUME NEW p \in Progresses \cup {None}, Progress(t, p) PROVE Plain
  BY <1>1, <1>3, <1>6, ProgressedSound, MethodsKeepTheGrid DEF Progress
<1>7. ASSUME NEW a \in Activities, Activity(t, a) PROVE Plain
  BY <1>1, <1>3, <1>7, ReportedSound, MethodsKeepTheGrid DEF Activity
<1>8. CASE Drained(t)
  BY <1>2, <1>8, NothingLooksDifferent DEF Drained
<1>9. CASE DrainThrows(t)
  <2>1. UNCHANGED <<live, registry, painted, attachments, conn>>
    BY <1>9 DEF DrainThrows
  <2>2. \A u \in Terminals : attachments'[u] \ full'[u] \subseteq attachments[u] \ full[u]
    BY <1>9 DEF DrainThrows, Inv, Books, Settled
  <2>3. \A u \in Terminals : Owing(live[u], live'[u])
    BY <2>1, LiveTyped, MethodsKeepTheGrid, SameGridOwing
  <2>4. {} \in SUBSET Clients /\ \A u \in Terminals : attachments'[u] = attachments[u] \ {}
    BY <2>1
  <2>5. QED
    BY <2>1, <2>2, <2>3, <2>4 DEF Plain
<1>10. ASSUME NEW end \in {"exited", "failed"}, StreamEnds(t, end) PROVE Plain
  <2>1. PICK more : Relay(t, Ended(live[t], end), conn, full, more)
    BY <1>10 DEF StreamEnds
  <2>2. Sound(Ended(live[t], end)) /\ SameGrid(live[t], Ended(live[t], end))
    BY <1>1, EndedSound, MethodsKeepTheGrid
  <2>3. UNCHANGED <<registry, painted>>
    BY <1>10 DEF StreamEnds
  <2>4. QED
    BY <1>2, <2>1, <2>2, <2>3, RelayIsPlain
<1>11. CASE ExitUnknown(t)
  <2> DEFINE lt == [live[t] EXCEPT !.pty = "ended"]
  <2>1. SameGrid(live[t], lt)
    BY <1>1, MethodsKeepTheGrid
  <2>2. live' = [live EXCEPT ![t] = lt]
    BY <1>11 DEF ExitUnknown
  <2> HIDE DEF lt
  <2>3. \A u \in Terminals : SameGrid(live[u], live'[u])
    BY <2>1, <2>2, LiveTyped, MethodsKeepTheGrid
  <2>4. UNCHANGED <<registry, painted, attachments, full, conn>>
    BY <1>11 DEF ExitUnknown
  <2>5. \A u \in Terminals : Owing(live[u], live'[u])
    BY <2>3, SameGridOwing
  <2>6. \A u \in Terminals : \A c \in Clients \ {} : live'[u].views[c] = live[u].views[c]
    BY <2>3 DEF SameGrid
  <2>7. {} \in SUBSET Clients /\ \A u \in Terminals : attachments'[u] = attachments[u] \ {}
    BY <2>4
  <2>8. QED
    BY <2>4, <2>5, <2>6, <2>7 DEF Plain
<1>12. QED
  BY <1>4, <1>5, <1>6, <1>7, <1>8, <1>9, <1>10, <1>11 DEF FeedSteps

LEMMA DeliveredSameLooks ==
  ASSUME Inv, NEW t \in Terminals, NEW c \in Clients, HasRoom(c)
  PROVE  SameLooks(Delivered(t, c))
<1>1. Delivered(t, c) \in [Clients -> Connection]
  BY DeliveredSettled DEF Settled
<1>2. conn \in [Clients -> Connection]
  BY DEF Inv, Books, Settled
<1>3. \A d \in Clients : /\ Delivered(t, c)[d].phase = conn[d].phase
                         /\ Delivered(t, c)[d].rendering = conn[d].rendering
  BY <1>2 DEF Delivered, Connection
<1>4. QED
  BY <1>1, <1>3 DEF SameLooks

LEMMA LoopStepsArePlain ==
  ASSUME Inv, NEW t \in Terminals, NEW c \in Clients,
         TickStart \/ TickEnd \/ SkipPaint(t, c) \/ PaintDelta(t, c)
  PROVE  Plain
<1>1. UNCHANGED <<live, registry, painted, attachments>>
  BY DEF TickStart, TickEnd, SkipPaint, PaintDelta
<1>2. \A u \in Terminals : full[u] \subseteq full'[u]
  BY DEF TickStart, TickEnd, SkipPaint, PaintDelta, Inv, Books, Settled
<1>3. SameLooks(conn')
  BY ConnSameLooks, DeliveredSameLooks DEF TickStart, TickEnd, SkipPaint, PaintDelta, Painting
<1>4. QED
  BY <1>1, <1>2, <1>3, NothingLooksDifferent

-----------------------------------------------------------------------------
(***************************************************************************)
(* A whole screen first.  What c was last painted of a terminal, p, goes   *)
(* with the terminal lt: next says that the frame loop owes c nothing, so  *)
(* that only the terminal may.                                             *)
(***************************************************************************)
Screened(lt, p, c, next) ==
  /\ lt.emulator => lt.run # 0
  /\ p.run <= lt.run
  /\ UpToDate(lt, c) =>
       /\ p.run # 0
       /\ (lt.emulator /\ next /\ p.run = lt.run) => p.size = lt.size

ScreensOf(lv, at, fu, pa) ==
  \A t \in Terminals, c \in Clients : Screened(lv[t], pa[c][t], c, c \in at[t] \ fu[t])

Screens == ScreensOf(live, attachments, full, painted)

LEMMA ScreenedStays ==
  ASSUME NEW lt, NEW lt2, Owing(lt, lt2), NEW c \in Clients, NEW p,
         NEW next \in BOOLEAN, NEW next2 \in BOOLEAN, next2 => next,
         Screened(lt, p, c, next)
  PROVE  Screened(lt2, p, c, next2)
BY DEF Owing, Screened

LEMMA ScreensStay ==
  ASSUME NEW lv, NEW at, NEW fu, NEW pa, ScreensOf(lv, at, fu, pa),
         NEW lv2, NEW at2, NEW fu2,
         \A t \in Terminals : Owing(lv[t], lv2[t]) /\ at2[t] \ fu2[t] \subseteq at[t] \ fu[t]
  PROVE  ScreensOf(lv2, at2, fu2, pa)
<1>1. ASSUME NEW t \in Terminals, NEW c \in Clients
      PROVE  Screened(lv2[t], pa[c][t], c, c \in at2[t] \ fu2[t])
  <2> DEFINE next == c \in at[t] \ fu[t]
             next2 == c \in at2[t] \ fu2[t]
  <2>1. next \in BOOLEAN /\ next2 \in BOOLEAN /\ (next2 => next)
    OBVIOUS
  <2>2. Screened(lv[t], pa[c][t], c, next)
    BY DEF ScreensOf
  <2> HIDE DEF next, next2
  <2>3. Screened(lv2[t], pa[c][t], c, next2)
    BY <2>1, <2>2, ScreenedStays
  <2>4. QED
    BY <2>3 DEF next2
<1>2. QED
  BY <1>1 DEF ScreensOf

LEMMA PlainScreens ==
  ASSUME Screens, Plain
  PROVE  Screens'
BY ScreensStay DEF Plain, Screens

(* Finish pays no debt. *)
LEMMA FinishScreens ==
  ASSUME NEW lv \in [Terminals -> Terminal], \A t \in Terminals : Sound(lv[t]),
         NEW cn, NEW at, NEW fu, NEW q, NEW gone \in SUBSET Clients,
         ScreensOf(lv, at, fu, painted'), Finish(lv, cn, at, fu, q, gone)
  PROVE  Screens'
<1>1. PICK shut : Ends(lv, cn, at, fu, q, shut)
  BY FinishEnds
<1>2. \A t \in Terminals : /\ Owing(lv[t], live'[t])
                           /\ attachments'[t] \ full'[t] \subseteq at[t] \ fu[t]
  BY <1>1 DEF Ends
<1>3. ScreensOf(live', attachments', full', painted')
  BY <1>2, ScreensStay
<1>4. QED
  BY <1>3 DEF Screens

LEMMA LooksAreTyped ==
  ASSUME Inv
  PROVE  /\ attachments \in [Terminals -> SUBSET Clients]
         /\ full \in [Terminals -> SUBSET Clients]
         /\ painted \in [Clients -> [Terminals -> [run : 0..MaxRuns, size : 0..MaxSize]]]
         /\ conn \in [Clients -> Connection]
         /\ tick \in Tick
BY DEF Inv, Books, Settled, Rest

(* A client that attaches is owed a whole screen twice: by the frame loop, *)
(* and, unless it had one of a grid its viewport leaves alone, by the      *)
(* terminal.                                                               *)
LEMMA AttachViewportScreens ==
  ASSUME Inv, Screens, NEW c \in Clients, NEW t \in Terminals, NEW v \in Sizes,
         AttachViewport(c, t, v, Taken(c))
  PROVE  Screens'
<1> DEFINE lt == Attached(live[t], c, v)
           lv == [live EXCEPT ![t] = lt]
           at == [attachments EXCEPT ![t] = @ \cup {c}]
           fu == [full EXCEPT ![t] = @ \cup {c}]
           p == Anew(t, c)
<1>1. live \in [Terminals -> Terminal] /\ Sound(lt) /\ Owing(live[t], lt)
  BY LiveTyped, AttachedSound, AttachedOwing
<1>2. \A u \in Terminals : lv[u] = IF u = t THEN lt ELSE live[u]
  BY <1>1
<1>3. \A u \in Terminals : at[u] \ fu[u] = attachments[u] \ (full[u] \cup IF u = t THEN {c} ELSE {})
  BY LooksAreTyped
<1>4. painted' = [painted EXCEPT ![c][t] = p]
  BY DEF AttachViewport
<1>5. /\ painted'[c][t] = p
      /\ \A u \in Terminals, d \in Clients : (u # t \/ d # c) => painted'[d][u] = painted[d][u]
  BY <1>4, LooksAreTyped
<1>6. PICK cn, q : Finish(lv, cn, at, fu, q, {})
  BY DEF AttachViewport
<1>7. lv \in [Terminals -> Terminal] /\ \A u \in Terminals : Sound(lv[u])
  BY <1>1, <1>2, LiveTyped DEF Sound
<1> HIDE DEF lt, lv, at, fu, p
<1>8. ASSUME NEW u \in Terminals, NEW d \in Clients
      PROVE  Screened(lv[u], painted'[d][u], d, d \in at[u] \ fu[u])
  <2>1. Screened(live[u], painted[d][u], d, d \in attachments[u] \ full[u])
    BY DEF Screens, ScreensOf
  <2> DEFINE next == d \in attachments[u] \ full[u]
             next2 == d \in at[u] \ fu[u]
  <2>2. next \in BOOLEAN /\ next2 \in BOOLEAN /\ (next2 => next)
    BY <1>3
  <2>3. Owing(live[u], lv[u])
    BY <1>1, <1>2, LiveTyped, MethodsKeepTheGrid, SameGridOwing
  <2>4. CASE u # t \/ d # c
    <3>0. Screened(live[u], painted[d][u], d, next)
      BY <2>1
    <3> HIDE DEF next, next2
    <3>1. Screened(lv[u], painted[d][u], d, next2)
      BY <3>0, <2>2, <2>3, ScreenedStays
    <3>2. QED
      BY <1>5, <2>4, <3>1 DEF next2
  <2>5. CASE u = t /\ d = c
    <3>1. c \notin at[t] \ fu[t]
      BY <1>3
    <3>2. lt.run = live[t].run /\ lt.emulator = live[t].emulator
      BY <1>1 DEF Owing
    <3>3. live[t].run \in Nat /\ painted[c][t].run \in Nat
      BY <1>1, LiveTerminalAssumption, LooksAreTyped DEF Terminal
    <3>4. CASE live[t].views[c] = 0
      <4>1. p.run = 0 /\ ~UpToDate(lt, c)
        BY <1>1, <3>4 DEF p, Anew, Unpainted, Owing, UpToDate
      <4>2. QED
        BY <1>2, <1>5, <2>1, <2>5, <3>2, <3>3, <4>1 DEF Screened
    <3>5. CASE live[t].views[c] # 0
      <4>1. p.run = live[t].run
        BY <3>5 DEF p, Anew
      <4>2. UpToDate(lt, c) => UpToDate(live[t], c)
        BY <1>1 DEF Owing
      <4>3. UpToDate(lt, c) => p.run # 0
        BY <2>1, <2>5, <3>3, <4>1, <4>2 DEF Screened
      <4>4. QED
        BY <1>2, <1>5, <2>1, <2>5, <3>1, <3>2, <3>3, <4>1, <4>3 DEF Screened
    <3>6. QED
      BY <3>4, <3>5
  <2>6. QED
    BY <2>4, <2>5
<1>9. ScreensOf(lv, at, fu, painted')
  BY <1>8 DEF ScreensOf
<1>10. QED
  BY <1>6, <1>7, <1>9, FinishScreens

(* A handler that changes one terminal and, at most, adds to the debts. *)
LEMMA OneOwingScreens ==
  ASSUME Inv, Screens, NEW t \in Terminals, NEW lt, Sound(lt), Owing(live[t], lt),
         NEW cn, NEW at, NEW fu,
         \A u \in Terminals : at[u] \ fu[u] \subseteq attachments[u] \ full[u],
         NEW q, Finish([live EXCEPT ![t] = lt], cn, at, fu, q, {}), UNCHANGED painted
  PROVE  Screens'
<1> DEFINE lv == [live EXCEPT ![t] = lt]
<1>1. \A u \in Terminals : lv[u] = IF u = t THEN lt ELSE live[u]
  BY LiveTyped
<1>2. lv \in [Terminals -> Terminal] /\ \A u \in Terminals : Sound(lv[u])
  BY <1>1, LiveTyped DEF Sound
<1> HIDE DEF lv
<1>3. \A u \in Terminals : Owing(live[u], lv[u])
  BY <1>1, LiveTyped, MethodsKeepTheGrid, SameGridOwing
<1>4. ScreensOf(lv, at, fu, painted)
  BY <1>3, ScreensStay DEF Screens
<1>5. Finish(lv, cn, at, fu, q, {}) /\ ScreensOf(lv, at, fu, painted')
  BY <1>4 DEF lv
<1>6. QED
  BY <1>2, <1>5, FinishScreens

LEMMA LiveScreens ==
  ASSUME Inv, Screens, NEW cn, NEW at, NEW fu,
         \A u \in Terminals : at[u] \ fu[u] \subseteq attachments[u] \ full[u],
         NEW q, Finish(live, cn, at, fu, q, {}), UNCHANGED painted
  PROVE  Screens'
<1>1. \A u \in Terminals : Owing(live[u], live[u])
  BY LiveTyped, MethodsKeepTheGrid, SameGridOwing
<1>2. ScreensOf(live, at, fu, painted)
  BY <1>1, ScreensStay DEF Screens
<1>3. QED
  BY <1>2, LiveTyped, FinishScreens

LEMMA LeavingScreens ==
  ASSUME Inv, Screens, NEW c \in Clients, NEW t \in Terminals,
         Detach(c, t, Taken(c)) \/ \E v \in Sizes : Resize(c, t, v, Taken(c))
  PROVE  Screens'
<1>1. CASE Detach(c, t, Taken(c))
  <2> DEFINE at == [attachments EXCEPT ![t] = @ \ {c}]
             fu == [full EXCEPT ![t] = @ \ {c}]
             lt == Detached(live[t], c)
  <2>1. \A u \in Terminals : at[u] \ fu[u] \subseteq attachments[u] \ full[u]
    BY LooksAreTyped
  <2>2. Sound(lt) /\ Owing(live[t], lt)
    BY LiveTyped, DetachedSound, DetachedOwing
  <2>3. UNCHANGED painted
    BY <1>1 DEF Detach
  <2>4. PICK cn, q : Finish(IF t \in registry THEN [live EXCEPT ![t] = lt] ELSE live,
                            cn, at, fu, q, {})
    BY <1>1 DEF Detach
  <2> HIDE DEF at, fu, lt
  <2>5. CASE t \in registry
    BY <2>1, <2>2, <2>3, <2>4, <2>5, OneOwingScreens
  <2>6. CASE t \notin registry
    BY <2>1, <2>3, <2>4, <2>6, LiveScreens
  <2>7. QED
    BY <2>5, <2>6
<1>2. ASSUME NEW v \in Sizes, Resize(c, t, v, Taken(c)) PROVE Screens'
  <2> DEFINE lt == Attached(live[t], c, v)
             lv == IF t \in registry /\ t \in conn[c].rendering
                   THEN [live EXCEPT ![t] = lt] ELSE live
  <2>1. Sound(lt) /\ Owing(live[t], lt)
    BY LiveTyped, AttachedSound, AttachedOwing
  <2>2. UNCHANGED painted
    BY <1>2 DEF Resize
  <2>3. Finish(lv, Taken(c), attachments, full, Quiet, {})
    BY <1>2 DEF Resize
  <2> HIDE DEF lt
  <2>4. CASE t \in registry /\ t \in conn[c].rendering
    BY <2>1, <2>2, <2>3, <2>4, OneOwingScreens
  <2>5. CASE ~(t \in registry /\ t \in conn[c].rendering)
    BY <2>2, <2>3, <2>5, LiveScreens
  <2>6. QED
    BY <2>4, <2>5
<1>3. QED
  BY <1>1, <1>2

(* A new process: whatever anybody was painted is of an earlier one. *)
LEMMA StartsScreened ==
  ASSUME NEW before, Sound(before), NEW lt \in Starts(before), NEW c \in Clients,
         NEW p, p.run \in Nat, NEW next \in BOOLEAN, Screened(before, p, c, next)
  PROVE  Screened(lt, p, c, next)
<1>1. before \in Terminal /\ before.run \in Nat
  BY LiveTerminalAssumption DEF Sound, Terminal
<1>2. CASE lt = before
  BY <1>2
<1>3. CASE lt = SpawnFailed(before)
  <2>1. /\ lt.views = before.views /\ lt.owes = before.owes /\ lt.run = before.run
        /\ lt.emulator = FALSE
    BY <1>1, <1>3 DEF SpawnFailed, Forgotten, Terminal
  <2>2. QED
    BY <2>1 DEF Screened, UpToDate
<1>4. CASE lt = Spawned(before)
  <2>1. lt.views = before.views /\ lt.owes = before.owes /\ lt.run = before.run + 1
    BY <1>1, <1>4 DEF Spawned, Forgotten, Terminal
  <2>2. lt.run # 0 /\ p.run <= lt.run /\ p.run # lt.run
    BY <1>1, <2>1 DEF Screened
  <2>3. QED
    BY <2>1, <2>2 DEF Screened, UpToDate
<1>5. QED
  BY <1>2, <1>3, <1>4 DEF Starts

LEMMA StartedScreens ==
  ASSUME Inv, Screens, NEW c, NEW t \in Terminals, NEW before, Sound(before),
         \A d \in Clients :
           Screened(before, painted[d][t], d, d \in attachments[t] \ full[t]),
         NEW cn, NEW awaited, Started(c, t, before, cn, awaited), UNCHANGED painted
  PROVE  Screens'
<1>1. PICK lt \in Starts(before), q \in {Quiet, To(c, <<Reply>>)} :
        Finish([live EXCEPT ![t] = lt], cn, attachments, full, q, {})
  BY DEF Started
<1> DEFINE lv == [live EXCEPT ![t] = lt]
<1>2. Sound(lt)
  BY StartsSound
<1>3. \A u \in Terminals : lv[u] = IF u = t THEN lt ELSE live[u]
  BY LiveTyped
<1>4. lv \in [Terminals -> Terminal] /\ \A u \in Terminals : Sound(lv[u])
  BY <1>2, <1>3, LiveTyped DEF Sound
<1>5. Finish(lv, cn, attachments, full, q, {})
  BY <1>1
<1> HIDE DEF lv
<1>6. ASSUME NEW u \in Terminals, NEW d \in Clients
      PROVE  Screened(lv[u], painted[d][u], d, d \in attachments[u] \ full[u])
  <2>1. CASE u = t
    <3> DEFINE next == d \in attachments[t] \ full[t]
    <3>1. next \in BOOLEAN /\ Screened(before, painted[d][t], d, next)
      OBVIOUS
    <3>2. painted[d][t].run \in Nat
      BY LooksAreTyped, LiveTerminalAssumption
    <3> HIDE DEF next
    <3>3. Screened(lt, painted[d][t], d, next)
      BY <3>1, <3>2, StartsScreened
    <3>4. QED
      BY <1>3, <2>1, <3>3 DEF next
  <2>2. CASE u # t
    BY <1>3, <2>2 DEF Screens, ScreensOf
  <2>3. QED
    BY <2>1, <2>2
<1>7. ScreensOf(lv, attachments, full, painted')
  BY <1>6 DEF ScreensOf
<1>8. QED
  BY <1>4, <1>5, <1>7, FinishScreens

LEMMA StartScreens ==
  ASSUME Inv, Screens, NEW c \in Clients, NEW t \in Terminals,
         NEW before \in {live[t], [live[t] EXCEPT !.pty = None]},
         Start(c, t, before, Taken(c))
  PROVE  Screens'
<1>1. Sound(live[t]) /\ live[t] \in Terminal
  BY LiveTyped
<1>2. Sound(before) /\ SameGrid(live[t], before)
  BY <1>1, MethodsKeepTheGrid, SameGridNegotiated DEF Sound, Terminal
<1>3. ASSUME NEW d \in Clients
      PROVE  Screened(before, painted[d][t], d, d \in attachments[t] \ full[t])
  <2>1. Screened(live[t], painted[d][t], d, d \in attachments[t] \ full[t])
    BY DEF Screens, ScreensOf
  <2>2. QED
    BY <1>2, <2>1 DEF SameGrid, Screened, UpToDate
<1>4. Started(c, t, before, Taken(c), pending) /\ UNCHANGED painted
  BY DEF Start
<1>5. QED
  BY <1>2, <1>3, <1>4, StartedScreens

LEMMA FreshTerminal ==
  ASSUME Inv, NEW t \in Terminals
  PROVE  LET fresh == [NewTerminal EXCEPT !.run = live[t].run] IN
         /\ Sound(fresh) /\ fresh.run = live[t].run /\ fresh.emulator = FALSE
         /\ fresh.views = [c \in Clients |-> 0] /\ fresh.pty = None
<1> DEFINE fresh == [NewTerminal EXCEPT !.run = live[t].run]
<1>1. live[t].run \in 0..MaxRuns
  BY LiveTyped DEF Terminal
<1>2. Sound(NewTerminal)
  BY NewTerminalSound
<1>3. /\ fresh \in Terminal /\ fresh.views = [c \in Clients |-> 0] /\ fresh.size = NewTerminal.size
      /\ fresh.emulator = FALSE /\ fresh.run = live[t].run /\ fresh.pty = None
  BY <1>1, <1>2 DEF Sound, Terminal, NewTerminal
<1>4. NewTerminal.emulator = FALSE /\ NewTerminal.views = [c \in Clients |-> 0]
  BY DEF NewTerminal
<1> HIDE DEF fresh
<1>5. Sound(fresh)
  BY <1>2, <1>3, <1>4, SameGridNegotiated DEF Sound
<1>6. QED
  BY <1>3, <1>5 DEF fresh

LEMMA LaunchScreens ==
  ASSUME Inv, Screens, NEW p \in pending, Launch(p)
  PROVE  Screens'
<1> DEFINE t == p.terminal
           fresh == [NewTerminal EXCEPT !.run = live[t].run]
<1>1. t \in Terminals
  BY DEF Inv, Rest, Awaited
<1>2. UNCHANGED painted
  BY DEF Launch
<1>3. CASE t \in registry
  <2>1. PICK q : Finish(live, conn, attachments, full, q, {})
    BY <1>3 DEF Launch
  <2>2. QED
    BY <1>2, <2>1, LiveScreens
<1>4. CASE t \notin registry
  <2>1. Started(p.client, t, fresh, conn, pending \ {p})
    BY <1>4 DEF Launch
  <2>2. /\ Sound(fresh) /\ fresh.run = live[t].run /\ fresh.emulator = FALSE
        /\ fresh.views = [c \in Clients |-> 0]
    BY <1>1, FreshTerminal
  <2> HIDE DEF fresh, t
  <2>3. ASSUME NEW d \in Clients
        PROVE  Screened(fresh, painted[d][t], d, d \in attachments[t] \ full[t])
    <3>1. painted[d][t].run <= live[t].run
      BY <1>1 DEF Screens, ScreensOf, Screened
    <3>2. QED
      BY <2>2, <3>1 DEF Screened, UpToDate
  <2>4. QED
    BY <1>1, <1>2, <2>1, <2>2, <2>3, StartedScreens
<1>5. QED
  BY <1>3, <1>4

LEMMA RemoveScreens ==
  ASSUME Inv, Screens, NEW c \in Clients, NEW t \in Terminals, Remove(c, t, Taken(c))
  PROVE  Screens'
<1>1. UNCHANGED <<attachments, full, painted>>
  BY DEF Remove
<1>2. live' \in {live, [live EXCEPT ![t] = Stopped(live[t])]}
  BY DEF Remove
<1>3. \A u \in Terminals : Owing(live[u], live'[u])
  BY <1>2, LiveTyped, MethodsKeepTheGrid, SameGridOwing, ZenonT(40)
<1>4. ScreensOf(live', attachments', full', painted)
  BY <1>1, <1>3, ScreensStay DEF Screens
<1>5. QED
  BY <1>1, <1>4 DEF Screens

LEMMA FullyRepaintedIs ==
  ASSUME NEW lt \in Terminal, NEW c \in Clients
  PROVE  /\ FullyRepainted(lt, c).run = lt.run
         /\ FullyRepainted(lt, c).emulator = lt.emulator
         /\ FullyRepainted(lt, c).size = lt.size
         /\ FullyRepainted(lt, c).views = lt.views
         /\ FullyRepainted(lt, c).pty = lt.pty
         /\ FullyRepainted(lt, c).end = lt.end
         /\ FullyRepainted(lt, c).owes = IF lt.emulator THEN lt.owes \ {c} ELSE lt.owes
BY DEF FullyRepainted, Terminal

(* A whole screen is the grid's, whether the frame loop or the terminal    *)
(* owed it; without an emulator nothing is painted, and no delta follows.  *)
LEMMA PaintedScreens ==
  ASSUME Inv, Screens, NEW t \in Terminals, NEW c \in Clients,
         PaintFull(t, c) \/ PaintOwed(t, c)
  PROVE  Screens'
<1> DEFINE lt == FullyRepainted(live[t], c)
           lv == [live EXCEPT ![t] = lt]
           s == Screen(t)
<1>1. PICK cn, fu, q :
        /\ Finish(lv, cn, attachments, fu, q, {})
        /\ fu = full \/ fu = [full EXCEPT ![t] = @ \ {c}]
  BY DEF PaintFull, PaintOwed, Relay
<1>2. painted' = IF live[t].emulator THEN [painted EXCEPT ![c][t] = s] ELSE painted
  BY DEF PaintFull, PaintOwed
<1>3. Sound(lt) /\ live[t] \in Terminal
  BY LiveTyped, FullyRepaintedSound
<1>4. \A u \in Terminals : lv[u] = IF u = t THEN lt ELSE live[u]
  BY LiveTyped
<1>5. lv \in [Terminals -> Terminal] /\ \A u \in Terminals : Sound(lv[u])
  BY <1>3, <1>4, LiveTyped DEF Sound
<1>6. /\ lt.run = live[t].run /\ lt.emulator = live[t].emulator /\ lt.size = live[t].size
      /\ lt.views = live[t].views
      /\ lt.owes = IF live[t].emulator THEN live[t].owes \ {c} ELSE live[t].owes
  BY <1>3, FullyRepaintedIs
<1>7. \A u \in Terminals, d \in Clients :
        (u # t \/ d # c) =>
          /\ painted'[d][u] = painted[d][u]
          /\ (d \in fu[u]) = (d \in full[u])
  BY <1>1, <1>2, LooksAreTyped
<1>8. live[t].emulator => painted'[c][t] = s
  BY <1>2, LooksAreTyped
<1>9. s.run = live[t].run /\ s.size = live[t].size
  BY DEF Screen
<1> HIDE DEF lt, lv, s
<1>10. ASSUME NEW u \in Terminals, NEW d \in Clients
       PROVE  Screened(lv[u], painted'[d][u], d, d \in attachments[u] \ fu[u])
  <2>1. Screened(live[u], painted[d][u], d, d \in attachments[u] \ full[u])
    BY DEF Screens, ScreensOf
  <2>2. CASE u # t
    BY <1>4, <1>7, <2>1, <2>2 DEF Screened
  <2>3. CASE u = t /\ d # c
    <3>1. UpToDate(lt, d) => UpToDate(live[t], d)
      BY <1>6, <2>3 DEF UpToDate
    <3>2. QED
      BY <1>4, <1>6, <1>7, <2>1, <2>3, <3>1 DEF Screened
  <2>4. CASE u = t /\ d = c /\ live[t].emulator
    <3>1. live[t].run \in Nat /\ live[t].run # 0
      BY <1>3, <2>1, <2>4, LiveTerminalAssumption DEF Screened, Terminal
    <3>2. QED
      BY <1>4, <1>6, <1>8, <1>9, <2>4, <3>1 DEF Screened
  <2>5. CASE u = t /\ d = c /\ ~live[t].emulator
    <3>1. painted' = painted
      BY <1>2, <2>5
    <3>2. UpToDate(lt, c) => UpToDate(live[t], c)
      BY <1>6, <2>5 DEF UpToDate
    <3>3. QED
      BY <1>4, <1>6, <2>1, <2>5, <3>1, <3>2 DEF Screened
  <2>6. QED
    BY <2>2, <2>3, <2>4, <2>5
<1>11. ScreensOf(lv, attachments, fu, painted')
  BY <1>10 DEF ScreensOf
<1>12. QED
  BY <1>1, <1>5, <1>11, FinishScreens

LEMMA UnpaintedScreens ==
  ASSUME Inv, Screens,
         PaintStart \/ \E t \in Terminals, c \in Clients : PaintThrows(t, c)
  PROVE  Screens'
<1>1. UNCHANGED <<live, painted>>
  BY DEF PaintStart, PaintThrows
<1>2. \A u \in Terminals : attachments'[u] \ full'[u] \subseteq attachments[u] \ full[u]
  BY LooksAreTyped DEF PaintStart, PaintThrows
<1>3. \A u \in Terminals : Owing(live[u], live[u])
  BY LiveTyped, MethodsKeepTheGrid, SameGridOwing
<1>4. ScreensOf(live, attachments', full', painted)
  BY <1>2, <1>3, ScreensStay DEF Screens
<1>5. QED
  BY <1>1, <1>4 DEF Screens

(* The steps that are not plain. *)
LEMMA StepCases ==
  ASSUME Inv, Step
  PROVE  \/ Plain
         \/ \E c \in Clients, t \in Terminals :
              \/ \E v \in Sizes : AttachViewport(c, t, v, Taken(c)) \/ Resize(c, t, v, Taken(c))
              \/ Detach(c, t, Taken(c))
              \/ \E before \in {live[t], [live[t] EXCEPT !.pty = None]} :
                   Start(c, t, before, Taken(c))
              \/ "remove" \in Operations /\ Remove(c, t, Taken(c))
              \/ PaintThrows(t, c)
              \/ PaintFull(t, c)
              \/ PaintOwed(t, c)
         \/ \E p \in pending : Launch(p)
         \/ PaintStart
<1> DEFINE goal ==
         \/ Plain
         \/ \E c \in Clients, t \in Terminals :
              \/ \E v \in Sizes : AttachViewport(c, t, v, Taken(c)) \/ Resize(c, t, v, Taken(c))
              \/ Detach(c, t, Taken(c))
              \/ \E before \in {live[t], [live[t] EXCEPT !.pty = None]} :
                   Start(c, t, before, Taken(c))
              \/ "remove" \in Operations /\ Remove(c, t, Taken(c))
              \/ PaintThrows(t, c)
              \/ PaintFull(t, c)
              \/ PaintOwed(t, c)
         \/ \E p \in pending : Launch(p)
         \/ PaintStart
<1>1. ASSUME NEW c \in Clients, Dispatch(c) PROVE goal
  <2>1. CASE Subscribe(c, Taken(c)) \/ Answered(c, Taken(c))
    <3>1. ASSUME Subscribe(c, Taken(c)) PROVE Plain
      BY <3>1, SubscribeSameLooks, FinishLiveIsPlain DEF Subscribe
    <3>2. ASSUME Answered(c, Taken(c)) PROVE Plain
      BY <3>2, TakenSameLooks, FinishLiveIsPlain DEF Answered
    <3>3. QED
      BY <2>1, <3>1, <3>2
  <2>2. CASE ~(Subscribe(c, Taken(c)) \/ Answered(c, Taken(c)))
    BY <1>1, <2>2, DispatchCases, RequestsArePlain
  <2>3. QED
    BY <2>1, <2>2
<1>2. ASSUME NEW c \in Clients, ClientSteps(c) PROVE goal
  <2> HIDE DEF goal
  <2>1. Plain => goal
    BY DEF goal
  <2>2. QED
    BY <1>1, <1>2, <2>1, CloseIsPlain, ReadInputIsPlain, ConnectionStepsArePlain DEF ClientSteps
<1>3. ASSUME NEW t \in Terminals, NEW c \in Clients, PaintSteps(t, c) PROVE goal
  BY <1>3, LoopStepsArePlain DEF PaintSteps
<1>4. ASSUME NEW p \in pending, Launch(p) \/ Publish(p) PROVE goal
  BY <1>4, PublishIsPlain
<1>5. ASSUME TickStart \/ TickEnd PROVE goal
  <2>1. UNCHANGED <<live, registry, painted, attachments, full, conn>>
    BY <1>5 DEF TickStart, TickEnd
  <2>2. Plain
    BY <2>1, ConnSameLooks, NothingLooksDifferent
  <2>3. QED
    BY <2>2
<1>6. ASSUME NEW t \in Terminals, FeedSteps(t) PROVE goal
  BY <1>6, FeedStepsArePlain
<1>7. ASSUME PaintStart PROVE goal
  BY <1>7
<1> HIDE DEF goal
<1>8. goal
  <2>1. CASE \E c \in Clients : ClientSteps(c)
    BY <1>2, <2>1
  <2>2. CASE \E p \in pending : Launch(p) \/ Publish(p)
    BY <1>4, <2>2
  <2>3. CASE \E t \in Terminals : FeedSteps(t)
    BY <1>6, <2>3
  <2>4. CASE \E t \in Terminals, c \in Clients : PaintSteps(t, c)
    BY <1>3, <2>4
  <2>5. QED
    BY <1>5, <1>7, <2>1, <2>2, <2>3, <2>4 DEF Step
<1>9. QED
  BY <1>8 DEF goal

LEMMA ScreensKeep == Inv /\ Screens /\ [Next]_vars => Screens'
<1> SUFFICES ASSUME Inv, Screens, [Next]_vars PROVE Screens'
  OBVIOUS
<1>1. CASE UNCHANGED vars
  BY <1>1 DEF vars, Screens
<1>2. CASE Step
  <2>1. ASSUME NEW c \in Clients, NEW t \in Terminals,
               \/ \E v \in Sizes : AttachViewport(c, t, v, Taken(c)) \/ Resize(c, t, v, Taken(c))
               \/ Detach(c, t, Taken(c))
               \/ \E before \in {live[t], [live[t] EXCEPT !.pty = None]} :
                    Start(c, t, before, Taken(c))
               \/ Remove(c, t, Taken(c))
        PROVE  Screens'
    BY <2>1, AttachViewportScreens, LeavingScreens, StartScreens, RemoveScreens
  <2>2. ASSUME NEW c \in Clients, NEW t \in Terminals,
               PaintThrows(t, c) \/ PaintFull(t, c) \/ PaintOwed(t, c)
        PROVE  Screens'
    BY <2>2, PaintedScreens, UnpaintedScreens
  <2>3. ASSUME NEW p \in pending, Launch(p) PROVE Screens'
    BY <2>3, LaunchScreens
  <2>4. ASSUME PaintStart PROVE Screens'
    BY <2>4, UnpaintedScreens
  <2>5. ASSUME Plain PROVE Screens'
    BY <2>5, PlainScreens
  <2>6. QED
    BY <1>2, <2>1, <2>2, <2>3, <2>4, <2>5, StepCases
<1>3. QED
  BY <1>1, <1>2 DEF Next

LEMMA InitScreens ==
  ASSUME Init
  PROVE  Screens
<1>1. ASSUME NEW t \in Terminals, NEW c \in Clients
      PROVE  Screened(live[t], painted[c][t], c, c \in attachments[t] \ full[t])
  <2>1. /\ live[t].run = 0 /\ live[t].emulator = FALSE /\ live[t].views[c] = 0
        /\ painted[c][t].run = 0
    BY DEF Init, NewTerminal, Unpainted
  <2>2. QED
    BY <2>1 DEF Screened, UpToDate
<1>2. QED
  BY <1>1 DEF Screens, ScreensOf

LEMMA SpecScreens == Spec => []Screens
<1>1. Init => Screens
  BY InitScreens
<1>2. QED
  BY <1>1, SpecInv, ScreensKeep, PTL DEF Spec

(* No client is ever sent a delta before a whole screen, nor, of the        *)
(* process it was last painted or attached to, over a screen of another     *)
(* grid: whatever runs of attaching, resizing, lagging, failing drains,     *)
(* failing spawns and restarts came before.                                 *)
THEOREM DeltasFollowScreens == Spec => []WholeScreenFirst
<1>1. Screens => WholeScreenFirst
  BY DEF Screens, ScreensOf, Screened, UpToDate, WholeScreenFirst, AboutToGetDelta
<1>2. QED
  BY <1>1, SpecScreens, PTL

-----------------------------------------------------------------------------
(***************************************************************************)
(* The three records of who looks.  A terminal its session still lists was *)
(* never removed; one that is not registered yet was never looked at.      *)
(***************************************************************************)
Agrees(registered, lt, k, at, c, t) ==
  k.phase = "open" =>
    IF registered
    THEN /\ t \in k.rendering <=> lt.views[c] # 0
         /\ t \in k.rendering <=> c \in at
    ELSE t \notin k.rendering /\ c \notin at

RecordsOf(reg, lst, lv, cn, at) ==
  \A c \in Clients, t \in lst : Agrees(t \in reg, lv[t], cn[c], at[t], c, t)

Records == RecordsOf(registry, listed, live, conn, attachments)

LEMMA PlainRecords ==
  ASSUME Inv, Records, Plain, listed' \subseteq listed
  PROVE  Records'
<1>1. PICK shut \in SUBSET Clients :
        /\ \A t \in Terminals :
             /\ \A c \in Clients \ shut : live'[t].views[c] = live[t].views[c]
             /\ attachments'[t] = attachments[t] \ shut
        /\ \A c \in shut : conn'[c].phase = "closed"
        /\ \A c \in Clients \ shut : /\ conn'[c].phase = conn[c].phase
                                     /\ conn'[c].rendering = conn[c].rendering
  BY DEF Plain
<1>2. registry' = registry /\ listed \subseteq Terminals
  BY DEF Plain, Inv, Rest
<1>3. ASSUME NEW c \in Clients, NEW t \in listed'
      PROVE  Agrees(t \in registry, live'[t], conn'[c], attachments'[t], c, t)
  <2>1. t \in listed /\ t \in Terminals
    BY <1>2
  <2>2. Agrees(t \in registry, live[t], conn[c], attachments[t], c, t)
    BY <2>1 DEF Records, RecordsOf
  <2>3. QED
    BY <1>1, <2>1, <2>2 DEF Agrees
<1>4. QED
  BY <1>2, <1>3 DEF Records, RecordsOf

(* Closing is the only thing Finish does to the records. *)
LEMMA FinishRecords ==
  ASSUME listed' \subseteq Terminals,
         NEW lv \in [Terminals -> Terminal], \A t \in Terminals : Sound(lv[t]),
         NEW cn \in [Clients -> Connection], NEW at, NEW fu, NEW q,
         NEW gone \in SUBSET Clients,
         RecordsOf(registry', listed', lv, cn, at), Finish(lv, cn, at, fu, q, gone)
  PROVE  Records'
<1>1. PICK shut : Ends(lv, cn, at, fu, q, shut)
  BY FinishEnds
<1>2. ASSUME NEW c \in Clients, NEW t \in listed'
      PROVE  Agrees(t \in registry', live'[t], conn'[c], attachments'[t], c, t)
  <2>1. Agrees(t \in registry', lv[t], cn[c], at[t], c, t)
    BY DEF RecordsOf
  <2>2. CASE c \in shut
    BY <1>1, <2>2, ClosedSame DEF Ends, Agrees
  <2>3. CASE c \notin shut
    <3>1. /\ conn'[c].phase = cn[c].phase /\ conn'[c].rendering = cn[c].rendering
          /\ live'[t].views[c] = lv[t].views[c] /\ attachments'[t] = at[t] \ shut
      BY <1>1, <2>3, SentSame DEF Ends
    <3>2. QED
      BY <2>1, <2>3, <3>1 DEF Agrees
  <2>4. QED
    BY <2>2, <2>3
<1>3. QED
  BY <1>2 DEF Records, RecordsOf

(* The records of c and t change together, and no other. *)
LEMMA OneRecordChanges ==
  ASSUME Inv, Records, NEW c \in Clients, NEW t \in Terminals,
         NEW lt, Sound(lt), \A d \in Clients \ {c} : lt.views[d] = live[t].views[d],
         NEW cn \in [Clients -> Connection],
         \A d \in Clients : cn[d].phase = conn[d].phase,
         \A d \in Clients, u \in Terminals :
           (d # c \/ u # t) => (u \in cn[d].rendering <=> u \in conn[d].rendering),
         NEW at,
         \A d \in Clients, u \in Terminals :
           (d # c \/ u # t) => (d \in at[u] <=> d \in attachments[u]),
         Agrees(t \in registry, lt, cn[c], at[t], c, t),
         NEW fu, NEW q, Finish([live EXCEPT ![t] = lt], cn, at, fu, q, {}),
         UNCHANGED <<registry, listed>>
  PROVE  Records'
<1> DEFINE lv == [live EXCEPT ![t] = lt]
<1>1. \A u \in Terminals : lv[u] = IF u = t THEN lt ELSE live[u]
  BY LiveTyped
<1>2. lv \in [Terminals -> Terminal] /\ \A u \in Terminals : Sound(lv[u])
  BY <1>1, LiveTyped DEF Sound
<1>3. Finish(lv, cn, at, fu, q, {})
  OBVIOUS
<1> HIDE DEF lv
<1>4. listed \subseteq Terminals
  BY DEF Inv, Rest
<1>5. ASSUME NEW d \in Clients, NEW u \in listed
      PROVE  Agrees(u \in registry, lv[u], cn[d], at[u], d, u)
  <2>1. Agrees(u \in registry, live[u], conn[d], attachments[u], d, u)
    BY DEF Records, RecordsOf
  <2>2. u \in Terminals
    BY <1>4
  <2>3. CASE d = c /\ u = t
    BY <1>1, <2>3
  <2>4. CASE d # c \/ u # t
    <3>1. lv[u].views[d] = live[u].views[d]
      BY <1>1, <2>2, <2>4
    <3>2. QED
      BY <2>1, <2>2, <2>4, <3>1 DEF Agrees
  <2>5. QED
    BY <2>3, <2>4
<1>6. RecordsOf(registry, listed, lv, cn, at)
  BY <1>5 DEF RecordsOf
<1>7. QED
  BY <1>2, <1>3, <1>4, <1>6, FinishRecords

LEMMA ReattachedLooks ==
  ASSUME Inv, NEW c \in Clients, NEW as \in SUBSET Terminals, NEW rs \in SUBSET Terminals
  PROVE  /\ Reattached(Taken(c), c, as, rs) \in [Clients -> Connection]
         /\ Reattached(Taken(c), c, as, rs)[c].rendering = rs
         /\ \A d \in Clients : Reattached(Taken(c), c, as, rs)[d].phase = conn[d].phase
         /\ \A d \in Clients \ {c} :
              Reattached(Taken(c), c, as, rs)[d].rendering = conn[d].rendering
<1> DEFINE cn == Taken(c)
           k == [cn[c] EXCEPT !.attached = as, !.rendering = rs]
<1>1. cn \in [Clients -> Connection]
  BY TakenKeeps DEF Settled
<1>2. SameLooks(cn)
  BY TakenSameLooks
<1> HIDE DEF cn
<1>3. k \in Connection /\ k.phase = cn[c].phase /\ k.rendering = rs
  BY <1>1 DEF Connection
<1>4. Reattached(cn, c, as, rs) = [cn EXCEPT ![c] = k]
  BY <1>1 DEF Reattached
<1> HIDE DEF k
<1>5. QED
  BY <1>1, <1>2, <1>3, <1>4 DEF SameLooks, cn

LEMMA AttachViewportRecords ==
  ASSUME Inv, Records, NEW c \in Clients, NEW t \in Terminals, NEW v \in Sizes,
         AttachViewport(c, t, v, Taken(c))
  PROVE  Records'
<1> DEFINE as == Taken(c)[c].attached \cup {t}
           rs == Taken(c)[c].rendering \cup {t}
           cn == Reattached(Taken(c), c, as, rs)
           at == [attachments EXCEPT ![t] = @ \cup {c}]
           fu == [full EXCEPT ![t] = @ \cup {c}]
           lt == Attached(live[t], c, v)
<1>1. Finish([live EXCEPT ![t] = lt], cn, at, fu, To(c, <<Reply>>), {})
  BY DEF AttachViewport, Reattached
<1>2. t \in registry /\ UNCHANGED <<registry, listed>>
  BY DEF AttachViewport
<1>3. as \in SUBSET Terminals /\ rs \in SUBSET Terminals /\ rs = conn[c].rendering \cup {t}
  <2>1. Taken(c)[c] \in Connection
    BY TakenKeeps DEF Settled
  <2>2. QED
    BY <2>1, TakenKeepsAttachments DEF Connection
<1>4. /\ at[t] = attachments[t] \cup {c}
      /\ \A u \in Terminals : u # t => at[u] = attachments[u]
  BY LooksAreTyped
<1>5. Sound(lt) /\ lt.views = [live[t].views EXCEPT ![c] = v]
  BY LiveTyped, AttachedSound
<1>6. lt.views[c] # 0 /\ \A d \in Clients \ {c} : lt.views[d] = live[t].views[d]
  BY <1>5, LiveTyped DEF Terminal, Sizes
<1> HIDE DEF as, rs, at, fu, lt
<1>7. /\ cn \in [Clients -> Connection] /\ cn[c].rendering = rs
      /\ \A d \in Clients : cn[d].phase = conn[d].phase
      /\ \A d \in Clients \ {c} : cn[d].rendering = conn[d].rendering
  <2>1. as \in SUBSET Terminals /\ rs \in SUBSET Terminals
    BY <1>3
  <2>2. QED
    BY <2>1, ReattachedLooks, ZenonT(60)
<1> HIDE DEF cn
<1>8. Agrees(t \in registry, lt, cn[c], at[t], c, t)
  BY <1>2, <1>3, <1>4, <1>6, <1>7 DEF Agrees
<1>9. \A d \in Clients, u \in Terminals :
        (d # c \/ u # t) => /\ u \in cn[d].rendering <=> u \in conn[d].rendering
                            /\ d \in at[u] <=> d \in attachments[u]
  BY <1>3, <1>4, <1>7
<1>10. QED
  BY <1>1, <1>2, <1>5, <1>6, <1>7, <1>8, <1>9, OneRecordChanges

LEMMA DetachRecords ==
  ASSUME Inv, Records, NEW c \in Clients, NEW t \in Terminals, Detach(c, t, Taken(c))
  PROVE  Records'
<1> DEFINE as == Taken(c)[c].attached \ {t}
           rs == Taken(c)[c].rendering \ {t}
           cn == Reattached(Taken(c), c, as, rs)
           at == [attachments EXCEPT ![t] = @ \ {c}]
           fu == [full EXCEPT ![t] = @ \ {c}]
           lt == IF t \in registry THEN Detached(live[t], c) ELSE live[t]
<1>1. Finish([live EXCEPT ![t] = lt], cn, at, fu, To(c, <<Reply>>), {})
  <2>1. [live EXCEPT ![t] = lt]
          = IF t \in registry THEN [live EXCEPT ![t] = Detached(@, c)] ELSE live
    BY LiveTyped
  <2>2. QED
    BY <2>1 DEF Detach, Reattached
<1>2. UNCHANGED <<registry, listed>>
  BY DEF Detach
<1>3. as \in SUBSET Terminals /\ rs \in SUBSET Terminals /\ rs = conn[c].rendering \ {t}
  <2>1. Taken(c)[c] \in Connection
    BY TakenKeeps DEF Settled
  <2>2. QED
    BY <2>1, TakenKeepsAttachments DEF Connection
<1>4. /\ at[t] = attachments[t] \ {c}
      /\ \A u \in Terminals : u # t => at[u] = attachments[u]
  BY LooksAreTyped
<1>5. Sound(lt) /\ lt.views = IF t \in registry THEN [live[t].views EXCEPT ![c] = 0]
                              ELSE live[t].views
  BY LiveTyped, DetachedSound
<1>6. /\ t \in registry => lt.views[c] = 0
      /\ \A d \in Clients \ {c} : lt.views[d] = live[t].views[d]
  BY <1>5, LiveTyped DEF Terminal
<1> HIDE DEF as, rs, at, fu, lt
<1>7. /\ cn \in [Clients -> Connection] /\ cn[c].rendering = rs
      /\ \A d \in Clients : cn[d].phase = conn[d].phase
      /\ \A d \in Clients \ {c} : cn[d].rendering = conn[d].rendering
  <2>1. as \in SUBSET Terminals /\ rs \in SUBSET Terminals
    BY <1>3
  <2>2. \A as2, rs2 \in SUBSET Terminals :
          LET k == Reattached(Taken(c), c, as2, rs2) IN
          /\ k \in [Clients -> Connection] /\ k[c].rendering = rs2
          /\ \A d \in Clients : k[d].phase = conn[d].phase
          /\ \A d \in Clients \ {c} : k[d].rendering = conn[d].rendering
    BY ReattachedLooks
  <2>3. QED
    BY <2>1, <2>2, Zenon
<1> HIDE DEF cn
<1>8. Agrees(t \in registry, lt, cn[c], at[t], c, t)
  BY <1>3, <1>4, <1>6, <1>7 DEF Agrees
<1>9. \A d \in Clients, u \in Terminals :
        (d # c \/ u # t) => /\ u \in cn[d].rendering <=> u \in conn[d].rendering
                            /\ d \in at[u] <=> d \in attachments[u]
  BY <1>3, <1>4, <1>7
<1>10. QED
  BY <1>1, <1>2, <1>5, <1>6, <1>7, <1>8, <1>9, OneRecordChanges

(* A resize of a client that renders the terminal is one of a client that  *)
(* has a viewport, and keeps one.                                          *)
LEMMA ResizeRecords ==
  ASSUME Inv, Records, NEW c \in Clients, NEW t \in Terminals, NEW v \in Sizes,
         Resize(c, t, v, Taken(c))
  PROVE  Records'
<1> DEFINE resized == t \in registry /\ t \in conn[c].rendering
           lt == IF resized THEN Attached(live[t], c, v) ELSE live[t]
<1>1. Finish([live EXCEPT ![t] = lt], Taken(c), attachments, full, Quiet, {})
  <2>1. [live EXCEPT ![t] = lt] = IF resized THEN [live EXCEPT ![t] = Attached(@, c, v)] ELSE live
    BY LiveTyped
  <2>2. QED
    BY <2>1 DEF Resize
<1>2. UNCHANGED <<registry, listed>>
  BY DEF Resize
<1>3. /\ Taken(c) \in [Clients -> Connection]
      /\ \A d \in Clients : /\ Taken(c)[d].phase = conn[d].phase
                            /\ Taken(c)[d].rendering = conn[d].rendering
  BY TakenKeeps, TakenKeepsAttachments DEF Settled
<1>4. Sound(lt) /\ lt.views = IF resized THEN [live[t].views EXCEPT ![c] = v] ELSE live[t].views
  BY LiveTyped, AttachedSound
<1>5. /\ lt.views[c] = IF resized THEN v ELSE live[t].views[c]
      /\ \A d \in Clients \ {c} : lt.views[d] = live[t].views[d]
  BY <1>4, LiveTyped DEF Terminal
<1>6. v # 0
  BY DEF Sizes
<1> HIDE DEF lt
<1>7. CASE t \in listed
  <2>1. Agrees(t \in registry, live[t], conn[c], attachments[t], c, t)
    BY <1>7 DEF Records, RecordsOf
  <2>2. Agrees(t \in registry, lt, Taken(c)[c], attachments[t], c, t)
    BY <1>3, <1>5, <1>6, <2>1 DEF Agrees
  <2>3. QED
    BY <1>1, <1>2, <1>3, <1>4, <1>5, <2>2, OneRecordChanges
<1>8. CASE t \notin listed
  <2> DEFINE lv == [live EXCEPT ![t] = lt]
  <2>1. \A u \in Terminals : lv[u] = IF u = t THEN lt ELSE live[u]
    BY LiveTyped
  <2>2. lv \in [Terminals -> Terminal] /\ \A u \in Terminals : Sound(lv[u])
    BY <1>4, <2>1, LiveTyped DEF Sound
  <2>3. Finish(lv, Taken(c), attachments, full, Quiet, {})
    BY <1>1
  <2> HIDE DEF lv
  <2>4. listed \subseteq Terminals
    BY DEF Inv, Rest
  <2>5. RecordsOf(registry, listed, lv, Taken(c), attachments)
    BY <1>3, <1>8, <2>1, <2>4 DEF Records, RecordsOf, Agrees
  <2>6. RecordsOf(registry', listed', lv, Taken(c), attachments) /\ listed' \subseteq Terminals
    BY <1>2, <2>4, <2>5
  <2>7. QED
    BY <1>3, <2>2, <2>3, <2>6, FinishRecords
<1>9. QED
  BY <1>7, <1>8

LEMMA StartedRecords ==
  ASSUME Inv, Records, NEW c, NEW t \in Terminals, NEW before, Sound(before),
         NEW cn \in [Clients -> Connection],
         \A d \in Clients : cn[d].phase = conn[d].phase /\ cn[d].rendering = conn[d].rendering,
         t \in listed =>
           \A d \in Clients : Agrees(t \in registry', before, conn[d], attachments[t], d, t),
         \A u \in Terminals \ {t} : (u \in registry') = (u \in registry),
         NEW awaited, Started(c, t, before, cn, awaited), UNCHANGED listed
  PROVE  Records'
<1>1. PICK lt \in Starts(before), q \in {Quiet, To(c, <<Reply>>)} :
        Finish([live EXCEPT ![t] = lt], cn, attachments, full, q, {})
  BY DEF Started
<1> DEFINE lv == [live EXCEPT ![t] = lt]
<1>2. Sound(lt) /\ lt.views = before.views
  BY StartsSound
<1>3. \A u \in Terminals : lv[u] = IF u = t THEN lt ELSE live[u]
  BY LiveTyped
<1>4. lv \in [Terminals -> Terminal] /\ \A u \in Terminals : Sound(lv[u])
  BY <1>2, <1>3, LiveTyped DEF Sound
<1>5. Finish(lv, cn, attachments, full, q, {})
  BY <1>1
<1> HIDE DEF lv
<1>6. listed \subseteq Terminals
  BY DEF Inv, Rest
<1>7. ASSUME NEW d \in Clients, NEW u \in listed
      PROVE  Agrees(u \in registry', lv[u], cn[d], attachments[u], d, u)
  <2>1. CASE u = t
    BY <1>2, <1>3, <2>1 DEF Agrees
  <2>2. CASE u # t
    <3>1. Agrees(u \in registry, live[u], conn[d], attachments[u], d, u)
      BY DEF Records, RecordsOf
    <3>2. QED
      BY <1>3, <1>6, <2>2, <3>1 DEF Agrees
  <2>3. QED
    BY <2>1, <2>2
<1>8. RecordsOf(registry', listed', lv, cn, attachments)
  BY <1>7 DEF RecordsOf
<1>9. QED
  BY <1>4, <1>5, <1>6, <1>8, FinishRecords

LEMMA StartRecords ==
  ASSUME Inv, Records, NEW c \in Clients, NEW t \in Terminals,
         NEW before \in {live[t], [live[t] EXCEPT !.pty = None]},
         Start(c, t, before, Taken(c))
  PROVE  Records'
<1>1. Sound(before) /\ before.views = live[t].views
  <2>1. Sound(live[t]) /\ live[t] \in Terminal
    BY LiveTyped
  <2>2. QED
    BY <2>1, SameGridNegotiated DEF Sound, Terminal
<1>2. Started(c, t, before, Taken(c), pending) /\ UNCHANGED <<registry, listed>>
  BY DEF Start
<1>3. /\ Taken(c) \in [Clients -> Connection]
      /\ \A d \in Clients : /\ Taken(c)[d].phase = conn[d].phase
                            /\ Taken(c)[d].rendering = conn[d].rendering
  BY TakenKeeps, TakenKeepsAttachments DEF Settled
<1>4. t \in listed =>
        \A d \in Clients : Agrees(t \in registry', before, conn[d], attachments[t], d, t)
  BY <1>1, <1>2 DEF Records, RecordsOf, Agrees
<1>5. QED
  BY <1>1, <1>2, <1>3, <1>4, StartedRecords

LEMMA LaunchRecords ==
  ASSUME Inv, Records, NEW p \in pending, Launch(p)
  PROVE  Records'
<1> DEFINE t == p.terminal
           fresh == [NewTerminal EXCEPT !.run = live[t].run]
<1>1. t \in Terminals
  BY DEF Inv, Rest, Awaited
<1>2. UNCHANGED listed
  BY DEF Launch
<1>3. CASE t \in registry
  <2>1. PICK q : Finish(live, conn, attachments, full, q, {})
    BY <1>3 DEF Launch
  <2>2. UNCHANGED <<registry, painted>>
    BY <1>3 DEF Launch
  <2>3. Plain
    BY <2>1, <2>2, ConnSameLooks, FinishLiveIsPlain
  <2>4. QED
    BY <1>2, <2>3, PlainRecords
<1>4. CASE t \notin registry
  <2>1. Started(p.client, t, fresh, conn, pending \ {p}) /\ registry' = registry \cup {t}
    BY <1>4 DEF Launch
  <2>2. Sound(fresh) /\ fresh.views = [c \in Clients |-> 0]
    BY <1>1, FreshTerminal
  <2> HIDE DEF fresh, t
  <2>3. t \in listed =>
          \A d \in Clients : Agrees(t \in registry', fresh, conn[d], attachments[t], d, t)
    BY <1>4, <2>1, <2>2 DEF Records, RecordsOf, Agrees
  <2>4. QED
    BY <1>1, <1>2, <2>1, <2>2, <2>3, LooksAreTyped, StartedRecords
<1>5. QED
  BY <1>3, <1>4

LEMMA RemoveRecords ==
  ASSUME Inv, Records, NEW c \in Clients, NEW t \in Terminals, Remove(c, t, Taken(c))
  PROVE  Records'
<1>1. /\ listed' = listed \ {t} /\ registry' = registry \ {t} /\ conn' = Taken(c)
      /\ UNCHANGED attachments
  BY DEF Remove
<1>2. \A u \in Terminals \ {t} : live'[u] = live[u]
  BY LiveTyped DEF Remove
<1>3. listed \subseteq Terminals
  BY DEF Inv, Rest
<1>4. ASSUME NEW d \in Clients, NEW u \in listed'
      PROVE  Agrees(u \in registry', live'[u], conn'[d], attachments'[u], d, u)
  <2>1. u \in listed /\ u \in Terminals \ {t}
    BY <1>1, <1>3
  <2>2. Agrees(u \in registry, live[u], conn[d], attachments[u], d, u)
    BY <2>1 DEF Records, RecordsOf
  <2>3. conn'[d].phase = conn[d].phase /\ conn'[d].rendering = conn[d].rendering
    BY <1>1, TakenKeepsAttachments
  <2>4. QED
    BY <1>1, <1>2, <2>1, <2>2, <2>3 DEF Agrees
<1>5. QED
  BY <1>4 DEF Records, RecordsOf

(* A session lists its terminal until the terminal is removed. *)
LEMMA ListedShrinks ==
  ASSUME Inv, Step
  PROVE  listed' \subseteq listed
<1>1. ASSUME NEW c \in Clients, Dispatch(c) PROVE listed' \subseteq listed
  <2>1. CASE Subscribe(c, Taken(c)) \/ Answered(c, Taken(c))
    BY <2>1 DEF Subscribe, Answered
  <2>2. ASSUME NEW t \in Terminals,
               \/ AttachInput(c, t, Taken(c))
               \/ \E v \in Sizes : AttachViewport(c, t, v, Taken(c)) \/ Resize(c, t, v, Taken(c))
               \/ Detach(c, t, Taken(c))
               \/ \E unread \in BOOLEAN : Mark(c, t, unread, Taken(c))
               \/ Stop(c, t, Taken(c))
        PROVE  listed' = listed
    BY <2>2 DEF AttachInput, Answered, AttachViewport, Resize, Detach, Mark, Stop
  <2>3. ASSUME NEW t \in Terminals,
               \/ \E before : Start(c, t, before, Taken(c))
               \/ ResolveLaunch(c, t, Taken(c))
               \/ Rename(c, t, Taken(c))
               \/ Remove(c, t, Taken(c))
        PROVE  listed' \subseteq listed
    BY <2>3 DEF Start, ResolveLaunch, Rename, Remove
  <2>4. QED
    BY <1>1, <2>1, <2>2, <2>3, DispatchCases
<1>2. ASSUME NEW c \in Clients, ClientSteps(c) PROVE listed' \subseteq listed
  BY <1>1, <1>2 DEF ClientSteps, Close, ReadRequest, ReadInput, PumpControl, PumpOutput
<1>3. ASSUME NEW t \in Terminals, FeedSteps(t) PROVE listed' = listed
  BY <1>3 DEF FeedSteps, Bell, PromptFinished, Progress, Activity, Reports, Drained, DrainThrows,
              StreamEnds, ExitUnknown
<1>4. ASSUME NEW t \in Terminals, NEW c \in Clients, PaintSteps(t, c) PROVE listed' = listed
  BY <1>4 DEF PaintSteps, SkipPaint, PaintThrows, PaintFull, PaintOwed, PaintDelta
<1>5. ASSUME NEW p \in pending, Launch(p) \/ Publish(p) PROVE listed' = listed
  BY <1>5 DEF Launch, Publish
<1>6. ASSUME TickStart \/ PaintStart \/ TickEnd PROVE listed' = listed
  BY <1>6 DEF TickStart, PaintStart, TickEnd
<1>7. QED
  BY <1>2, <1>3, <1>4, <1>5, <1>6 DEF Step

LEMMA PaintedRecords ==
  ASSUME Inv, Records, NEW t \in Terminals, NEW c \in Clients,
         PaintFull(t, c) \/ PaintOwed(t, c)
  PROVE  Records'
<1> DEFINE lt == FullyRepainted(live[t], c)
           lv == [live EXCEPT ![t] = lt]
<1>1. PICK cn, fu :
        /\ Finish(lv, cn, attachments, fu, IF c \in full[t]
                                           THEN Both(Broadcast(Reconciled(t, lt)), Quiet)
                                           ELSE Quiet, {})
        /\ cn = conn \/ cn = Delivered(t, c)
  BY DEF PaintFull, PaintOwed, Relay
<1>2. SameLooks(cn)
  BY <1>1, ConnSameLooks, DeliveredSameLooks DEF PaintFull, PaintOwed, Painting
<1>3. cn \in [Clients -> Connection]
  BY <1>1, LooksAreTyped, DeliveredSettled DEF PaintFull, PaintOwed, Painting, Settled
<1>4. Sound(lt) /\ lt.views = live[t].views
  BY LiveTyped, FullyRepaintedSound
<1>5. \A u \in Terminals : lv[u] = IF u = t THEN lt ELSE live[u]
  BY LiveTyped
<1>6. lv \in [Terminals -> Terminal] /\ \A u \in Terminals : Sound(lv[u])
  BY <1>4, <1>5, LiveTyped DEF Sound
<1> DEFINE q == IF c \in full[t] THEN Both(Broadcast(Reconciled(t, lt)), Quiet) ELSE Quiet
<1>7. Finish(lv, cn, attachments, fu, q, {})
  BY <1>1
<1> HIDE DEF q, lt, lv
<1>8. UNCHANGED <<registry, listed>> /\ listed \subseteq Terminals
  BY DEF PaintFull, PaintOwed, Inv, Rest
<1>9. RecordsOf(registry, listed, lv, cn, attachments)
  BY <1>2, <1>4, <1>5, <1>8 DEF Records, RecordsOf, Agrees, SameLooks
<1>10. RecordsOf(registry', listed', lv, cn, attachments) /\ listed' \subseteq Terminals
  BY <1>8, <1>9
<1>11. QED
  BY <1>3, <1>6, <1>7, <1>10, FinishRecords

(* An open client the frame loop paints is one the terminal knows, so that *)
(* painting never throws on a terminal its session lists.                  *)
LEMMA UnpaintedRecords ==
  ASSUME Inv, Records, PaintStart \/ \E t \in Terminals, c \in Clients : PaintThrows(t, c)
  PROVE  Records'
<1>1. UNCHANGED <<live, registry, listed, conn>>
  BY DEF PaintStart, PaintThrows
<1>2. listed \subseteq Terminals
  BY DEF Inv, Rest
<1>3. ASSUME NEW d \in Clients, NEW u \in listed
      PROVE  Agrees(u \in registry, live[u], conn[d], attachments'[u], d, u)
  <2>1. Agrees(u \in registry, live[u], conn[d], attachments[u], d, u)
    BY DEF Records, RecordsOf
  <2>2. CASE PaintStart
    <3>1. attachments'[u] = IF u \in registry THEN attachments[u] ELSE {}
      BY <1>2, <2>2 DEF PaintStart
    <3>2. QED
      BY <2>1, <3>1 DEF Agrees
  <2>3. ASSUME NEW t \in Terminals, NEW c \in Clients, PaintThrows(t, c)
        PROVE  Agrees(u \in registry, live[u], conn[d], attachments'[u], d, u)
    <3>1. /\ c \in attachments[t] /\ conn[c].phase = "open" /\ live[t].views[c] = 0
          /\ attachments' = [attachments EXCEPT ![t] = {}]
      BY <2>3 DEF PaintThrows, HasRoom
    <3>2. CASE u = t
      <4>1. Agrees(t \in registry, live[t], conn[c], attachments[t], c, t)
        BY <3>2 DEF Records, RecordsOf
      <4>2. QED
        BY <3>1, <4>1 DEF Agrees
    <3>3. CASE u # t
      BY <1>2, <2>1, <3>1, <3>3, LooksAreTyped
    <3>4. QED
      BY <3>2, <3>3
  <2>4. QED
    BY <2>2, <2>3
<1>4. QED
  BY <1>1, <1>3 DEF Records, RecordsOf

LEMMA RecordsKeep == Inv /\ Records /\ [Next]_vars => Records'
<1> SUFFICES ASSUME Inv, Records, [Next]_vars PROVE Records'
  OBVIOUS
<1>1. CASE UNCHANGED vars
  BY <1>1 DEF vars, Records
<1>2. CASE Step
  <2>1. ASSUME NEW c \in Clients, NEW t \in Terminals,
               \/ \E v \in Sizes : AttachViewport(c, t, v, Taken(c)) \/ Resize(c, t, v, Taken(c))
               \/ Detach(c, t, Taken(c))
               \/ \E before \in {live[t], [live[t] EXCEPT !.pty = None]} :
                    Start(c, t, before, Taken(c))
               \/ Remove(c, t, Taken(c))
        PROVE  Records'
    BY <2>1, AttachViewportRecords, ResizeRecords, DetachRecords, StartRecords, RemoveRecords
  <2>2. ASSUME NEW c \in Clients, NEW t \in Terminals,
               PaintThrows(t, c) \/ PaintFull(t, c) \/ PaintOwed(t, c)
        PROVE  Records'
    BY <2>2, PaintedRecords, UnpaintedRecords
  <2>3. ASSUME NEW p \in pending, Launch(p) PROVE Records'
    BY <2>3, LaunchRecords
  <2>4. ASSUME PaintStart PROVE Records'
    BY <2>4, UnpaintedRecords
  <2>5. ASSUME Plain PROVE Records'
    BY <1>2, <2>5, ListedShrinks, PlainRecords
  <2>6. QED
    BY <1>2, <2>1, <2>2, <2>3, <2>4, <2>5, StepCases
<1>3. QED
  BY <1>1, <1>2 DEF Next

LEMMA InitRecords ==
  ASSUME Init
  PROVE  Records
BY DEF Init, Records, RecordsOf, Agrees

LEMMA SpecRecords == Spec => []Records
<1>1. Init => Records
  BY InitRecords
<1>2. QED
  BY <1>1, SpecInv, RecordsKeep, PTL DEF Spec

(* Whoever renders a terminal its session lists is negotiated with and     *)
(* painted, and nobody else: a client never looks at a terminal that has   *)
(* forgotten it, and is never forgotten while it looks, whichever clients  *)
(* come, go and are closed, and however often the terminal is started.     *)
THEOREM LookersArePainted == Spec => []RenderingClientsArePainted
<1>1. Records => RenderingClientsArePainted
  BY DEF Records, RecordsOf, Agrees, RenderingClientsArePainted
<1>2. QED
  BY <1>1, SpecRecords, PTL

-----------------------------------------------------------------------------
(***************************************************************************)
(* The frame loop's sleep.  While the timer is off no tick runs; and in a  *)
(* tick that found nothing running, nothing is fed and nothing starts, so  *)
(* that what its end decides from is still true then.                      *)
(***************************************************************************)
Due(t, due) == \E p \in due : p.terminal = t /\ p.step = "publish"

NothingRuns == \A t \in registry : ~IsLive(live[t])

(* The registry is asked when a tick and its painting begin, and nothing is *)
(* removed before the tick ends.                                           *)
TickServes ==
  /\ NotInTick => tick.feed = {} /\ tick.paint = {}
  /\ tick.phase # "feed" => tick.fed = None
  /\ tick.feed \subseteq registry /\ tick.fed \in registry \cup {None}
  /\ \A visit \in tick.paint : visit[1] \in registry

Sleep ==
  /\ SleepsOnlyWhenIdle
  /\ TickServes
  /\ ~NotInTick => timer
  /\ ~NotInTick /\ ~tick.live => tick.feed = {} /\ tick.fed = None /\ NothingRuns

(* A step wakes the loop; or it leaves the loop alone, makes nobody look,  *)
(* and lets live only what was live or is about to be published; or it is  *)
(* part of a tick.                                                         *)
Wakes == NotInTick /\ UNCHANGED tick /\ timer' = TRUE

Rests ==
  /\ NotInTick /\ UNCHANGED <<tick, timer>>
  /\ \A t \in Terminals : attachments'[t] \subseteq attachments[t]
  /\ \A t \in Terminals : Due(t, pending) => Due(t, pending')
  /\ \A t \in registry' :
       IsLive(live'[t]) => (t \in registry /\ IsLive(live[t])) \/ Due(t, pending')

Ticks ==
  /\ ~NotInTick /\ tick'.phase # "idle" /\ tick'.live = tick.live
  /\ UNCHANGED <<timer, registry>>
  /\ tick'.feed \subseteq tick.feed
  /\ tick'.fed \in {None, tick.fed} \cup tick.feed
  /\ tick'.phase # "feed" => tick'.fed = None
  /\ \A visit \in tick'.paint : visit \in tick.paint \/ visit[1] \in registry
  /\ \A t \in registry : IsLive(live'[t]) => IsLive(live[t]) \/ t \in tick.feed

LEMMA WakesSleep == ASSUME Sleep, Wakes PROVE Sleep'
<1>1. TickServes'
  BY DEF Wakes, Sleep, TickServes, NotInTick
<1>2. QED
  BY <1>1 DEF Wakes, Sleep, NotInTick, SleepsOnlyWhenIdle

LEMMA RestsSleep ==
  ASSUME Inv, Sleep, Rests
  PROVE  Sleep'
<1>0. TickServes'
  BY DEF Rests, Sleep, TickServes, NotInTick
<1>1. CASE timer
  BY <1>0, <1>1 DEF Rests, Sleep, NotInTick, SleepsOnlyWhenIdle
<1>2. CASE ~timer
  <2>1. /\ \A t \in Terminals : attachments[t] = {}
        /\ \A t \in registry : IsLive(live[t]) => Due(t, pending)
    BY <1>2 DEF Sleep, SleepsOnlyWhenIdle, Due
  <2>2. registry \subseteq Terminals
    BY DEF Inv, Rest
  <2>3. \A t \in Terminals : attachments'[t] = {}
    BY <2>1 DEF Rests
  <2>4. \A t \in registry' : IsLive(live'[t]) => Due(t, pending')
    BY <2>1, <2>2 DEF Rests
  <2>5. SleepsOnlyWhenIdle'
    BY <2>3, <2>4 DEF SleepsOnlyWhenIdle, Due
  <2>6. NotInTick'
    BY DEF Rests, NotInTick
  <2>7. UNCHANGED tick
    BY DEF Rests
  <2>8. QED
    BY <1>0, <2>5, <2>6, <2>7 DEF Sleep
<1>3. QED
  BY <1>1, <1>2

LEMMA TicksSleep ==
  ASSUME Sleep, Ticks
  PROVE  Sleep'
<1>1. timer' /\ TickServes'
  <2>1. TickServes'
    BY DEF Ticks, Sleep, TickServes, NotInTick
  <2>2. QED
    BY <2>1 DEF Ticks, Sleep
<1>2. ASSUME ~tick'.live
      PROVE  tick'.feed = {} /\ tick'.fed = None /\ NothingRuns'
  <2>1. ~tick.live /\ tick.feed = {} /\ tick.fed = None /\ NothingRuns
    BY <1>2 DEF Ticks, Sleep
  <2>2. QED
    BY <2>1 DEF Ticks, NothingRuns
<1>3. QED
  BY <1>1, <1>2 DEF Sleep, SleepsOnlyWhenIdle

LEMMA TickStartSleep ==
  ASSUME Inv, Sleep, TickStart
  PROVE  Sleep'
<1> DEFINE running == {t \in registry : IsLive(live[t])}
<1>1. /\ tick'.live = (running # {}) /\ tick'.feed = running /\ tick'.fed = None
      /\ tick'.phase = "feed" /\ tick'.paint = {}
      /\ UNCHANGED <<registry, live, timer>> /\ timer
  BY DEF TickStart, Idle
<1>2. ~tick'.live => NothingRuns'
  BY <1>1 DEF NothingRuns
<1>3. TickServes'
  BY <1>1 DEF TickServes, NotInTick
<1>4. QED
  BY <1>1, <1>2, <1>3 DEF Sleep, SleepsOnlyWhenIdle

LEMMA TickEndSleep ==
  ASSUME Inv, Sleep, TickEnd
  PROVE  Sleep'
<1>1. /\ ~NotInTick /\ tick'.phase = "idle" /\ tick'.fed = None /\ tick'.feed = {} /\ tick'.paint = {}
      /\ UNCHANGED <<registry, live, attachments, pending>>
      /\ timer' = (tick.live \/ \E t \in Terminals : attachments[t] # {})
  BY DEF TickEnd, Idle, NotInTick
<1>2. ~timer' => NothingRuns /\ \A t \in Terminals : attachments[t] = {}
  BY <1>1 DEF Sleep
<1>3. SleepsOnlyWhenIdle'
  BY <1>1, <1>2 DEF NothingRuns, SleepsOnlyWhenIdle
<1>4. TickServes'
  BY <1>1 DEF TickServes, NotInTick
<1>5. QED
  BY <1>1, <1>3, <1>4 DEF Sleep, NotInTick

(* What Finish makes of who is live, and of who looks. *)
LEMMA FinishRuns ==
  ASSUME NEW lv \in [Terminals -> Terminal], \A t \in Terminals : Sound(lv[t]),
         NEW cn, NEW at, NEW fu, NEW q, NEW gone \in SUBSET Clients,
         Finish(lv, cn, at, fu, q, gone)
  PROVE  \A t \in Terminals : /\ IsLive(live'[t]) <=> IsLive(lv[t])
                              /\ attachments'[t] \subseteq at[t]
<1>1. PICK shut : Ends(lv, cn, at, fu, q, shut)
  BY FinishEnds
<1>2. ASSUME NEW t \in Terminals
      PROVE  IsLive(live'[t]) <=> IsLive(lv[t])
  <2>1. lv[t] \in Terminal /\ live'[t] \in Terminal /\ SameProcess(lv[t], live'[t])
    BY <1>1 DEF Ends
  <2>2. StateOf(live'[t]) = StateOf(lv[t])
    BY <2>1, StateOfSameProcess
  <2>3. QED
    BY <2>2 DEF IsLive
<1>3. QED
  BY <1>1, <1>2 DEF Ends

LEMMA FinishOneRuns ==
  ASSUME Inv, NEW t \in Terminals, NEW lt, Sound(lt),
         NEW cn, NEW fu, NEW q,
         Finish([live EXCEPT ![t] = lt], cn, attachments, fu, q, {})
  PROVE  /\ IsLive(live'[t]) <=> IsLive(lt)
         /\ \A u \in Terminals : /\ u # t => (IsLive(live'[u]) <=> IsLive(live[u]))
                                 /\ attachments'[u] \subseteq attachments[u]
<1> DEFINE lv == [live EXCEPT ![t] = lt]
<1>1. \A u \in Terminals : lv[u] = IF u = t THEN lt ELSE live[u]
  BY LiveTyped
<1>2. lv \in [Terminals -> Terminal] /\ \A u \in Terminals : Sound(lv[u])
  BY <1>1, LiveTyped DEF Sound
<1>3. Finish(lv, cn, attachments, fu, q, {})
  OBVIOUS
<1> HIDE DEF lv
<1>4. \A u \in Terminals : /\ IsLive(live'[u]) <=> IsLive(lv[u])
                           /\ attachments'[u] \subseteq attachments[u]
  BY <1>2, <1>3, FinishRuns
<1>5. QED
  BY <1>1, <1>4

LEMMA FinishLiveRuns ==
  ASSUME Inv, NEW cn, NEW q, NEW gone \in SUBSET Clients,
         Finish(live, cn, attachments, full, q, gone)
  PROVE  \A t \in Terminals : /\ IsLive(live'[t]) <=> IsLive(live[t])
                              /\ attachments'[t] \subseteq attachments[t]
BY LiveTyped, FinishRuns

(* What the methods of a terminal make of it. *)
LEMMA MethodsKeepRunning ==
  ASSUME NEW lt, Sound(lt)
  PROVE  /\ IsLive(Typed(lt)) <=> IsLive(lt)
         /\ IsLive(Belled(lt)) <=> IsLive(lt)
         /\ IsLive(Stopped(lt)) <=> IsLive(lt)
         /\ \A p \in Progresses \cup {None} : IsLive(Progressed(lt, p)) <=> IsLive(lt)
         /\ \A a \in Activities : IsLive(Reported(lt, a)) <=> IsLive(lt)
         /\ \A end \in {"exited", "failed"} : ~IsLive(Ended(lt, end))
         /\ \A c \in Clients : IsLive(FullyRepainted(lt, c)) <=> IsLive(lt)
<1>1. lt \in Terminal
  BY DEF Sound
<1>2. IsLive(Typed(lt)) <=> IsLive(lt)
  <2>1. Typed(lt) \in Terminal /\ Typed(lt).end = lt.end /\ Typed(lt).pty = lt.pty
    BY <1>1 DEF Terminal, Typed
  <2>2. QED
    BY <1>1, <2>1, IsLiveMeans
<1>3. IsLive(Belled(lt)) <=> IsLive(lt)
  <2>1. Belled(lt) \in Terminal /\ Belled(lt).end = lt.end /\ Belled(lt).pty = lt.pty
    BY <1>1 DEF Terminal, Belled
  <2>2. QED
    BY <1>1, <2>1, IsLiveMeans
<1>4. IsLive(Stopped(lt)) <=> IsLive(lt)
  <2>1. Stopped(lt) \in Terminal /\ Stopped(lt).end = lt.end
        /\ (Stopped(lt).pty = None <=> lt.pty = None)
    BY <1>1 DEF Terminal, Stopped, None
  <2>2. QED
    BY <1>1, <2>1, IsLiveMeans
<1>5. ASSUME NEW p \in Progresses \cup {None} PROVE IsLive(Progressed(lt, p)) <=> IsLive(lt)
  <2>1. Progressed(lt, p) \in Terminal /\ Progressed(lt, p).end = lt.end
        /\ Progressed(lt, p).pty = lt.pty
    BY <1>1 DEF Terminal, Progressed
  <2>2. QED
    BY <1>1, <2>1, IsLiveMeans
<1>6. ASSUME NEW a \in Activities PROVE IsLive(Reported(lt, a)) <=> IsLive(lt)
  <2>1. Sound(Reported(lt, a)) /\ Reported(lt, a).end = lt.end /\ Reported(lt, a).pty = lt.pty
    BY <1>1, ReportedSound DEF Terminal, Reported
  <2>2. QED
    BY <1>1, <2>1, IsLiveMeans DEF Sound
<1>7. ASSUME NEW end \in {"exited", "failed"} PROVE ~IsLive(Ended(lt, end))
  <2>1. Sound(Ended(lt, end)) /\ Ended(lt, end).pty = None
    BY <1>1, EndedSound DEF Terminal, Ended
  <2>2. QED
    BY <2>1, IsLiveMeans DEF Sound
<1>8. ASSUME NEW c \in Clients PROVE IsLive(FullyRepainted(lt, c)) <=> IsLive(lt)
  <2>1. /\ Sound(FullyRepainted(lt, c))
        /\ FullyRepainted(lt, c).end = lt.end /\ FullyRepainted(lt, c).pty = lt.pty
    BY <1>1, FullyRepaintedSound, FullyRepaintedIs
  <2>2. QED
    BY <1>1, <2>1, IsLiveMeans DEF Sound
<1>9. QED
  BY <1>2, <1>3, <1>4, <1>5, <1>6, <1>7, <1>8

LEMMA LiveRests ==
  ASSUME Inv, NotInTick, UNCHANGED <<tick, timer, registry, pending>>,
         \A t \in Terminals : /\ IsLive(live'[t]) <=> IsLive(live[t])
                              /\ attachments'[t] \subseteq attachments[t]
  PROVE  Rests
<1>1. registry \subseteq Terminals
  BY DEF Inv, Rest
<1>2. QED
  BY <1>1 DEF Rests

LEMMA ConnectionStepsRest ==
  ASSUME Inv, NEW c \in Clients,
         \/ Close(c)
         \/ \E r \in Requests : ReadRequest(c, r)
         \/ \E t \in Terminals : ReadInput(c, t)
         \/ PumpControl(c)
         \/ PumpOutput(c)
  PROVE  Rests
<1>1. CASE Close(c)
  <2>1. Finish(live, conn, attachments, full, Quiet, {c})
    BY <1>1 DEF Close
  <2>2. NotInTick /\ UNCHANGED <<tick, timer, registry, pending>>
    BY <1>1 DEF Close
  <2>3. QED
    BY <2>1, <2>2, FinishLiveRuns, LiveRests
<1>2. ASSUME NEW r \in Requests, ReadRequest(c, r) PROVE Rests
  BY <1>2, LiveRests DEF ReadRequest
<1>3. ASSUME NEW t \in Terminals, ReadInput(c, t) PROVE Rests
  <2>1. NotInTick /\ UNCHANGED <<tick, timer, registry, pending>>
    BY <1>3 DEF ReadInput
  <2>2. CASE t \notin registry
    <3>1. Finish(live, conn, attachments, full, Quiet, {c})
      BY <1>3, <2>2 DEF ReadInput
    <3>2. QED
      BY <2>1, <3>1, FinishLiveRuns, LiveRests
  <2>3. CASE t \in registry
    <3>1. PICK lt \in {Typed(live[t]), live[t]} : Relay(t, lt, conn, full, Quiet)
      BY <1>3, <2>3 DEF ReadInput
    <3>2. Sound(lt) /\ (IsLive(lt) <=> IsLive(live[t]))
      BY LiveTyped, TypedSound, MethodsKeepRunning
    <3>3. \A u \in Terminals : /\ IsLive(live'[u]) <=> IsLive(live[u])
                               /\ attachments'[u] \subseteq attachments[u]
      BY <3>1, <3>2, FinishOneRuns DEF Relay
    <3>4. QED
      BY <2>1, <3>3, LiveRests
  <2>4. QED
    BY <2>2, <2>3
<1>4. CASE PumpControl(c)
  BY <1>4, LiveRests DEF PumpControl
<1>5. CASE PumpOutput(c)
  <2> DEFINE popped == [conn EXCEPT ![c].output = Tail(@)]
  <2>1. PICK gone \in SUBSET Clients : Finish(live, popped, attachments, full, Quiet, gone)
    BY <1>5 DEF PumpOutput
  <2> HIDE DEF popped
  <2>2. NotInTick /\ UNCHANGED <<tick, timer, registry, pending>>
    BY <1>5 DEF PumpOutput
  <2>3. QED
    BY <2>1, <2>2, FinishLiveRuns, LiveRests
<1>6. QED
  BY <1>1, <1>2, <1>3, <1>4, <1>5

(* A process that starts is about to be published, by the request itself. *)
LEMMA StartedRests ==
  ASSUME Inv, NotInTick, UNCHANGED tick, NEW c, NEW t \in Terminals,
         NEW before, Sound(before), NEW cn, NEW awaited,
         \A u \in Terminals : Due(u, pending) => Due(u, awaited),
         registry' \subseteq registry \cup {t}, Started(c, t, before, cn, awaited)
  PROVE  Wakes \/ Rests
<1>1. PICK lt \in Starts(before), q \in {Quiet, To(c, <<Reply>>)} :
        /\ Finish([live EXCEPT ![t] = lt], cn, attachments, full, q, {})
        /\ \/ timer' = TRUE
           \/ timer' = timer /\ pending' = awaited \cup {Later(c, t, "publish")}
  <2>1. timer \in BOOLEAN
    BY DEF Inv, Rest
  <2>2. QED
    BY <2>1 DEF Started
<1>2. CASE timer' = TRUE
  BY <1>2 DEF Wakes
<1>3. CASE timer' = timer /\ pending' = awaited \cup {Later(c, t, "publish")}
  <2>1. Sound(lt)
    BY StartsSound
  <2>2. \A u \in Terminals : /\ u # t => (IsLive(live'[u]) <=> IsLive(live[u]))
                             /\ attachments'[u] \subseteq attachments[u]
    BY <1>1, <2>1, FinishOneRuns
  <2>3. Due(t, pending') /\ \A u \in Terminals : Due(u, pending) => Due(u, pending')
    <3>1. Later(c, t, "publish").terminal = t /\ Later(c, t, "publish").step = "publish"
      BY DEF Later
    <3>2. QED
      BY <1>3, <3>1 DEF Due
  <2>4. registry \subseteq Terminals
    BY DEF Inv, Rest
  <2>5. QED
    BY <1>3, <2>2, <2>3, <2>4 DEF Rests
<1>4. QED
  BY <1>1, <1>2, <1>3

LEMMA AwaitRests ==
  ASSUME Inv, NotInTick, UNCHANGED <<tick, registry>>, NEW c \in Clients, NEW t \in Terminals,
         ResolveLaunch(c, t, Taken(c)) \/ Rename(c, t, Taken(c))
  PROVE  Rests
<1>1. UNCHANGED <<live, attachments, timer>> /\ pending \subseteq pending'
  BY DEF ResolveLaunch, Rename, Await
<1>2. \A u \in Terminals : Due(u, pending) => Due(u, pending')
  BY <1>1 DEF Due
<1>3. QED
  BY <1>1, <1>2 DEF Rests

LEMMA RemoveRests ==
  ASSUME Inv, NotInTick, UNCHANGED tick, NEW c \in Clients, NEW t \in Terminals,
         Remove(c, t, Taken(c))
  PROVE  Rests
<1>1. UNCHANGED <<attachments, timer>> /\ pending \subseteq pending' /\ registry' \subseteq registry
  BY DEF Remove
<1>2. \A u \in Terminals : Due(u, pending) => Due(u, pending')
  BY <1>1 DEF Due
<1>3. registry \subseteq Terminals
  BY DEF Inv, Rest
<1>4. live' \in {live, [live EXCEPT ![t] = Stopped(live[t])]}
  BY DEF Remove
<1>5. \A u \in Terminals : IsLive(live'[u]) <=> IsLive(live[u])
  BY <1>4, LiveTyped, MethodsKeepRunning
<1>6. QED
  BY <1>1, <1>2, <1>3, <1>5 DEF Rests

LEMMA DispatchSleep ==
  ASSUME Inv, NEW c \in Clients, Dispatch(c)
  PROVE  Wakes \/ Rests
<1>1. NotInTick /\ UNCHANGED tick
  BY DispatchCases
<1>2. CASE Subscribe(c, Taken(c)) \/ Answered(c, Taken(c))
  BY <1>1, <1>2 DEF Subscribe, Answered, Wakes
<1>3. ASSUME NEW t \in Terminals,
             \/ AttachInput(c, t, Taken(c))
             \/ \E v \in Sizes : AttachViewport(c, t, v, Taken(c)) \/ Resize(c, t, v, Taken(c))
             \/ Detach(c, t, Taken(c))
             \/ \E unread \in BOOLEAN : Mark(c, t, unread, Taken(c))
             \/ Stop(c, t, Taken(c))
      PROVE  Wakes
  BY <1>1, <1>3
     DEF AttachInput, Answered, AttachViewport, Resize, Detach, Mark, Stop, Wakes
<1>4. ASSUME NEW t \in Terminals, NEW before \in {live[t], [live[t] EXCEPT !.pty = None]},
             Start(c, t, before, Taken(c))
      PROVE  Wakes \/ Rests
  <2>1. Sound(live[t]) /\ live[t] \in Terminal
    BY LiveTyped
  <2>2. Sound(before)
    BY <2>1, MethodsKeepTheGrid, SameGridNegotiated DEF Sound, Terminal
  <2>3. Started(c, t, before, Taken(c), pending) /\ registry' = registry
    BY <1>4 DEF Start
  <2>4. QED
    BY <1>1, <2>2, <2>3, StartedRests
<1>5. ASSUME NEW t \in Terminals, ResolveLaunch(c, t, Taken(c)) \/ Rename(c, t, Taken(c))
      PROVE  Rests
  <2>1. UNCHANGED registry
    BY <1>5 DEF ResolveLaunch, Rename
  <2>2. QED
    BY <1>1, <1>5, <2>1, AwaitRests
<1>6. ASSUME NEW t \in Terminals, Remove(c, t, Taken(c))
      PROVE  Rests
  BY <1>1, <1>6, RemoveRests
<1>7. QED
  BY <1>2, <1>3, <1>4, <1>5, <1>6, DispatchCases

LEMMA AwaitedSleep ==
  ASSUME Inv, NEW p \in pending, Launch(p) \/ Publish(p)
  PROVE  Wakes \/ Rests
<1>1. CASE Publish(p)
  BY <1>1 DEF Publish, Wakes
<1>2. CASE Launch(p)
  <2> DEFINE t == p.terminal
             fresh == [NewTerminal EXCEPT !.run = live[t].run]
  <2>1. t \in Terminals
    BY DEF Inv, Rest, Awaited
  <2>2. NotInTick /\ UNCHANGED tick /\ p.step = "launch"
    BY <1>2 DEF Launch
  <2>3. CASE t \in registry
    BY <1>2, <2>2, <2>3 DEF Launch, Wakes
  <2>4. CASE t \notin registry
    <3>1. /\ Started(p.client, t, fresh, conn, pending \ {p})
          /\ registry' = registry \cup {t}
      BY <1>2, <2>4 DEF Launch
    <3>2. Sound(fresh)
      BY <2>1, FreshTerminal
    <3>3. \A u \in Terminals : Due(u, pending) => Due(u, pending \ {p})
      BY <2>2 DEF Due
    <3> HIDE DEF fresh, t
    <3>4. QED
      BY <2>1, <2>2, <3>1, <3>2, <3>3, StartedRests
  <2>5. QED
    BY <2>3, <2>4
<1>3. QED
  BY <1>1, <1>2

(* In a tick. *)
LEMMA FeedStepsTick ==
  ASSUME Inv, Sleep, NEW t \in Terminals, FeedSteps(t)
  PROVE  Ticks
<1>1. Sound(live[t]) /\ live[t] \in Terminal /\ registry \subseteq Terminals /\ tick \in Tick
  BY LiveTyped, LooksAreTyped DEF Inv, Rest
<1>2. t # None
  BY TerminalServerAssumption
<1>3. ASSUME NEW lt, Sound(lt), IsLive(lt) <=> IsLive(live[t]), NEW signalled,
             Reports(t, lt, signalled)
      PROVE  Ticks
  <2>1. PICK more : Relay(t, lt, conn, full, more)
    BY <1>3 DEF Reports
  <2>2. \A u \in Terminals : IsLive(live'[u]) <=> IsLive(live[u])
    BY <1>3, <2>1, FinishOneRuns DEF Relay
  <2>3. /\ t \in tick.feed \/ tick.fed = t
        /\ tick.phase = "feed" \/ tick.fed = t
        /\ tick' = [tick EXCEPT !.feed = @ \ {t}, !.fed = t] /\ UNCHANGED <<timer, registry>>
    BY <1>3 DEF Reports, Feeding, Undrained
  <2>4. tick.phase = "feed"
    BY <1>2, <2>3 DEF Sleep, TickServes
  <2>5. /\ tick'.phase = "feed" /\ tick'.live = tick.live /\ tick'.feed = tick.feed \ {t}
        /\ tick'.fed = t /\ tick'.paint = tick.paint
    BY <1>1, <2>3, <2>4 DEF Tick
  <2>6. QED
    BY <1>1, <2>2, <2>3, <2>4, <2>5 DEF Ticks, NotInTick
<1>4. CASE Bell(t)
  BY <1>1, <1>3, <1>4, BelledSound, MethodsKeepRunning DEF Bell
<1>5. CASE PromptFinished(t)
  BY <1>1, <1>3, <1>5 DEF PromptFinished
<1>6. ASSUME NEW p \in Progresses \cup {None}, Progress(t, p) PROVE Ticks
  BY <1>1, <1>3, <1>6, ProgressedSound, MethodsKeepRunning DEF Progress
<1>7. ASSUME NEW a \in Activities, Activity(t, a) PROVE Ticks
  BY <1>1, <1>3, <1>7, ReportedSound, MethodsKeepRunning DEF Activity
<1>8. ASSUME NEW failed,
             /\ Feeding(t)
             /\ tick' = [tick EXCEPT !.feed = @ \ {t}, !.fed = None, !.failed = failed]
             /\ UNCHANGED <<live, timer, registry>>
      PROVE  Ticks
  <2>1. tick.phase = "feed"
    BY <1>2, <1>8 DEF Feeding, Undrained, Sleep, TickServes
  <2>2. /\ tick'.phase = "feed" /\ tick'.live = tick.live /\ tick'.feed = tick.feed \ {t}
        /\ tick'.fed = None /\ tick'.paint = tick.paint
    BY <1>1, <1>8, <2>1 DEF Tick
  <2>3. QED
    BY <1>8, <2>1, <2>2 DEF Ticks, NotInTick
<1>9. CASE Drained(t)
  <2>1. [tick EXCEPT !.feed = @ \ {t}, !.fed = None]
          = [tick EXCEPT !.feed = @ \ {t}, !.fed = None, !.failed = tick.failed]
    BY <1>1 DEF Tick
  <2>2. QED
    BY <1>8, <1>9, <2>1 DEF Drained
<1>10. CASE DrainThrows(t)
  BY <1>8, <1>10 DEF DrainThrows
<1>11. ASSUME Undrained(t), tick' = [tick EXCEPT !.feed = @ \ {t}], UNCHANGED <<timer, registry>>,
              \A u \in Terminals : u # t => (IsLive(live'[u]) <=> IsLive(live[u]))
       PROVE  Ticks
  <2>1. tick.phase = "feed" /\ t \in tick.feed
    BY <1>11 DEF Undrained
  <2>2. /\ tick'.phase = "feed" /\ tick'.live = tick.live /\ tick'.feed = tick.feed \ {t}
        /\ tick'.fed = tick.fed /\ tick'.paint = tick.paint
    BY <1>1, <1>11, <2>1 DEF Tick
  <2>3. QED
    BY <1>1, <1>11, <2>1, <2>2 DEF Ticks, NotInTick
<1>12. ASSUME NEW end \in {"exited", "failed"}, StreamEnds(t, end) PROVE Ticks
  <2>1. PICK more : Relay(t, Ended(live[t], end), conn, full, more)
    BY <1>12 DEF StreamEnds
  <2>2. Sound(Ended(live[t], end))
    BY <1>1, EndedSound
  <2>3. \A u \in Terminals : u # t => (IsLive(live'[u]) <=> IsLive(live[u]))
    BY <2>1, <2>2, FinishOneRuns DEF Relay
  <2>4. QED
    BY <1>11, <1>12, <2>3 DEF StreamEnds
<1>13. CASE ExitUnknown(t)
  BY <1>11, <1>13, LiveTyped DEF ExitUnknown
<1>14. QED
  BY <1>4, <1>5, <1>6, <1>7, <1>9, <1>10, <1>12, <1>13 DEF FeedSteps

LEMMA PaintingTicks ==
  ASSUME Inv, Sleep, PaintStart \/ \E t \in Terminals, c \in Clients : PaintSteps(t, c)
  PROVE  Ticks
<1>1. tick \in Tick /\ registry \subseteq Terminals
  BY LooksAreTyped DEF Inv, Rest
<1>2. ASSUME NEW visits, tick' = [tick EXCEPT !.phase = "paint", !.paint = visits], ~NotInTick,
             tick.fed = None, UNCHANGED <<timer, registry>>,
             \A visit \in visits : visit \in tick.paint \/ visit[1] \in registry,
             \A t \in Terminals : IsLive(live'[t]) <=> IsLive(live[t])
      PROVE  Ticks
  <2>1. /\ tick'.phase = "paint" /\ tick'.live = tick.live /\ tick'.feed = tick.feed
        /\ tick'.fed = tick.fed /\ tick'.paint = visits
    BY <1>1, <1>2 DEF Tick
  <2>2. QED
    BY <1>1, <1>2, <2>1 DEF Ticks
<1>3. CASE PaintStart
  <2> DEFINE visits == {v \in (registry \ tick.failed) \X Clients : v[2] \in attachments[v[1]]}
  <2>1. /\ tick' = [tick EXCEPT !.phase = "paint", !.paint = visits]
        /\ \A visit \in visits : visit[1] \in registry
    BY <1>3 DEF PaintStart
  <2> HIDE DEF visits
  <2>2. ~NotInTick /\ tick.fed = None /\ UNCHANGED <<timer, registry, live>>
    BY <1>3 DEF PaintStart, NotInTick
  <2>3. QED
    BY <1>2, <2>1, <2>2
<1>4. ASSUME NEW t \in Terminals, NEW c \in Clients, PaintSteps(t, c) PROVE Ticks
  <2>1. tick.phase = "paint" /\ UNCHANGED <<timer, registry>>
    BY <1>4 DEF PaintSteps, SkipPaint, PaintThrows, PaintFull, PaintOwed, PaintDelta,
                Painting, Visits
  <2>2. PICK visits \in SUBSET tick.paint : tick' = [tick EXCEPT !.paint = visits]
    BY <1>4 DEF PaintSteps, SkipPaint, PaintThrows, PaintFull, PaintOwed, PaintDelta,
                Painting, Visits
  <2>3. tick' = [tick EXCEPT !.phase = "paint", !.paint = visits]
    BY <1>1, <2>1, <2>2 DEF Tick
  <2>4. ~NotInTick /\ tick.fed = None
    BY <2>1 DEF NotInTick, Sleep, TickServes
  <2>5. \A u \in Terminals : IsLive(live'[u]) <=> IsLive(live[u])
    <3>1. CASE SkipPaint(t, c) \/ PaintThrows(t, c) \/ PaintDelta(t, c)
      BY <3>1 DEF SkipPaint, PaintThrows, PaintDelta
    <3>2. CASE PaintFull(t, c) \/ PaintOwed(t, c)
      <4>1. PICK cn, fu, q :
              Finish([live EXCEPT ![t] = FullyRepainted(live[t], c)], cn, attachments, fu, q, {})
        BY <3>2 DEF PaintFull, PaintOwed, Relay
      <4>2. /\ Sound(FullyRepainted(live[t], c))
            /\ IsLive(FullyRepainted(live[t], c)) <=> IsLive(live[t])
        BY LiveTyped, FullyRepaintedSound, MethodsKeepRunning
      <4>3. QED
        BY <4>1, <4>2, FinishOneRuns
    <3>3. QED
      BY <1>4, <3>1, <3>2 DEF PaintSteps
  <2>6. QED
    BY <1>2, <2>1, <2>3, <2>4, <2>5
<1>5. QED
  BY <1>3, <1>4

LEMMA SleepKeeps == Inv /\ Sleep /\ [Next]_vars => Sleep'
<1> SUFFICES ASSUME Inv, Sleep, [Next]_vars PROVE Sleep'
  OBVIOUS
<1>1. CASE UNCHANGED vars
  BY <1>1 DEF vars, Sleep, SleepsOnlyWhenIdle, NotInTick, NothingRuns, TickServes
<1>2. CASE Step
  <2>1. ASSUME NEW c \in Clients, ClientSteps(c) PROVE Wakes \/ Rests
    BY <2>1, ConnectionStepsRest, DispatchSleep DEF ClientSteps
  <2>2. ASSUME NEW p \in pending, Launch(p) \/ Publish(p) PROVE Wakes \/ Rests
    BY <2>2, AwaitedSleep
  <2>3. ASSUME NEW t \in Terminals, FeedSteps(t) PROVE Ticks
    BY <2>3, FeedStepsTick
  <2>4. Wakes \/ Rests \/ Ticks \/ TickStart \/ TickEnd
    BY <1>2, <2>1, <2>2, <2>3, PaintingTicks DEF Step
  <2>5. QED
    BY <2>4, WakesSleep, RestsSleep, TicksSleep, TickStartSleep, TickEndSleep
<1>3. QED
  BY <1>1, <1>2 DEF Next

LEMMA SpecSleep == Spec => []Sleep
<1>1. Init => Sleep
  BY DEF Init, Idle, Sleep, SleepsOnlyWhenIdle, NotInTick, TickServes
<1>2. QED
  BY <1>1, SpecInv, SleepKeeps, PTL DEF Spec

(* The interval is cleared only when no process needs draining and nobody  *)
(* needs painting: a process that was started and not announced yet is the *)
(* one exception, and announcing it sets the interval.  A request that     *)
(* comes while a tick runs, or a process that ends in one, makes no hole.  *)
THEOREM NobodyIsLeftUndrained == Spec => []SleepsOnlyWhenIdle
<1>1. Sleep => SleepsOnlyWhenIdle
  BY DEF Sleep
<1>2. QED
  BY <1>1, SpecSleep, PTL

-----------------------------------------------------------------------------
(***************************************************************************)
(* The mirrors.  What a client will believe of a terminal is a fact about  *)
(* its queue: Comes.  A queue that grows by messages that all tell the     *)
(* truth keeps it, and gains it if one of them tells anything.             *)
(***************************************************************************)
Comes(queue, now, t, state) ==
  LET news   == {i \in 1..Len(queue) : Tells(queue[i], t)}
      latest == {i \in news : \A j \in news : j <= i}
  IN  /\ news = {} => now = state
      /\ \A i \in latest : Told(queue[i], t) = state

True(ms, t, state) == \A i \in 1..Len(ms) : Tells(ms[i], t) => Told(ms[i], t) = state
Mentions(ms, t) == \E i \in 1..Len(ms) : Tells(ms[i], t)

LEMMA BelievesComes ==
  ASSUME NEW c, NEW t, NEW state
  PROVE  Believes(c, t, state) <=> Comes(conn[c].control, view[c].states[t], t, state)
BY DEF Believes, Comes

LEMMA ComesMore ==
  ASSUME NEW queue \in Seq(Messages), NEW ms \in Seq(Messages), NEW now, NEW t, NEW state,
         True(ms, t, state), Comes(queue, now, t, state) \/ Mentions(ms, t)
  PROVE  Comes(queue \o ms, now, t, state)
<1> DEFINE longer == queue \o ms
           News(q) == {i \in 1..Len(q) : Tells(q[i], t)}
<1>1. /\ Len(queue) \in Nat /\ Len(ms) \in Nat /\ Len(longer) = Len(queue) + Len(ms)
      /\ \A i \in 1..Len(longer) : longer[i] = IF i <= Len(queue) THEN queue[i]
                                               ELSE ms[i - Len(queue)]
  BY ConcatProperties, LenProperties
<1> HIDE DEF longer
<1>2. \A i \in News(queue) : i \in News(longer)
  BY <1>1
<1>3. \A i \in News(ms) : Len(queue) + i \in News(longer)
  <2>1. SUFFICES ASSUME NEW i \in News(ms) PROVE Len(queue) + i \in News(longer)
    OBVIOUS
  <2>2. Len(queue) + i \in 1..Len(longer) /\ ~(Len(queue) + i <= Len(queue))
        /\ (Len(queue) + i) - Len(queue) = i
    BY <1>1
  <2>3. longer[Len(queue) + i] = ms[i]
    BY <1>1, <2>2
  <2>4. QED
    BY <2>2, <2>3
<1>4. News(longer) = {} => now = state
  BY <1>2, <1>3 DEF Comes, Mentions
<1>5. ASSUME NEW i \in News(longer), \A j \in News(longer) : j <= i
      PROVE  Told(longer[i], t) = state
  <2>1. CASE i <= Len(queue)
    <3>1. i \in News(queue) /\ longer[i] = queue[i]
      BY <1>1, <2>1
    <3>2. News(ms) = {}
      BY <1>1, <1>3, <1>5, <2>1
    <3>3. Comes(queue, now, t, state)
      BY <3>2 DEF Mentions
    <3>4. \A j \in News(queue) : j <= i
      BY <1>2, <1>5
    <3>5. QED
      BY <3>1, <3>3, <3>4 DEF Comes
  <2>2. CASE ~(i <= Len(queue))
    <3>1. i - Len(queue) \in 1..Len(ms) /\ longer[i] = ms[i - Len(queue)]
      BY <1>1, <2>2
    <3>2. QED
      BY <3>1 DEF True
  <2>3. QED
    BY <2>1, <2>2
<1>6. Comes(longer, now, t, state)
  BY <1>4, <1>5 DEF Comes
<1>7. QED
  BY <1>6 DEF longer

LEMMA ComesNext ==
  ASSUME NEW queue \in Seq(Messages), queue # <<>>, NEW now, NEW t, NEW state,
         Comes(queue, now, t, state)
  PROVE  Comes(Tail(queue), IF Tells(Head(queue), t) THEN Told(Head(queue), t) ELSE now,
               t, state)
<1> DEFINE rest == Tail(queue)
           News(q) == {i \in 1..Len(q) : Tells(q[i], t)}
<1>1. /\ Len(queue) \in Nat \ {0} /\ Len(rest) = Len(queue) - 1
      /\ \A i \in 1..Len(rest) : rest[i] = queue[i + 1]
      /\ Head(queue) = queue[1]
  BY HeadTailProperties, LenProperties, EmptySeq
<1> HIDE DEF rest
<1>2. \A i \in News(rest) : i + 1 \in News(queue)
  BY <1>1
<1>3. \A j \in News(queue) : j = 1 \/ j - 1 \in News(rest)
  <2>1. SUFFICES ASSUME NEW j \in News(queue), j # 1 PROVE j - 1 \in News(rest)
    OBVIOUS
  <2>2. j - 1 \in 1..Len(rest) /\ (j - 1) + 1 = j
    BY <1>1, <2>1
  <2>3. rest[j - 1] = queue[j]
    BY <1>1, <2>2
  <2>4. QED
    BY <2>2, <2>3
<1>4. ASSUME News(rest) = {}
      PROVE  (IF Tells(Head(queue), t) THEN Told(Head(queue), t) ELSE now) = state
  <2>1. CASE Tells(Head(queue), t)
    <3>1. 1 \in News(queue) /\ \A j \in News(queue) : j <= 1
      BY <1>1, <1>3, <1>4, <2>1
    <3>2. QED
      BY <1>1, <2>1, <3>1 DEF Comes
  <2>2. CASE ~Tells(Head(queue), t)
    <3>1. News(queue) = {}
      BY <1>1, <1>3, <1>4, <2>2
    <3>2. QED
      BY <2>2, <3>1 DEF Comes
  <2>3. QED
    BY <2>1, <2>2
<1>5. ASSUME NEW i \in News(rest), \A j \in News(rest) : j <= i
      PROVE  Told(rest[i], t) = state
  <2>1. i + 1 \in News(queue) /\ rest[i] = queue[i + 1]
    BY <1>1, <1>2
  <2>2. \A j \in News(queue) : j <= i + 1
    BY <1>1, <1>3, <1>5
  <2>3. QED
    BY <2>1, <2>2 DEF Comes
<1>6. QED
  BY <1>4, <1>5 DEF Comes, rest

(* A client that handles the head of its queue believes what it says. *)
LEMMA AppliedTells ==
  ASSUME NEW v \in View, NEW m \in Messages, NEW t \in Terminals
  PROVE  Applied(v, m).states[t] = IF Tells(m, t) THEN Told(m, t) ELSE v.states[t]
BY DEF Applied, View, Tells, Told, Messages


(* Sequences of messages that are true. *)
LEMMA TrueAlready ==
  ASSUME NEW t, NEW state
  PROVE  True(<<>>, t, state) /\ True(<<Reply>>, t, state)
<1>1. Len(<<>>) = 0 /\ Len(<<Reply>>) = 1 /\ <<Reply>>[1] = Reply /\ ~Tells(Reply, t)
  BY DEF Reply, Tells
<1>2. QED
  BY <1>1 DEF True

LEMMA TrueAbout ==
  ASSUME NEW type \in {"state", "attention", "exited"}, NEW u, NEW lt, NEW t, NEW state,
         t = u => state = StateOf(lt)
  PROVE  /\ True(<<About(type, u, lt)>>, t, state)
         /\ type # "attention" => Mentions(<<About(type, u, lt)>>, u)
<1> DEFINE m == About(type, u, lt)
<1>1. m.type = type /\ m.terminal = u /\ m.state = StateOf(lt)
  BY DEF About
<1> HIDE DEF m
<1>2. Len(<<m>>) = 1 /\ <<m>>[1] = m
  OBVIOUS
<1>3. Tells(m, t) => t = u /\ Told(m, t) = state
  BY <1>1 DEF Tells, Told
<1>4. type # "attention" => Tells(m, u)
  BY <1>1 DEF Tells
<1>5. True(<<m>>, t, state) /\ (type # "attention" => Mentions(<<m>>, u))
  BY <1>2, <1>3, <1>4 DEF True, Mentions
<1>6. QED
  BY <1>5 DEF m

LEMMA TrueBoth ==
  ASSUME NEW p \in Seq(Messages), NEW q \in Seq(Messages), NEW t, NEW state
  PROVE  /\ True(p, t, state) /\ True(q, t, state) => True(p \o q, t, state)
         /\ Mentions(p, t) => Mentions(p \o q, t)
<1>1. /\ Len(p) \in Nat /\ Len(q) \in Nat /\ Len(p \o q) = Len(p) + Len(q)
      /\ \A i \in 1..Len(p \o q) : (p \o q)[i] = IF i <= Len(p) THEN p[i] ELSE q[i - Len(p)]
  BY ConcatProperties, LenProperties
<1> DEFINE r == p \o q
<1>2. /\ Len(r) = Len(p) + Len(q)
      /\ \A i \in 1..Len(r) : r[i] = IF i <= Len(p) THEN p[i] ELSE q[i - Len(p)]
  BY <1>1
<1> HIDE DEF r
<1>3. ASSUME True(p, t, state), True(q, t, state), NEW i \in 1..Len(r), Tells(r[i], t)
      PROVE  Told(r[i], t) = state
  <2>1. CASE i <= Len(p)
    BY <1>1, <1>2, <1>3, <2>1 DEF True
  <2>2. CASE ~(i <= Len(p))
    <3>1. i - Len(p) \in 1..Len(q) /\ r[i] = q[i - Len(p)]
      BY <1>1, <1>2, <2>2
    <3>2. QED
      BY <1>3, <3>1 DEF True
  <2>3. QED
    BY <2>1, <2>2
<1>4. ASSUME Mentions(p, t) PROVE Mentions(r, t)
  <2>1. PICK i \in 1..Len(p) : Tells(p[i], t)
    BY <1>4 DEF Mentions
  <2>2. i \in 1..Len(r) /\ r[i] = p[i]
    BY <1>1, <1>2
  <2>3. QED
    BY <2>1, <2>2 DEF Mentions
<1>5. /\ True(p, t, state) /\ True(q, t, state) => True(r, t, state)
      /\ Mentions(p, t) => Mentions(r, t)
  BY <1>3, <1>4 DEF True
<1>6. QED
  BY <1>5 DEF r

LEMMA MoreBehindBroadcast ==
  ASSUME NEW ms \in Seq(Messages), NEW more \in Queues, NEW c \in Clients,
         NEW t, NEW state, conn[c].scoped, True(ms, t, state), True(more[c], t, state)
  PROVE  /\ Both(Broadcast(ms), more)[c] \in Seq(Messages)
         /\ True(Both(Broadcast(ms), more)[c], t, state)
         /\ Mentions(ms, t) => Mentions(Both(Broadcast(ms), more)[c], t)
<1>1. Both(Broadcast(ms), more)[c] = ms \o more[c]
  BY DEF Both, Broadcast
<1>2. more[c] \in Seq(Messages)
  BY DEF Queues
<1>3. QED
  BY <1>1, <1>2, TrueBoth, ConcatProperties

-----------------------------------------------------------------------------
(***************************************************************************)
(* What keeps a mirror from falling behind: what is queued for a client in *)
(* a step is so, and leaves out nothing that changed.  That a snapshot is  *)
(* so of what the client has not drifted on is what drifting means.        *)
(***************************************************************************)

LEMMA DriftsMeans ==
  ASSUME Drifts, NEW c \in Clients, NEW t \in Terminals, t \notin drift'[c]
  PROVE  /\ \A i \in SnapshotsTo(c) : conn'[c].control[i].states[t] = published'[t]
         /\ SnapshotsTo(c) = {} /\ published'[t] = published[t] => t \notin drift[c]
BY DEF Drifts

(* What is queued for c in a step, which may let c subscribe: enough that  *)
(* nothing is missed, and nothing that is not so.                          *)
Honest(ms, c) ==
  /\ ms \in Seq(Messages)
  /\ \A t \in Terminals : t \notin drift'[c] =>
       /\ True(ms, t, published'[t])
       /\ (conn[c].scoped /\ published'[t] \in {published[t], NoState}) \/ Mentions(ms, t)

(* Every message queued for c that is no snapshot is silent on t, or none is. *)
LEMMA NothingMentioned ==
  ASSUME Inv, NEW c \in Clients, NEW ms \in Seq(Messages), NEW t,
         conn'[c].control = conn[c].control \o ms, ~Mentions(ms, t)
  PROVE  SnapshotsTo(c) = {}
<1>1. conn[c].control \in Seq(Messages)
  BY LooksAreTyped DEF Connection
<1> DEFINE queue == conn[c].control
           longer == conn'[c].control
<1> HIDE DEF queue, longer
<1>2. longer = queue \o ms /\ queue \in Seq(Messages)
  BY <1>1 DEF queue, longer
<1>3. /\ Len(queue) \in Nat /\ Len(ms) \in Nat /\ DOMAIN longer = 1..(Len(queue) + Len(ms))
      /\ \A i \in DOMAIN longer : i > Len(queue) =>
           i - Len(queue) \in 1..Len(ms) /\ longer[i] = ms[i - Len(queue)]
  BY <1>2, ConcatProperties, LenProperties
<1>4. ASSUME NEW i \in DOMAIN longer, i > Len(queue) PROVE longer[i].type # "snapshot"
  BY <1>3, <1>4 DEF Mentions, Tells
<1>5. QED
  BY <1>4 DEF SnapshotsTo, queue, longer

LEMMA HonestMirror ==
  ASSUME Inv, MirrorsFollowRelay, Drifts,
         \A c \in Clients : view'[c].states = view[c].states,
         \A c \in Clients : Following(c)' =>
           /\ conn[c].phase = "open"
           /\ \E ms : Honest(ms, c) /\ conn'[c].control = conn[c].control \o ms
  PROVE  MirrorsFollowRelay'
<1>1. ASSUME NEW c \in Clients, NEW t \in Terminals, Following(c)',
             published'[t] # NoState, t \notin drift'[c]
      PROVE  Believes(c, t, published[t])'
  <2>1. PICK ms : Honest(ms, c) /\ conn'[c].control = conn[c].control \o ms
    BY <1>1
  <2> DEFINE queue == conn[c].control
             now == view[c].states[t]
             state == published'[t]
  <2>2. queue \in Seq(Messages) /\ ms \in Seq(Messages)
    BY <2>1, LooksAreTyped DEF Connection, Honest
  <2>3. True(ms, t, state)
    BY <1>1, <2>1 DEF Honest
  <2>4. Comes(queue, now, t, state) \/ Mentions(ms, t)
    <3>1. SUFFICES ASSUME ~Mentions(ms, t) PROVE Comes(queue, now, t, state)
      OBVIOUS
    <3>2. conn[c].scoped /\ published'[t] = published[t]
      BY <1>1, <2>1, <3>1 DEF Honest
    <3>3. SnapshotsTo(c) = {}
      BY <2>1, <2>2, <3>1, NothingMentioned
    <3>4. t \notin drift[c] /\ Following(c)
      BY <1>1, <3>2, <3>3, DriftsMeans DEF Following
    <3>5. Believes(c, t, published[t])
      BY <1>1, <3>2, <3>4 DEF MirrorsFollowRelay
    <3>6. QED
      BY <3>2, <3>5, BelievesComes
  <2> HIDE DEF queue, now, state
  <2>5. Comes(queue \o ms, now, t, state)
    BY <2>2, <2>3, <2>4, ComesMore
  <2>6. Comes(conn'[c].control, view'[c].states[t], t, published'[t])
    BY <2>1, <2>5 DEF queue, now, state
  <2>7. QED
    BY <2>6 DEF Believes, Comes
<1>2. QED
  BY <1>1 DEF MirrorsFollowRelay

(* Connections as far as messages go. *)
SameQueues(cn) ==
  /\ cn \in [Clients -> Connection]
  /\ \A c \in Clients : /\ cn[c].control = conn[c].control /\ cn[c].phase = conn[c].phase
                        /\ cn[c].scoped = conn[c].scoped

(* Whatever a subscribed client is in fact sent of the queues is honest. *)
HonestQueues(cn, q) ==
  \A c \in Clients :
    cn[c].scoped /\ conn'[c].control = conn[c].control \o q[c] => Honest(q[c], c)

LEMMA FinishMirror ==
  ASSUME Inv, MirrorsFollowRelay, Drifts,
         NEW lv \in [Terminals -> Terminal], \A t \in Terminals : Sound(lv[t]),
         NEW cn \in [Clients -> Connection],
         \A c \in Clients : cn[c].control = conn[c].control /\ cn[c].phase = conn[c].phase,
         NEW at, NEW fu, NEW q, NEW gone \in SUBSET Clients,
         Finish(lv, cn, at, fu, q, gone),
         HonestQueues(cn, q), UNCHANGED view
  PROVE  MirrorsFollowRelay'
<1>1. PICK shut : Ends(lv, cn, at, fu, q, shut)
  BY FinishEnds
<1>2. ASSUME NEW c \in Clients, Following(c)'
      PROVE  /\ conn[c].phase = "open"
             /\ Honest(q[c], c) /\ conn'[c].control = conn[c].control \o q[c]
  <2>1. c \notin shut
    BY <1>1, <1>2, ClosedSame DEF Ends, Following
  <2>2. conn'[c] = Sent(cn[c], q[c])
    BY <1>1, <2>1 DEF Ends
  <2>3. /\ conn'[c].phase = cn[c].phase /\ conn'[c].scoped = cn[c].scoped
        /\ conn'[c].control = IF cn[c].phase = "open" THEN cn[c].control \o q[c]
                              ELSE cn[c].control
    BY <2>2, SentSame
  <2>4. cn[c].scoped /\ conn'[c].control = conn[c].control \o q[c] /\ conn[c].phase = "open"
    BY <1>2, <2>3 DEF Following
  <2>5. QED
    BY <2>4 DEF HonestQueues
<1>3. QED
  BY <1>2, HonestMirror

(* A handler that publishes nothing and sends, at most, replies. *)
Replies(q) == \A c \in Clients : q[c] = <<>> \/ q[c] = <<Reply>>

LEMMA RepliesAre ==
  ASSUME NEW c
  PROVE  Replies(Quiet) /\ Replies(To(c, <<Reply>>))
BY DEF Replies, Quiet, To

LEMMA RepliesHonest ==
  ASSUME NEW ms, ms = <<>> \/ ms = <<Reply>>, UNCHANGED published,
         NEW c \in Clients, conn[c].scoped
  PROVE  Honest(ms, c)
<1>1. ms \in Seq(Messages)
  <2>1. <<Reply>> \in Seq(Messages)
    BY ReplyType
  <2>2. QED
    BY <2>1, EmptySeq
<1>2. \A t \in Terminals : True(ms, t, published'[t])
  BY TrueAlready
<1>3. QED
  BY <1>1, <1>2 DEF Honest

LEMMA FinishRepliesMirror ==
  ASSUME Inv, MirrorsFollowRelay, Drifts,
         NEW lv \in [Terminals -> Terminal], \A t \in Terminals : Sound(lv[t]),
         NEW cn, SameQueues(cn),
         NEW at, NEW fu, NEW q, Replies(q), NEW gone \in SUBSET Clients,
         Finish(lv, cn, at, fu, q, gone),
         UNCHANGED <<view, published>>
  PROVE  MirrorsFollowRelay'
<1>1. HonestQueues(cn, q)
  BY RepliesHonest DEF SameQueues, Replies, HonestQueues
<1>2. QED
  BY <1>1, FinishMirror DEF SameQueues

LEMMA FinishOneMirror ==
  ASSUME Inv, MirrorsFollowRelay, Drifts, NEW t \in Terminals, NEW lt, Sound(lt),
         NEW cn, SameQueues(cn), NEW at, NEW fu, NEW q, Replies(q),
         Finish([live EXCEPT ![t] = lt], cn, at, fu, q, {}),
         UNCHANGED <<view, published>>
  PROVE  MirrorsFollowRelay'
<1> DEFINE lv == [live EXCEPT ![t] = lt]
<1>1. \A u \in Terminals : lv[u] = IF u = t THEN lt ELSE live[u]
  BY LiveTyped
<1>2. lv \in [Terminals -> Terminal] /\ \A u \in Terminals : Sound(lv[u])
  BY <1>1, LiveTyped DEF Sound
<1>3. Finish(lv, cn, at, fu, q, {})
  OBVIOUS
<1> HIDE DEF lv
<1>4. QED
  BY <1>2, <1>3, FinishRepliesMirror

LEMMA FinishLiveMirror ==
  ASSUME Inv, MirrorsFollowRelay, Drifts, NEW cn, SameQueues(cn), NEW at, NEW fu, NEW q, Replies(q),
         NEW gone \in SUBSET Clients, Finish(live, cn, at, fu, q, gone),
         UNCHANGED <<view, published>>
  PROVE  MirrorsFollowRelay'
BY LiveTyped, FinishRepliesMirror

(* A handler that sends nothing. *)
LEMMA StillMirror ==
  ASSUME Inv, MirrorsFollowRelay, Drifts, SameQueues(conn'),
         \A c \in Clients : view'[c].states = view[c].states,
         \A t \in Terminals : published'[t] \in {published[t], NoState}
  PROVE  MirrorsFollowRelay'
<1>1. ASSUME NEW c \in Clients, Following(c)'
      PROVE  /\ conn[c].phase = "open"
             /\ Honest(<<>>, c) /\ conn'[c].control = conn[c].control \o <<>>
  <2>1. conn'[c].control = conn[c].control /\ conn[c].phase = "open" /\ conn[c].scoped
    BY <1>1 DEF SameQueues, Following
  <2>2. conn[c].control \o <<>> = conn[c].control
    BY LooksAreTyped, ConcatEmptySeq DEF Connection
  <2>3. <<>> \in Seq(Messages)
    BY EmptySeq
  <2>4. QED
    BY <2>1, <2>2, <2>3, TrueAlready DEF Honest
<1>2. QED
  BY <1>1, HonestMirror

(* A handler that relays one terminal. *)
LEMMA RelayMirror ==
  ASSUME Inv, MirrorsFollowRelay, Drifts, NEW t \in Terminals, NEW lt, Sound(lt),
         NEW cn, SameQueues(cn), NEW fu, NEW more \in Queues,
         \A c \in Clients, u \in Terminals : True(more[c], u, published'[u]),
         Relay(t, lt, cn, fu, more), UNCHANGED view
  PROVE  MirrorsFollowRelay'
<1> DEFINE lv == [live EXCEPT ![t] = lt]
           q == Both(Broadcast(Reconciled(t, lt)), more)
<1>1. published \in [Terminals -> MaybeState]
  BY DEF Inv, Rest
<1>2. /\ published'[t] = StateOf(lt)
      /\ \A u \in Terminals : u # t => published'[u] = published[u]
  BY <1>1 DEF Relay
<1>3. \A u \in Terminals : lv[u] = IF u = t THEN lt ELSE live[u]
  BY LiveTyped
<1>4. lv \in [Terminals -> Terminal] /\ \A u \in Terminals : Sound(lv[u])
  BY <1>3, LiveTyped DEF Sound
<1>5. Finish(lv, cn, attachments, fu, q, {})
  BY DEF Relay
<1>6. ASSUME NEW c \in Clients, cn[c].scoped
      PROVE  Honest(q[c], c)
  <2>1. conn[c].scoped
    BY <1>6 DEF SameQueues
  <2>2. Reconciled(t, lt) \in Seq(Messages)
    BY <1>1, ReconciledType DEF Sound
  <2>3. \A u \in Terminals : True(Reconciled(t, lt), u, published'[u])
    BY <1>2, TrueAlready, TrueAbout DEF Reconciled
  <2>4. published'[t] # published[t] => Mentions(Reconciled(t, lt), t)
    <3>1. Mentions(<<About("state", t, lt)>>, t)
      BY TrueAbout
    <3>2. QED
      BY <1>2, <3>1 DEF Reconciled
  <2>5. \A u \in Terminals : /\ q[c] \in Seq(Messages)
                             /\ True(q[c], u, published'[u])
                             /\ Mentions(Reconciled(t, lt), u) => Mentions(q[c], u)
    BY <2>1, <2>2, <2>3, MoreBehindBroadcast
  <2> HIDE DEF q
  <2>6. QED
    BY <1>1, <1>2, <2>1, <2>4, <2>5 DEF Honest
<1> HIDE DEF q, lv
<1>7. HonestQueues(cn, q)
  BY <1>6 DEF HonestQueues
<1>8. QED
  BY <1>4, <1>5, <1>7, FinishMirror DEF SameQueues

(* The connections that handlers hand to Finish. *)
LEMMA ConnSameQueues == ASSUME Inv PROVE SameQueues(conn)
BY LooksAreTyped DEF SameQueues

LEMMA OneSameQueues ==
  ASSUME Inv, NEW cn, SameQueues(cn), NEW c \in Clients, NEW k \in Connection,
         k.control = cn[c].control, k.phase = cn[c].phase, k.scoped = cn[c].scoped
  PROVE  SameQueues([cn EXCEPT ![c] = k])
BY DEF SameQueues

LEMMA RequestSameQueues ==
  ASSUME Inv, NEW c \in Clients, NEW r \in Requests \cup {NoRequest}
  PROVE  SameQueues([conn EXCEPT ![c].request = r])
<1> DEFINE k == [conn[c] EXCEPT !.request = r]
<1>1. conn[c] \in Connection
  BY LooksAreTyped
<1>2. /\ k \in Connection /\ k.control = conn[c].control /\ k.phase = conn[c].phase
      /\ k.scoped = conn[c].scoped
  BY <1>1 DEF Connection
<1> HIDE DEF k
<1>3. SameQueues([conn EXCEPT ![c] = k])
  BY <1>2, ConnSameQueues, OneSameQueues
<1>4. QED
  BY <1>3 DEF k

LEMMA TakenSameQueues ==
  ASSUME Inv, NEW c \in Clients
  PROVE  SameQueues(Taken(c))
BY RequestSameQueues DEF Taken

LEMMA ReattachedSameQueues ==
  ASSUME Inv, NEW c \in Clients, NEW as \in SUBSET Terminals, NEW rs \in SUBSET Terminals
  PROVE  SameQueues(Reattached(Taken(c), c, as, rs))
<1> DEFINE cn == Taken(c)
           k == [cn[c] EXCEPT !.attached = as, !.rendering = rs]
<1>1. SameQueues(cn)
  BY TakenSameQueues
<1> HIDE DEF cn
<1>2. cn[c] \in Connection
  BY <1>1 DEF SameQueues
<1>3. /\ k \in Connection /\ k.control = cn[c].control /\ k.phase = cn[c].phase
      /\ k.scoped = cn[c].scoped
  BY <1>2 DEF Connection
<1>4. Reattached(cn, c, as, rs) = [cn EXCEPT ![c] = k]
  BY <1>1 DEF Reattached, SameQueues
<1> HIDE DEF k
<1>5. SameQueues([cn EXCEPT ![c] = k])
  BY <1>1, <1>3, OneSameQueues
<1>6. QED
  BY <1>4, <1>5 DEF cn

LEMMA OutputSameQueues ==
  ASSUME Inv, NEW c \in Clients, NEW out \in Seq(Terminals)
  PROVE  SameQueues([conn EXCEPT ![c].output = out])
<1> DEFINE k == [conn[c] EXCEPT !.output = out]
<1>1. conn[c] \in Connection
  BY LooksAreTyped
<1>2. /\ k \in Connection /\ k.control = conn[c].control /\ k.phase = conn[c].phase
      /\ k.scoped = conn[c].scoped
  BY <1>1 DEF Connection
<1> HIDE DEF k
<1>3. SameQueues([conn EXCEPT ![c] = k])
  BY <1>2, ConnSameQueues, OneSameQueues
<1>4. QED
  BY <1>3 DEF k

LEMMA DeliveredSameQueues ==
  ASSUME Inv, NEW t \in Terminals, NEW c \in Clients
  PROVE  SameQueues(Delivered(t, c))
<1>1. Append(conn[c].output, t) \in Seq(Terminals)
  BY LooksAreTyped, AppendProperties DEF Connection
<1>2. QED
  BY <1>1, OutputSameQueues DEF Delivered

LEMMA PumpControlMirror ==
  ASSUME Inv, MirrorsFollowRelay, Drifts, NEW c \in Clients, PumpControl(c)
  PROVE  MirrorsFollowRelay'
<1> DEFINE m == Head(conn[c].control)
<1>1. /\ conn[c].control # <<>> /\ UNCHANGED <<live, registry, published>>
      /\ conn' = [conn EXCEPT ![c].control = Tail(@)]
      /\ view' = [view EXCEPT ![c] = Applied(view[c], m)]
  BY DEF PumpControl
<1>2. conn[c].control \in Seq(Messages) /\ m \in Messages
  BY <1>1, LooksAreTyped, HeadTailProperties DEF Connection
<1>3. ASSUME NEW d \in Clients
      PROVE  SnapshotsTo(d) = {} /\ (Following(d)' => Following(d))
  <2>1. conn'[d].control = IF d = c THEN Tail(conn[c].control) ELSE conn[d].control
    BY <1>1, LooksAreTyped DEF Connection
  <2>2. conn[d].control \in Seq(Messages)
    BY LooksAreTyped DEF Connection
  <2> DEFINE queue == conn[d].control
             rest == conn'[d].control
  <2>3. \A i \in DOMAIN rest : i \in Nat /\ i <= Len(queue)
    <3>1. rest = queue \/ (queue # <<>> /\ rest = Tail(queue))
      BY <1>1, <2>1
    <3> HIDE DEF queue, rest
    <3>2. queue \in Seq(Messages)
      BY <2>2 DEF queue
    <3>3. rest \in Seq(Messages) /\ Len(rest) <= Len(queue)
      BY <3>1, <3>2, HeadTailProperties, LenProperties, EmptySeq
    <3>4. QED
      BY <3>2, <3>3, LenProperties
  <2>4. Following(d)' => Following(d)
    BY <1>1, LooksAreTyped DEF Following, Connection
  <2>5. \A i \in DOMAIN conn'[d].control : ~(i > Len(conn[d].control))
    BY <2>2, <2>3, LenProperties
  <2>6. QED
    BY <2>4, <2>5 DEF SnapshotsTo
<1>4. ASSUME NEW t \in Terminals, NEW d \in Clients, Following(d)', published[t] # NoState,
             t \notin drift'[d]
      PROVE  Believes(d, t, published[t])'
  <2>1. Following(d) /\ t \notin drift[d]
    BY <1>1, <1>3, <1>4, DriftsMeans
  <2>2. Comes(conn[d].control, view[d].states[t], t, published[t])
    BY <1>4, <2>1, BelievesComes DEF MirrorsFollowRelay
  <2>3. CASE d = c
    <3>1. conn'[c].control = Tail(conn[c].control)
      BY <1>1, LooksAreTyped DEF Connection
    <3>2. view'[c] = Applied(view[c], m) /\ view[c] \in View
      BY <1>1 DEF Inv, Rest
    <3> HIDE DEF m
    <3>3. view'[c].states[t] = IF Tells(m, t) THEN Told(m, t) ELSE view[c].states[t]
      BY <1>2, <3>2, AppliedTells
    <3>4. Comes(Tail(conn[c].control), IF Tells(m, t) THEN Told(m, t) ELSE view[c].states[t],
                t, published[t])
      BY <1>1, <1>2, <2>2, <2>3, ComesNext DEF m
    <3>5. QED
      BY <1>1, <2>3, <3>1, <3>3, <3>4 DEF Believes, Comes
  <2>4. CASE d # c
    <3>1. conn'[d] = conn[d] /\ view'[d] = view[d]
      BY <1>1, <2>4, LooksAreTyped DEF Inv, Rest
    <3>2. QED
      BY <1>1, <2>2, <3>1 DEF Believes, Comes
  <2>5. QED
    BY <2>3, <2>4
<1>5. QED
  BY <1>1, <1>4 DEF MirrorsFollowRelay

LEMMA ConnectionStepsMirror ==
  ASSUME Inv, MirrorsFollowRelay, Drifts, NEW c \in Clients,
         \/ Close(c)
         \/ \E r \in Requests : ReadRequest(c, r)
         \/ \E t \in Terminals : ReadInput(c, t)
         \/ PumpOutput(c)
  PROVE  MirrorsFollowRelay'
<1>0. SameQueues(conn)
  BY ConnSameQueues
<1>1. CASE Close(c)
  <2>1. Finish(live, conn, attachments, full, Quiet, {c})
    BY <1>1 DEF Close
  <2>2. UNCHANGED <<view, published, registry>>
    BY <1>1 DEF Close
  <2>3. QED
    BY <1>0, <2>1, <2>2, RepliesAre, FinishLiveMirror
<1>2. ASSUME NEW r \in Requests, ReadRequest(c, r) PROVE MirrorsFollowRelay'
  <2>1. PICK w : view' = [view EXCEPT ![c].watching = w]
    BY <1>2 DEF ReadRequest
  <2>2. \A d \in Clients : view'[d].states = view[d].states
    BY <2>1 DEF Inv, Rest, View
  <2>3. UNCHANGED <<registry, published>> /\ conn' = [conn EXCEPT ![c].request = r]
    BY <1>2 DEF ReadRequest
  <2>4. SameQueues(conn')
    BY <2>3, RequestSameQueues
  <2>5. QED
    BY <2>2, <2>3, <2>4, StillMirror
<1>3. ASSUME NEW t \in Terminals, ReadInput(c, t) PROVE MirrorsFollowRelay'
  <2>1. UNCHANGED <<view, registry>>
    BY <1>3 DEF ReadInput
  <2>2. CASE t \notin registry
    <3>1. Finish(live, conn, attachments, full, Quiet, {c}) /\ UNCHANGED published
      BY <1>3, <2>2 DEF ReadInput
    <3>2. QED
      BY <1>0, <2>1, <3>1, RepliesAre, FinishLiveMirror
  <2>3. CASE t \in registry
    <3>1. PICK lt \in {Typed(live[t]), live[t]} : Relay(t, lt, conn, full, Quiet)
      BY <1>3, <2>3 DEF ReadInput
    <3>2. Sound(lt)
      BY LiveTyped, TypedSound
    <3>3. \A d \in Clients, u \in Terminals : True(Quiet[d], u, published'[u])
      BY TrueAlready DEF Quiet
    <3>4. QED
      BY <1>0, <2>1, <2>3, <3>1, <3>2, <3>3, QuietType, RelayMirror
  <2>4. QED
    BY <2>2, <2>3
<1>4. CASE PumpOutput(c)
  <2> DEFINE popped == [conn EXCEPT ![c].output = Tail(@)]
  <2>1. PICK gone \in SUBSET Clients : Finish(live, popped, attachments, full, Quiet, gone)
    BY <1>4 DEF PumpOutput
  <2>2. Tail(conn[c].output) \in Seq(Terminals)
    BY <1>4, LooksAreTyped, HeadTailProperties DEF PumpOutput, Connection
  <2>3. SameQueues(popped)
    BY <2>2, OutputSameQueues
  <2> HIDE DEF popped
  <2>4. UNCHANGED <<view, published, registry>>
    BY <1>4 DEF PumpOutput
  <2>5. QED
    BY <2>1, <2>3, <2>4, RepliesAre, FinishLiveMirror
<1>5. QED
  BY <1>1, <1>2, <1>3, <1>4

(* A snapshot queued first says what was published of what c has not       *)
(* drifted on.                                                             *)
SnapshotNow == Snapshot(live, registry, listed)

LEMMA SnapshotIsTrue ==
  ASSUME Inv, Drifts, NEW c \in Clients, NEW more \in Seq(Messages),
         conn'[c].control = conn[c].control \o (<<SnapshotNow>> \o more),
         NEW t \in Terminals, t \notin drift'[c]
  PROVE  /\ <<SnapshotNow>> \in Seq(Messages)
         /\ True(<<SnapshotNow>>, t, published'[t])
         /\ Mentions(<<SnapshotNow>>, t)
<1>1. SnapshotNow \in Messages
  BY SnapshotType, LiveTyped DEF SnapshotNow, Inv, Rest
<1>2. SnapshotNow.type = "snapshot"
  BY DEF SnapshotNow, Snapshot
<1>3. published'[t] = SnapshotNow.states[t]
  <2> DEFINE queue == conn[c].control
             longer == conn'[c].control
             m == SnapshotNow
             i == Len(queue) + 1
  <2>1. queue \in Seq(Messages) /\ m \in Messages /\ longer = queue \o (<<m>> \o more)
    BY <1>1, LooksAreTyped DEF Connection
  <2> HIDE DEF queue, longer, m
  <2>2. /\ <<m>> \in Seq(Messages) /\ Len(<<m>>) = 1 /\ <<m>>[1] = m
    BY <2>1
  <2>3. /\ <<m>> \o more \in Seq(Messages) /\ Len(<<m>> \o more) = 1 + Len(more)
        /\ (<<m>> \o more)[1] = m
    BY <2>2, ConcatProperties, LenProperties
  <2>4. /\ DOMAIN longer = 1..(Len(queue) + 1 + Len(more)) /\ longer[i] = m
        /\ Len(queue) \in Nat /\ Len(more) \in Nat
    BY <2>1, <2>3, ConcatProperties, LenProperties
  <2>5. i \in DOMAIN longer /\ i > Len(queue)
    BY <2>4
  <2>6. i \in SnapshotsTo(c)
    BY <1>2, <2>4, <2>5 DEF SnapshotsTo, queue, longer, m
  <2>7. longer[i].states[t] = published'[t]
    BY <2>6, DriftsMeans DEF longer
  <2>8. QED
    BY <2>4, <2>7 DEF m
<1>4. Len(<<SnapshotNow>>) = 1 /\ <<SnapshotNow>>[1] = SnapshotNow
  OBVIOUS
<1> DEFINE m == SnapshotNow
<1>5. Tells(m, t) /\ Told(m, t) = published'[t]
  BY <1>2, <1>3 DEF Tells, Told
<1>6. QED
  BY <1>1, <1>4, <1>5 DEF True, Mentions

LEMMA SubscribeMirror ==
  ASSUME Inv, MirrorsFollowRelay, Drifts, NEW c \in Clients, Subscribe(c, Taken(c)), UNCHANGED view
  PROVE  MirrorsFollowRelay'
<1> DEFINE cn == [Taken(c) EXCEPT ![c].scoped = TRUE]
           k == [Taken(c)[c] EXCEPT !.scoped = TRUE]
           ms == <<SnapshotNow, Reply>>
           q == To(c, ms)
<1>1. UNCHANGED <<published, registry>>
  BY DEF Subscribe
<1>2. Finish(live, cn, attachments, full, q, {})
  BY DEF Subscribe, SnapshotNow
<1>3. SameQueues(Taken(c))
  BY TakenSameQueues
<1>4. /\ k \in Connection /\ k.control = Taken(c)[c].control /\ k.phase = Taken(c)[c].phase
  BY <1>3 DEF Connection, SameQueues
<1>5. cn = [Taken(c) EXCEPT ![c] = k]
  BY <1>3 DEF SameQueues
<1> HIDE DEF k
<1>6. /\ cn \in [Clients -> Connection]
      /\ \A d \in Clients : cn[d].control = conn[d].control /\ cn[d].phase = conn[d].phase
      /\ \A d \in Clients : d # c => cn[d].scoped = conn[d].scoped
  BY <1>3, <1>4, <1>5 DEF SameQueues
<1> HIDE DEF cn
<1>7. ASSUME conn'[c].control = conn[c].control \o ms PROVE Honest(ms, c)
  <2>1. ms = <<SnapshotNow>> \o <<Reply>>
    OBVIOUS
  <2>2. <<Reply>> \in Seq(Messages)
    BY ReplyType
  <2>3. ASSUME NEW t \in Terminals, t \notin drift'[c]
        PROVE  /\ <<SnapshotNow>> \in Seq(Messages)
               /\ True(ms, t, published'[t]) /\ Mentions(ms, t)
    <3>1. /\ <<SnapshotNow>> \in Seq(Messages)
          /\ True(<<SnapshotNow>>, t, published'[t]) /\ Mentions(<<SnapshotNow>>, t)
      BY <1>7, <2>1, <2>2, <2>3, SnapshotIsTrue
    <3>2. True(<<Reply>>, t, published'[t])
      BY TrueAlready
    <3> DEFINE one == <<SnapshotNow>>
               two == <<Reply>>
               state == published'[t]
    <3> HIDE DEF one, two, state
    <3>3. /\ one \in Seq(Messages) /\ two \in Seq(Messages)
          /\ True(one, t, state) /\ Mentions(one, t) /\ True(two, t, state)
      BY <2>2, <3>1, <3>2 DEF one, two, state
    <3>4. True(one \o two, t, state) /\ Mentions(one \o two, t)
      BY <3>3, TrueBoth
    <3>5. ms = one \o two
      BY <2>1 DEF one, two
    <3>6. QED
      BY <3>3, <3>4, <3>5 DEF one, state
  <2>4. ms \in Seq(Messages)
    <3>1. SnapshotNow \in Messages
      BY SnapshotType, LiveTyped DEF SnapshotNow, Inv, Rest
    <3>2. QED
      BY <3>1, ReplyType
  <2>5. QED
    BY <2>3, <2>4 DEF Honest
<1>8. q[c] = ms /\ \A d \in Clients : d # c => q[d] = <<>>
  BY DEF To
<1> HIDE DEF q, ms
<1>9. HonestQueues(cn, q)
  BY <1>1, <1>6, <1>7, <1>8, RepliesHonest DEF HonestQueues
<1>10. QED
  BY <1>2, <1>6, <1>9, LiveTyped, FinishMirror

LEMMA ViewportsMirror ==
  ASSUME Inv, MirrorsFollowRelay, Drifts, NEW c \in Clients, NEW t \in Terminals, UNCHANGED view,
         \/ \E v \in Sizes : AttachViewport(c, t, v, Taken(c)) \/ Resize(c, t, v, Taken(c))
         \/ Detach(c, t, Taken(c))
         \/ AttachInput(c, t, Taken(c))
  PROVE  MirrorsFollowRelay'
<1>0. /\ Taken(c)[c].attached \in SUBSET Terminals /\ Taken(c)[c].rendering \in SUBSET Terminals
      /\ SameQueues(Taken(c))
  BY TakenSameQueues DEF SameQueues, Connection
<1>1. ASSUME NEW v \in Sizes, AttachViewport(c, t, v, Taken(c)) PROVE MirrorsFollowRelay'
  <2> DEFINE as == Taken(c)[c].attached \cup {t}
             rs == Taken(c)[c].rendering \cup {t}
             cn == Reattached(Taken(c), c, as, rs)
             lt == Attached(live[t], c, v)
  <2>1. PICK at, fu : Finish([live EXCEPT ![t] = lt], cn, at, fu, To(c, <<Reply>>), {})
    BY <1>1 DEF AttachViewport, Reattached
  <2>2. Sound(lt)
    BY LiveTyped, AttachedSound
  <2>3. UNCHANGED <<published, registry>>
    BY <1>1 DEF AttachViewport
  <2>4. as \in SUBSET Terminals /\ rs \in SUBSET Terminals
    BY <1>0
  <2> HIDE DEF as, rs, lt
  <2>5. SameQueues(cn)
    BY <2>4, ReattachedSameQueues
  <2> HIDE DEF cn
  <2>6. QED
    BY <2>1, <2>2, <2>3, <2>5, RepliesAre, FinishOneMirror
<1>2. ASSUME NEW v \in Sizes, Resize(c, t, v, Taken(c)) PROVE MirrorsFollowRelay'
  <2> DEFINE lt == Attached(live[t], c, v)
             lv == IF t \in registry /\ t \in conn[c].rendering
                   THEN [live EXCEPT ![t] = lt] ELSE live
  <2>1. Finish(lv, Taken(c), attachments, full, Quiet, {}) /\ UNCHANGED <<published, registry>>
    BY <1>2 DEF Resize
  <2>2. Sound(lt)
    BY LiveTyped, AttachedSound
  <2> HIDE DEF lt
  <2>3. CASE t \in registry /\ t \in conn[c].rendering
    BY <1>0, <2>1, <2>2, <2>3, RepliesAre, FinishOneMirror
  <2>4. CASE ~(t \in registry /\ t \in conn[c].rendering)
    BY <1>0, <2>1, <2>4, RepliesAre, FinishLiveMirror
  <2>5. QED
    BY <2>3, <2>4
<1>3. CASE Detach(c, t, Taken(c))
  <2> DEFINE as == Taken(c)[c].attached \ {t}
             rs == Taken(c)[c].rendering \ {t}
             cn == Reattached(Taken(c), c, as, rs)
             lt == Detached(live[t], c)
             lv == IF t \in registry THEN [live EXCEPT ![t] = lt] ELSE live
  <2>1. PICK at, fu : Finish(lv, cn, at, fu, To(c, <<Reply>>), {})
    BY <1>3 DEF Detach, Reattached
  <2>2. Sound(lt)
    BY LiveTyped, DetachedSound
  <2>3. UNCHANGED <<published, registry>>
    BY <1>3 DEF Detach
  <2>4. as \in SUBSET Terminals /\ rs \in SUBSET Terminals
    BY <1>0
  <2> HIDE DEF as, rs, lt
  <2>5. SameQueues(cn)
    BY <2>4, ReattachedSameQueues
  <2> HIDE DEF cn
  <2>6. CASE t \in registry
    BY <2>1, <2>2, <2>3, <2>5, <2>6, RepliesAre, FinishOneMirror
  <2>7. CASE t \notin registry
    BY <2>1, <2>3, <2>5, <2>7, RepliesAre, FinishLiveMirror
  <2>8. QED
    BY <2>6, <2>7
<1>4. CASE AttachInput(c, t, Taken(c))
  <2> DEFINE as == Taken(c)[c].attached \cup {t}
             rs == Taken(c)[c].rendering
             cn == Reattached(Taken(c), c, as, rs)
             asked == [Taken(c) EXCEPT ![c].attached = @ \cup {t}]
  <2>1. Finish(live, asked, attachments, full, To(c, <<Reply>>), {})
        /\ UNCHANGED <<published, registry>>
    BY <1>4 DEF AttachInput, Answered
  <2>2. asked = cn
    <3> DEFINE k == Taken(c)[c]
    <3>1. [k EXCEPT !.attached = as] = [k EXCEPT !.attached = as, !.rendering = rs]
      BY <1>0 DEF SameQueues, Connection
    <3>2. asked = [Taken(c) EXCEPT ![c] = [k EXCEPT !.attached = as]]
      BY <1>0 DEF SameQueues
    <3>3. cn = [Taken(c) EXCEPT ![c] = [k EXCEPT !.attached = as, !.rendering = rs]]
      BY <1>0 DEF SameQueues, Reattached
    <3> HIDE DEF asked, cn, as, rs, k
    <3>4. QED
      BY <3>1, <3>2, <3>3
  <2>3. as \in SUBSET Terminals /\ rs \in SUBSET Terminals
    BY <1>0
  <2> HIDE DEF as, rs, asked
  <2>4. SameQueues(cn)
    BY <2>3, ReattachedSameQueues
  <2> HIDE DEF cn
  <2>5. QED
    BY <2>1, <2>2, <2>4, RepliesAre, FinishLiveMirror
<1>5. QED
  BY <1>1, <1>2, <1>3, <1>4

LEMMA StartedMirror ==
  ASSUME Inv, MirrorsFollowRelay, Drifts, NEW c, NEW t \in Terminals, NEW before, Sound(before),
         NEW cn, SameQueues(cn), NEW awaited, Started(c, t, before, cn, awaited),
         UNCHANGED <<view, published>>
  PROVE  MirrorsFollowRelay'
<1>1. PICK lt \in Starts(before), q \in {Quiet, To(c, <<Reply>>)} :
        Finish([live EXCEPT ![t] = lt], cn, attachments, full, q, {})
  BY DEF Started
<1>2. Sound(lt) /\ Replies(q)
  BY StartsSound, RepliesAre
<1>3. QED
  BY <1>1, <1>2, FinishOneMirror

LEMMA RemoveMirror ==
  ASSUME Inv, MirrorsFollowRelay, Drifts, NEW c \in Clients, NEW t \in Terminals,
         Remove(c, t, Taken(c)), UNCHANGED view
  PROVE  MirrorsFollowRelay'
<1>1. /\ conn' = Taken(c)
      /\ published' = [published EXCEPT ![t] = IF t \in registry THEN NoState ELSE @]
  BY DEF Remove
<1>2. published \in [Terminals -> MaybeState]
  BY DEF Inv, Rest
<1>3. \A u \in Terminals : published'[u] \in {published[u], NoState}
  BY <1>1, <1>2
<1>4. SameQueues(conn')
  BY <1>1, TakenSameQueues
<1>5. QED
  BY <1>3, <1>4, StillMirror

LEMMA DispatchMirror ==
  ASSUME Inv, MirrorsFollowRelay, Drifts, NEW c \in Clients, Dispatch(c)
  PROVE  MirrorsFollowRelay'
<1>0. SameQueues(Taken(c)) /\ UNCHANGED view
  BY TakenSameQueues, DispatchCases
<1>1. CASE Answered(c, Taken(c))
  <2>1. Finish(live, Taken(c), attachments, full, To(c, <<Reply>>), {})
        /\ UNCHANGED <<published, registry>>
    BY <1>1 DEF Answered
  <2>2. QED
    BY <1>0, <2>1, RepliesAre, FinishLiveMirror
<1>2. ASSUME NEW t \in Terminals, NEW unread \in BOOLEAN, Mark(c, t, unread, Taken(c))
      PROVE  MirrorsFollowRelay'
  <2>1. /\ t \in registry /\ UNCHANGED registry
        /\ Relay(t, Marked(live[t], unread), Taken(c), full, To(c, <<Reply>>))
    BY <1>2 DEF Mark
  <2>2. Sound(Marked(live[t], unread))
    BY LiveTyped, MarkedSound
  <2>3. \A d \in Clients, u \in Terminals : True(To(c, <<Reply>>)[d], u, published'[u])
    BY TrueAlready DEF To
  <2>4. QED
    BY <1>0, <2>1, <2>2, <2>3, ReplyQueueType, RelayMirror
<1>3. ASSUME NEW t \in Terminals, Stop(c, t, Taken(c)) PROVE MirrorsFollowRelay'
  <2>1. /\ UNCHANGED <<published, registry>>
        /\ Finish([live EXCEPT ![t] = Stopped(live[t])], Taken(c), attachments, full,
                  To(c, <<Reply>>), {})
    BY <1>3 DEF Stop
  <2>2. Sound(Stopped(live[t]))
    BY LiveTyped, StoppedSound
  <2>3. QED
    BY <1>0, <2>1, <2>2, RepliesAre, FinishOneMirror
<1>4. ASSUME NEW t \in Terminals, NEW before \in {live[t], [live[t] EXCEPT !.pty = None]},
             Start(c, t, before, Taken(c))
      PROVE  MirrorsFollowRelay'
  <2>1. Sound(live[t]) /\ live[t] \in Terminal
    BY LiveTyped
  <2>2. Sound(before)
    BY <2>1, MethodsKeepTheGrid, SameGridNegotiated DEF Sound, Terminal
  <2>3. Started(c, t, before, Taken(c), pending) /\ UNCHANGED <<registry, published>>
    BY <1>4 DEF Start
  <2>4. QED
    BY <1>0, <2>2, <2>3, StartedMirror
<1>5. ASSUME NEW t \in Terminals, ResolveLaunch(c, t, Taken(c)) \/ Rename(c, t, Taken(c))
      PROVE  MirrorsFollowRelay'
  <2>1. UNCHANGED published /\ conn' = Taken(c)
    BY <1>5 DEF ResolveLaunch, Rename, Await
  <2>2. QED
    BY <1>0, <2>1, StillMirror
<1>6. QED
  BY <1>0, <1>1, <1>2, <1>3, <1>4, <1>5, DispatchCases, SubscribeMirror, ViewportsMirror,
     RemoveMirror

LEMMA AwaitedMirror ==
  ASSUME Inv, MirrorsFollowRelay, Drifts, NEW p \in pending, Launch(p) \/ Publish(p)
  PROVE  MirrorsFollowRelay'
<1>0. SameQueues(conn) /\ UNCHANGED <<view, published>>
  BY ConnSameQueues DEF Launch, Publish
<1>1. CASE Launch(p)
  <2> DEFINE t == p.terminal
             fresh == [NewTerminal EXCEPT !.run = live[t].run]
  <2>1. t \in Terminals
    BY DEF Inv, Rest, Awaited
  <2>2. CASE t \in registry
    <3>1. UNCHANGED registry /\ Finish(live, conn, attachments, full, To(p.client, <<Reply>>), {})
      BY <1>1, <2>2 DEF Launch
    <3>2. QED
      BY <1>0, <3>1, RepliesAre, FinishLiveMirror
  <2>3. CASE t \notin registry
    <3>1. /\ Started(p.client, t, fresh, conn, pending \ {p})
          /\ registry' = registry \cup {t}
      BY <1>1, <2>3 DEF Launch
    <3>2. Sound(fresh)
      BY <2>1, FreshTerminal
    <3> HIDE DEF fresh, t
    <3>3. QED
      BY <1>0, <2>1, <3>1, <3>2, StartedMirror
  <2>4. QED
    BY <2>2, <2>3
<1>2. CASE Publish(p)
  <2> DEFINE ms == <<SnapshotNow>>
             answer == To(p.client, <<Reply>>)
             told == Both(Broadcast(ms), answer)
             untold == Both(Quiet, answer)
  <2>1. \/ Finish(live, conn, attachments, full, told, {})
        \/ Finish(live, conn, attachments, full, untold, {})
    BY <1>2 DEF Publish, SnapshotNow
  <2>2. CASE Finish(live, conn, attachments, full, untold, {})
    <3>1. untold = answer
      BY ReplyType, EmptySeq, ConcatEmptySeq DEF Both, Quiet, To
    <3>2. QED
      BY <1>0, <2>2, <3>1, RepliesAre, FinishLiveMirror
  <2>3. CASE Finish(live, conn, attachments, full, told, {})
    <3>1. p.client \in Clients
      BY DEF Inv, Rest, Awaited
    <3>2. answer \in Queues /\ \A c \in Clients, t \in Terminals : True(answer[c], t, published'[t])
      BY <3>1, ReplyQueueType, TrueAlready DEF To
    <3>3. ms \in Seq(Messages)
      <4>1. SnapshotNow \in Messages
        BY SnapshotType, LiveTyped DEF SnapshotNow, Inv, Rest
      <4>2. QED
        BY <4>1
    <3>4. \A c \in Clients : conn[c].scoped => told[c] = ms \o answer[c]
      BY DEF Both, Broadcast
    <3>5. ASSUME NEW c \in Clients, conn[c].scoped,
                 conn'[c].control = conn[c].control \o told[c]
          PROVE  Honest(told[c], c)
      <4>1. answer[c] \in Seq(Messages)
        BY <3>2 DEF Queues
      <4>2. ASSUME NEW t \in Terminals, t \notin drift'[c]
            PROVE  True(ms, t, published'[t])
        <5>1. conn'[c].control = conn[c].control \o (<<SnapshotNow>> \o answer[c])
          BY <3>4, <3>5
        <5> HIDE DEF answer
        <5>2. QED
          BY <4>1, <4>2, <5>1, SnapshotIsTrue
      <4> HIDE DEF ms, answer
      <4>3. \A t \in Terminals : t \notin drift'[c] =>
              told[c] \in Seq(Messages) /\ True(told[c], t, published'[t])
        BY <3>2, <3>3, <3>5, <4>2, MoreBehindBroadcast
      <4>4. told[c] \in Seq(Messages)
        BY <3>2, <3>3, BroadcastType, BothType DEF Queues
      <4>5. QED
        BY <1>0, <3>5, <4>3, <4>4 DEF Honest
    <3> HIDE DEF told
    <3>6. HonestQueues(conn, told)
      BY <3>5 DEF HonestQueues
    <3>7. QED
      BY <1>0, <2>3, <3>6, LiveTyped, FinishMirror DEF SameQueues
  <2>4. QED
    BY <2>1, <2>2, <2>3
<1>3. QED
  BY <1>1, <1>2

(* The steps of a tick that send nothing, on the control queue at least. *)
LEMMA SilentTickMirror ==
  ASSUME Inv, MirrorsFollowRelay, Drifts,
         UNCHANGED <<view, published>>, SameQueues(conn')
  PROVE  MirrorsFollowRelay'
BY StillMirror

LEMMA FeedStepsMirror ==
  ASSUME Inv, MirrorsFollowRelay, Drifts, NEW t \in Terminals, FeedSteps(t)
  PROVE  MirrorsFollowRelay'
<1>0. SameQueues(conn) /\ Sound(live[t])
  BY ConnSameQueues, LiveTyped
<1>2. ASSUME NEW lt, Sound(lt), NEW signalled, Reports(t, lt, signalled) PROVE MirrorsFollowRelay'
  <2> DEFINE ms == <<About("attention", t, lt)>>
             more == IF signalled THEN Broadcast(ms) ELSE Quiet
  <2>1. Relay(t, lt, conn, full, more) /\ UNCHANGED view
    BY <1>2 DEF Reports
  <2>2. About("attention", t, lt) \in Messages
    BY <1>2, AboutType DEF Sound
  <2>3. more \in Queues
    <3>1. ms \in Seq(Messages)
      BY <2>2
    <3> HIDE DEF ms
    <3>2. QED
      BY <3>1, QuietType, BroadcastType
  <2>4. published'[t] = StateOf(lt)
    BY <2>1 DEF Relay, Inv, Rest
  <2>5. \A u \in Terminals : True(ms, u, published'[u])
    BY <2>4, TrueAbout
  <2> HIDE DEF ms
  <2>6. \A d \in Clients, u \in Terminals : True(more[d], u, published'[u])
    BY <2>5, TrueAlready DEF Broadcast, Quiet
  <2> HIDE DEF more
  <2>7. QED
    BY <1>0, <1>2, <2>1, <2>3, <2>6, RelayMirror
<1>3. CASE Bell(t)
  BY <1>0, <1>2, <1>3, BelledSound DEF Bell
<1>4. CASE PromptFinished(t)
  BY <1>0, <1>2, <1>4 DEF PromptFinished
<1>5. ASSUME NEW p \in Progresses \cup {None}, Progress(t, p) PROVE MirrorsFollowRelay'
  BY <1>0, <1>2, <1>5, ProgressedSound DEF Progress
<1>6. ASSUME NEW a \in Activities, Activity(t, a) PROVE MirrorsFollowRelay'
  BY <1>0, <1>2, <1>6, ReportedSound DEF Activity
<1>7. CASE Drained(t) \/ DrainThrows(t) \/ ExitUnknown(t)
  <2>1. UNCHANGED <<view, registry, published, conn>>
    BY <1>7 DEF Drained, DrainThrows, ExitUnknown
  <2>2. QED
    BY <1>0, <2>1, SilentTickMirror
<1>8. ASSUME NEW end \in {"exited", "failed"}, StreamEnds(t, end) PROVE MirrorsFollowRelay'
  <2> DEFINE lt == Ended(live[t], end)
             ms == <<About("exited", t, lt)>>
             more == IF end = "exited" THEN Broadcast(ms) ELSE Quiet
  <2>1. Relay(t, lt, conn, full, more) /\ UNCHANGED view
    BY <1>8 DEF StreamEnds
  <2>2. Sound(lt)
    BY <1>0, EndedSound
  <2> HIDE DEF lt
  <2>3. About("exited", t, lt) \in Messages
    BY <2>2, AboutType DEF Sound
  <2>4. more \in Queues
    <3>1. ms \in Seq(Messages)
      BY <2>3
    <3> HIDE DEF ms
    <3>2. QED
      BY <3>1, QuietType, BroadcastType
  <2>5. published'[t] = StateOf(lt)
    BY <2>1 DEF Relay, Inv, Rest
  <2>6. \A u \in Terminals : True(ms, u, published'[u])
    BY <2>5, TrueAbout
  <2> HIDE DEF ms
  <2>7. \A d \in Clients, u \in Terminals : True(more[d], u, published'[u])
    BY <2>6, TrueAlready DEF Broadcast, Quiet
  <2> HIDE DEF more
  <2>8. QED
    BY <1>0, <2>1, <2>2, <2>4, <2>7, RelayMirror
<1>9. QED
  BY <1>3, <1>4, <1>5, <1>6, <1>7, <1>8 DEF FeedSteps

LEMMA PaintStepsMirror ==
  ASSUME Inv, MirrorsFollowRelay, Drifts, NEW t \in Terminals, NEW c \in Clients, PaintSteps(t, c)
  PROVE  MirrorsFollowRelay'
<1>0. SameQueues(conn) /\ SameQueues(Delivered(t, c))
  BY ConnSameQueues, DeliveredSameQueues
<1>1. CASE SkipPaint(t, c) \/ PaintThrows(t, c) \/ PaintDelta(t, c)
  <2>1. UNCHANGED <<view, registry, published>> /\ conn' \in {conn, Delivered(t, c)}
    BY <1>1 DEF SkipPaint, PaintThrows, PaintDelta
  <2>2. QED
    BY <1>0, <2>1, SilentTickMirror
<1>2. CASE PaintFull(t, c)
  <2> DEFINE lt == FullyRepainted(live[t], c)
             cn == IF live[t].emulator THEN Delivered(t, c) ELSE conn
  <2>1. PICK fu : Relay(t, lt, cn, fu, Quiet)
    BY <1>2 DEF PaintFull
  <2>2. UNCHANGED view
    BY <1>2 DEF PaintFull
  <2>3. Sound(lt)
    BY LiveTyped, FullyRepaintedSound
  <2>4. SameQueues(cn)
    BY <1>0
  <2>5. \A d \in Clients, u \in Terminals : True(Quiet[d], u, published'[u])
    BY TrueAlready DEF Quiet
  <2> HIDE DEF lt, cn
  <2>6. QED
    BY <2>1, <2>2, <2>3, <2>4, <2>5, QuietType, RelayMirror
<1>3. CASE PaintOwed(t, c)
  <2> DEFINE lt == FullyRepainted(live[t], c)
  <2>1. /\ Finish([live EXCEPT ![t] = lt], Delivered(t, c), attachments, full, Quiet, {})
        /\ UNCHANGED <<view, registry, published>>
    BY <1>3 DEF PaintOwed
  <2>2. Sound(lt)
    BY LiveTyped, FullyRepaintedSound
  <2> HIDE DEF lt
  <2>3. QED
    BY <1>0, <2>1, <2>2, RepliesAre, FinishOneMirror
<1>4. QED
  BY <1>1, <1>2, <1>3 DEF PaintSteps

LEMMA MirrorKeeps == Inv /\ MirrorsFollowRelay /\ [Next]_vars => MirrorsFollowRelay'
<1> SUFFICES ASSUME Inv, MirrorsFollowRelay, [Next]_vars PROVE MirrorsFollowRelay'
  OBVIOUS
<1>1. CASE UNCHANGED vars
  BY <1>1 DEF vars, MirrorsFollowRelay, Following, Believes
<1>2. CASE Step /\ Drifts
  <2>1. ASSUME NEW c \in Clients, ClientSteps(c) PROVE MirrorsFollowRelay'
    BY <1>2, <2>1, ConnectionStepsMirror, PumpControlMirror, DispatchMirror DEF ClientSteps
  <2>2. ASSUME NEW p \in pending, Launch(p) \/ Publish(p) PROVE MirrorsFollowRelay'
    BY <1>2, <2>2, AwaitedMirror
  <2>3. ASSUME NEW t \in Terminals, FeedSteps(t) PROVE MirrorsFollowRelay'
    BY <1>2, <2>3, FeedStepsMirror
  <2>4. ASSUME NEW t \in Terminals, NEW c \in Clients, PaintSteps(t, c) PROVE MirrorsFollowRelay'
    BY <1>2, <2>4, PaintStepsMirror
  <2>5. ASSUME TickStart \/ PaintStart \/ TickEnd PROVE MirrorsFollowRelay'
    <3>1. UNCHANGED <<view, registry, published, conn>>
      BY <2>5 DEF TickStart, PaintStart, TickEnd
    <3>2. QED
      BY <1>2, <3>1, ConnSameQueues, SilentTickMirror
  <2>6. QED
    BY <1>2, <2>1, <2>2, <2>3, <2>4, <2>5 DEF Step
<1>3. QED
  BY <1>1, <1>2 DEF Next

(* Whatever a subscribed client has read and has queued, it ends up         *)
(* believing the state the relay last published of a terminal, unless the   *)
(* last snapshot it was sent said another: state frames that are left out   *)
(* because the signature did not move, exits, removals and subscriptions    *)
(* made in between never leave it with an older one.                        *)
THEOREM MirrorsAreNotLeftBehind == Spec => []MirrorsFollowRelay
<1>1. Init => MirrorsFollowRelay
  BY DEF Init, MirrorsFollowRelay
<1>2. QED
  BY <1>1, SpecInv, MirrorKeeps, PTL DEF Spec
=============================================================================
