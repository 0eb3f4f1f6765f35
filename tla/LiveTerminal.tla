---------------------------- MODULE LiveTerminal ----------------------------
(***************************************************************************)
(* One terminal held by the daemon: PtyLiveTerminal of                     *)
(* packages/terminal/src/live-terminal.ts, as a record and one operator    *)
(* per method.  The module has no behaviour of its own; TerminalServer     *)
(* keeps one record per terminal and applies these operators in its steps. *)
(*                                                                         *)
(* Abstractions.  A grid is one dimension: columns and rows are negotiated *)
(* separately by the same minimum.  An exit code, a failure message and a  *)
(* progress percentage are one value each: two ends, or two reports, that  *)
(* read alike are the case the relay has to tell apart.  Cells, revisions  *)
(* and delta contents are the business of ScreenRepaint.                   *)
(***************************************************************************)
EXTENDS Naturals, FiniteSets

CONSTANTS Clients,      \* the connections a terminal may be shown to
          MaxSize,      \* grids are 1..MaxSize
          InitialSize,  \* the launch's size, used while nobody is attached
          Activities,   \* the agent activities reported, of those below
          Progresses,   \* the progress reports
          MaxRuns       \* bound on the number of processes a terminal runs

None == "none"

ASSUME LiveTerminalAssumption ==
  /\ MaxSize \in Nat \ {0}
  /\ InitialSize \in 1..MaxSize
  /\ Activities \subseteq {"working", "waiting", "finished"}
  /\ None \notin Progresses
  /\ MaxRuns \in Nat

Sizes == 1..MaxSize

(* A TerminalState on the wire; relay signatures tell these apart exactly. *)
States ==
  [kind : {"idle", "exited", "failed", "running", "needsAttention"},
   activity : Activities \cup {None},
   progress : Progresses \cup {None}]

(* pty: no process; a process whose stream may still deliver; a stream     *)
(* that ended or was closed, whose exit is not yet observed by drain().    *)
(* views[c] = 0 stands for a client absent from the clients map.           *)
Terminal ==
  [pty : {None, "open", "ended"},
   run : 0..MaxRuns,
   emulator : BOOLEAN,
   size : 0..MaxSize,
   end : {None, "exited", "failed"},
   attention : BOOLEAN,
   activity : Activities \cup {None},
   progress : Progresses \cup {None},
   views : [Clients -> 0..MaxSize],
   owes : SUBSET Clients]

NewTerminal ==
  [pty |-> None, run |-> 0, emulator |-> FALSE, size |-> 0, end |-> None,
   attention |-> FALSE, activity |-> None, progress |-> None,
   views |-> [c \in Clients |-> 0], owes |-> {}]

Viewers(lt) == {c \in Clients : lt.views[c] # 0}

StateOf(lt) ==
  LET Bare(kind) == [kind |-> kind, activity |-> None, progress |-> None] IN
  CASE lt.end # None -> Bare(lt.end)
    [] lt.end = None /\ lt.pty = None -> Bare("idle")
    [] lt.end = None /\ lt.pty # None /\ lt.attention ->
         [Bare("needsAttention") EXCEPT !.activity = lt.activity]
    [] OTHER ->
         [kind |-> "running", activity |-> lt.activity, progress |-> lt.progress]

IsLive(lt) == StateOf(lt).kind \in {"running", "needsAttention"}

(***************************************************************************)
(* Size negotiation.                                                       *)
(***************************************************************************)

(* The smallest of the attached viewports; the source throws on none. *)
NegotiatedSize(views) ==
  CHOOSE n \in Sizes : /\ \E c \in Clients : views[c] = n
                       /\ \A c \in Clients : views[c] # 0 => n <= views[c]

(* While anybody is attached, the emulator has the negotiated size. *)
Negotiated(lt) ==
  lt.emulator /\ Viewers(lt) # {} => lt.size = NegotiatedSize(lt.views)

(* Mutation: the clients already attached owe nothing when the grid moves. *)
ResizedQuietly(lt, n) == IF lt.emulator THEN [lt EXCEPT !.size = n] ELSE lt

(* applySize: a grid that moves makes every attached client owe a repaint. *)
Resized(lt, n) ==
  IF lt.emulator /\ lt.size # n
  THEN [lt EXCEPT !.size = n, !.owes = Viewers(lt)]
  ELSE lt

(* attach(), which is also what a resize calls: a new client, and one whose *)
(* viewport was overruled by a smaller one, owe a full repaint.             *)
Attached(lt, c, v) ==
  LET known  == [lt EXCEPT !.views[c] = v]
      n      == NegotiatedSize(known.views)
      sized  == Resized(known, n)
  IN  IF lt.views[c] = 0 \/ n # v
      THEN [sized EXCEPT !.owes = @ \cup {c}]
      ELSE sized

Detached(lt, c) ==
  LET left == [lt EXCEPT !.views[c] = 0, !.owes = @ \ {c}] IN
  IF Viewers(left) = {} THEN left ELSE Resized(left, NegotiatedSize(left.views))

(***************************************************************************)
(* The process.                                                            *)
(***************************************************************************)

(* start() forgets everything the last process reported before it spawns;  *)
(* a spawn that fails leaves no emulator and a failed terminal.            *)
Forgotten(lt) ==
  [lt EXCEPT !.pty = None, !.end = None, !.attention = FALSE,
             !.activity = None, !.progress = None,
             !.emulator = FALSE, !.size = 0]

Spawned(lt) ==
  [Forgotten(lt) EXCEPT
     !.pty = "open", !.run = lt.run + 1, !.emulator = TRUE,
     !.size = IF Viewers(lt) = {} THEN InitialSize ELSE NegotiatedSize(lt.views)]

SpawnFailed(lt) == [Forgotten(lt) EXCEPT !.end = "failed"]

(* stop() closes the descriptor and returns; drain() observes the end. *)
Stopped(lt) == IF lt.pty = None THEN lt ELSE [lt EXCEPT !.pty = "ended"]

(* observeStreamEnd, once the end is known: a read failure or an exit. *)
Ended(lt, end) == [lt EXCEPT !.pty = None, !.end = end, !.progress = None]

(***************************************************************************)
(* What output and clients do to the state.                                *)
(***************************************************************************)

Belled(lt) == [lt EXCEPT !.attention = TRUE]

Progressed(lt, p) == [lt EXCEPT !.progress = p]

Reported(lt, a) == [lt EXCEPT !.activity = a, !.attention = (a # "working")]

(* send() and markAttention(). *)
Typed(lt) == [lt EXCEPT !.attention = FALSE]
Marked(lt, raised) == [lt EXCEPT !.attention = raised]

(* fullRepaintFor: looking lowers the flag, unless an agent is waiting. *)
FullyRepainted(lt, c) ==
  IF lt.emulator
  THEN [lt EXCEPT !.owes = @ \ {c},
                  !.attention = (lt.activity = "waiting" /\ lt.attention)]
  ELSE lt
=============================================================================
