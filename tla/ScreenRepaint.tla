--------------------------- MODULE ScreenRepaint ---------------------------
(***************************************************************************)
(* What a client's screen becomes when it is repainted from a revision it  *)
(* has: HeadlessEmulator of packages/terminal/src/headless-emulator.ts.    *)
(* The emulator keeps, beside the library's screen, a shadow of its packed *)
(* cells, the revision each row last changed at, a ring of how far each    *)
(* recent revision scrolled, and a floor below which a delta cannot start. *)
(*                                                                         *)
(* Abstractions.  A row is one cell: rows are compared, marked and sent    *)
(* whole.  What bytes do to the library's screen is any change that agrees *)
(* with what the library reports: rows outside the dirty range are as they *)
(* were.  Modes are a set of those that are on; how rows, modes and the    *)
(* cursor are written as escape sequences is left out.  A client handles   *)
(* a repaint when it is made: its frames arrive in order or not at all,    *)
(* and after a frame that does not arrive it is painted in full            *)
(* (TerminalServer).                                                       *)
(***************************************************************************)
EXTENDS Naturals, FiniteSetsExt

CONSTANTS Clients,      \* who may be shown the screen
          MaxRows,      \* grids have 1..MaxRows rows
          Contents,     \* what a row may hold
          Combined,     \* those of them with a combined character in them
          Blank,        \* an erased row
          Cursors,      \* where the cursor may be
          NoticedModes, \* the modes whose sequences the emulator has handlers for
          OtherModes,   \* the others: ESC = and ESC > set the keypad's
          ScrollRing,   \* SCROLL_RING, 128 in the code
          MaxRevision   \* bound on the revisions of a behaviour

(* A combined character's string is beside its word, which only says that   *)
(* there is one.                                                            *)
CombinedWord == "combined"

ScreenRepaintAssumption ==
  /\ MaxRows \in Nat \ {0}
  /\ Combined \subseteq Contents /\ CombinedWord \notin Contents
  /\ Blank \in Contents \ Combined
  /\ Cursors # {}
  /\ NoticedModes \cap OtherModes = {}
  /\ ScrollRing \in Nat \ {0}
  /\ MaxRevision \in Nat

VARIABLES
  screen,       \* the library's visible rows
  cursor,       \* the library's cursor
  modes,        \* the library's modes
  shadow,       \* the words each row last agreed with
  changedAt,    \* the revision each row last changed at
  scrollAt,     \* how far revision p scrolled, at p % ScrollRing
  fullFloor,    \* no delta starts below this revision
  cursorState,  \* the cursor at cursorAt, when it last moved
  cursorAt,
  modeState,    \* the modes at modesAt, when they were last touched
  modesAt,
  revision,
  shown         \* per client: the revision and what is on its screen

emulator == <<shadow, changedAt, scrollAt, fullFloor, cursorState, cursorAt,
              modeState, modesAt, revision>>
vars == <<screen, cursor, modes, emulator, shown>>

Modes == NoticedModes \cup OtherModes
Screens == UNION {[1..height -> Contents] : height \in 1..MaxRows}
Rows == DOMAIN screen
Height == Max(Rows)

Word(content) == IF content \in Combined THEN CombinedWord ELSE content
Words == {Word(content) : content \in Contents}

NotShown == [revision |-> 0, screen |-> <<>>, cursor |-> {}, modes |-> {}]
Images == [revision : 0..revision, screen : Screens, cursor : Cursors, modes : SUBSET Modes]
Image == [revision |-> revision, screen |-> screen, cursor |-> cursor, modes |-> modes]

Init ==
  /\ screen \in {[y \in 1..height |-> Blank] : height \in 1..MaxRows}
  /\ cursor \in Cursors
  /\ modes = {}
  /\ shadow = [y \in Rows |-> Word(Blank)]
  /\ changedAt = [y \in Rows |-> 0]
  /\ scrollAt = [p \in 0..(ScrollRing - 1) |-> 0]
  /\ fullFloor = 0
  /\ cursorState = cursor /\ cursorAt = 0
  /\ modeState = modes /\ modesAt = 0
  /\ revision = 0
  /\ shown = [c \in Clients |-> NotShown]

-----------------------------------------------------------------------------
(***************************************************************************)
(* Output.                                                                 *)
(***************************************************************************)

(* The rows the library's tracker calls dirty, a range, and how far the     *)
(* whole screen scrolled: not at all if the scroll region was not the whole *)
(* screen throughout.  All rows are dirty if it scrolled, whatever the      *)
(* region, and if the library gives no hints.                               *)
Damage ==
  {[dirty |-> from..to, scrolled |-> 0] : from \in 1..(Height + 1), to \in Rows}
    \cup [dirty : {Rows}, scrolled : 0..Height]

(* What the library may make of a chunk that does that damage: the rows     *)
(* outside the dirty range are as they were.                                *)
ScreensAfter(damage) ==
  {next \in [Rows -> Contents] : \A y \in Rows \ damage.dirty : next[y] = screen[y]}

(* copyWithin(0, scrolled): the last rows keep what they had. *)
Shifted(f, scrolled) == [y \in DOMAIN f |-> IF y + scrolled \in DOMAIN f THEN f[y + scrolled] ELSE f[y]]

(* syncRow's comparison. *)
Differs(content, word) == content \in Combined \/ Word(content) # word

(* trackDamage, for rows.  A row that scrolled in is adopted as changed.  *)
TrackDamage(damage, next) ==
  LET scrolled == damage.scrolled
      before   == Shifted(shadow, scrolled)
      since    == Shifted(changedAt, scrolled)
      changed  == {y \in damage.dirty : \/ y > Height - scrolled
                                       \/ Differs(next[y], before[y])}
  IN
  /\ scrollAt' = [scrollAt EXCEPT ![revision' % ScrollRing] = scrolled]
  /\ shadow' = [y \in Rows |-> IF y \in changed THEN Word(next[y]) ELSE before[y]]
  /\ changedAt' = [y \in Rows |-> IF y \in changed THEN revision' ELSE since[y]]

(* Mutation: the cursor's move is not dated. *)
TrackCursorUnstamped(cur) ==
  /\ cursorState' = cur
  /\ UNCHANGED cursorAt

(* trackDamage, for the cursor. *)
TrackCursor(cur) ==
  /\ cursorState' = cur
  /\ cursorAt' = IF cur = cursorState THEN cursorAt ELSE revision'

(* Mutation: the modes are read again, and their revision is forgotten. *)
TrackModesUnstamped(ms, touched) ==
  /\ touched \/ modes \cap NoticedModes = ms \cap NoticedModes
  /\ modeState' = IF touched THEN ms ELSE modeState
  /\ UNCHANGED modesAt

(* trackDamage, for modes.  A handler ran if a mode that has one changed,   *)
(* and may have run if not.                                                 *)
TrackModes(ms, touched) ==
  /\ touched \/ modes \cap NoticedModes = ms \cap NoticedModes
  /\ modeState' = IF touched THEN ms ELSE modeState
  /\ modesAt' = IF touched THEN revision' ELSE modesAt

Feed(damage, next, cur, ms, touched) ==
  /\ revision < MaxRevision
  /\ revision' = revision + 1
  /\ screen' = next /\ cursor' = cur /\ modes' = ms
  /\ TrackDamage(damage, next)
  /\ TrackCursor(cur)
  /\ TrackModes(ms, touched)
  /\ UNCHANGED <<fullFloor, shown>>

(* resync: everything changed at this revision, and nothing scrolled. *)
Resync ==
  /\ shadow' = [y \in DOMAIN screen' |-> Word(screen'[y])]
  /\ changedAt' = [y \in DOMAIN screen' |-> revision']
  /\ scrollAt' = [scrollAt EXCEPT ![revision' % ScrollRing] = 0]
  /\ cursorState' = cursor' /\ cursorAt' = revision'
  /\ modeState' = modes' /\ modesAt' = revision'

(* A chunk that resets the terminal or changes buffers, and a resize to     *)
(* another size, which the library answers with a screen of its own.        *)
Redraw(next, cur, ms) ==
  /\ revision < MaxRevision
  /\ revision' = revision + 1
  /\ screen' = next /\ cursor' = cur /\ modes' = ms
  /\ fullFloor' = revision'
  /\ Resync
  /\ UNCHANGED shown

Invalidate(next, cur, ms) ==
  /\ DOMAIN next = Rows
  /\ Redraw(next, cur, ms)

(* To another number of rows, of columns or of both. *)
Resize(next, cur) == Redraw(next, cur, modes)

-----------------------------------------------------------------------------
(***************************************************************************)
(* Repaints.                                                               *)
(***************************************************************************)

(* The screen in full, from the library's own modes and cursor. *)
FullRepaint(c) ==
  /\ shown' = [shown EXCEPT ![c] = Image]
  /\ UNCHANGED <<screen, cursor, modes, emulator>>

(* Mutation: one revision more than the ring remembers. *)
BeyondDeltaLate(r) == r > revision \/ r < fullFloor \/ revision - r > ScrollRing + 1

(* The revisions a delta cannot start from. *)
BeyondDelta(r) == r > revision \/ r < fullFloor \/ revision - r > ScrollRing

(* How far the revisions after from, up to through, scrolled. *)
Scrolled(ring, from, through) ==
  LET total[p \in from..through] ==
        IF p = from THEN 0 ELSE total[p - 1] + ring[p % ScrollRing]
  IN  total[through]

ScrolledSince(r) == Min({Scrolled(scrollAt, r, revision), Height})

(* The client scrolls, writes the rows that changed, the modes if they were *)
(* touched and the cursor, unless there is nothing to say.                  *)
Delta(image) ==
  LET r == image.revision
      k == ScrolledSince(r)
      rows == {y \in Rows : changedAt[y] > r}
      quiet == rows = {} /\ k = 0 /\ modesAt <= r /\ cursorAt <= r
  IN
  [revision |-> revision,
   screen |-> [y \in DOMAIN image.screen |->
                 IF y \in rows THEN screen[y]
                 ELSE IF y + k \in DOMAIN image.screen THEN image.screen[y + k]
                 ELSE Blank],
   cursor |-> IF quiet THEN image.cursor ELSE cursor,
   modes |-> IF modesAt > r THEN modeState ELSE image.modes]

(* repaintSince.  An encoder that runs over its bound falls back on a full  *)
(* repaint.                                                                 *)
RepaintSince(c) ==
  /\ shown[c] # NotShown
  /\ shown[c].revision # revision
  /\ LET image == shown[c] IN
       IF BeyondDelta(image.revision)
       THEN shown' = [shown EXCEPT ![c] = Image]
       ELSE \E repaint \in {Delta(image), Image} : shown' = [shown EXCEPT ![c] = repaint]
  /\ UNCHANGED <<screen, cursor, modes, emulator>>

-----------------------------------------------------------------------------
Output ==
  \E cur \in Cursors, ms \in SUBSET Modes :
    \/ \E damage \in Damage, touched \in BOOLEAN : \E next \in ScreensAfter(damage) :
         Feed(damage, next, cur, ms, touched)
    \/ \E next \in [Rows -> Contents] : Invalidate(next, cur, ms)

Next ==
  \/ Output
  \/ \E next \in Screens, cur \in Cursors : Resize(next, cur)
  \/ \E c \in Clients : FullRepaint(c) \/ RepaintSince(c)

Spec == Init /\ [][Next]_vars

-----------------------------------------------------------------------------
(* Every variable has its type; a row has a shadow and a revision.          *)
TypeOK ==
  /\ screen \in Screens
  /\ cursor \in Cursors
  /\ modes \subseteq Modes
  /\ shadow \in [Rows -> Words]
  /\ changedAt \in [Rows -> 0..revision]
  /\ scrollAt \in [0..(ScrollRing - 1) -> 0..MaxRows]
  /\ fullFloor \in 0..revision
  /\ cursorState \in Cursors /\ cursorAt \in 0..revision
  /\ modeState \subseteq Modes /\ modesAt \in 0..revision
  /\ revision \in 0..MaxRevision
  /\ shown \in [Clients -> {NotShown} \cup Images]

UpToDate(c) == shown[c] # NotShown /\ shown[c].revision = revision

(* A client painted at the current revision, from whichever revision it had *)
(* and however the screen scrolled, wrapped the ring, was resized or reset  *)
(* in between, has the emulator's rows on its screen.                       *)
ScreenIsMirrored == \A c \in Clients : UpToDate(c) => shown[c].screen = screen

(* Its cursor is where the emulator's is, also when nothing else changed.   *)
CursorIsMirrored == \A c \in Clients : UpToDate(c) => shown[c].cursor = cursor

(* It also has the modes the emulator was told of by a sequence it handles. *)
NoticedModesAreMirrored ==
  \A c \in Clients :
    UpToDate(c) => shown[c].modes \cap NoticedModes = modes \cap NoticedModes
=============================================================================
