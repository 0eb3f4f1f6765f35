---------------------------- MODULE MCComponents ----------------------------
(***************************************************************************)
(* The components that work by themselves, in one model: a behaviour is    *)
(* one of the component that part names, and the variables of the others   *)
(* stand still.  The configuration bounds them.  Where there are proofs    *)
(* about a component their module is instantiated, for its theorems.       *)
(***************************************************************************)
EXTENDS BoundedQueue, FiniteSets

CONSTANTS Clients, MaxRows, Contents, Combined, Blank, Cursors, NoticedModes, OtherModes,
          ScrollRing, RowsRevisions, ModesRevisions                         \* ScreenRepaint
CONSTANTS Terminals, MaxDepth                                               \* SessionLayout
CONSTANTS Sessions, MaxNamers, MaxAttempts, RefreshAfter, MaxPrompts        \* SessionNamer
CONSTANTS HeaderLength, MaxPayload, FrameCount                              \* FrameDecoder
CONSTANTS LinkCapacity, LinkFrames, Links, MaxHeld                          \* Bridge

VARIABLE part

Still == "still"

-----------------------------------------------------------------------------
(* Rows of a screen with combined characters, and its cursor and modes. *)

VARIABLES screen, cursor, modes, shadow, changedAt, scrollAt, fullFloor,
          cursorState, cursorAt, modeState, modesAt, revision, shown

Rows == INSTANCE ScreenRepaint_proofs WITH
  Cursors <- {0}, NoticedModes <- {}, OtherModes <- {}, MaxRevision <- RowsRevisions

Modes == INSTANCE ScreenRepaint_proofs WITH
  Contents <- {Blank}, Combined <- {}, MaxRevision <- ModesRevisions

ASSUME RowsAssumption == Rows!ScreenRepaintAssumption
ASSUME ModesAssumption == Modes!ScreenRepaintAssumption

screenVars == <<screen, cursor, modes, shadow, changedAt, scrollAt, fullFloor, cursorState, cursorAt,
                modeState, modesAt, revision, shown>>
ScreenStill ==
  /\ screen = Still /\ cursor = Still /\ modes = Still /\ shadow = Still
  /\ changedAt = Still /\ scrollAt = Still /\ fullFloor = Still
  /\ cursorState = Still /\ cursorAt = Still /\ modeState = Still /\ modesAt = Still
  /\ revision = Still /\ shown = Still

-----------------------------------------------------------------------------
(* The terminals of a session and its panes. *)

VARIABLES layout, existing

Layout == INSTANCE SessionLayout_proofs WITH IDs <- Terminals

ASSUME LayoutAssumption == Layout!SessionLayoutAssumption

layoutVars == <<layout, existing>>
LayoutStill == layout = Still /\ existing = Still

-----------------------------------------------------------------------------
(* Sessions that agents name. *)

VARIABLES naming, origin, histories, asking, rested, asked

Namer == INSTANCE SessionNamer

ASSUME NamerAssumption == Namer!SessionNamerAssumption

namerVars == <<naming, origin, histories, asking, rested, asked>>
NamerStill ==
  /\ naming = Still /\ origin = Still /\ histories = Still
  /\ asking = Still /\ rested = Still /\ asked = Still

-----------------------------------------------------------------------------
(* Frames in a stream. *)

VARIABLES lengths, fed, buffer, heldBytes, expected, decoded, given

Decoder == INSTANCE FrameDecoder WITH held <- heldBytes

ASSUME DecoderAssumption == Decoder!FrameDecoderAssumption

decoderVars == <<lengths, fed, buffer, heldBytes, expected, decoded, given>>
DecoderStill ==
  /\ lengths = Still /\ fed = Still /\ buffer = Still /\ heldBytes = Still
  /\ expected = Still /\ decoded = Still /\ given = Still

-----------------------------------------------------------------------------
(* One connection with both kinds of frames, and several that make room. *)

VARIABLES link, held, opened, poll, close

Link1 == INSTANCE Bridge_proofs WITH
  MaxID <- 1, Kinds <- {"control", "output"}, Capacity <- LinkCapacity, MaxFrames <- LinkFrames

Link2 == INSTANCE Bridge_proofs WITH
  MaxID <- Links, Kinds <- {"output"}, Capacity <- 1, MaxFrames <- 1

ASSUME Link1Assumption == Link1!BridgeAssumption
ASSUME Link2Assumption == Link2!BridgeAssumption

bridgeVars == <<link, held, opened, poll, close>>
BridgeStill ==
  /\ link = Still /\ held = Still /\ opened = Still /\ poll = Still /\ close = Still

-----------------------------------------------------------------------------
Parts == {"queue", "rows", "modes", "layout", "namer", "decoder", "bridge1", "bridge2"}

ComponentsInit ==
  /\ part \in Parts
  /\ Init /\ (part # "queue" => policy = "block")
  /\ CASE part = "rows" -> Rows!Init [] part = "modes" -> Modes!Init [] OTHER -> ScreenStill
  /\ IF part = "layout" THEN Layout!Init ELSE LayoutStill
  /\ IF part = "namer" THEN Namer!Init ELSE NamerStill
  /\ IF part = "decoder" THEN Decoder!Init ELSE DecoderStill
  /\ CASE part = "bridge1" -> Link1!Init [] part = "bridge2" -> Link2!Init [] OTHER -> BridgeStill

ComponentsNext ==
  /\ UNCHANGED part
  /\ IF part = "queue" THEN Next ELSE UNCHANGED vars
  /\ CASE part = "rows" -> Rows!Next [] part = "modes" -> Modes!Next
       [] OTHER -> UNCHANGED screenVars
  /\ IF part = "layout" THEN Layout!Next ELSE UNCHANGED layoutVars
  /\ IF part = "namer" THEN Namer!Next ELSE UNCHANGED namerVars
  /\ IF part = "decoder" THEN Decoder!Next ELSE UNCHANGED decoderVars
  /\ CASE part = "bridge1" -> Link1!Next [] part = "bridge2" -> Link2!Next
       [] OTHER -> UNCHANGED bridgeVars

componentsVars ==
  <<part, vars, screenVars, layoutVars, namerVars, decoderVars, bridgeVars>>

ComponentsSpec == ComponentsInit /\ [][ComponentsNext]_componentsVars

-----------------------------------------------------------------------------
(* Properties; those of BoundedQueue need no instance, and the first of each *)
(* of the others comes with its type invariant.                              *)

\* A client's screen, repainted from whichever revision it had, is the library's.
ScreenIsMirrored ==
  /\ part = "rows" => Rows!TypeOK /\ Rows!ScreenIsMirrored
  /\ part = "modes" => Modes!TypeOK /\ Modes!ScreenIsMirrored

\* So is its cursor, which no row tells of.
CursorIsMirrored ==
  /\ part = "rows" => Rows!CursorIsMirrored
  /\ part = "modes" => Modes!CursorIsMirrored

\* And the modes whose sequences the emulator notices.
NoticedModesAreMirrored ==
  /\ part = "rows" => Rows!NoticedModesAreMirrored
  /\ part = "modes" => Modes!NoticedModesAreMirrored

\* The layout shows each of a session's terminals once, whatever was done to it.
EachTerminalOnce == part = "layout" => Layout!EachTerminalOnce

\* A layout that came damaged from the database is made sound, a sound one kept.
RepairMends == part = "layout" => Layout!RepairMends

\* Moving tabs and closing other terminals leaves the focus on its terminal.
FocusStays == [][part = "layout" => Layout!FocusKept]_layoutVars

\* However many prompts come, few namers run until the session has rested.
AsksAreRare == part = "namer" => Namer!TypeOK /\ Namer!AsksAreRare

\* However the stream is cut, the frames decoded are the frames sent.
DecodedIsSent == part = "decoder" => Decoder!DecodedIsSent

\* No frame the bridge took is skipped, and no poll sleeps on one.
NothingIsWithheld ==
  /\ part = "bridge1" => Link1!TypeOK /\ Link1!NothingIsWithheld
  /\ part = "bridge2" => Link2!TypeOK /\ Link2!NothingIsWithheld
=============================================================================
