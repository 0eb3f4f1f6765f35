SPECIFICATION ComponentsSpec
CONSTANTS
  Capacity = 3
  MaxItems = 10
  Clients = {c1}
  MaxRows = 2
  Contents = {blank, e1, e2}
  Combined = {e1, e2}
  Blank = blank
  Cursors = {0, 1}
  NoticedModes = {paste}
  OtherModes = {keypad}
  ScrollRing = 2
  RowsRevisions = 4
  ModesRevisions = 3
  Terminals = {1, 2, 3, 4}
  MaxDepth = 3
  Sessions = {s1, s2}
  MaxNamers = 1
  MaxAttempts = 2
  RefreshAfter = 2
  MaxPrompts = 3
  HeaderLength = 2
  MaxPayload = 3
  FrameCount = 3
  LinkCapacity = 2
  LinkFrames = 4
  Links = 2
  MaxHeld = 1
CHECK_DEADLOCK FALSE
INVARIANTS
  TypeOK
  NobodyWaitsInVain
  PendingAreBlocked
  ScreenIsMirrored
  CursorIsMirrored
  NoticedModesAreMirrored
  EachTerminalOnce
  RepairMends
  AsksAreRare
  DecodedIsSent
  NothingIsWithheld
PROPERTIES
  ServesInTurn
  FocusStays
