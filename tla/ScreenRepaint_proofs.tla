------------------------ MODULE ScreenRepaint_proofs ------------------------
(***************************************************************************)
(* A client repainted from any revision has the emulator's rows, cursor    *)
(* and noticed modes, for screens of any height, any contents, a ring of   *)
(* any length and any number of clients.                                   *)
(***************************************************************************)
EXTENDS ScreenRepaint, Integers, FiniteSetTheorems, WellFoundedInduction, TLAPS

-----------------------------------------------------------------------------
(* Sums over revisions. *)

(* A non-empty set of natural numbers has a least element. *)
LEMMA LeastNatural ==
  ASSUME NEW S \in SUBSET Nat, S # {}
  PROVE  \E n \in S : \A m \in S : n <= m
<1> DEFINE Below == {0..n : n \in S}
<1>1. \A n \in S : 0..n \in FiniteSubsetsOf(Nat)
  BY FS_Interval DEF FiniteSubsetsOf
<1>2. Below \subseteq FiniteSubsetsOf(Nat) /\ Below # {}
  BY <1>1
<1>3. PICK least \in Below : \A other \in Below : <<other, least>> \notin StrictSubsetOrdering(Nat)
  <2> HIDE DEF Below
  <2> QED BY <1>2, FS_StrictSubsetOrderingWellFounded, WFMin
<1>4. PICK n \in S : least = 0..n
  OBVIOUS
<1>5. ASSUME NEW m \in S, m < n PROVE FALSE
  <2>1. 0..m \subseteq 0..n /\ n \in 0..n /\ n \notin 0..m
    BY <1>5
  <2>2. 0..m \in Below
    OBVIOUS
  <2>3. 0..m \subseteq least /\ 0..m # least /\ least \in SUBSET Nat /\ 0..m \in SUBSET Nat
    BY <2>1, <1>4
  <2>4. <<0..m, least>> \in StrictSubsetOrdering(Nat)
    BY <2>3 DEF StrictSubsetOrdering
  <2>5. QED
    BY <2>2, <2>4, <1>3
<1>6. QED
  BY <1>5

Ring == [0..(ScrollRing - 1) -> Nat]

(* The function Scrolled is the last value of. *)
IsTotal(total, ring, from, through) ==
  total = [p \in from..through |->
             IF p = from THEN 0 ELSE total[p - 1] + ring[p % ScrollRing]]

LEMMA TotalsExist ==
  ASSUME NEW ring, NEW from \in Nat, NEW through \in Nat, from <= through
  PROVE  \E total : IsTotal(total, ring, from, through)
<1> DEFINE Bad == {n \in Nat : from <= n /\ ~ \E total : IsTotal(total, ring, from, n)}
<1>1. SUFFICES Bad = {}
  OBVIOUS
<1>2. SUFFICES ASSUME NEW n \in Bad, \A m \in Bad : n <= m PROVE FALSE
  BY LeastNatural
<1>3. CASE n = from
  <2>1. IsTotal([p \in from..from |-> 0], ring, from, from)
    BY DEF IsTotal
  <2>2. QED
    BY <2>1, <1>3
<1>4. CASE n # from
  <2>1. n - 1 \in Nat /\ n - 1 >= from /\ n - 1 \notin Bad
    BY <1>2, <1>4
  <2>2. PICK g : IsTotal(g, ring, from, n - 1)
    BY <2>1
  <2> DEFINE h == [p \in from..n |->
                     IF p = n THEN g[n - 1] + ring[n % ScrollRing] ELSE g[p]]
  <2>3. \A p \in from..(n - 1) : h[p] = g[p]
    OBVIOUS
  <2>4. \A p \in from..n : h[p] = IF p = from THEN 0 ELSE h[p - 1] + ring[p % ScrollRing]
    <3> SUFFICES ASSUME NEW p \in from..n
                 PROVE  h[p] = IF p = from THEN 0 ELSE h[p - 1] + ring[p % ScrollRing]
      OBVIOUS
    <3>1. CASE p = n
      <4>1. h[n - 1] = g[n - 1]
        BY <2>1, <2>3
      <4>2. QED
        BY <4>1, <3>1, <1>4
    <3>2. CASE p # n
      <4>1. p \in from..(n - 1) /\ h[p] = g[p]
        BY <3>2, <2>3
      <4>2. g[p] = IF p = from THEN 0 ELSE g[p - 1] + ring[p % ScrollRing]
        BY <4>1, <2>2 DEF IsTotal
      <4>3. p # from => h[p - 1] = g[p - 1]
        BY <4>1, <2>3
      <4>4. QED
        BY <4>1, <4>2, <4>3
    <3>3. QED
      BY <3>1, <3>2
  <2>5. h = [p \in from..n |-> h[p]]
    OBVIOUS
  <2>6. IsTotal(h, ring, from, n)
    <3> HIDE DEF h
    <3> QED BY <2>4, <2>5 DEF IsTotal
  <2>7. QED
    BY <2>6
<1>5. QED
  BY <1>3, <1>4

LEMMA ScrolledByTotal ==
  ASSUME NEW ring, NEW from \in Nat, NEW through \in Nat, from <= through
  PROVE  \E total : /\ IsTotal(total, ring, from, through)
                    /\ Scrolled(ring, from, through) = total[through]
<1>1. IsTotal(CHOOSE total : IsTotal(total, ring, from, through), ring, from, through)
  BY TotalsExist
<1>2. Scrolled(ring, from, through)
        = (CHOOSE total : IsTotal(total, ring, from, through))[through]
  BY DEF Scrolled, IsTotal
<1>3. QED
  BY <1>1, <1>2

SameLines(ring, ring2, from, through) ==
  \A p \in (from + 1)..through : ring2[p % ScrollRing] = ring[p % ScrollRing]

(* Totals over rings that agree on the revisions they are of are the same. *)
LEMMA TotalsAgree ==
  ASSUME NEW ring, NEW ring2, NEW from \in Nat, NEW through \in Nat, NEW through2 \in Nat,
         NEW f, IsTotal(f, ring, from, through), NEW g, IsTotal(g, ring2, from, through2),
         SameLines(ring, ring2, from, through), through <= through2
  PROVE  \A p \in from..through : f[p] = g[p]
<1> DEFINE Bad == {p \in from..through : f[p] # g[p]}
<1>1. SUFFICES ASSUME Bad # {} PROVE FALSE
  OBVIOUS
<1>2. Bad \in SUBSET Nat
  OBVIOUS
<1>3. PICK p \in Bad : \A q \in Bad : p <= q
  <2> HIDE DEF Bad
  <2> QED BY <1>1, <1>2, LeastNatural
<1>4. /\ p \in from..through /\ p \in from..through2 /\ f[p] # g[p]
      /\ f[p] = IF p = from THEN 0 ELSE f[p - 1] + ring[p % ScrollRing]
      /\ g[p] = IF p = from THEN 0 ELSE g[p - 1] + ring2[p % ScrollRing]
  BY DEF IsTotal
<1>5. p # from
  BY <1>4
<1>6. p - 1 \in from..through /\ p - 1 \notin Bad /\ p \in (from + 1)..through
  BY <1>3, <1>4, <1>5
<1>7. f[p - 1] = g[p - 1] /\ ring2[p % ScrollRing] = ring[p % ScrollRing]
  BY <1>6 DEF SameLines
<1>8. QED
  BY <1>4, <1>5, <1>7

LEMMA TotalsAreNatural ==
  ASSUME ScrollRing \in Nat \ {0}, NEW ring \in Ring, NEW from \in Nat, NEW through \in Nat,
         NEW f, IsTotal(f, ring, from, through)
  PROVE  \A p \in from..through : f[p] \in Nat
<1> DEFINE Bad == {p \in from..through : f[p] \notin Nat}
<1>1. SUFFICES ASSUME Bad # {} PROVE FALSE
  OBVIOUS
<1>2. Bad \in SUBSET Nat
  OBVIOUS
<1>3. PICK p \in Bad : \A q \in Bad : p <= q
  <2> HIDE DEF Bad
  <2> QED BY <1>1, <1>2, LeastNatural
<1>4. /\ p \in from..through /\ f[p] \notin Nat
      /\ f[p] = IF p = from THEN 0 ELSE f[p - 1] + ring[p % ScrollRing]
  BY DEF IsTotal
<1>5. p # from
  BY <1>4
<1>6. p - 1 \in from..through /\ p - 1 \notin Bad
  BY <1>3, <1>4, <1>5
<1>7. f[p - 1] \in Nat
  BY <1>6
<1>8. p % ScrollRing \in 0..(ScrollRing - 1)
  BY <1>4
<1>9. ring[p % ScrollRing] \in Nat
  BY <1>8 DEF Ring
<1>10. QED
  BY <1>4, <1>5, <1>7, <1>9

LEMMA ScrolledNothing ==
  ASSUME NEW ring, NEW at \in Nat
  PROVE  Scrolled(ring, at, at) = 0
<1>1. PICK total : IsTotal(total, ring, at, at) /\ Scrolled(ring, at, at) = total[at]
  BY ScrolledByTotal
<1>2. at \in at..at
  OBVIOUS
<1>3. QED
  BY <1>1, <1>2 DEF IsTotal

LEMMA ScrolledNat ==
  ASSUME ScrollRing \in Nat \ {0}, NEW ring \in Ring, NEW from \in Nat, NEW through \in Nat,
         from <= through
  PROVE  Scrolled(ring, from, through) \in Nat
<1>1. PICK total : IsTotal(total, ring, from, through) /\ Scrolled(ring, from, through) = total[through]
  BY ScrolledByTotal
<1>2. through \in from..through
  OBVIOUS
<1>3. QED
  BY <1>1, <1>2, TotalsAreNatural

LEMMA ProductNat == \A d, n \in Nat : d * n \in Nat
OBVIOUS

(* Two revisions less than a ring apart have cells of their own. *)
LEMMA CellsDiffer ==
  ASSUME ScrollRing \in Nat \ {0}, NEW p \in Nat, NEW q \in Nat, p < q, q - p < ScrollRing
  PROVE  p % ScrollRing # q % ScrollRing
<1>1. SUFFICES ASSUME p % ScrollRing = q % ScrollRing PROVE FALSE
  OBVIOUS
<1>2. PICK n \in Nat : n = ScrollRing /\ n > 0
  OBVIOUS
<1>3. PICK a \in Nat : a = p \div n
  BY <1>2
<1>4. PICK b \in Nat : b = q \div n
  BY <1>2
<1>5. PICK i \in Nat : i = p % n /\ i = q % n
  BY <1>1, <1>2
<1>6. p = (p \div n) * n + (p % n) /\ q = (q \div n) * n + (q % n)
  BY <1>2
<1>7. p = a * n + i /\ q = b * n + i
  BY <1>3, <1>4, <1>5, <1>6
<1>8. a * n \in Nat /\ b * n \in Nat
  BY ProductNat
<1>9. b > a
  <2>1. SUFFICES ASSUME b <= a PROVE FALSE
    OBVIOUS
  <2>2. PICK d \in Nat : a = b + d
    BY <2>1
  <2>3. a * n = b * n + d * n
    BY <2>2
  <2>4. QED
    BY <2>3, <1>7, <1>8, ProductNat
<1>10. PICK d \in Nat : b = a + d + 1
  BY <1>9
<1>11. b * n = a * n + d * n + n
  BY <1>10
<1>12. d * n \in Nat
  BY ProductNat
<1>13. QED
  BY <1>2, <1>7, <1>8, <1>11, <1>12

(* The revision after the last one adds its own lines to a total, if the    *)
(* ring still has the others.                                               *)
LEMMA ScrolledMore ==
  ASSUME ScrollRing \in Nat \ {0}, NEW ring \in Ring, NEW lines \in Nat,
         NEW from \in Nat, NEW last \in Nat, from <= last, last + 1 - from <= ScrollRing
  PROVE  Scrolled([ring EXCEPT ![(last + 1) % ScrollRing] = lines], from, last + 1)
           = Scrolled(ring, from, last) + lines
<1>1. PICK ring2 : ring2 = [ring EXCEPT ![(last + 1) % ScrollRing] = lines]
  OBVIOUS
<1>2. PICK next \in Nat : next = last + 1
  OBVIOUS
<1>3. PICK f : IsTotal(f, ring, from, last) /\ Scrolled(ring, from, last) = f[last]
  BY ScrolledByTotal
<1>4. PICK g : IsTotal(g, ring2, from, next) /\ Scrolled(ring2, from, next) = g[next]
  BY ScrolledByTotal, <1>2
<1>5. SameLines(ring, ring2, from, last)
  <2> SUFFICES ASSUME NEW p \in (from + 1)..last
               PROVE  ring2[p % ScrollRing] = ring[p % ScrollRing]
    BY DEF SameLines
  <2>1. p \in Nat /\ p < next /\ next - p < ScrollRing
    BY <1>2
  <2>2. p % ScrollRing # next % ScrollRing
    BY <2>1, CellsDiffer
  <2>3. p % ScrollRing \in 0..(ScrollRing - 1)
    BY <2>1
  <2>4. QED
    BY <2>2, <2>3, <1>1, <1>2 DEF Ring
<1>6. f[last] = g[last]
  <2>1. last <= next
    BY <1>2
  <2>2. \A p \in from..last : f[p] = g[p]
    BY <1>3, <1>4, <1>5, <2>1, TotalsAgree
  <2>3. QED
    BY <2>2
<1>7. g[next] = g[last] + ring2[next % ScrollRing]
  <2>1. next \in from..next /\ next # from /\ next - 1 = last
    BY <1>2
  <2>2. QED
    BY <2>1, <1>4 DEF IsTotal
<1>8. ring2[next % ScrollRing] = lines
  <2>1. next % ScrollRing \in 0..(ScrollRing - 1)
    OBVIOUS
  <2>2. QED
    BY <2>1, <1>1, <1>2 DEF Ring
<1>9. QED
  BY <1>1, <1>2, <1>3, <1>4, <1>6, <1>7, <1>8

-----------------------------------------------------------------------------
(* The invariant. *)

(* What the emulator remembers of the screen is true of it. *)
Remembers ==
  /\ \A y \in Rows : shadow[y] = Word(screen[y])
  /\ cursorState = cursor
  /\ modeState \cap NoticedModes = modes \cap NoticedModes

(* A row of the grid that has not changed since the image's revision is on   *)
(* the image, that many lines below.                                        *)
RowsOn(image, grid, since, lines) ==
  /\ DOMAIN image.screen = DOMAIN grid
  /\ \A y \in DOMAIN grid : since[y] <= image.revision =>
       y + lines \in DOMAIN grid /\ grid[y] = image.screen[y + lines]

(* If a delta can start from the image, what has not changed since is on it, *)
(* as far up as the screen scrolled in between.                              *)
RowsFollow(image) ==
  image.revision >= fullFloor /\ revision - image.revision <= ScrollRing =>
    RowsOn(image, screen, changedAt, Scrolled(scrollAt, image.revision, revision))

CursorFollows(image) == cursorAt <= image.revision => image.cursor = cursor

ModesFollow(image) ==
  modesAt <= image.revision => image.modes \cap NoticedModes = modes \cap NoticedModes

Follows(image) == RowsFollow(image) /\ CursorFollows(image) /\ ModesFollow(image)

Inv == TypeOK /\ Remembers /\ \A c \in Clients : shown[c] # NotShown => Follows(shown[c])

-----------------------------------------------------------------------------
LEMMA MaxOfRows == ASSUME NEW h \in Nat \ {0} PROVE Max(1..h) = h
<1>1. h \in 1..h /\ \A y \in 1..h : h >= y
  OBVIOUS
<1>2. \A x \in 1..h : (\A y \in 1..h : x >= y) => x = h
  OBVIOUS
<1>3. QED
  BY <1>1, <1>2 DEF Max

LEMMA MinOfTwo == ASSUME NEW m \in Nat, NEW n \in Nat, m <= n PROVE Min({m, n}) = m
<1>1. \A x \in {m, n} : (\A y \in {m, n} : x <= y) => x = m
  OBVIOUS
<1>2. m \in {m, n} /\ \A y \in {m, n} : m <= y
  OBVIOUS
<1>3. QED
  BY <1>1, <1>2 DEF Min

LEMMA ScreenHasHeight ==
  ASSUME ScreenRepaintAssumption, NEW grid \in Screens
  PROVE  \E h \in 1..MaxRows : /\ DOMAIN grid = 1..h /\ Max(DOMAIN grid) = h
                               /\ grid \in [1..h -> Contents]
<1>1. PICK h \in 1..MaxRows : grid \in [1..h -> Contents]
  BY DEF Screens
<1>2. DOMAIN grid = 1..h /\ h \in Nat \ {0}
  BY <1>1 DEF ScreenRepaintAssumption
<1>3. Max(1..h) = h
  BY <1>2, MaxOfRows
<1>4. QED
  BY <1>1, <1>2, <1>3

LEMMA WordIsTyped == \A content \in Contents : Word(content) \in Words
BY DEF Words

(* What syncRow does not find to differ is what it was. *)
LEMMA SameWordSameContent ==
  ASSUME ScreenRepaintAssumption, NEW now \in Contents, NEW before \in Contents,
         ~Differs(now, Word(before))
  PROVE  now = before /\ Word(now) = Word(before)
BY DEF Differs, Word, ScreenRepaintAssumption

LEMMA InvInit == ScreenRepaintAssumption /\ Init => Inv
<1> SUFFICES ASSUME ScreenRepaintAssumption, Init PROVE Inv
  OBVIOUS
<1>1. PICK h \in 1..MaxRows : screen = [y \in 1..h |-> Blank]
  BY DEF Init
<1>2. Blank \in Contents
  BY DEF ScreenRepaintAssumption
<1>3. screen \in Screens /\ Rows = 1..h
  BY <1>1, <1>2 DEF Screens, Rows
<1>4. shown \in [Clients -> {NotShown} \cup Images]
  BY DEF Init
<1>5. shadow \in [Rows -> Words]
  BY <1>2, WordIsTyped DEF Init
<1>6. scrollAt \in [0..(ScrollRing - 1) -> 0..MaxRows]
  BY DEF Init, ScreenRepaintAssumption
<1>7. TypeOK
  <2>1. revision = 0 /\ revision \in 0..MaxRevision
    BY DEF Init, ScreenRepaintAssumption
  <2>2. changedAt \in [Rows -> 0..revision]
    BY <2>1 DEF Init
  <2>3. /\ fullFloor \in 0..revision /\ cursorAt \in 0..revision /\ modesAt \in 0..revision
        /\ modes \subseteq Modes /\ modeState \subseteq Modes
    BY <2>1 DEF Init
  <2>4. cursor \in Cursors /\ cursorState \in Cursors
    BY DEF Init
  <2>5. QED
    BY <1>3, <1>4, <1>5, <1>6, <2>1, <2>2, <2>3, <2>4 DEF TypeOK
<1>8. Remembers
  BY <1>1, <1>3 DEF Init, Remembers
<1>9. \A c \in Clients : shown[c] = NotShown
  BY DEF Init
<1>10. QED
  BY <1>7, <1>8, <1>9 DEF Inv

-----------------------------------------------------------------------------
(* Output the library gave hints of. *)

(* A row is new at this revision, or is one that scrolled up, unchanged. *)
RowIsNew(y, next) == changedAt'[y] = revision + 1 /\ shadow'[y] = Word(next[y])
RowIsMoved(y, lines, next) ==
  /\ y + lines \in Rows
  /\ changedAt'[y] = changedAt[y + lines]
  /\ shadow'[y] = Word(next[y])
  /\ next[y] = screen[y + lines]

LEMMA FeedMovesRows ==
  ASSUME ScreenRepaintAssumption, Inv, NEW damage \in Damage, NEW next \in ScreensAfter(damage),
         revision' = revision + 1, TrackDamage(damage, next)
  PROVE  /\ damage.scrolled \in 0..Height
         /\ next \in [Rows -> Contents]
         /\ changedAt' = [y \in Rows |-> changedAt'[y]] /\ shadow' = [y \in Rows |-> shadow'[y]]
         /\ \A y \in Rows : RowIsNew(y, next) \/ RowIsMoved(y, damage.scrolled, next)
<1>1. PICK h \in 1..MaxRows : Rows = 1..h /\ Height = h /\ screen \in [1..h -> Contents]
  BY ScreenHasHeight DEF Inv, TypeOK, Rows, Height
<1>2. h \in Nat \ {0}
  BY <1>1 DEF ScreenRepaintAssumption
<1>3. next \in [Rows -> Contents]
  BY DEF ScreensAfter
<1>4. \A y \in Rows \ damage.dirty : next[y] = screen[y]
  BY DEF ScreensAfter
<1>5. PICK lines : lines = damage.scrolled
  OBVIOUS
<1>6. lines \in 0..h /\ (lines # 0 => damage.dirty = Rows)
  <2>1. CASE damage \in {[dirty |-> from..to, scrolled |-> 0] : from \in 1..(Height + 1), to \in Rows}
    BY <2>1, <1>2, <1>5
  <2>2. CASE damage \in [dirty : {Rows}, scrolled : 0..Height]
    BY <2>2, <1>1, <1>5
  <2>3. QED
    BY <2>1, <2>2 DEF Damage
<1>7. /\ shadow \in [Rows -> Words] /\ changedAt \in [Rows -> 0..revision]
      /\ \A y \in Rows : shadow[y] = Word(screen[y])
  BY DEF Inv, TypeOK, Remembers
<1>8. PICK changed : changed = {y \in damage.dirty : \/ y > Height - lines
                                                   \/ Differs(next[y], Shifted(shadow, lines)[y])}
  OBVIOUS
<1>9. /\ shadow' = [y \in Rows |-> IF y \in changed THEN Word(next[y]) ELSE Shifted(shadow, lines)[y]]
      /\ changedAt' = [y \in Rows |-> IF y \in changed THEN revision + 1
                                      ELSE Shifted(changedAt, lines)[y]]
  BY <1>5, <1>8 DEF TrackDamage
<1>10. ASSUME NEW y \in Rows, y \notin changed PROVE RowIsMoved(y, lines, next)
  <2>1. /\ shadow'[y] = Shifted(shadow, lines)[y]
        /\ changedAt'[y] = Shifted(changedAt, lines)[y]
    BY <1>9, <1>10
  <2>2. y + lines \in Rows
    <3>1. CASE y \in damage.dirty
      BY <3>1, <1>1, <1>2, <1>6, <1>8, <1>10
    <3>2. CASE y \notin damage.dirty
      BY <3>2, <1>1, <1>2, <1>6
    <3>3. QED
      BY <3>1, <3>2
  <2>3. Shifted(shadow, lines)[y] = shadow[y + lines]
    BY <2>2, <1>7 DEF Shifted
  <2>4. Shifted(changedAt, lines)[y] = changedAt[y + lines]
    BY <2>2, <1>7 DEF Shifted
  <2>5. shadow[y + lines] = Word(screen[y + lines])
    BY <2>2, <1>7
  <2>6. next[y] = screen[y + lines] /\ Word(next[y]) = Word(screen[y + lines])
    <3>1. CASE y \in damage.dirty
      <4>1. ~Differs(next[y], Word(screen[y + lines]))
        BY <3>1, <1>8, <1>10, <2>3, <2>5
      <4>2. next[y] \in Contents /\ screen[y + lines] \in Contents
        BY <1>1, <1>3, <2>2
      <4>3. QED
        BY <4>1, <4>2, SameWordSameContent
    <3>2. CASE y \notin damage.dirty
      <4>1. lines = 0 /\ y + lines = y
        BY <3>2, <1>1, <1>2, <1>6
      <4>2. QED
        BY <4>1, <3>2, <1>4
    <3>3. QED
      BY <3>1, <3>2
  <2>7. QED
    BY <2>1, <2>2, <2>3, <2>4, <2>5, <2>6 DEF RowIsMoved
<1>11. ASSUME NEW y \in Rows, y \in changed PROVE RowIsNew(y, next)
  BY <1>9, <1>11 DEF RowIsNew
<1>12. QED
  BY <1>1, <1>3, <1>5, <1>6, <1>9, <1>10, <1>11

LEMMA ShownStaysTyped ==
  ASSUME TypeOK, UNCHANGED shown, revision \in Nat, revision' \in Nat, revision <= revision'
  PROVE  shown' \in [Clients -> {NotShown} \cup Images']
<1>1. Images \subseteq Images'
  BY DEF Images
<1>2. QED
  BY <1>1 DEF TypeOK

(* An image a client has was made at a revision that has been, and it follows. *)
LEMMA ImageIsTyped ==
  ASSUME Inv, NEW c \in Clients, shown[c] # NotShown
  PROVE  shown[c] \in Images /\ shown[c].revision \in 0..revision /\ Follows(shown[c])
BY DEF Inv, TypeOK, Images

LEMMA TypedNumbers ==
  ASSUME ScreenRepaintAssumption, Inv
  PROVE  /\ revision \in Nat /\ fullFloor \in Nat /\ cursorAt \in Nat /\ modesAt \in Nat
         /\ fullFloor <= revision /\ cursorAt <= revision /\ modesAt <= revision
         /\ scrollAt \in Ring /\ ScrollRing \in Nat \ {0} /\ MaxRows \in Nat /\ MaxRevision \in Nat
         /\ DOMAIN changedAt = Rows
         /\ \A y \in Rows : changedAt[y] \in Nat /\ changedAt[y] <= revision
<1>1. scrollAt \in Ring
  BY DEF Inv, TypeOK, Ring, ScreenRepaintAssumption
<1>2. revision \in Nat
  BY DEF Inv, TypeOK, ScreenRepaintAssumption
<1>3. QED
  BY <1>1, <1>2 DEF Inv, TypeOK, ScreenRepaintAssumption

LEMMA FeedKeepsType ==
  ASSUME ScreenRepaintAssumption, Inv, NEW damage \in Damage, NEW next \in ScreensAfter(damage),
         NEW cur \in Cursors, NEW ms \in SUBSET Modes, NEW touched \in BOOLEAN,
         Feed(damage, next, cur, ms, touched)
  PROVE  TypeOK'
<1>1. PICK h \in 1..MaxRows : Rows = 1..h /\ Height = h /\ screen \in [1..h -> Contents]
  BY ScreenHasHeight DEF Inv, TypeOK, Rows, Height
<1>2. revision' = revision + 1 /\ TrackDamage(damage, next) /\ screen' = next
  BY DEF Feed
<1>3. /\ damage.scrolled \in 0..h
      /\ next \in [Rows -> Contents]
      /\ changedAt' = [y \in Rows |-> changedAt'[y]] /\ shadow' = [y \in Rows |-> shadow'[y]]
      /\ \A y \in Rows : RowIsNew(y, next) \/ RowIsMoved(y, damage.scrolled, next)
  BY <1>1, <1>2, FeedMovesRows
<1>4. revision' \in 0..MaxRevision /\ revision' \in Nat /\ revision \in Nat
  BY <1>2, TypedNumbers DEF Feed
<1>5. Rows' = Rows /\ screen' \in Screens
  BY <1>1, <1>2, <1>3 DEF Rows, Screens
<1>6. shadow' \in [Rows' -> Words]
  <2>1. \A y \in Rows : shadow'[y] = Word(next[y]) /\ next[y] \in Contents
    BY <1>3 DEF RowIsNew, RowIsMoved
  <2>2. \A y \in Rows : shadow'[y] \in Words
    BY <2>1, WordIsTyped
  <2>3. QED
    BY <1>3, <1>5, <2>2
<1>7. changedAt' \in [Rows' -> 0..revision']
  <2>1. \A y \in Rows : changedAt'[y] \in 0..revision'
    BY <1>2, <1>3, <1>4, TypedNumbers DEF RowIsNew, RowIsMoved
  <2>2. QED
    BY <1>3, <1>5, <2>1
<1>8. scrollAt' \in [0..(ScrollRing - 1) -> 0..MaxRows]
  <2>1. damage.scrolled \in 0..MaxRows
    BY <1>1, <1>3, TypedNumbers
  <2>2. scrollAt' = [scrollAt EXCEPT ![revision' % ScrollRing] = damage.scrolled]
    BY <1>2 DEF TrackDamage
  <2>3. QED
    BY <2>1, <2>2 DEF Inv, TypeOK
<1>9. fullFloor' \in 0..revision'
  BY <1>2, TypedNumbers DEF Feed
<1>10. cursor' \in Cursors /\ cursorState' \in Cursors /\ cursorAt' \in 0..revision'
  BY <1>2, <1>4, TypedNumbers DEF Feed, TrackCursor
<1>11. modes' \subseteq Modes /\ modeState' \subseteq Modes /\ modesAt' \in 0..revision'
  <2>1. modeState \subseteq Modes
    BY DEF Inv, TypeOK
  <2>2. modesAt' \in 0..revision'
    <3>1. modesAt' = revision' \/ modesAt' = modesAt
      BY DEF Feed, TrackModes
    <3>2. QED
      BY <3>1, <1>2, <1>4, TypedNumbers
  <2>3. QED
    BY <2>1, <2>2 DEF Feed, TrackModes
<1>12. shown' \in [Clients -> {NotShown} \cup Images']
  BY <1>2, <1>4, ShownStaysTyped DEF Feed, Inv
<1>13. QED
  BY <1>4, <1>5, <1>6, <1>7, <1>8, <1>9, <1>10, <1>11, <1>12 DEF TypeOK

LEMMA FeedKeepsFollowing ==
  ASSUME ScreenRepaintAssumption, Inv, NEW damage \in Damage, NEW next \in ScreensAfter(damage),
         NEW cur \in Cursors, NEW ms \in SUBSET Modes, NEW touched \in BOOLEAN,
         Feed(damage, next, cur, ms, touched),
         NEW image \in Images, Follows(image)
  PROVE  Follows(image)'
<1>1. revision' = revision + 1 /\ TrackDamage(damage, next) /\ screen' = next /\ fullFloor' = fullFloor
  BY DEF Feed
<1>2. PICK lines : lines = damage.scrolled
  OBVIOUS
<1>3. /\ lines \in 0..Height
      /\ next \in [Rows -> Contents]
      /\ \A y \in Rows : RowIsNew(y, next) \/ RowIsMoved(y, lines, next)
  BY <1>1, <1>2, FeedMovesRows
<1>4. Rows' = Rows
  BY <1>1, <1>3 DEF Rows
<1>5. lines \in Nat /\ \A y \in Rows : y \in Nat
  BY <1>3, ScreenHasHeight DEF Inv, TypeOK, Rows, Height
<1>6. PICK r : r = image.revision /\ r \in Nat /\ r <= revision
  BY TypedNumbers DEF Images
<1>7. RowsFollow(image)'
  <2>1. SUFFICES ASSUME r >= fullFloor, revision + 1 - r <= ScrollRing
                 PROVE  RowsOn(image, next, changedAt', Scrolled(scrollAt', r, revision + 1))
    BY <1>1, <1>6, TypedNumbers DEF RowsFollow
  <2>2. PICK far : far = Scrolled(scrollAt, r, revision)
    OBVIOUS
  <2>3. far \in Nat
    BY <2>2, <1>6, TypedNumbers, ScrolledNat
  <2>4. scrollAt' = [scrollAt EXCEPT ![(revision + 1) % ScrollRing] = lines]
    BY <1>1, <1>2 DEF TrackDamage
  <2>5. Scrolled(scrollAt', r, revision + 1) = far + lines
    <3>1. /\ scrollAt \in Ring /\ lines \in Nat /\ r \in Nat /\ revision \in Nat /\ r <= revision
          /\ revision + 1 - r <= ScrollRing /\ ScrollRing \in Nat \ {0}
      BY <2>1, <1>5, <1>6, TypedNumbers
    <3>2. Scrolled([scrollAt EXCEPT ![(revision + 1) % ScrollRing] = lines], r, revision + 1)
            = Scrolled(scrollAt, r, revision) + lines
      BY ONLY <3>1, ScrolledMore
    <3>3. QED
      BY <3>2, <2>2, <2>4
  <2>6. /\ DOMAIN image.screen = Rows
        /\ \A y \in Rows : changedAt[y] <= r => y + far \in Rows /\ screen[y] = image.screen[y + far]
    <3>1. r >= fullFloor /\ revision - r <= ScrollRing
      BY <2>1, <1>6, TypedNumbers
    <3>2. QED
      BY <3>1, <2>2, <1>6 DEF Follows, RowsFollow, RowsOn, Rows
  <2>7. ASSUME NEW y \in Rows, changedAt'[y] <= r
        PROVE  y + (far + lines) \in Rows /\ next[y] = image.screen[y + (far + lines)]
    <3>1. ~RowIsNew(y, next)
      BY <2>7, <1>6, TypedNumbers DEF RowIsNew
    <3>2. /\ y + lines \in Rows /\ changedAt'[y] = changedAt[y + lines]
          /\ next[y] = screen[y + lines]
      BY <3>1, <1>3 DEF RowIsMoved
    <3>3. (y + lines) + far \in Rows /\ screen[y + lines] = image.screen[(y + lines) + far]
      BY <3>2, <2>6, <2>7
    <3>4. (y + lines) + far = y + (far + lines)
      BY <1>5, <2>3
    <3>5. QED
      BY <3>2, <3>3, <3>4
  <2>8. DOMAIN next = Rows
    BY <1>3
  <2>9. QED
    BY <2>5, <2>6, <2>7, <2>8, <1>6 DEF RowsOn
<1>8. CursorFollows(image)'
  <2>1. cursor' = cur /\ TrackCursor(cur)
    BY DEF Feed
  <2>2. cursorState = cursor /\ CursorFollows(image)
    BY DEF Inv, Remembers, Follows
  <2>3. QED
    BY <2>1, <2>2, <1>1, <1>6, TypedNumbers DEF TrackCursor, CursorFollows
<1>9. ModesFollow(image)'
  <2>1. modes' = ms /\ TrackModes(ms, touched) /\ ModesFollow(image)
    BY DEF Feed, Follows
  <2>2. CASE touched
    BY <2>1, <2>2, <1>1, <1>6, TypedNumbers DEF TrackModes, ModesFollow
  <2>3. CASE ~touched
    BY <2>1, <2>3 DEF TrackModes, ModesFollow
  <2>4. QED
    BY <2>2, <2>3
<1>10. QED
  BY <1>7, <1>8, <1>9 DEF Follows

LEMMA FeedKeepsInv ==
  ASSUME ScreenRepaintAssumption, Inv, NEW damage \in Damage, NEW next \in ScreensAfter(damage),
         NEW cur \in Cursors, NEW ms \in SUBSET Modes, NEW touched \in BOOLEAN,
         Feed(damage, next, cur, ms, touched)
  PROVE  Inv'
<1>1. Remembers'
  <2>1. revision' = revision + 1 /\ TrackDamage(damage, next) /\ screen' = next
    BY DEF Feed
  <2>2. Rows' = Rows /\ \A y \in Rows : shadow'[y] = Word(next[y])
    BY <2>1, FeedMovesRows DEF Rows, RowIsNew, RowIsMoved
  <2>3. cursorState' = cursor'
    BY DEF Feed, TrackCursor
  <2>4. modeState' \cap NoticedModes = modes' \cap NoticedModes
    <3>1. modeState \cap NoticedModes = modes \cap NoticedModes
      BY DEF Inv, Remembers
    <3>2. QED
      BY <3>1 DEF Feed, TrackModes
  <2>5. QED
    BY <2>1, <2>2, <2>3, <2>4 DEF Remembers
<1>2. ASSUME NEW c \in Clients, shown[c] # NotShown PROVE Follows(shown[c])'
  <2>1. PICK image \in Images : image = shown[c] /\ Follows(image)
    BY <1>2, ImageIsTyped
  <2>2. Follows(image)'
    BY <2>1, FeedKeepsFollowing
  <2>3. shown' = shown
    BY DEF Feed
  <2>4. QED
    BY <2>1, <2>2, <2>3 DEF Follows, RowsFollow, CursorFollows, ModesFollow
<1>3. shown' = shown
  BY DEF Feed
<1>4. QED
  BY <1>1, <1>2, <1>3, FeedKeepsType DEF Inv

-----------------------------------------------------------------------------
(* A screen drawn anew: no delta starts from the images there are. *)

LEMMA RedrawKeepsInv ==
  ASSUME ScreenRepaintAssumption, Inv, NEW next \in Screens, NEW cur \in Cursors,
         NEW ms \in SUBSET Modes, Redraw(next, cur, ms)
  PROVE  Inv'
<1>1. /\ revision' = revision + 1 /\ revision < MaxRevision
      /\ screen' = next /\ cursor' = cur /\ modes' = ms /\ fullFloor' = revision' /\ shown' = shown
      /\ shadow' = [y \in DOMAIN next |-> Word(next[y])]
      /\ changedAt' = [y \in DOMAIN next |-> revision']
      /\ scrollAt' = [scrollAt EXCEPT ![revision' % ScrollRing] = 0]
      /\ cursorState' = cur /\ cursorAt' = revision'
      /\ modeState' = ms /\ modesAt' = revision'
  BY DEF Redraw, Resync
<1>2. revision' \in 0..MaxRevision /\ revision' \in Nat /\ revision \in Nat /\ revision' \in 0..revision'
  BY <1>1, TypedNumbers
<1>3. PICK h \in 1..MaxRows : DOMAIN next = 1..h /\ next \in [1..h -> Contents]
  BY ScreenHasHeight
<1>4. Rows' = DOMAIN next
  BY <1>1 DEF Rows
<1>5. TypeOK'
  <2>1. shadow' \in [Rows' -> Words]
    BY <1>1, <1>3, <1>4, WordIsTyped
  <2>2. changedAt' \in [Rows' -> 0..revision']
    BY <1>1, <1>2, <1>4
  <2>3. scrollAt' \in [0..(ScrollRing - 1) -> 0..MaxRows]
    <3>1. 0 \in 0..MaxRows
      BY TypedNumbers
    <3>2. QED
      BY <3>1, <1>1 DEF Inv, TypeOK
  <2>4. shown' \in [Clients -> {NotShown} \cup Images']
    BY <1>1, <1>2, ShownStaysTyped DEF Inv
  <2>5. fullFloor' \in 0..revision' /\ cursorAt' \in 0..revision' /\ modesAt' \in 0..revision'
    BY <1>1, <1>2
  <2>6. QED
    BY <1>1, <1>2, <2>1, <2>2, <2>3, <2>4, <2>5 DEF TypeOK
<1>6. Remembers'
  BY <1>1, <1>4 DEF Remembers
<1>7. ASSUME NEW c \in Clients, shown[c] # NotShown PROVE Follows(shown[c])'
  <2>1. shown[c].revision \in 0..revision
    BY <1>7, ImageIsTyped
  <2>2. ~(shown[c].revision >= revision') /\ ~(revision' <= shown[c].revision)
    BY <2>1, <1>1, <1>2
  <2>3. QED
    BY <2>2, <1>1 DEF Follows, RowsFollow, CursorFollows, ModesFollow
<1>8. QED
  BY <1>1, <1>5, <1>6, <1>7 DEF Inv

-----------------------------------------------------------------------------
(* Repaints. *)

(* An image of the present screen, rows, cursor and noticed modes. *)
IsMirror(image) ==
  /\ image \in Images
  /\ image.revision = revision /\ image.screen = screen /\ image.cursor = cursor
  /\ image.modes \cap NoticedModes = modes \cap NoticedModes

LEMMA MirrorFollows ==
  ASSUME ScreenRepaintAssumption, Inv, NEW image, IsMirror(image)
  PROVE  Follows(image)
<1>1. RowsFollow(image)
  <2>1. Scrolled(scrollAt, revision, revision) = 0
    BY TypedNumbers, ScrolledNothing
  <2>2. \A y \in Rows : y + 0 = y
    BY ScreenHasHeight DEF Inv, TypeOK, Rows
  <2>3. QED
    BY <2>1, <2>2 DEF IsMirror, RowsFollow, RowsOn, Rows
<1>2. QED
  BY <1>1 DEF IsMirror, Follows, CursorFollows, ModesFollow

LEMMA RepaintKeepsInv ==
  ASSUME ScreenRepaintAssumption, Inv, NEW c \in Clients, NEW image, IsMirror(image),
         shown' = [shown EXCEPT ![c] = image],
         UNCHANGED <<screen, cursor, modes, emulator>>
  PROVE  Inv'
<1>1. /\ screen' = screen /\ cursor' = cursor /\ modes' = modes /\ shadow' = shadow
      /\ changedAt' = changedAt /\ scrollAt' = scrollAt /\ fullFloor' = fullFloor
      /\ cursorState' = cursorState /\ cursorAt' = cursorAt
      /\ modeState' = modeState /\ modesAt' = modesAt /\ revision' = revision
  BY DEF emulator
<1>2. Rows' = Rows /\ Images' = Images
  BY <1>1 DEF Rows, Images
<1>3. TypeOK'
  <2>1. shown' \in [Clients -> {NotShown} \cup Images']
    BY <1>2 DEF Inv, TypeOK, IsMirror
  <2>2. QED
    BY <2>1, <1>1, <1>2 DEF Inv, TypeOK
<1>4. Remembers'
  BY <1>1, <1>2 DEF Inv, Remembers
<1>5. ASSUME NEW d \in Clients, shown'[d] # NotShown PROVE Follows(shown[d])'
  <2>1. PICK new : new = shown'[d]
    OBVIOUS
  <2>2. Follows(new)
    <3>1. CASE d = c
      <4>1. new = image
        BY <2>1, <3>1 DEF Inv, TypeOK
      <4>2. QED
        BY <4>1, MirrorFollows
    <3>2. CASE d # c
      <4>1. new = shown[d]
        BY <2>1, <3>2 DEF Inv, TypeOK
      <4>2. QED
        BY <4>1, <2>1, <1>5 DEF Inv
    <3>3. QED
      BY <3>1, <3>2
  <2>3. QED
    BY <2>1, <2>2, <1>1 DEF Follows, RowsFollow, CursorFollows, ModesFollow
<1>6. QED
  BY <1>3, <1>4, <1>5 DEF Inv

LEMMA ImageIsMirror == ScreenRepaintAssumption /\ Inv => IsMirror(Image)
<1> SUFFICES ASSUME ScreenRepaintAssumption, Inv PROVE IsMirror(Image)
  OBVIOUS
<1>1. revision \in 0..revision
  BY TypedNumbers
<1>2. QED
  BY <1>1 DEF Inv, TypeOK, IsMirror, Image, Images

(* A delta, from where one can start, makes the screen, cursor and modes. *)
LEMMA DeltaIsMirror ==
  ASSUME ScreenRepaintAssumption, Inv, NEW image \in Images, Follows(image),
         ~BeyondDelta(image.revision)
  PROVE  IsMirror(Delta(image))
<1>1. PICK r : r = image.revision /\ r \in Nat /\ r <= revision
  BY TypedNumbers DEF Images
<1>2. r >= fullFloor /\ revision - r <= ScrollRing
  BY <1>1, TypedNumbers DEF BeyondDelta
<1>3. PICK h \in 1..MaxRows : Rows = 1..h /\ Height = h /\ screen \in [1..h -> Contents]
  BY ScreenHasHeight DEF Inv, TypeOK, Rows, Height
<1>4. PICK far : far = Scrolled(scrollAt, r, revision)
  OBVIOUS
<1>5. far \in Nat
  BY <1>1, <1>4, TypedNumbers, ScrolledNat
<1>6. RowsOn(image, screen, changedAt, far)
  BY <1>1, <1>2, <1>4 DEF Follows, RowsFollow
<1>7. PICK k : k = ScrolledSince(r)
  OBVIOUS
<1>8. h \in Nat
  BY <1>3, TypedNumbers
<1>9. Delta(image).revision = revision
  BY DEF Delta
<1>10. Delta(image).screen = screen
  <2>1. Delta(image).screen
          = [y \in DOMAIN image.screen |->
               IF y \in {z \in Rows : changedAt[z] > r} THEN screen[y]
               ELSE IF y + k \in DOMAIN image.screen THEN image.screen[y + k]
               ELSE Blank]
    BY <1>1, <1>7 DEF Delta
  <2>2. DOMAIN image.screen = Rows
    BY <1>6 DEF RowsOn, Rows
  <2>3. ASSUME NEW y \in Rows, ~(changedAt[y] > r)
        PROVE  y + k \in Rows /\ image.screen[y + k] = screen[y]
    <3>1. y + far \in Rows /\ screen[y] = image.screen[y + far]
      <4>1. changedAt[y] <= image.revision
        BY <2>3, <1>1, TypedNumbers
      <4>2. QED
        BY <4>1, <1>6 DEF RowsOn, Rows
    <3>2. far <= h
      BY <3>1, <1>3, <1>5, <1>8
    <3>3. k = far
      <4>1. Min({far, h}) = far
        BY <3>2, <1>5, <1>8, MinOfTwo
      <4>2. QED
        BY <4>1, <1>3, <1>4, <1>7 DEF ScrolledSince
    <3>4. QED
      BY <3>1, <3>3
  <2>4. \A y \in Rows : Delta(image).screen[y] = screen[y]
    BY <2>1, <2>2, <2>3
  <2>5. DOMAIN Delta(image).screen = Rows
    BY <2>1, <2>2
  <2>6. QED
    BY <2>1, <2>2, <2>4, <1>3
<1>11. Delta(image).cursor = cursor
  <2>1. CursorFollows(image)
    BY DEF Follows
  <2>2. \/ Delta(image).cursor = cursor
        \/ Delta(image).cursor = image.cursor /\ cursorAt <= image.revision
    BY DEF Delta
  <2>3. QED
    BY <2>1, <2>2 DEF CursorFollows
<1>12. /\ Delta(image).modes \cap NoticedModes = modes \cap NoticedModes
       /\ Delta(image).modes \subseteq Modes
  <2>1. CASE modesAt > r
    <3>1. Delta(image).modes = modeState
      BY <2>1, <1>1 DEF Delta
    <3>2. QED
      BY <3>1 DEF Inv, TypeOK, Remembers
  <2>2. CASE ~(modesAt > r)
    <3>1. Delta(image).modes = image.modes
      BY <2>2, <1>1 DEF Delta
    <3>2. modesAt <= image.revision
      BY <2>2, <1>1, TypedNumbers
    <3>3. QED
      BY <3>1, <3>2 DEF Follows, ModesFollow, Images
  <2>3. QED
    BY <2>1, <2>2
<1>13. Delta(image) \in Images
  <2>1. revision \in 0..revision /\ screen \in Screens /\ cursor \in Cursors
    BY TypedNumbers DEF Inv, TypeOK
  <2>2. Delta(image) = [revision |-> revision, screen |-> screen, cursor |-> cursor,
                        modes |-> Delta(image).modes]
    BY <1>10, <1>11 DEF Delta
  <2>3. QED
    BY <2>1, <2>2, <1>12 DEF Images
<1>14. QED
  BY <1>9, <1>10, <1>11, <1>12, <1>13 DEF IsMirror

LEMMA RepaintSinceKeepsInv ==
  ASSUME ScreenRepaintAssumption, Inv, NEW c \in Clients, RepaintSince(c)
  PROVE  Inv'
<1>1. PICK image \in Images : image = shown[c] /\ Follows(image)
  BY ImageIsTyped DEF RepaintSince
<1>2. \E new : IsMirror(new) /\ shown' = [shown EXCEPT ![c] = new]
  <2>1. CASE BeyondDelta(image.revision)
    BY <2>1, <1>1, ImageIsMirror DEF RepaintSince
  <2>2. CASE ~BeyondDelta(image.revision)
    <3>1. IsMirror(Delta(image)) /\ IsMirror(Image)
      BY <2>2, <1>1, DeltaIsMirror, ImageIsMirror
    <3>2. \E new \in {Delta(image), Image} : shown' = [shown EXCEPT ![c] = new]
      BY <2>2, <1>1 DEF RepaintSince
    <3>3. QED
      BY <3>1, <3>2
  <2>3. QED
    BY <2>1, <2>2
<1>3. UNCHANGED <<screen, cursor, modes, emulator>>
  BY DEF RepaintSince
<1>4. QED
  BY <1>2, <1>3, RepaintKeepsInv

-----------------------------------------------------------------------------
LEMMA InvNext == ScreenRepaintAssumption /\ Inv /\ [Next]_vars => Inv'
<1> SUFFICES ASSUME ScreenRepaintAssumption, Inv, [Next]_vars PROVE Inv'
  OBVIOUS
<1>1. CASE Output
  <2>1. PICK cur \in Cursors, ms \in SUBSET Modes :
          \/ \E damage \in Damage, touched \in BOOLEAN : \E next \in ScreensAfter(damage) :
               Feed(damage, next, cur, ms, touched)
          \/ \E next \in [Rows -> Contents] : Invalidate(next, cur, ms)
    BY <1>1 DEF Output
  <2>2. CASE \E damage \in Damage, touched \in BOOLEAN : \E next \in ScreensAfter(damage) :
               Feed(damage, next, cur, ms, touched)
    BY <2>2, FeedKeepsInv
  <2>3. CASE \E next \in [Rows -> Contents] : Invalidate(next, cur, ms)
    <3>1. PICK next \in [Rows -> Contents] : Invalidate(next, cur, ms)
      BY <2>3
    <3>2. next \in Screens
      BY ScreenHasHeight DEF Inv, TypeOK, Rows, Screens
    <3>3. QED
      BY <3>1, <3>2, RedrawKeepsInv DEF Invalidate
  <2>4. QED
    BY <2>1, <2>2, <2>3
<1>2. CASE \E next \in Screens, cur \in Cursors : Resize(next, cur)
  <2>1. modes \in SUBSET Modes
    BY DEF Inv, TypeOK
  <2>2. QED
    BY <2>1, <1>2, RedrawKeepsInv DEF Resize
<1>3. CASE \E c \in Clients : FullRepaint(c)
  BY <1>3, ImageIsMirror, RepaintKeepsInv DEF FullRepaint
<1>4. CASE \E c \in Clients : RepaintSince(c)
  BY <1>4, RepaintSinceKeepsInv
<1>5. CASE UNCHANGED vars
  BY <1>5 DEF vars, emulator, Inv, TypeOK, Remembers, Follows, RowsFollow, CursorFollows,
              ModesFollow, Rows, Images
<1>6. QED
  BY <1>1, <1>2, <1>3, <1>4, <1>5 DEF Next

LEMMA Invariance == ScreenRepaintAssumption => (Spec => []Inv)
<1>1. SUFFICES ASSUME ScreenRepaintAssumption PROVE Spec => []Inv
  OBVIOUS
<1>2. Init => Inv
  BY <1>1, InvInit
<1>3. Inv /\ [Next]_vars => Inv'
  BY <1>1, InvNext
<1>4. QED
  BY <1>2, <1>3, PTL DEF Spec

(* Every variable of an emulator and of its clients keeps its type; the     *)
(* screens clients have are among them (headless-emulator.ts).              *)
THEOREM TypeCorrect == ScreenRepaintAssumption => (Spec => []TypeOK)
<1>1. Inv => TypeOK
  BY DEF Inv
<1>2. QED
  BY <1>1, Invariance, PTL

(* What repaintSince sends makes of any older screen the present one, row by *)
(* row, or is a full repaint (headless-emulator.ts, repaintSince and         *)
(* trackDamage).                                                             *)
THEOREM ScreenFollows == ScreenRepaintAssumption => (Spec => []ScreenIsMirrored)
<1>1. SUFFICES ASSUME ScreenRepaintAssumption PROVE Spec => []ScreenIsMirrored
  OBVIOUS
<1>2. Inv => ScreenIsMirrored
  <2> SUFFICES ASSUME Inv, NEW c \in Clients, UpToDate(c)
               PROVE  shown[c].screen = screen
    BY DEF ScreenIsMirrored
  <2>1. PICK image \in Images : image = shown[c] /\ Follows(image) /\ image.revision = revision
    BY ImageIsTyped DEF UpToDate
  <2>2. Scrolled(scrollAt, revision, revision) = 0
    BY <1>1, TypedNumbers, ScrolledNothing
  <2>3. RowsOn(image, screen, changedAt, 0)
    BY <2>1, <2>2, <1>1, TypedNumbers DEF Follows, RowsFollow
  <2>4. PICK h \in 1..MaxRows : Rows = 1..h /\ screen \in [1..h -> Contents]
    BY <1>1, ScreenHasHeight DEF Inv, TypeOK, Rows
  <2>5. DOMAIN image.screen = Rows /\ \A y \in Rows : screen[y] = image.screen[y]
    <3>1. \A y \in Rows : changedAt[y] <= revision /\ y + 0 = y
      BY <2>4, <1>1, TypedNumbers
    <3>2. QED
      BY <3>1, <2>1, <2>3 DEF RowsOn, Rows
  <2>6. image.screen = [y \in DOMAIN image.screen |-> image.screen[y]]
    BY DEF Images, Screens
  <2>7. QED
    BY <2>1, <2>4, <2>5, <2>6
<1>3. QED
  BY <1>1, <1>2, Invariance, PTL

(* The cursor of a client painted at the present revision is the emulator's, *)
(* also if nothing else changed (trackDamage's cursorChangedAt).             *)
THEOREM CursorFollowsScreen == ScreenRepaintAssumption => (Spec => []CursorIsMirrored)
<1>1. SUFFICES ASSUME ScreenRepaintAssumption PROVE Spec => []CursorIsMirrored
  OBVIOUS
<1>2. Inv => CursorIsMirrored
  <2> SUFFICES ASSUME Inv, NEW c \in Clients, UpToDate(c)
               PROVE  shown[c].cursor = cursor
    BY DEF CursorIsMirrored
  <2>1. CursorFollows(shown[c]) /\ shown[c].revision = revision
    BY ImageIsTyped DEF UpToDate, Follows
  <2>2. QED
    BY <2>1, <1>1, TypedNumbers DEF CursorFollows
<1>3. QED
  BY <1>1, <1>2, Invariance, PTL

(* So are the modes whose sequences the emulator has handlers for            *)
(* (registerDamageListeners and trackDamage's modesChangedAt).               *)
THEOREM NoticedModesFollow == ScreenRepaintAssumption => (Spec => []NoticedModesAreMirrored)
<1>1. SUFFICES ASSUME ScreenRepaintAssumption PROVE Spec => []NoticedModesAreMirrored
  OBVIOUS
<1>2. Inv => NoticedModesAreMirrored
  <2> SUFFICES ASSUME Inv, NEW c \in Clients, UpToDate(c)
               PROVE  shown[c].modes \cap NoticedModes = modes \cap NoticedModes
    BY DEF NoticedModesAreMirrored
  <2>1. ModesFollow(shown[c]) /\ shown[c].revision = revision
    BY ImageIsTyped DEF UpToDate, Follows
  <2>2. QED
    BY <2>1, <1>1, TypedNumbers DEF ModesFollow
<1>3. QED
  BY <1>1, <1>2, Invariance, PTL
=============================================================================
