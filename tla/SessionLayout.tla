---------------------------- MODULE SessionLayout ----------------------------
(***************************************************************************)
(* A session's layout: tabs, each a binary tree of panes, and who has the  *)
(* focus (packages/core/src/session-layout.ts), under the operations the   *)
(* daemon and the clients apply to it, and its repair when it is read from *)
(* the database.                                                           *)
(*                                                                         *)
(* A tree is the function from its leaves' paths to their terminals; a     *)
(* path is a sequence of 1 (first) and 2 (second).  Axes and fractions     *)
(* decide nothing here and are left out.                                   *)
(***************************************************************************)
EXTENDS Naturals, Sequences, FiniteSets

CONSTANTS IDs,        \* terminals, in the order they may be made
          MaxDepth    \* MAXIMUM_PANE_DEPTH

SessionLayoutAssumption == MaxDepth \in Nat \ {0}

VARIABLES layout,     \* [tabs, focused], tabs numbered from 1 and not from 0
          existing    \* the session's terminals

vars == <<layout, existing>>

-----------------------------------------------------------------------------
(* Trees *)

Leaf(id) == [p \in {<<>>} |-> id]
Under(i, tree) == [p \in {<<i>> \o q : q \in DOMAIN tree} |-> tree[Tail(p)]]
Merged(f, g) == [p \in DOMAIN f \cup DOMAIN g |-> IF p \in DOMAIN f THEN f[p] ELSE g[p]]
Split(first, second) == Merged(Under(1, first), Under(2, second))

IDsOf(tree) == {tree[p] : p \in DOMAIN tree}
Holds(tree, id) == id \in IDsOf(tree)
PathOf(tree, id) == CHOOSE p \in DOMAIN tree : tree[p] = id
Depth(tree) == 1 + (CHOOSE n \in {Len(p) : p \in DOMAIN tree} :
                      \A p \in DOMAIN tree : Len(p) <= n)

Extends(p, q) == Len(p) >= Len(q) /\ SubSeq(p, 1, Len(q)) = q
Subtree(tree, q) ==
  [p \in {SubSeq(r, Len(q) + 1, Len(r)) : r \in {r \in DOMAIN tree : Extends(r, q)}}
     |-> tree[q \o p]]
First(tree) == tree[CHOOSE p \in DOMAIN tree : \A i \in 1..Len(p) : p[i] = 1]

\* replaceTerminal
Replaced(tree, id, by) ==
  LET q == PathOf(tree, id)
  IN  Merged([p \in DOMAIN tree \ {q} |-> tree[p]],
             [p \in {q \o r : r \in DOMAIN by} |-> by[SubSeq(p, Len(q) + 1, Len(p))]])

\* What is left of a tree when some leaves go: a split that loses one side
\* becomes the other (removeTerminal, dropAbsent).
Pruned(tree, kept) ==
  LET Beside(p, i) == SubSeq(p, 1, i - 1) \o <<3 - p[i]>>
      Stays(p) == {i \in 1..Len(p) : \E q \in kept : Extends(q, Beside(p, i))}
      Short(p) == LET at[n \in 0..Len(p)] ==
                        IF n = 0 THEN <<>>
                        ELSE IF n \in Stays(p) THEN Append(at[n - 1], p[n]) ELSE at[n - 1]
                  IN  at[Len(p)]
  IN  [s \in {Short(p) : p \in kept} |-> tree[CHOOSE p \in kept : Short(p) = s]]

Without(tree, id) == Pruned(tree, {p \in DOMAIN tree : tree[p] # id})
Sibling(tree, id) ==
  LET p == PathOf(tree, id)
  IN  Subtree(tree, SubSeq(p, 1, Len(p) - 1) \o <<3 - p[Len(p)]>>)

\* truncateDepth: what is too deep becomes its first terminal.
Truncated(tree) ==
  LET deep == {p \in DOMAIN tree : Len(p) >= MaxDepth}
      cuts == {SubSeq(p, 1, MaxDepth - 1) : p \in deep}
  IN  [p \in (DOMAIN tree \ deep) \cup cuts |->
         IF p \in cuts THEN First(Subtree(tree, p)) ELSE tree[p]]

-----------------------------------------------------------------------------
(* Layouts *)

Empty == [tabs |-> <<>>, focused |-> 1]
Tab(root, id) == [root |-> root, focus |-> id]

TabsWith(l, id) == {i \in 1..Len(l.tabs) : Holds(l.tabs[i].root, id)}
TabOf(l, id) == CHOOSE i \in TabsWith(l, id) : \A j \in TabsWith(l, id) : i <= j
Dropped(tabs, i) == SubSeq(tabs, 1, i - 1) \o SubSeq(tabs, i + 1, Len(tabs))
Inserted(tabs, i, tab) == SubSeq(tabs, 1, i - 1) \o <<tab>> \o SubSeq(tabs, i, Len(tabs))

\* appendTerminalTab, for a terminal the user asked for, or not.
Appended(l, id, focus) ==
  [tabs |-> Append(l.tabs, Tab(Leaf(id), id)),
   focused |-> IF focus THEN Len(l.tabs) + 1 ELSE l.focused]

\* splitPane: the layout itself when the tree would be too deep.
SplitBeside(l, id, new) ==
  LET i == TabOf(l, id)
      root == Replaced(l.tabs[i].root, id, Split(Leaf(id), Leaf(new)))
  IN  IF Depth(root) > MaxDepth THEN l
      ELSE [l EXCEPT !.tabs[i] = Tab(root, new)]

\* closeTerminal
Closed(l, id) ==
  LET i == TabOf(l, id)
      tab == l.tabs[i]
      tabs == Dropped(l.tabs, i)
  IN  IF TabsWith(l, id) = {} THEN l
      ELSE IF tab.root # Leaf(id)
      THEN [l EXCEPT !.tabs[i] =
              Tab(Without(tab.root, id),
                  IF tab.focus = id THEN First(Sibling(tab.root, id)) ELSE tab.focus)]
      ELSE IF tabs = <<>> THEN Empty
      ELSE [tabs |-> tabs,
            focused |-> CASE l.focused > i -> l.focused - 1
                          [] l.focused = i -> IF i < Len(tabs) THEN i ELSE Len(tabs)
                          [] OTHER -> l.focused]

\* Mutation of moveTab: the tab that lands where the focused one is does not
\* push it on.
TabMovedOffByOne(l, from, to) ==
  IF from = to THEN l
  ELSE LET tab == l.tabs[from]
           left == IF l.focused > from THEN l.focused - 1 ELSE l.focused
       IN  [tabs |-> Inserted(Dropped(l.tabs, from), to, tab),
            focused |-> IF l.focused = from THEN to
                        ELSE IF left > to THEN left + 1 ELSE left]

\* moveTab: the focus follows the tab it was on.
TabMoved(l, from, to) ==
  IF from = to THEN l
  ELSE LET tab == l.tabs[from]
           left == IF l.focused > from THEN l.focused - 1 ELSE l.focused
       IN  [tabs |-> Inserted(Dropped(l.tabs, from), to, tab),
            focused |-> IF l.focused = from THEN to
                        ELSE IF left >= to THEN left + 1 ELSE left]

\* withDockedRoot
Docked(l, stripped, i, root, id) ==
  IF Depth(root) > MaxDepth THEN l
  ELSE [tabs |-> [stripped.tabs EXCEPT ![i] = Tab(root, id)], focused |-> i]

\* moveTerminal, to a tab of its own, beside another, or into a tab.
ToNewTab(l, id) ==
  IF l.tabs[TabOf(l, id)].root = Leaf(id) THEN l
  ELSE Appended(Closed(l, id), id, TRUE)

DockedSplit(moved, target, leads) ==
  IF leads THEN Split(moved, target) ELSE Split(target, moved)

\* Mutation: the terminal is not taken from where it was.
ToBesideCopied(l, id, target, leads) ==
  IF id = target \/ TabsWith(l, target) = {} THEN l
  ELSE LET i == TabOf(l, target)
           root == Replaced(l.tabs[i].root, target,
                            DockedSplit(Leaf(id), Leaf(target), leads))
       IN  Docked(l, l, i, root, id)

ToBeside(l, id, target, leads) ==
  IF id = target \/ TabsWith(l, target) = {} THEN l
  ELSE LET stripped == Closed(l, id)
           i == TabOf(stripped, target)
           root == Replaced(stripped.tabs[i].root, target,
                            DockedSplit(Leaf(id), Leaf(target), leads))
       IN  Docked(l, stripped, i, root, id)

ToTab(l, id, requested) ==
  LET source == TabOf(l, id)
      stripped == Closed(l, id)
      removed == Len(stripped.tabs) < Len(l.tabs)
      i == IF removed /\ source < requested THEN requested - 1 ELSE requested
  IN  IF removed /\ source = requested THEN l
      ELSE Docked(l, stripped, i, DockedSplit(Leaf(id), stripped.tabs[i].root, FALSE), id)

\* focusNeighbour: the panes in reading order, over all tabs, in a ring.
Before(p, q) == \E k \in 1..Len(p) : k <= Len(q) /\ SubSeq(p, 1, k - 1) = SubSeq(q, 1, k - 1)
                                      /\ p[k] < q[k]
Leaves(l) == UNION {{<<i, p>> : p \in DOMAIN l.tabs[i].root} : i \in 1..Len(l.tabs)}
Earlier(x, y) == x[1] < y[1] \/ (x[1] = y[1] /\ Before(x[2], y[2]))
Entries(l) == CHOOSE e \in [1..Cardinality(Leaves(l)) -> Leaves(l)] :
                \A i, j \in DOMAIN e : i < j => Earlier(e[i], e[j])

FocusMoved(l, forward) ==
  LET e == Entries(l)
      n == Len(e)
      here == <<l.focused, PathOf(l.tabs[l.focused].root, l.tabs[l.focused].focus)>>
      at == CHOOSE k \in 1..n : e[k] = here
      next == e[((at - 1 + (IF forward THEN 1 ELSE n - 1)) % n) + 1]
  IN  IF n < 2 THEN l
      ELSE [tabs |-> [l.tabs EXCEPT ![next[1]].focus = l.tabs[next[1]].root[next[2]]],
            focused |-> next[1]]

-----------------------------------------------------------------------------
(* repairLayout *)

\* The first occurrence, in reading order, of each terminal there is.
Survivors(tabs, allowed) ==
  LET all == UNION {{<<i, p>> : p \in DOMAIN tabs[i].root} : i \in 1..Len(tabs)}
      ID(x) == tabs[x[1]].root[x[2]]
  IN  {x \in all : ID(x) \in allowed /\ ~\E y \in all : Earlier(y, x) /\ ID(y) = ID(x)}

\* Mutation: a terminal shown twice is kept twice.
RepairedOnceEach(l, allowed) ==
  LET Stays(i) == {p \in DOMAIN l.tabs[i].root : l.tabs[i].root[p] \in allowed}
      live == {i \in 1..Len(l.tabs) : Stays(i) # {}}
      Mended(i) == LET root == Pruned(l.tabs[i].root, Stays(i)) IN Tab(root, First(root))
      nth(n) == CHOOSE i \in live : Cardinality({j \in live : j <= i}) = n
      count == Cardinality(live)
  IN  [tabs |-> [n \in 1..count |-> Mended(nth(n))],
       focused |-> IF count = 0 \/ l.focused = 0 THEN 1
                   ELSE IF l.focused <= count THEN l.focused ELSE count]

Repaired(l, allowed) ==
  LET cut == [i \in 1..Len(l.tabs) |-> [l.tabs[i] EXCEPT !.root = Truncated(@)]]
      kept(i) == {x[2] : x \in {x \in Survivors(cut, allowed) : x[1] = i}}
      live == {i \in 1..Len(cut) : kept(i) # {}}
      Mended(i) == LET root == Pruned(cut[i].root, kept(i))
                   IN  Tab(root, IF Holds(root, cut[i].focus) THEN cut[i].focus ELSE First(root))
      nth(n) == CHOOSE i \in live : Cardinality({j \in live : j <= i}) = n
      before == Cardinality({i \in live : i < l.focused})
      count == Cardinality(live)
  IN  [tabs |-> [n \in 1..count |-> Mended(nth(n))],
       focused |-> IF count = 0 THEN 1
                   ELSE IF l.focused \in live THEN before + 1
                   ELSE IF before + 1 > count THEN count ELSE before + 1]

\* layoutViolations, of which there are none.
Sound(l, allowed) ==
  /\ \A i \in 1..Len(l.tabs) :
       /\ Depth(l.tabs[i].root) <= MaxDepth
       /\ IDsOf(l.tabs[i].root) \subseteq allowed
       /\ Holds(l.tabs[i].root, l.tabs[i].focus)
  /\ \A x, y \in Leaves(l) : l.tabs[x[1]].root[x[2]] = l.tabs[y[1]].root[y[2]] => x = y
  /\ IF l.tabs = <<>> THEN l.focused = 1 ELSE l.focused \in 1..Len(l.tabs)

-----------------------------------------------------------------------------
Shown(l) == UNION {IDsOf(l.tabs[i].root) : i \in 1..Len(l.tabs)}

Init == layout = Empty /\ existing = {}

NewTab(id) ==
  /\ id \notin existing
  /\ existing' = existing \cup {id}
  /\ layout' = Appended(layout, id, TRUE)

\* createTerminal in a split; refused when it would be too deep.
NewSplit(beside, id) ==
  /\ beside \in existing /\ id \notin existing
  /\ SplitBeside(layout, beside, id) # layout
  /\ existing' = existing \cup {id}
  /\ layout' = SplitBeside(layout, beside, id)

Close(id) ==
  /\ id \in existing
  /\ existing' = existing \ {id}
  /\ layout' = Closed(layout, id)

MoveTab(from, to) ==
  /\ {from, to} \subseteq 1..Len(layout.tabs)
  /\ layout' = TabMoved(layout, from, to)
  /\ UNCHANGED existing

MoveTerminal(id) ==
  /\ id \in existing
  /\ \/ layout' = ToNewTab(layout, id)
     \/ \E target \in existing, leads \in BOOLEAN :
          layout' = ToBeside(layout, id, target, leads)
     \/ \E i \in 1..Len(layout.tabs) : layout' = ToTab(layout, id, i)
  /\ UNCHANGED existing

FocusNeighbour(forward) ==
  /\ layout.tabs # <<>>
  /\ layout' = FocusMoved(layout, forward)
  /\ UNCHANGED existing

Next ==
  \/ \E id \in IDs : NewTab(id) \/ Close(id) \/ MoveTerminal(id)
  \/ \E beside, id \in IDs : NewSplit(beside, id)
  \/ \E from, to \in 1..Cardinality(IDs) : MoveTab(from, to)
  \/ \E forward \in BOOLEAN : FocusNeighbour(forward)

Spec == Init /\ [][Next]_vars

-----------------------------------------------------------------------------
(* Properties *)

\* Whatever is done, the layout shows each terminal of the session, once, no
\* deeper than allowed, with the focus on a pane there is.
EachTerminalOnce == Sound(layout, existing) /\ Shown(layout) = existing

Focused(l) == l.tabs[l.focused].focus

\* Moving tabs about, and closing something else, leaves the focus where the
\* user put it.
FocusKept ==
  (/\ layout.tabs # <<>>
   /\ \/ \E from, to \in 1..Len(layout.tabs) : MoveTab(from, to)
      \/ \E id \in existing : id # Focused(layout) /\ Close(id))
  => Focused(layout') = Focused(layout)

\* What a stored layout may have come to: an index or a focus out of place, a
\* pane that names another's terminal, tabs nested one level too deep.
Damaged(l) ==
  {[l EXCEPT !.focused = i] : i \in 0..Len(l.tabs) + 1}
    \cup {[l EXCEPT !.tabs[x[1]].root[x[2]] = id] : x \in Leaves(l), id \in existing}
    \cup {[l EXCEPT !.tabs[i].focus = id] : i \in 1..Len(l.tabs), id \in existing}
    \cup {[l EXCEPT !.tabs[i].root = Split(@, @)] : i \in 1..Len(l.tabs)}

\* Repair leaves a sound layout alone; it makes any other sound, whatever part
\* of the session's terminals was read with it, and drops none it need not.
RepairMends ==
  /\ Repaired(layout, existing) = layout
  /\ \A l \in Damaged(layout), allowed \in SUBSET existing :
       LET r == Repaired(l, allowed)
       IN  /\ Sound(r, allowed)
           /\ (\A i \in 1..Len(l.tabs) : Depth(l.tabs[i].root) <= MaxDepth)
                => Shown(r) = Shown(l) \cap allowed
=============================================================================
