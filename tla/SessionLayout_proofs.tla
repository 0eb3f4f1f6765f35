------------------------ MODULE SessionLayout_proofs ------------------------
(***************************************************************************)
(* A layout shows each terminal once, whatever is done to it, and repair   *)
(* mends one that was damaged where it is stored: for any terminals, and   *)
(* trees of any allowed depth.  The first part is about trees as sets of   *)
(* paths, the second about tabs, the third about what each operation and   *)
(* repair make of them, the last about the actions.                        *)
(***************************************************************************)
EXTENDS SessionLayout, Integers, FiniteSetTheorems, SequenceTheorems, WellFoundedInduction, TLAPS

(* A non-empty set of natural numbers has a least element. *)
LEMMA LeastNatural ==
  ASSUME NEW S \in SUBSET Nat, S # {}
  PROVE  \E n \in S : \A m \in S : n <= m
<1> DEFINE Intervals == {0..n : n \in S}
<1>1. \A n \in S : 0..n \in FiniteSubsetsOf(Nat)
  BY FS_Interval DEF FiniteSubsetsOf
<1>2. Intervals \subseteq FiniteSubsetsOf(Nat) /\ Intervals # {}
  BY <1>1
<1>3. PICK least \in Intervals : \A other \in Intervals : <<other, least>> \notin StrictSubsetOrdering(Nat)
  <2> HIDE DEF Intervals
  <2> QED BY <1>2, FS_StrictSubsetOrderingWellFounded, WFMin
<1>4. PICK n \in S : least = 0..n
  OBVIOUS
<1>5. ASSUME NEW m \in S, m < n PROVE FALSE
  <2>1. 0..m \subseteq 0..n /\ n \in 0..n /\ n \notin 0..m
    BY <1>5
  <2>2. 0..m \in Intervals
    OBVIOUS
  <2>3. 0..m \subseteq least /\ 0..m # least /\ least \in SUBSET Nat /\ 0..m \in SUBSET Nat
    BY <2>1, <1>4
  <2>4. <<0..m, least>> \in StrictSubsetOrdering(Nat)
    BY <2>3 DEF StrictSubsetOrdering
  <2>5. QED
    BY <2>2, <2>4, <1>3
<1>6. QED
  BY <1>5

(* A bounded one has a greatest. *)
LEMMA GreatestNatural ==
  ASSUME NEW S \in SUBSET Nat, S # {}, NEW b \in Nat, \A n \in S : n <= b
  PROVE  \E n \in S : \A m \in S : m <= n
<1> DEFINE Gaps == {b - n : n \in S}
<1>1. Gaps \in SUBSET Nat /\ Gaps # {}
  <2>1. \A n \in S : n \in Nat /\ n <= b /\ b - n \in Nat
    OBVIOUS
  <2>2. QED
    BY <2>1
<1>2. PICK gap \in Gaps : \A other \in Gaps : gap <= other
  <2> HIDE DEF Gaps
  <2> QED BY <1>1, LeastNatural
<1>3. PICK n \in S : gap = b - n
  OBVIOUS
<1>4. ASSUME NEW m \in S PROVE m <= n
  <2>1. b - m \in Gaps
    OBVIOUS
  <2>2. QED
    BY <2>1, <1>2, <1>3
<1>5. QED
  BY <1>4

-----------------------------------------------------------------------------
(* Paths. *)

Path == Seq({1, 2})

(* p leads to, or through, the node q. *)
Below(p, q) == Len(q) <= Len(p) /\ \A i \in 1..Len(q) : p[i] = q[i]

(* q goes with p up to its i-th step, and the other way there. *)
Turns(q, p, i) == i <= Len(q) /\ (\A j \in 1..i - 1 : q[j] = p[j]) /\ q[i] # p[i]

Turned(p, i) == SubSeq(p, 1, i - 1) \o <<3 - p[i]>>

(* A path has a length, and its steps go first or second. *)
LEMMA Steps ==
  ASSUME NEW p \in Path
  PROVE  Len(p) \in Nat /\ \A i \in 1..Len(p) : p[i] \in {1, 2}
BY LenProperties, ElementOfSeq DEF Path

(* Paths that are below each other are one. *)
LEMMA SamePath ==
  ASSUME NEW p \in Path, NEW q \in Path, Below(p, q), Below(q, p)
  PROVE  p = q
<1>1. Len(p) = Len(q)
  BY Steps DEF Below
<1>2. QED
  BY <1>1, SeqEqual DEF Path, Below

(* A piece of a path. *)
LEMMA Cut ==
  ASSUME NEW p \in Path, NEW m \in 1..Len(p) + 1, NEW n \in m - 1..Len(p)
  PROVE  /\ SubSeq(p, m, n) \in Path /\ Len(SubSeq(p, m, n)) = n - m + 1
         /\ \A i \in 1..n - m + 1 : SubSeq(p, m, n)[i] = p[m + i - 1]
<1>1. m \in Int /\ n \in Int /\ \A i \in m..n : p[i] \in {1, 2}
  BY Steps
<1>2. /\ SubSeq(p, m, n) \in Path
      /\ Len(SubSeq(p, m, n)) = IF m <= n THEN n - m + 1 ELSE 0
      /\ \A i \in 1..n - m + 1 : SubSeq(p, m, n)[i] = p[m + i - 1]
  BY <1>1, SubSeqProperties DEF Path
<1>3. QED
  BY <1>1, <1>2

(* A path and another from where it leads. *)
LEMMA Joined ==
  ASSUME NEW p \in Path, NEW q \in Path
  PROVE  /\ p \o q \in Path /\ Len(p \o q) = Len(p) + Len(q)
         /\ \A i \in 1..Len(p) : (p \o q)[i] = p[i]
         /\ \A i \in 1..Len(q) : (p \o q)[Len(p) + i] = q[i]
<1>1. /\ p \o q \in Path /\ Len(p \o q) = Len(p) + Len(q)
      /\ \A i \in 1..Len(p) + Len(q) : (p \o q)[i] = IF i <= Len(p) THEN p[i] ELSE q[i - Len(p)]
  BY ConcatProperties DEF Path
<1>2. Len(p) \in Nat /\ Len(q) \in Nat
  BY Steps
<1>3. ASSUME NEW i \in 1..Len(q) PROVE (p \o q)[Len(p) + i] = q[i]
  <2>1. PICK k \in 1..Len(p) + Len(q) : k = Len(p) + i /\ ~(k <= Len(p)) /\ k - Len(p) = i
    BY <1>2
  <2>2. QED
    BY <1>1, <2>1
<1>4. QED
  BY <1>1, <1>2, <1>3

(* A path of one step. *)
LEMMA OneStep ==
  ASSUME NEW x \in {1, 2}
  PROVE  <<x>> \in Path /\ Len(<<x>>) = 1 /\ <<x>>[1] = x
BY DEF Path

(* The path to the sibling of a node on the way. *)
LEMMA TurnedIs ==
  ASSUME NEW p \in Path, NEW i \in 1..Len(p)
  PROVE  /\ Turned(p, i) \in Path /\ Len(Turned(p, i)) = i
         /\ \A j \in 1..i - 1 : Turned(p, i)[j] = p[j]
         /\ Turned(p, i)[i] = 3 - p[i] /\ Turned(p, i)[i] # p[i]
<1>1. Len(p) \in Nat /\ p[i] \in {1, 2} /\ 3 - p[i] \in {1, 2} /\ i \in Nat
  BY Steps
<1>2. PICK a : a = SubSeq(p, 1, i - 1)
  OBVIOUS
<1>3. a \in Path /\ Len(a) = i - 1 /\ \A j \in 1..i - 1 : a[j] = p[j]
  <2>1. 1 \in 1..Len(p) + 1 /\ i - 1 \in 1 - 1..Len(p)
    BY <1>1
  <2>2. /\ a \in Path /\ Len(a) = i - 1 - 1 + 1
        /\ \A j \in 1..i - 1 - 1 + 1 : a[j] = p[1 + j - 1]
    BY <2>1, <1>2, Cut
  <2>3. i - 1 - 1 + 1 = i - 1 /\ \A j \in 1..i - 1 : 1 + j - 1 = j
    BY <1>1
  <2>4. QED
    BY <2>2, <2>3
<1>4. PICK b : b = <<3 - p[i]>>
  OBVIOUS
<1>5. b \in Path /\ Len(b) = 1 /\ b[1] = 3 - p[i]
  BY <1>1, <1>4, OneStep
<1>6. Turned(p, i) = a \o b
  BY <1>2, <1>4 DEF Turned
<1>7. /\ a \o b \in Path /\ Len(a \o b) = (i - 1) + 1 /\ \A j \in 1..i - 1 : (a \o b)[j] = a[j]
      /\ (a \o b)[(i - 1) + 1] = b[1]
  <2>1. /\ a \o b \in Path /\ Len(a \o b) = Len(a) + Len(b)
        /\ \A j \in 1..Len(a) : (a \o b)[j] = a[j]
        /\ \A j \in 1..Len(b) : (a \o b)[Len(a) + j] = b[j]
    BY <1>3, <1>5, Joined
  <2>2. 1 \in 1..Len(b)
    BY <1>5
  <2>3. QED
    BY <2>1, <2>2, <1>3, <1>5
<1>8. (i - 1) + 1 = i /\ 3 - p[i] # p[i]
  BY <1>1
<1>9. QED
  BY <1>3, <1>5, <1>6, <1>7, <1>8

(* What is below that sibling turns off the path there. *)
LEMMA TurnsIsBelow ==
  ASSUME NEW p \in Path, NEW q \in Path, NEW i \in 1..Len(p)
  PROVE  Turns(q, p, i) <=> Below(q, Turned(p, i))
<1>1. Len(p) \in Nat /\ p[i] \in {1, 2} /\ i \in Nat \ {0} /\ Len(q) \in Nat
  BY Steps
<1>2. /\ Turned(p, i) \in Path /\ Len(Turned(p, i)) = i
      /\ \A j \in 1..i - 1 : Turned(p, i)[j] = p[j]
      /\ Turned(p, i)[i] = 3 - p[i]
  BY TurnedIs
<1>3. i <= Len(q) => (q[i] # p[i] <=> q[i] = 3 - p[i])
  BY <1>1, Steps
<1>4. 1..i = 1..i - 1 \cup {i}
  BY <1>1
<1>5. (\A j \in 1..i : q[j] = Turned(p, i)[j])
        <=> (\A j \in 1..i - 1 : q[j] = p[j]) /\ q[i] = 3 - p[i]
  BY <1>2, <1>4
<1>6. QED
  BY <1>1, <1>2, <1>3, <1>5 DEF Turns, Below

(* What Extends tests. *)
LEMMA ExtendsIsBelow ==
  ASSUME NEW p \in Path, NEW q \in Path
  PROVE  Extends(p, q) <=> Below(p, q)
<1>1. Len(p) \in Nat /\ Len(q) \in Nat
  BY Steps
<1>2. CASE Len(q) <= Len(p)
  <2>1. PICK a : a = SubSeq(p, 1, Len(q))
    OBVIOUS
  <2>2. a \in Path /\ Len(a) = Len(q) /\ \A i \in 1..Len(q) : a[i] = p[i]
    <3>1. 1 \in 1..Len(p) + 1 /\ Len(q) \in 1 - 1..Len(p)
      BY <1>1, <1>2
    <3>2. /\ a \in Path /\ Len(a) = Len(q) - 1 + 1
          /\ \A i \in 1..Len(q) - 1 + 1 : a[i] = p[1 + i - 1]
      BY <3>1, <2>1, Cut
    <3>3. Len(q) - 1 + 1 = Len(q) /\ \A i \in 1..Len(q) : 1 + i - 1 = i
      BY <1>1
    <3>4. QED
      BY <3>2, <3>3
  <2>3. a = q <=> \A i \in 1..Len(q) : p[i] = q[i]
    BY <2>2, SeqEqual DEF Path
  <2>4. QED
    BY <1>1, <1>2, <2>1, <2>3 DEF Extends, Below
<1>3. CASE ~(Len(q) <= Len(p))
  BY <1>1, <1>3 DEF Extends, Below
<1>4. QED
  BY <1>2, <1>3

(* What is below a node is below all that node is below. *)
LEMMA BelowAgain ==
  ASSUME NEW p \in Path, NEW q \in Path, NEW r \in Path, Below(p, q), Below(q, r)
  PROVE  Below(p, r)
BY Steps DEF Below

(* Of two nodes on the way to one leaf, one is below the other. *)
LEMMA OneWay ==
  ASSUME NEW p \in Path, NEW q \in Path, NEW r \in Path, Below(p, q), Below(p, r)
  PROVE  Below(q, r) \/ Below(r, q)
BY Steps DEF Below

(* A path put in front changes nothing below its end. *)
LEMMA JoinedBelow ==
  ASSUME NEW q \in Path, NEW r \in Path, NEW s \in Path
  PROVE  /\ Below(q \o r, q)
         /\ Below(q \o r, q \o s) <=> Below(r, s)
<1>1. /\ q \o r \in Path /\ Len(q \o r) = Len(q) + Len(r)
      /\ \A i \in 1..Len(q) : (q \o r)[i] = q[i]
      /\ \A i \in 1..Len(r) : (q \o r)[Len(q) + i] = r[i]
  BY Joined
<1>2. /\ q \o s \in Path /\ Len(q \o s) = Len(q) + Len(s)
      /\ \A i \in 1..Len(q) : (q \o s)[i] = q[i]
      /\ \A i \in 1..Len(s) : (q \o s)[Len(q) + i] = s[i]
  BY Joined
<1>3. Len(q) \in Nat /\ Len(r) \in Nat /\ Len(s) \in Nat
  BY Steps
<1>4. Below(q \o r, q)
  BY <1>1, <1>3 DEF Below
<1>5. ASSUME Below(q \o r, q \o s) PROVE Below(r, s)
  <2>1. Len(s) <= Len(r)
    BY <1>1, <1>2, <1>3, <1>5 DEF Below
  <2>2. ASSUME NEW i \in 1..Len(s) PROVE r[i] = s[i]
    <3>1. PICK k \in 1..Len(q \o s) : k = Len(q) + i
      BY <1>2, <1>3
    <3>2. (q \o r)[k] = (q \o s)[k]
      BY <1>5, <3>1 DEF Below
    <3>3. i \in 1..Len(r)
      BY <2>1, <1>3
    <3>4. QED
      BY <3>1, <3>2, <3>3, <1>1, <1>2
  <2>3. QED
    BY <2>1, <2>2 DEF Below
<1>6. ASSUME Below(r, s) PROVE Below(q \o r, q \o s)
  <2>1. Len(s) <= Len(r) /\ \A i \in 1..Len(s) : r[i] = s[i]
    BY <1>6 DEF Below
  <2>2. Len(q \o s) <= Len(q \o r)
    BY <1>1, <1>2, <1>3, <2>1
  <2>3. ASSUME NEW k \in 1..Len(q \o s) PROVE (q \o r)[k] = (q \o s)[k]
    <3>1. CASE k <= Len(q)
      BY <3>1, <1>1, <1>2, <1>3
    <3>2. CASE ~(k <= Len(q))
      <4>1. PICK i \in 1..Len(s) : k = Len(q) + i
        <5>1. k - Len(q) \in 1..Len(s) /\ k = Len(q) + (k - Len(q))
          BY <3>2, <1>2, <1>3
        <5>2. QED
          BY <5>1
      <4>2. i \in 1..Len(r)
        BY <2>1, <1>3
      <4>3. QED
        BY <4>1, <4>2, <2>1, <1>1, <1>2
    <3>3. QED
      BY <3>1, <3>2
  <2>4. QED
    BY <2>2, <2>3 DEF Below
<1>7. QED
  BY <1>4, <1>5, <1>6

(* Nor where paths from there turn off each other. *)
LEMMA JoinedTurns ==
  ASSUME NEW q \in Path, NEW r \in Path, NEW s \in Path, NEW i \in 1..Len(r), Turns(s, r, i)
  PROVE  Turns(q \o s, q \o r, Len(q) + i)
<1>1. /\ Len(q \o r) = Len(q) + Len(r)
      /\ \A k \in 1..Len(q) : (q \o r)[k] = q[k]
      /\ \A k \in 1..Len(r) : (q \o r)[Len(q) + k] = r[k]
  BY Joined
<1>2. /\ Len(q \o s) = Len(q) + Len(s)
      /\ \A k \in 1..Len(q) : (q \o s)[k] = q[k]
      /\ \A k \in 1..Len(s) : (q \o s)[Len(q) + k] = s[k]
  BY Joined
<1>3. Len(q) \in Nat /\ Len(r) \in Nat /\ Len(s) \in Nat
  BY Steps
<1>4. i <= Len(s) /\ (\A j \in 1..i - 1 : s[j] = r[j]) /\ s[i] # r[i]
  BY DEF Turns
<1>5. i \in 1..Len(s) /\ Len(q) + i <= Len(q \o s)
  BY <1>2, <1>3, <1>4
<1>6. (q \o s)[Len(q) + i] # (q \o r)[Len(q) + i]
  BY <1>1, <1>2, <1>4, <1>5
<1>7. ASSUME NEW k \in 1..(Len(q) + i) - 1 PROVE (q \o s)[k] = (q \o r)[k]
  <2>1. CASE k <= Len(q)
    BY <2>1, <1>1, <1>2, <1>3
  <2>2. CASE ~(k <= Len(q))
    <3>1. PICK j \in 1..i - 1 : k = Len(q) + j
      <4>1. k - Len(q) \in 1..i - 1 /\ k = Len(q) + (k - Len(q))
        BY <2>2, <1>3
      <4>2. QED
        BY <4>1
    <3>2. j \in 1..Len(r) /\ j \in 1..Len(s)
      BY <1>3, <1>5
    <3>3. QED
      BY <3>1, <3>2, <1>1, <1>2, <1>4
  <2>3. QED
    BY <2>1, <2>2
<1>8. QED
  BY <1>5, <1>6, <1>7 DEF Turns

(* To turn off a path is to turn off where it leads, and the other way round *)
(* as long as the turn comes before the end.                                 *)
LEMMA TurnsBelow ==
  ASSUME NEW p \in Path, NEW q \in Path, NEW r \in Path, Below(p, q), NEW i \in 1..Len(q)
  PROVE  /\ Turns(r, p, i) <=> Turns(r, q, i)
         /\ Turns(q, r, i) <=> Turns(p, r, i)
<1>1. Len(q) <= Len(p) /\ \A j \in 1..Len(q) : p[j] = q[j]
  BY DEF Below
<1>2. Len(p) \in Nat /\ Len(q) \in Nat
  BY Steps
<1>3. (\A j \in 1..i - 1 : p[j] = q[j]) /\ p[i] = q[i] /\ i <= Len(q) /\ i <= Len(p)
  BY <1>1, <1>2
<1>4. QED
  BY <1>3 DEF Turns

(* Paths that are not below each other part somewhere. *)
LEMMA Parting ==
  ASSUME NEW p \in Path, NEW q \in Path, ~Below(p, q), ~Below(q, p)
  PROVE  \E i \in 1..Len(p) : i \in 1..Len(q) /\ Turns(q, p, i) /\ Turns(p, q, i)
<1> DEFINE Differ == {i \in 1..Len(p) : i <= Len(q) /\ p[i] # q[i]}
<1>1. Len(p) \in Nat /\ Len(q) \in Nat
  BY Steps
<1>2. Differ # {}
  BY <1>1 DEF Below
<1>3. Differ \in SUBSET Nat
  OBVIOUS
<1>4. PICK i \in Differ : \A j \in Differ : i <= j
  <2> HIDE DEF Differ
  <2> QED BY <1>2, <1>3, LeastNatural
<1>5. i \in 1..Len(p) /\ i <= Len(q) /\ i \in 1..Len(q) /\ p[i] # q[i]
  BY <1>1
<1>6. ASSUME NEW j \in 1..i - 1 PROVE p[j] = q[j]
  <2>1. j \in 1..Len(p) /\ j <= Len(q) /\ ~(i <= j)
    BY <1>1, <1>5
  <2>2. j \notin Differ
    BY <2>1, <1>4
  <2>3. QED
    BY <2>1, <2>2
<1>7. QED
  BY <1>1, <1>5, <1>6 DEF Turns


-----------------------------------------------------------------------------
(* The shape of a tree: no leaf is below another, and wherever a path to a  *)
(* leaf turns, there are leaves the other way too.                          *)

Apart(D) == \A p, q \in D : Below(p, q) => p = q
Full(D) == \A p \in D : \A i \in 1..Len(p) : \E q \in D : Turns(q, p, i)
Bounded(D) == \E b \in Nat : \A p \in D : Len(p) <= b

Shape(D) == D \in SUBSET Path /\ D # {} /\ Apart(D) /\ Full(D) /\ Bounded(D)

IsTree(t) ==
  /\ t = [p \in DOMAIN t |-> t[p]]
  /\ Shape(DOMAIN t)
  /\ \A p, q \in DOMAIN t : t[p] = t[q] => p = q

(* A leaf gives way to a tree. *)
LEMMA GraftShape ==
  ASSUME NEW D, Shape(D), NEW q \in D, NEW B, Shape(B)
  PROVE  Shape((D \ {q}) \cup {q \o r : r \in B})
<1> DEFINE Grafted == {q \o r : r \in B}
           All == (D \ {q}) \cup Grafted
<1>1. /\ D \in SUBSET Path /\ Apart(D) /\ Full(D) /\ Bounded(D)
      /\ B \in SUBSET Path /\ B # {} /\ Apart(B) /\ Full(B) /\ Bounded(B)
  BY DEF Shape
<1>2. q \in Path
  BY <1>1
<1>3. \A p \in Grafted : p \in Path /\ Below(p, q) /\ \E r \in B : p = q \o r /\ r \in Path
  <2> SUFFICES ASSUME NEW r \in B PROVE q \o r \in Path /\ Below(q \o r, q) /\ r \in Path
    OBVIOUS
  <2>1. r \in Path
    BY <1>1
  <2>2. QED
    BY <2>1, <1>2, Joined, JoinedBelow
<1>4. All \in SUBSET Path /\ All # {}
  BY <1>1, <1>3
<1>5. \A p \in D : Below(p, q) \/ Below(q, p) => p = q
  BY <1>1 DEF Apart
<1>6. Apart(All)
  <2> SUFFICES ASSUME NEW p \in All, NEW u \in All, Below(p, u) PROVE p = u
    BY DEF Apart
  <2>1. CASE p \in D \ {q} /\ u \in D \ {q}
    BY <2>1, <1>1 DEF Apart
  <2>2. CASE p \in D \ {q} /\ u \in Grafted
    <3>1. Below(p, q)
      BY <2>2, <1>1, <1>2, <1>3, BelowAgain
    <3>2. QED
      BY <3>1, <2>2, <1>5
  <2>3. CASE p \in Grafted /\ u \in D \ {q}
    <3>1. Below(q, u) \/ Below(u, q)
      <4>1. p \in Path /\ u \in Path /\ Below(p, q)
        BY <2>3, <1>1, <1>3
      <4>2. QED
        BY <4>1, <1>2, OneWay
    <3>2. QED
      BY <3>1, <2>3, <1>5
  <2>4. CASE p \in Grafted /\ u \in Grafted
    <3>1. PICK r \in B : p = q \o r /\ r \in Path
      BY <2>4, <1>3
    <3>2. PICK s \in B : u = q \o s /\ s \in Path
      BY <2>4, <1>3
    <3>3. Below(r, s)
      BY <3>1, <3>2, <1>2, JoinedBelow
    <3>4. QED
      BY <3>1, <3>2, <3>3, <1>1 DEF Apart
  <2>5. QED
    BY <2>1, <2>2, <2>3, <2>4
<1>7. Full(All)
  <2> SUFFICES ASSUME NEW p \in All, NEW i \in 1..Len(p) PROVE \E u \in All : Turns(u, p, i)
    BY DEF Full
  <2>1. CASE p \in D \ {q}
    <3>1. PICK u \in D : Turns(u, p, i)
      BY <2>1, <1>1 DEF Full
    <3>2. CASE u # q
      BY <3>1, <3>2
    <3>3. CASE u = q
      <4>1. PICK v \in Grafted : TRUE
        BY <1>1
      <4>2. Below(v, q) /\ v \in Path /\ p \in Path
        BY <1>1, <1>3, <2>1
      <4>3. i \in 1..Len(q)
        BY <3>1, <3>3, <1>2, <4>2, Steps DEF Turns
      <4>4. Turns(v, p, i)
        BY <4>2, <4>3, <3>1, <3>3, <1>2, TurnsBelow
      <4>5. QED
        BY <4>4
    <3>4. QED
      BY <3>2, <3>3
  <2>2. CASE p \in Grafted
    <3>1. PICK r \in B : p = q \o r /\ r \in Path
      BY <2>2, <1>3
    <3>2. Len(p) = Len(q) + Len(r) /\ Len(q) \in Nat /\ Len(r) \in Nat /\ Below(p, q) /\ p \in Path
      BY <3>1, <1>2, Joined, Steps, JoinedBelow
    <3>3. CASE i <= Len(q)
      <4>1. i \in 1..Len(q)
        BY <3>2, <3>3
      <4>2. PICK u \in D : Turns(u, q, i)
        BY <4>1, <1>1 DEF Full
      <4>3. u # q /\ u \in Path
        BY <4>2, <1>1 DEF Turns
      <4>4. Turns(u, p, i)
        BY <4>1, <4>2, <4>3, <3>2, <1>2, TurnsBelow
      <4>5. QED
        BY <4>3, <4>4
    <3>4. CASE ~(i <= Len(q))
      <4>1. PICK j \in 1..Len(r) : i = Len(q) + j
        <5>1. i - Len(q) \in 1..Len(r) /\ i = Len(q) + (i - Len(q))
          BY <3>2, <3>4
        <5>2. QED
          BY <5>1
      <4>2. PICK s \in B : Turns(s, r, j)
        BY <1>1 DEF Full
      <4>3. s \in Path
        BY <1>1
      <4>4. Turns(q \o s, p, i)
        BY <4>1, <4>2, <4>3, <3>1, <1>2, JoinedTurns
      <4>5. QED
        BY <4>4
    <3>5. QED
      BY <3>3, <3>4
  <2>3. QED
    BY <2>1, <2>2
<1>8. Bounded(All)
  <2>1. PICK b \in Nat : \A p \in D : Len(p) <= b
    BY <1>1 DEF Bounded
  <2>2. PICK c \in Nat : \A p \in B : Len(p) <= c
    BY <1>1 DEF Bounded
  <2>3. ASSUME NEW p \in All PROVE Len(p) <= b + c
    <3>1. CASE p \in D \ {q}
      <4>1. Len(p) \in Nat /\ Len(p) <= b
        BY <3>1, <1>1, <2>1, Steps
      <4>2. QED
        BY <4>1
    <3>2. CASE p \in Grafted
      <4>1. PICK r \in B : p = q \o r /\ r \in Path
        BY <3>2, <1>3
      <4>2. Len(p) = Len(q) + Len(r) /\ Len(q) \in Nat /\ Len(r) \in Nat
        BY <4>1, <1>2, Joined, Steps
      <4>3. Len(q) <= b /\ Len(r) <= c
        BY <2>1, <2>2
      <4>4. QED
        BY <4>2, <4>3
    <3>3. QED
      BY <3>1, <3>2
  <2>4. b + c \in Nat
    OBVIOUS
  <2>5. QED
    BY <2>3, <2>4 DEF Bounded
<1>9. QED
  BY <1>4, <1>6, <1>7, <1>8 DEF Shape

(* The path to the root. *)
LEMMA NoStep == <<>> \in Path /\ Len(<<>>) = 0
BY EmptySeq DEF Path

(* A leaf is a tree with one terminal. *)
LEMMA LeafIsTree ==
  ASSUME NEW id
  PROVE  IsTree(Leaf(id)) /\ DOMAIN Leaf(id) = {<<>>} /\ Leaf(id)[<<>>] = id /\ IDsOf(Leaf(id)) = {id}
<1>1. DOMAIN Leaf(id) = {<<>>} /\ Leaf(id)[<<>>] = id
  BY DEF Leaf
<1>2. Shape({<<>>})
  <2>1. {<<>>} \in SUBSET Path /\ Apart({<<>>})
    BY NoStep DEF Apart
  <2>2. Full({<<>>})
    BY NoStep DEF Full
  <2>3. Bounded({<<>>})
    BY NoStep DEF Bounded
  <2>4. QED
    BY <2>1, <2>2, <2>3 DEF Shape
<1>3. Leaf(id) = [p \in DOMAIN Leaf(id) |-> Leaf(id)[p]]
  BY DEF Leaf
<1>4. IDsOf(Leaf(id)) = {id}
  BY <1>1 DEF IDsOf
<1>5. QED
  BY <1>1, <1>2, <1>3, <1>4 DEF IsTree

(* What Under takes off again. *)
LEMMA TailOfJoined ==
  ASSUME NEW x \in {1, 2}, NEW q \in Path
  PROVE  Tail(<<x>> \o q) = q
<1>1. <<x>> \in Path /\ Len(<<x>>) = 1 /\ Len(q) \in Nat
  BY OneStep, Steps
<1>2. PICK p : p = <<x>> \o q
  OBVIOUS
<1>3. p \in Path /\ Len(p) = 1 + Len(q) /\ \A i \in 1..Len(q) : p[1 + i] = q[i]
  BY <1>1, <1>2, Joined
<1>4. p # <<>>
  BY <1>1, <1>3, NoStep
<1>5. Tail(p) \in Path /\ Len(Tail(p)) = Len(p) - 1 /\ \A i \in 1..Len(Tail(p)) : Tail(p)[i] = p[i + 1]
  BY <1>3, <1>4, HeadTailProperties DEF Path
<1>6. Len(Tail(p)) = Len(q)
  BY <1>1, <1>3, <1>5
<1>7. ASSUME NEW i \in 1..Len(q) PROVE Tail(p)[i] = q[i]
  <2>1. Tail(p)[i] = p[i + 1] /\ i + 1 = 1 + i
    BY <1>1, <1>5, <1>6
  <2>2. QED
    BY <2>1, <1>3
<1>8. QED
  BY <1>2, <1>5, <1>6, <1>7, SeqEqual DEF Path

(* What Replaced takes off again. *)
LEMMA RestOfJoined ==
  ASSUME NEW q \in Path, NEW r \in Path
  PROVE  SubSeq(q \o r, Len(q) + 1, Len(q \o r)) = r
<1>1. PICK p : p = q \o r
  OBVIOUS
<1>2. /\ p \in Path /\ Len(p) = Len(q) + Len(r) /\ Len(q) \in Nat /\ Len(r) \in Nat
      /\ \A i \in 1..Len(r) : p[Len(q) + i] = r[i]
  BY <1>1, Joined, Steps
<1>3. PICK m, n : m = Len(q) + 1 /\ n = Len(p)
  OBVIOUS
<1>4. m \in 1..Len(p) + 1 /\ n \in m - 1..Len(p) /\ n - m + 1 = Len(r)
  BY <1>2, <1>3
<1>5. PICK s : s = SubSeq(p, m, n)
  OBVIOUS
<1>6. s \in Path /\ Len(s) = n - m + 1 /\ \A i \in 1..n - m + 1 : s[i] = p[m + i - 1]
  BY <1>4, <1>2, <1>5, Cut
<1>7. ASSUME NEW i \in 1..Len(r) PROVE s[i] = r[i]
  <2>1. m + i - 1 = Len(q) + i
    BY <1>2, <1>3
  <2>2. QED
    BY <2>1, <1>2, <1>4, <1>6
<1>8. s = r
  BY <1>4, <1>6, <1>7, SeqEqual DEF Path
<1>9. QED
  BY <1>1, <1>3, <1>5, <1>8

(* A split of two leaves has the shape of a tree. *)
LEMMA ForkShape == Shape({<<1>>, <<2>>})
<1>1. /\ <<1>> \in Path /\ Len(<<1>>) = 1 /\ <<1>>[1] = 1
      /\ <<2>> \in Path /\ Len(<<2>>) = 1 /\ <<2>>[1] = 2
  BY OneStep
<1> DEFINE D == {<<1>>, <<2>>}
<1>2. Apart(D)
  BY <1>1 DEF Apart, Below
<1>3. Full(D)
  <2>1. Turns(<<1>>, <<2>>, 1) /\ Turns(<<2>>, <<1>>, 1)
    BY <1>1 DEF Turns
  <2>2. \A p \in D : Len(p) = 1
    <3> SUFFICES ASSUME NEW p \in D PROVE Len(p) = 1
      OBVIOUS
    <3>1. CASE p = <<1>>
      BY <3>1, <1>1
    <3>2. CASE p = <<2>>
      BY <3>2, <1>1
    <3>3. QED
      BY <3>1, <3>2
  <2>3. \A p \in D : \E q \in D : Turns(q, p, 1)
    BY <2>1
  <2> HIDE DEF D
  <2>4. ASSUME NEW p \in D, NEW i \in 1..Len(p) PROVE \E q \in D : Turns(q, p, i)
    <3>1. PICK n : n = Len(p) /\ n = 1
      BY <2>2
    <3>2. i \in 1..n
      BY <3>1
    <3>3. i = 1
      BY <3>1, <3>2
    <3>4. QED
      BY <2>3, <3>3
  <2>5. QED
    BY <2>4 DEF Full
<1>4. Bounded(D)
  <2>1. \A p \in D : Len(p) <= 1
    <3> SUFFICES ASSUME NEW p \in D PROVE Len(p) <= 1
      OBVIOUS
    <3>1. CASE p = <<1>>
      BY <3>1, <1>1
    <3>2. CASE p = <<2>>
      BY <3>2, <1>1
    <3>3. QED
      BY <3>1, <3>2
  <2>2. QED
    BY <2>1 DEF Bounded
<1>5. QED
  BY <1>1, <1>2, <1>3, <1>4 DEF Shape

(* Split by paths. *)
LEMMA SplitIs ==
  ASSUME NEW a, NEW b, DOMAIN a \in SUBSET Path, DOMAIN b \in SUBSET Path
  PROVE  /\ DOMAIN Split(a, b) = {<<1>> \o r : r \in DOMAIN a} \cup {<<2>> \o r : r \in DOMAIN b}
         /\ \A r \in DOMAIN a : Split(a, b)[<<1>> \o r] = a[r]
         /\ \A r \in DOMAIN b : Split(a, b)[<<2>> \o r] = b[r]
         /\ Split(a, b) = [p \in DOMAIN Split(a, b) |-> Split(a, b)[p]]
<1> DEFINE A == {<<1>> \o r : r \in DOMAIN a}
           B == {<<2>> \o r : r \in DOMAIN b}
           t == [p \in A \cup B |-> IF p \in A THEN a[Tail(p)] ELSE b[Tail(p)]]
<1>1. Split(a, b) = t
  BY DEF Split, Merged, Under
<1>2. ASSUME NEW r \in DOMAIN a PROVE t[<<1>> \o r] = a[r]
  <2>1. Tail(<<1>> \o r) = r
    BY TailOfJoined
  <2>2. QED
    BY <2>1
<1>3. ASSUME NEW r \in DOMAIN b PROVE t[<<2>> \o r] = b[r]
  <2>1. Tail(<<2>> \o r) = r
    BY TailOfJoined
  <2>2. <<2>> \o r \notin A
    <3>1. (<<2>> \o r)[1] = 2
      <4>1. r \in Path /\ <<2>> \in Path /\ 1 \in 1..Len(<<2>>) /\ <<2>>[1] = 2
        BY OneStep
      <4>2. QED
        BY <4>1, Joined
    <3>2. ASSUME NEW s \in DOMAIN a PROVE (<<1>> \o s)[1] = 1
      <4>1. s \in Path /\ <<1>> \in Path /\ 1 \in 1..Len(<<1>>) /\ <<1>>[1] = 1
        BY OneStep
      <4>2. QED
        BY <4>1, Joined
    <3>3. QED
      BY <3>1, <3>2
  <2>3. QED
    BY <2>1, <2>2
<1>4. DOMAIN t = A \cup B /\ t = [p \in DOMAIN t |-> t[p]]
  OBVIOUS
<1> HIDE DEF t
<1>5. QED
  BY <1>1, <1>2, <1>3, <1>4

(* A split of two trees has the shape of one and the terminals of both. *)
LEMMA SplitShape ==
  ASSUME NEW a, NEW b, Shape(DOMAIN a), Shape(DOMAIN b)
  PROVE  /\ Shape(DOMAIN Split(a, b)) /\ IDsOf(Split(a, b)) = IDsOf(a) \cup IDsOf(b)
         /\ Split(a, b) = [p \in DOMAIN Split(a, b) |-> Split(a, b)[p]]
<1>1. PICK t : t = Split(a, b)
  OBVIOUS
<1> DEFINE A == {<<1>> \o r : r \in DOMAIN a}
           B == {<<2>> \o r : r \in DOMAIN b}
<1>2. Shape(DOMAIN a) /\ Shape(DOMAIN b) /\ DOMAIN a \in SUBSET Path /\ DOMAIN b \in SUBSET Path
  BY DEF Shape
<1>3. /\ DOMAIN t = A \cup B /\ t = [p \in DOMAIN t |-> t[p]]
      /\ \A r \in DOMAIN a : t[<<1>> \o r] = a[r]
      /\ \A r \in DOMAIN b : t[<<2>> \o r] = b[r]
  <2>1. /\ DOMAIN Split(a, b) = {<<1>> \o r : r \in DOMAIN a} \cup {<<2>> \o r : r \in DOMAIN b}
        /\ \A r \in DOMAIN a : Split(a, b)[<<1>> \o r] = a[r]
        /\ \A r \in DOMAIN b : Split(a, b)[<<2>> \o r] = b[r]
        /\ Split(a, b) = [p \in DOMAIN Split(a, b) |-> Split(a, b)[p]]
    BY <1>2, SplitIs
  <2>2. QED
    BY <1>1, <2>1
<1>4. Shape(A \cup B)
  <2>1. /\ <<1>> \in Path /\ Len(<<1>>) = 1 /\ <<1>>[1] = 1
        /\ <<2>> \in Path /\ Len(<<2>>) = 1 /\ <<2>>[1] = 2
    BY OneStep
  <2>2. Shape(({<<1>>, <<2>>} \ {<<1>>}) \cup A)
    BY <1>2, ForkShape, GraftShape
  <2>3. ({<<1>>, <<2>>} \ {<<1>>}) \cup A = {<<2>>} \cup A
    <3>1. {<<1>>, <<2>>} \ {<<1>>} = {<<2>>}
      BY <2>1
    <3>2. QED
      BY <3>1
  <2>4. Shape((({<<2>>} \cup A) \ {<<2>>}) \cup B)
    <3>1. Shape({<<2>>} \cup A) /\ <<2>> \in {<<2>>} \cup A
      BY <2>2, <2>3
    <3>2. QED
      BY <3>1, <1>2, GraftShape
  <2>5. <<2>> \notin A
    <3>1. ASSUME NEW r \in DOMAIN a PROVE (<<1>> \o r)[1] = 1
      <4>1. r \in Path /\ 1 \in 1..Len(<<1>>)
        BY <1>2, <2>1
      <4>2. QED
        BY <4>1, <2>1, Joined
    <3>2. QED
      BY <3>1, <2>1
  <2>6. (({<<2>>} \cup A) \ {<<2>>}) \cup B = A \cup B
    BY <2>5
  <2>7. QED
    BY <2>4, <2>6
<1>5. IDsOf(t) = IDsOf(a) \cup IDsOf(b)
  <2>1. ASSUME NEW p \in DOMAIN t PROVE t[p] \in IDsOf(a) \cup IDsOf(b)
    <3>1. CASE p \in A
      <4>1. PICK r \in DOMAIN a : p = <<1>> \o r
        BY <3>1
      <4>2. t[p] = a[r]
        BY <4>1, <1>3
      <4>3. QED
        BY <4>2 DEF IDsOf
    <3>2. CASE p \in B
      <4>1. PICK r \in DOMAIN b : p = <<2>> \o r
        BY <3>2
      <4>2. t[p] = b[r]
        BY <4>1, <1>3
      <4>3. QED
        BY <4>2 DEF IDsOf
    <3>3. p \in A \/ p \in B
      BY <1>3
    <3>4. QED
      BY <3>1, <3>2, <3>3
  <2>2. ASSUME NEW r \in DOMAIN a PROVE a[r] \in IDsOf(t)
    <3>1. <<1>> \o r \in DOMAIN t /\ t[<<1>> \o r] = a[r]
      BY <1>3
    <3> HIDE DEF A, B
    <3>2. QED
      BY <3>1 DEF IDsOf
  <2>3. ASSUME NEW r \in DOMAIN b PROVE b[r] \in IDsOf(t)
    <3>1. <<2>> \o r \in DOMAIN t /\ t[<<2>> \o r] = b[r]
      BY <1>3
    <3> HIDE DEF A, B
    <3>2. QED
      BY <3>1 DEF IDsOf
  <2> HIDE DEF A, B
  <2>4. QED
    BY <2>1, <2>2, <2>3 DEF IDsOf
<1>6. Shape(DOMAIN t)
  BY <1>3, <1>4
<1>7. QED
  BY <1>1, <1>3, <1>5, <1>6

(* A split of two trees that share no terminal is a tree with the terminals of both. *)
LEMMA SplitIsTree ==
  ASSUME NEW a, NEW b, IsTree(a), IsTree(b), IDsOf(a) \cap IDsOf(b) = {}
  PROVE  IsTree(Split(a, b)) /\ IDsOf(Split(a, b)) = IDsOf(a) \cup IDsOf(b)
<1>1. PICK t : t = Split(a, b)
  OBVIOUS
<1> DEFINE A == {<<1>> \o r : r \in DOMAIN a}
           B == {<<2>> \o r : r \in DOMAIN b}
<1>2. Shape(DOMAIN a) /\ Shape(DOMAIN b) /\ DOMAIN a \in SUBSET Path /\ DOMAIN b \in SUBSET Path
  BY DEF IsTree, Shape
<1>3. /\ DOMAIN t = A \cup B /\ t = [p \in DOMAIN t |-> t[p]]
      /\ \A r \in DOMAIN a : t[<<1>> \o r] = a[r]
      /\ \A r \in DOMAIN b : t[<<2>> \o r] = b[r]
  <2>1. /\ DOMAIN Split(a, b) = {<<1>> \o r : r \in DOMAIN a} \cup {<<2>> \o r : r \in DOMAIN b}
        /\ \A r \in DOMAIN a : Split(a, b)[<<1>> \o r] = a[r]
        /\ \A r \in DOMAIN b : Split(a, b)[<<2>> \o r] = b[r]
        /\ Split(a, b) = [p \in DOMAIN Split(a, b) |-> Split(a, b)[p]]
    BY <1>2, SplitIs
  <2>2. QED
    BY <1>1, <2>1
<1>4. Shape(DOMAIN t) /\ IDsOf(t) = IDsOf(a) \cup IDsOf(b)
  BY <1>1, <1>2, SplitShape
<1>5. ASSUME NEW p \in DOMAIN t, NEW u \in DOMAIN t, t[p] = t[u] PROVE p = u
  <2>1. \A r \in DOMAIN a : a[r] \in IDsOf(a)
    BY DEF IDsOf
  <2>2. \A r \in DOMAIN b : b[r] \in IDsOf(b)
    BY DEF IDsOf
  <2>3. CASE p \in A /\ u \in A
    <3>1. PICK r \in DOMAIN a, s \in DOMAIN a : p = <<1>> \o r /\ u = <<1>> \o s
      BY <2>3
    <3>2. a[r] = a[s]
      BY <3>1, <1>3, <1>5
    <3>3. QED
      BY <3>1, <3>2 DEF IsTree
  <2>4. CASE p \in B /\ u \in B
    <3>1. PICK r \in DOMAIN b, s \in DOMAIN b : p = <<2>> \o r /\ u = <<2>> \o s
      BY <2>4
    <3>2. b[r] = b[s]
      BY <3>1, <1>3, <1>5
    <3>3. QED
      BY <3>1, <3>2 DEF IsTree
  <2>5. CASE p \in A /\ u \in B
    <3>1. t[p] \in IDsOf(a) /\ t[u] \in IDsOf(b)
      BY <2>1, <2>2, <2>5, <1>3
    <3>2. QED
      BY <3>1, <1>5
  <2>6. CASE p \in B /\ u \in A
    <3>1. t[p] \in IDsOf(b) /\ t[u] \in IDsOf(a)
      BY <2>1, <2>2, <2>6, <1>3
    <3>2. QED
      BY <3>1, <1>5
  <2>7. QED
    BY <2>3, <2>4, <2>5, <2>6, <1>3
<1>6. IsTree(t)
  <2> HIDE DEF A, B
  <2>1. QED
    BY <1>3, <1>4, <1>5 DEF IsTree
<1>7. QED
  BY <1>1, <1>4, <1>6

(* The leaf of a terminal. *)
LEMMA PathIs ==
  ASSUME NEW t, NEW id \in IDsOf(t)
  PROVE  PathOf(t, id) \in DOMAIN t /\ t[PathOf(t, id)] = id
BY DEF IDsOf, PathOf

(* A tree in which a terminal gave way to a tree that shares no other with it. *)
LEMMA ReplacedIsTree ==
  ASSUME NEW t, NEW by, IsTree(t), IsTree(by), NEW id \in IDsOf(t),
         IDsOf(by) \cap (IDsOf(t) \ {id}) = {}
  PROVE  IsTree(Replaced(t, id, by)) /\ IDsOf(Replaced(t, id, by)) = (IDsOf(t) \ {id}) \cup IDsOf(by)
<1>1. PICK q : q = PathOf(t, id)
  OBVIOUS
<1>2. q \in DOMAIN t /\ t[q] = id
  BY <1>1, PathIs
<1>3. /\ Shape(DOMAIN t) /\ Shape(DOMAIN by) /\ DOMAIN t \in SUBSET Path /\ DOMAIN by \in SUBSET Path
      /\ q \in Path /\ \A p \in DOMAIN t : Below(p, q) => p = q
  BY <1>2 DEF IsTree, Shape, Apart
<1> DEFINE A == DOMAIN t \ {q}
           B == {q \o r : r \in DOMAIN by}
           new == [p \in A \cup B |->
                     IF p \in A THEN t[p] ELSE by[SubSeq(p, Len(q) + 1, Len(p))]]
<1>4. Replaced(t, id, by) = new
  BY <1>1 DEF Replaced, Merged
<1>5. ASSUME NEW r \in DOMAIN by PROVE new[q \o r] = by[r] /\ q \o r \in A \cup B
  <2>1. r \in Path
    BY <1>3
  <2>2. SubSeq(q \o r, Len(q) + 1, Len(q \o r)) = r
    BY <2>1, <1>3, RestOfJoined
  <2>3. q \o r \notin A
    BY <2>1, <1>3, JoinedBelow
  <2>4. QED
    BY <2>2, <2>3
<1>6. \A p \in A : new[p] = t[p]
  OBVIOUS
<1>7. DOMAIN new = A \cup B /\ new = [p \in DOMAIN new |-> new[p]]
  OBVIOUS
<1>8. Shape(A \cup B)
  BY <1>2, <1>3, GraftShape
<1>9. PICK s : s = new
  OBVIOUS
<1>10. /\ DOMAIN s = A \cup B /\ s = [p \in DOMAIN s |-> s[p]] /\ \A p \in A : s[p] = t[p]
       /\ \A r \in DOMAIN by : s[q \o r] = by[r] /\ q \o r \in DOMAIN s
  <2> HIDE DEF new
  <2> QED BY <1>5, <1>6, <1>7, <1>9
<1> HIDE DEF new
<1>11. \A p \in A : s[p] \in IDsOf(t) \ {id}
  BY <1>2, <1>10 DEF IDsOf, IsTree
<1>12. \A p \in B : s[p] \in IDsOf(by)
  <2> SUFFICES ASSUME NEW p \in B PROVE s[p] \in IDsOf(by)
    OBVIOUS
  <2>1. PICK r \in DOMAIN by : p = q \o r
    OBVIOUS
  <2>2. s[p] = by[r]
    BY <2>1, <1>10
  <2>3. QED
    BY <2>2 DEF IDsOf
<1>13. IDsOf(s) = (IDsOf(t) \ {id}) \cup IDsOf(by)
  <2>1. \A p \in DOMAIN s : s[p] \in (IDsOf(t) \ {id}) \cup IDsOf(by)
    <3> HIDE DEF A, B
    <3> QED BY <1>10, <1>11, <1>12
  <2>2. ASSUME NEW p \in DOMAIN t, t[p] # id PROVE t[p] \in IDsOf(s)
    <3>1. p \in A /\ p \in DOMAIN s /\ s[p] = t[p]
      BY <2>2, <1>2, <1>10
    <3> HIDE DEF A, B
    <3>2. QED
      BY <3>1 DEF IDsOf
  <2>3. ASSUME NEW r \in DOMAIN by PROVE by[r] \in IDsOf(s)
    <3> HIDE DEF A, B
    <3> QED BY <1>10 DEF IDsOf
  <2> HIDE DEF A, B
  <2>4. QED
    BY <2>1, <2>2, <2>3 DEF IDsOf
<1>14. ASSUME NEW p \in DOMAIN s, NEW u \in DOMAIN s, s[p] = s[u] PROVE p = u
  <2>1. CASE p \in A /\ u \in A
    BY <2>1, <1>10, <1>14 DEF IsTree
  <2>2. CASE p \in B /\ u \in B
    <3>1. PICK r \in DOMAIN by, v \in DOMAIN by : p = q \o r /\ u = q \o v
      BY <2>2
    <3>2. by[r] = by[v]
      BY <3>1, <1>10, <1>14
    <3>3. QED
      BY <3>1, <3>2 DEF IsTree
  <2>3. CASE (p \in A /\ u \in B) \/ (p \in B /\ u \in A)
    <3> HIDE DEF A, B
    <3> QED BY <2>3, <1>11, <1>12, <1>14
  <2>4. QED
    BY <2>1, <2>2, <2>3, <1>10
<1>15. IsTree(s)
  <2> HIDE DEF A, B
  <2> QED BY <1>8, <1>10, <1>14 DEF IsTree
<1>16. QED
  BY <1>4, <1>9, <1>13, <1>15

(* The first steps of a path. *)
LEMMA CutFromStart ==
  ASSUME NEW p \in Path, NEW n \in 0..Len(p)
  PROVE  /\ SubSeq(p, 1, n) \in Path /\ Len(SubSeq(p, 1, n)) = n
         /\ \A i \in 1..n : SubSeq(p, 1, n)[i] = p[i]
<1>1. Len(p) \in Nat
  BY Steps
<1>2. PICK m : m = 1
  OBVIOUS
<1>3. m \in 1..Len(p) + 1 /\ n \in m - 1..Len(p) /\ n - m + 1 = n
  BY <1>1, <1>2
<1>4. /\ SubSeq(p, m, n) \in Path /\ Len(SubSeq(p, m, n)) = n
      /\ \A i \in 1..n : SubSeq(p, m, n)[i] = p[m + i - 1]
  BY <1>3, Cut
<1>5. \A i \in 1..n : m + i - 1 = i
  BY <1>2
<1>6. QED
  BY <1>2, <1>4, <1>5

(* The equation of Pruned's at, when the steps of p outside gone stay. *)
IsShort(f, p, stays) ==
  f = [n \in 0..Len(p) |->
         IF n = 0 THEN <<>>
         ELSE IF n \in stays THEN Append(f[n - 1], p[n]) ELSE f[n - 1]]

(* The equation has one solution. *)
LEMMA ShortsAreUnique ==
  ASSUME NEW p \in Path, NEW stays, NEW f, NEW g, IsShort(f, p, stays), IsShort(g, p, stays)
  PROVE  f = g
<1> DEFINE Bad == {n \in 0..Len(p) : f[n] # g[n]}
<1>1. Bad \in SUBSET Nat
  BY Steps
<1>2. ASSUME Bad # {} PROVE FALSE
  <2>1. PICK n \in Bad : \A m \in Bad : n <= m
    <3> HIDE DEF Bad
    <3> QED BY <1>1, <1>2, LeastNatural
  <2>2. /\ n \in 0..Len(p) /\ f[n] # g[n]
        /\ f[n] = IF n = 0 THEN <<>>
                  ELSE IF n \in stays THEN Append(f[n - 1], p[n]) ELSE f[n - 1]
        /\ g[n] = IF n = 0 THEN <<>>
                  ELSE IF n \in stays THEN Append(g[n - 1], p[n]) ELSE g[n - 1]
    BY DEF IsShort
  <2>3. n # 0 => n - 1 \in 0..Len(p) /\ ~(n <= n - 1)
    BY <2>2, Steps
  <2>4. n # 0 => f[n - 1] = g[n - 1]
    BY <2>1, <2>3
  <2>5. QED
    BY <2>2, <2>4
<1>3. \A n \in 0..Len(p) : f[n] = g[n]
  BY <1>2
<1>4. f = [n \in 0..Len(p) |-> f[n]] /\ g = [n \in 0..Len(p) |-> g[n]]
  BY DEF IsShort
<1>5. QED
  BY <1>3, <1>4

(* The equation has a solution. *)
LEMMA ShortExists ==
  ASSUME NEW p \in Path, NEW stays
  PROVE  \E f : IsShort(f, p, stays)
<1> DEFINE Solves(f, b) == f = [n \in 0..b |->
                                  IF n = 0 THEN <<>>
                                  ELSE IF n \in stays THEN Append(f[n - 1], p[n]) ELSE f[n - 1]]
           Bad == {b \in 0..Len(p) : ~\E f : Solves(f, b)}
<1>1. Len(p) \in Nat /\ Bad \in SUBSET Nat
  BY Steps
<1>2. ASSUME Bad # {} PROVE FALSE
  <2>1. PICK b \in Bad : \A c \in Bad : b <= c
    <3> HIDE DEF Bad
    <3> QED BY <1>1, <1>2, LeastNatural
  <2>2. b \in 0..Len(p) /\ ~\E f : Solves(f, b)
    OBVIOUS
  <2>3. CASE b = 0
    <3>1. Solves([n \in 0..0 |-> <<>>], 0)
      OBVIOUS
    <3>2. QED
      BY <3>1, <2>2, <2>3
  <2>4. CASE b # 0
    <3>1. b - 1 \in 0..Len(p) /\ ~(b <= b - 1) /\ b \in Nat
      BY <2>2, <2>4
    <3>2. PICK f : Solves(f, b - 1)
      <4>1. b - 1 \notin Bad
        BY <3>1, <2>1
      <4>2. QED
        BY <4>1, <3>1
    <3>3. PICK last : last = IF b \in stays THEN Append(f[b - 1], p[b]) ELSE f[b - 1]
      OBVIOUS
    <3>4. PICK g : g = [n \in 0..b |-> IF n = b THEN last ELSE f[n]]
      OBVIOUS
    <3>5. ASSUME NEW n \in 0..b
          PROVE  g[n] = IF n = 0 THEN <<>>
                        ELSE IF n \in stays THEN Append(g[n - 1], p[n]) ELSE g[n - 1]
      <4>1. CASE n = b
        <5>1. n - 1 \in 0..b /\ n - 1 # b /\ n # 0
          BY <4>1, <2>4, <3>1
        <5>2. g[n] = last /\ g[n - 1] = f[b - 1]
          BY <4>1, <5>1, <3>4
        <5>3. QED
          BY <4>1, <5>1, <5>2, <3>3
      <4>2. CASE n # b /\ n = 0
        <5>1. n \in 0..b - 1 /\ g[n] = f[n]
          BY <4>2, <3>1, <3>4
        <5>2. QED
          BY <4>2, <5>1, <3>2
      <4>3. CASE n # b /\ n # 0
        <5>1. n \in 0..b - 1 /\ n - 1 \in 0..b /\ n - 1 # b
          BY <4>3, <3>1
        <5>2. g[n] = f[n] /\ g[n - 1] = f[n - 1]
          BY <4>3, <5>1, <3>4
        <5>3. f[n] = IF n \in stays THEN Append(f[n - 1], p[n]) ELSE f[n - 1]
          BY <4>3, <5>1, <3>2
        <5>4. QED
          BY <4>3, <5>2, <5>3
      <4>4. QED
        BY <4>1, <4>2, <4>3
    <3>6. g = [n \in 0..b |-> g[n]]
      BY <3>4
    <3>7. g = [n \in 0..b |->
                 IF n = 0 THEN <<>>
                 ELSE IF n \in stays THEN Append(g[n - 1], p[n]) ELSE g[n - 1]]
      BY <3>5, <3>6
    <3>8. Solves(g, b)
      BY <3>7
    <3>9. QED
      BY <3>8, <2>2
  <2>5. QED
    BY <2>3, <2>4
<1>3. Len(p) \notin Bad /\ Len(p) \in 0..Len(p)
  BY <1>1, <1>2
<1>4. PICK f : Solves(f, Len(p))
  BY <1>3
<1>5. IsShort(f, p, stays)
  BY <1>4 DEF IsShort
<1>6. QED
  BY <1>5


(* The steps of p at which the leaves that are kept turn off it, and what    *)
(* Pruned makes of p.                                                        *)
Stays(kept, p) == {i \in 1..Len(p) : \E u \in kept : Extends(u, Turned(p, i))}

Short(kept, p) ==
  LET at[n \in 0..Len(p)] ==
        IF n = 0 THEN <<>>
        ELSE IF n \in Stays(kept, p) THEN Append(at[n - 1], p[n]) ELSE at[n - 1]
  IN  at[Len(p)]

(* Pruned by these names. *)
LEMMA PrunedIs ==
  ASSUME NEW t, NEW kept
  PROVE  Pruned(t, kept) = [s \in {Short(kept, p) : p \in kept} |->
                              t[CHOOSE p \in kept : Short(kept, p) = s]]
BY DEF Pruned, Short, Stays, Turned

(* Short is the function of that equation. *)
LEMMA ShortIsAt ==
  ASSUME NEW p \in Path, NEW kept, NEW f, IsShort(f, p, Stays(kept, p))
  PROVE  Short(kept, p) = f[Len(p)]
<1>1. PICK at : at = CHOOSE g : IsShort(g, p, Stays(kept, p))
  OBVIOUS
<1>2. IsShort(at, p, Stays(kept, p))
  BY <1>1
<1>3. Short(kept, p) = at[Len(p)]
  BY <1>1 DEF Short, IsShort
<1>4. QED
  BY <1>2, <1>3, ShortsAreUnique

(* What is left of the first n steps of p. *)
At(kept, p) == CHOOSE f : IsShort(f, p, Stays(kept, p))

(* It grows by the steps that stay, and nothing else. *)
LEMMA AtIs ==
  ASSUME NEW p \in Path, NEW kept
  PROVE  /\ At(kept, p)[0] = <<>> /\ Short(kept, p) = At(kept, p)[Len(p)]
         /\ \A n \in 1..Len(p) :
              At(kept, p)[n] = IF n \in Stays(kept, p) THEN Append(At(kept, p)[n - 1], p[n])
                               ELSE At(kept, p)[n - 1]
<1>1. PICK f : f = At(kept, p)
  OBVIOUS
<1>2. \E g : IsShort(g, p, Stays(kept, p))
  BY ShortExists
<1>3. IsShort(f, p, Stays(kept, p))
  BY <1>1, <1>2 DEF At
<1>4. f = [n \in 0..Len(p) |->
             IF n = 0 THEN <<>>
             ELSE IF n \in Stays(kept, p) THEN Append(f[n - 1], p[n]) ELSE f[n - 1]]
  BY <1>3 DEF IsShort
<1>5. 0 \in 0..Len(p) /\ \A n \in 1..Len(p) : n \in 0..Len(p) /\ n # 0
  BY Steps
<1>6. Short(kept, p) = f[Len(p)]
  BY <1>3, ShortIsAt
<1>7. f[0] = <<>>
  BY <1>4, <1>5
<1>8. ASSUME NEW n \in 1..Len(p)
      PROVE  f[n] = IF n \in Stays(kept, p) THEN Append(f[n - 1], p[n]) ELSE f[n - 1]
  BY <1>4, <1>5
<1>9. QED
  BY <1>1, <1>6, <1>7, <1>8

(* The steps that stay are those where another leaf that is kept turns off. *)
LEMMA StaysIs ==
  ASSUME NEW kept \in SUBSET Path, NEW p \in Path, NEW i
  PROVE  i \in Stays(kept, p) <=> i \in 1..Len(p) /\ \E u \in kept : Turns(u, p, i)
<1> SUFFICES ASSUME i \in 1..Len(p), NEW u \in kept
             PROVE  Extends(u, Turned(p, i)) <=> Turns(u, p, i)
  BY DEF Stays
<1>1. u \in Path /\ Turned(p, i) \in Path
  BY TurnedIs
<1>2. QED
  BY <1>1, ExtendsIsBelow, TurnsIsBelow

(* What is left of n steps begins with what is left of fewer, and each of    *)
(* its steps came with one that stays.                                       *)
Grown(kept, p, n) ==
  /\ At(kept, p)[n] \in Path /\ Len(At(kept, p)[n]) <= n
  /\ \A m \in 0..n : Below(At(kept, p)[n], At(kept, p)[m])
  /\ \A k \in 1..Len(At(kept, p)[n]) :
       \E i \in 1..n : i \in Stays(kept, p) /\ Len(At(kept, p)[i]) = k

(* A step that stays is the last of what is left up to it. *)
LEMMA StepStays ==
  ASSUME NEW s \in Path, NEW x \in {1, 2}
  PROVE  /\ Append(s, x) \in Path /\ Len(Append(s, x)) = Len(s) + 1
         /\ \A j \in 1..Len(s) : Append(s, x)[j] = s[j]
         /\ Append(s, x)[Len(s) + 1] = x /\ Below(Append(s, x), s)
<1>1. /\ Append(s, x) \in Path /\ Len(Append(s, x)) = Len(s) + 1
      /\ \A j \in 1..Len(s) : Append(s, x)[j] = s[j]
      /\ Append(s, x)[Len(s) + 1] = x
  BY AppendProperties DEF Path
<1>2. Len(s) \in Nat
  BY Steps
<1>3. QED
  BY <1>1, <1>2 DEF Below

(* It is as Grown says, after any number of steps. *)
LEMMA AtGrows ==
  ASSUME NEW p \in Path, NEW kept, NEW b \in 0..Len(p)
  PROVE  Grown(kept, p, b)
<1> DEFINE Bad == {n \in 0..Len(p) : ~Grown(kept, p, n)}
<1>1. Len(p) \in Nat /\ Bad \in SUBSET Nat
  BY Steps
<1>2. ASSUME Bad # {} PROVE FALSE
  <2>1. PICK n \in Bad : \A m \in Bad : n <= m
    <3> HIDE DEF Bad
    <3> QED BY <1>1, <1>2, LeastNatural
  <2>2. n \in 0..Len(p) /\ ~Grown(kept, p, n)
    OBVIOUS
  <2>3. PICK f : f = At(kept, p)
    OBVIOUS
  <2>4. f[0] = <<>> /\ \A i \in 1..Len(p) : f[i] = IF i \in Stays(kept, p) THEN Append(f[i - 1], p[i])
                                                   ELSE f[i - 1]
    BY <2>3, AtIs
  <2>5. CASE n = 0
    <3>1. <<>> \in Path /\ Len(<<>>) = 0 /\ 1..0 = {} /\ 0..0 = {0}
      BY NoStep
    <3>2. Below(<<>>, <<>>)
      BY <3>1 DEF Below
    <3>3. QED
      BY <2>2, <2>3, <2>4, <2>5, <3>1, <3>2 DEF Grown
  <2>6. CASE n # 0
    <3>1. n \in 1..Len(p) /\ n - 1 \in 0..Len(p) /\ ~(n <= n - 1) /\ n \in Nat
      BY <2>2, <2>6, <1>1
    <3>2. Grown(kept, p, n - 1)
      <4>1. n - 1 \notin Bad
        BY <3>1, <2>1
      <4>2. QED
        BY <4>1, <3>1
    <3>3. PICK c : c = n - 1
      OBVIOUS
    <3>4. /\ f[c] \in Path /\ Len(f[c]) <= c /\ Len(f[c]) \in Nat
          /\ \A m \in 0..c : Below(f[c], f[m])
          /\ \A k \in 1..Len(f[c]) : \E i \in 1..c : i \in Stays(kept, p) /\ Len(f[i]) = k
      BY <3>2, <3>3, <2>3, Steps DEF Grown
    <3>5. p[n] \in {1, 2} /\ c \in Nat /\ n = c + 1
      BY <3>1, <3>3, Steps
    <3>6. CASE n \in Stays(kept, p)
      <4>1. f[n] = Append(f[c], p[n])
        BY <3>1, <3>3, <3>6, <2>4
      <4>2. f[n] \in Path /\ Len(f[n]) = Len(f[c]) + 1 /\ Below(f[n], f[c])
        BY <4>1, <3>4, <3>5, StepStays
      <4>3. ASSUME NEW m \in 0..n PROVE Below(f[n], f[m])
        <5>1. CASE m = n
          BY <5>1, <4>2, Steps DEF Below
        <5>2. CASE m # n
          <6>1. m \in 0..c
            BY <5>2, <3>5
          <6>2. Below(f[c], f[m]) /\ f[m] \in Path
            <7>1. Grown(kept, p, m)
              <8>1. m \in 0..Len(p) /\ ~(n <= m)
                BY <6>1, <3>1, <3>5
              <8>2. QED
                BY <8>1, <2>1
            <7>2. QED
              BY <7>1, <6>1, <3>4, <2>3 DEF Grown
          <6>3. QED
            BY <6>2, <4>2, <3>4, BelowAgain
        <5>3. QED
          BY <5>1, <5>2
      <4>4. ASSUME NEW k \in 1..Len(f[n])
            PROVE  \E i \in 1..n : i \in Stays(kept, p) /\ Len(f[i]) = k
        <5>1. CASE k = Len(f[n])
          BY <5>1, <3>1, <3>6
        <5>2. CASE k # Len(f[n])
          <6>1. k \in 1..Len(f[c])
            BY <5>2, <4>2, <3>4
          <6>2. PICK i \in 1..c : i \in Stays(kept, p) /\ Len(f[i]) = k
            BY <6>1, <3>4
          <6>3. i \in 1..n
            BY <6>2, <3>5
          <6>4. QED
            BY <6>2, <6>3
        <5>3. QED
          BY <5>1, <5>2
      <4>5. Len(f[n]) <= n
        BY <4>2, <3>4, <3>5
      <4>6. QED
        BY <4>2, <4>3, <4>4, <4>5, <2>2, <2>3 DEF Grown
    <3>7. CASE n \notin Stays(kept, p)
      <4>1. f[n] = f[c]
        BY <3>1, <3>3, <3>7, <2>4
      <4>2. \A m \in 0..n : m = n \/ m \in 0..c
        BY <3>5
      <4>3. Below(f[n], f[n])
        BY <4>1, <3>4 DEF Below
      <4>4. \A m \in 0..n : Below(f[n], f[m])
        BY <4>1, <4>2, <4>3, <3>4
      <4>5. \A i \in 1..c : i \in 1..n
        BY <3>5
      <4>6. \A k \in 1..Len(f[n]) : \E i \in 1..n : i \in Stays(kept, p) /\ Len(f[i]) = k
        BY <4>1, <4>5, <3>4
      <4>7. f[n] \in Path /\ Len(f[n]) <= n
        BY <4>1, <3>4, <3>5
      <4>8. QED
        BY <4>4, <4>6, <4>7, <2>2, <2>3 DEF Grown
    <3>8. QED
      BY <3>6, <3>7
  <2>7. QED
    BY <2>5, <2>6
<1>3. QED
  BY <1>2

(* Where two leaves that are kept part, so does what is left of their paths. *)
LEMMA ShortTurns ==
  ASSUME NEW kept \in SUBSET Path, NEW p \in kept, NEW q \in kept, NEW i \in 1..Len(p), Turns(q, p, i)
  PROVE  /\ i \in Stays(kept, p) /\ Len(At(kept, p)[i]) \in 1..Len(Short(kept, p))
         /\ Turns(Short(kept, q), Short(kept, p), Len(At(kept, p)[i]))
<1>1. PICK f, g : f = At(kept, p) /\ g = At(kept, q)
  OBVIOUS
<1>2. p \in Path /\ q \in Path /\ Len(p) \in Nat /\ Len(q) \in Nat /\ i \in Nat \ {0}
  BY Steps
<1>3. i <= Len(q) /\ i \in 1..Len(q) /\ q[i] # p[i] /\ \A j \in 1..i - 1 : q[j] = p[j]
  BY <1>2 DEF Turns
<1>4. Turns(p, q, i)
  BY <1>3 DEF Turns
<1>5. i \in Stays(kept, p) /\ i \in Stays(kept, q)
  BY <1>2, <1>3, <1>4, StaysIs
<1>6. ASSUME NEW j \in 1..i - 1 PROVE j \in Stays(kept, p) <=> j \in Stays(kept, q)
  <2>1. j \in 1..Len(p) /\ j \in 1..Len(q)
    BY <1>2, <1>3
  <2>2. \A k \in 1..j - 1 : q[k] = p[k]
    BY <1>2, <1>3
  <2>3. q[j] = p[j]
    BY <1>3
  <2>4. \A u : Turns(u, p, j) <=> Turns(u, q, j)
    BY <2>2, <2>3 DEF Turns
  <2>5. QED
    BY <2>1, <2>4, <1>2, StaysIs
<1>7. /\ f[0] = <<>> /\ g[0] = <<>> /\ Short(kept, p) = f[Len(p)] /\ Short(kept, q) = g[Len(q)]
      /\ \A n \in 1..Len(p) : f[n] = IF n \in Stays(kept, p) THEN Append(f[n - 1], p[n]) ELSE f[n - 1]
      /\ \A n \in 1..Len(q) : g[n] = IF n \in Stays(kept, q) THEN Append(g[n - 1], q[n]) ELSE g[n - 1]
  BY <1>1, <1>2, AtIs
<1> DEFINE Bad == {n \in 0..i - 1 : f[n] # g[n]}
<1>8. ASSUME Bad # {} PROVE FALSE
  <2>1. Bad \in SUBSET Nat
    BY <1>2
  <2>2. PICK n \in Bad : \A m \in Bad : n <= m
    <3> HIDE DEF Bad
    <3> QED BY <2>1, <1>8, LeastNatural
  <2>3. n \in 0..i - 1 /\ f[n] # g[n]
    OBVIOUS
  <2>4. n # 0
    BY <2>3, <1>7
  <2>5. n - 1 \in 0..i - 1 /\ ~(n <= n - 1) /\ n \in 1..i - 1 /\ n \in 1..Len(p) /\ n \in 1..Len(q)
    BY <2>3, <2>4, <1>2, <1>3
  <2>6. f[n - 1] = g[n - 1]
    BY <2>2, <2>5
  <2>7. /\ f[n] = IF n \in Stays(kept, p) THEN Append(f[n - 1], p[n]) ELSE f[n - 1]
        /\ g[n] = IF n \in Stays(kept, q) THEN Append(g[n - 1], q[n]) ELSE g[n - 1]
    BY <2>5, <1>7
  <2>8. p[n] = q[n] /\ (n \in Stays(kept, p) <=> n \in Stays(kept, q))
    BY <2>5, <1>3, <1>6
  <2>9. QED
    BY <2>3, <2>6, <2>7, <2>8
<1>9. PICK s : s = f[i - 1]
  OBVIOUS
<1>10. s = g[i - 1]
  <2>1. i - 1 \in 0..i - 1
    BY <1>2
  <2>2. QED
    BY <2>1, <1>8, <1>9
<1>11. f[i] = Append(s, p[i]) /\ g[i] = Append(s, q[i])
  BY <1>3, <1>5, <1>7, <1>9, <1>10
<1>12. s \in Path
  <2>1. i - 1 \in 0..Len(p)
    BY <1>2
  <2>2. QED
    BY <2>1, <1>1, <1>2, <1>9, AtGrows DEF Grown
<1>13. p[i] \in {1, 2} /\ q[i] \in {1, 2}
  BY <1>2, <1>3, Steps
<1>14. PICK k : k = Len(s) + 1
  OBVIOUS
<1>15. Len(s) \in Nat
  BY <1>12, Steps
<1>16. /\ f[i] \in Path /\ Len(f[i]) = k /\ f[i][k] = p[i] /\ \A j \in 1..Len(s) : f[i][j] = s[j]
       /\ g[i] \in Path /\ Len(g[i]) = k /\ g[i][k] = q[i] /\ \A j \in 1..Len(s) : g[i][j] = s[j]
  BY <1>11, <1>12, <1>13, <1>14, StepStays
<1>17. Below(Short(kept, p), f[i]) /\ Below(Short(kept, q), g[i])
  <2>1. Len(p) \in 0..Len(p) /\ i \in 0..Len(p) /\ Len(q) \in 0..Len(q) /\ i \in 0..Len(q)
    BY <1>2, <1>3
  <2>2. Grown(kept, p, Len(p)) /\ Grown(kept, q, Len(q))
    BY <2>1, <1>2, AtGrows
  <2>3. QED
    BY <2>1, <2>2, <1>1, <1>7 DEF Grown
<1>18. PICK a, b : a = Short(kept, p) /\ b = Short(kept, q)
  OBVIOUS
<1>19. /\ k <= Len(a) /\ \A j \in 1..k : a[j] = f[i][j]
       /\ k <= Len(b) /\ \A j \in 1..k : b[j] = g[i][j]
  BY <1>16, <1>17, <1>18 DEF Below
<1>20. k \in 1..k /\ \A j \in 1..k - 1 : j \in 1..k /\ j \in 1..Len(s)
  BY <1>14, <1>15
<1>21. b[k] # a[k] /\ \A j \in 1..k - 1 : b[j] = a[j]
  BY <1>3, <1>16, <1>19, <1>20
<1>22. Turns(b, a, k)
  BY <1>19, <1>21 DEF Turns
<1>23. a \in Path
  <2>1. Len(p) \in 0..Len(p)
    BY <1>2
  <2>2. QED
    BY <2>1, <1>1, <1>2, <1>7, <1>18, AtGrows DEF Grown
<1>24. k \in 1..Len(a)
  BY <1>14, <1>15, <1>19, <1>23, Steps
<1>25. QED
  BY <1>1, <1>5, <1>16, <1>18, <1>22, <1>24

(* Leaves that part stay different, and so apart. *)
LEMMA ShortApart ==
  ASSUME NEW kept \in SUBSET Path, Apart(kept), NEW p \in kept, NEW q \in kept,
         Below(Short(kept, p), Short(kept, q))
  PROVE  p = q
<1> SUFFICES ASSUME p # q PROVE FALSE
  OBVIOUS
<1>1. ~Below(p, q) /\ ~Below(q, p)
  BY DEF Apart
<1>2. PICK i \in 1..Len(q) : Turns(p, q, i)
  BY <1>1, Parting
<1>3. PICK a, b, k : a = Short(kept, p) /\ b = Short(kept, q) /\ k = Len(At(kept, q)[i])
  OBVIOUS
<1>4. k \in 1..Len(b) /\ Turns(a, b, k)
  BY <1>2, <1>3, ShortTurns
<1>5. a[k] # b[k] /\ \A j \in 1..Len(b) : a[j] = b[j]
  BY <1>3, <1>4 DEF Turns, Below
<1>6. QED
  BY <1>4, <1>5

(* What is left of a path is no longer than it was. *)
LEMMA ShortIsPath ==
  ASSUME NEW p \in Path, NEW kept
  PROVE  Short(kept, p) \in Path /\ Len(Short(kept, p)) <= Len(p)
<1>1. Len(p) \in 0..Len(p)
  BY Steps
<1>2. Grown(kept, p, Len(p)) /\ Short(kept, p) = At(kept, p)[Len(p)]
  BY <1>1, AtGrows, AtIs
<1>3. QED
  BY <1>2 DEF Grown

(* Leaves that are kept, at what is left of their paths, make a tree. *)
LEMMA ShortShape ==
  ASSUME NEW kept \in SUBSET Path, kept # {}, Apart(kept), Bounded(kept)
  PROVE  Shape({Short(kept, p) : p \in kept})
<1>1. PICK M : M = {Short(kept, p) : p \in kept}
  OBVIOUS
<1>2. M \in SUBSET Path /\ M # {}
  BY <1>1, ShortIsPath
<1>3. Apart(M)
  BY <1>1, ShortApart DEF Apart
<1>4. Full(M)
  <2> SUFFICES ASSUME NEW p \in kept, NEW k \in 1..Len(Short(kept, p))
               PROVE  \E u \in kept : Turns(Short(kept, u), Short(kept, p), k)
    BY <1>1 DEF Full
  <2>1. p \in Path /\ Len(p) \in 0..Len(p)
    BY Steps
  <2>2. Grown(kept, p, Len(p)) /\ Short(kept, p) = At(kept, p)[Len(p)]
    BY <2>1, AtGrows, AtIs
  <2>3. PICK i \in 1..Len(p) : i \in Stays(kept, p) /\ Len(At(kept, p)[i]) = k
    BY <2>2 DEF Grown
  <2>4. PICK u \in kept : Turns(u, p, i)
    BY <2>1, <2>3, StaysIs
  <2>5. Turns(Short(kept, u), Short(kept, p), Len(At(kept, p)[i]))
    BY <2>4, ShortTurns
  <2>6. QED
    BY <2>3, <2>5
<1>5. Bounded(M)
  <2>1. PICK b \in Nat : \A p \in kept : Len(p) <= b
    BY DEF Bounded
  <2>2. ASSUME NEW p \in kept PROVE Len(Short(kept, p)) <= b
    <3>1. /\ Len(p) <= b /\ Len(p) \in Nat
          /\ Short(kept, p) \in Path /\ Len(Short(kept, p)) <= Len(p)
      BY <2>1, ShortIsPath, Steps
    <3>2. Len(Short(kept, p)) \in Nat
      BY <3>1, Steps
    <3>3. QED
      BY <3>1, <3>2
  <2>3. QED
    BY <2>2, <1>1 DEF Bounded
<1>6. QED
  BY <1>1, <1>2, <1>3, <1>4, <1>5 DEF Shape

(* The leaves that are kept, and what they show, when no two show the same. *)
LEMMA PrunedIsTree ==
  ASSUME NEW t, Shape(DOMAIN t), NEW kept \in SUBSET DOMAIN t, kept # {},
         \A p, q \in kept : t[p] = t[q] => p = q
  PROVE  /\ IsTree(Pruned(t, kept)) /\ IDsOf(Pruned(t, kept)) = {t[p] : p \in kept}
         /\ \A b \in Nat : (\A p \in DOMAIN t : Len(p) < b)
                             => \A p \in DOMAIN Pruned(t, kept) : Len(p) < b
<1>1. /\ kept \in SUBSET Path /\ Apart(kept) /\ Bounded(kept) /\ DOMAIN t \in SUBSET Path
  BY DEF Shape, Apart, Bounded
<1>2. PICK w : w = Pruned(t, kept)
  OBVIOUS
<1>3. w = [s \in {Short(kept, p) : p \in kept} |-> t[CHOOSE p \in kept : Short(kept, p) = s]]
  BY <1>2, PrunedIs
<1>4. ASSUME NEW p \in kept PROVE w[Short(kept, p)] = t[p]
  <2>1. PICK u : u = CHOOSE v \in kept : Short(kept, v) = Short(kept, p)
    OBVIOUS
  <2>2. u \in kept /\ Short(kept, u) = Short(kept, p)
    BY <2>1
  <2>3. Below(Short(kept, u), Short(kept, p))
    <3>1. Short(kept, p) \in Path
      BY <1>1, ShortIsPath
    <3>2. Len(Short(kept, p)) <= Len(Short(kept, p))
      BY <3>1, Steps
    <3>3. QED
      BY <2>2, <3>2 DEF Below
  <2>4. u = p
    BY <2>2, <2>3, <1>1, ShortApart
  <2>5. w[Short(kept, p)] = t[u]
    BY <2>1, <1>3
  <2>6. QED
    BY <2>4, <2>5
<1>5. Shape(DOMAIN w)
  BY <1>1, <1>3, ShortShape
<1>6. w = [m \in DOMAIN w |-> w[m]] /\ DOMAIN w = {Short(kept, p) : p \in kept}
  BY <1>3
<1>7. ASSUME NEW m \in DOMAIN w, NEW n \in DOMAIN w, w[m] = w[n] PROVE m = n
  <2>1. PICK p \in kept, q \in kept : m = Short(kept, p) /\ n = Short(kept, q)
    BY <1>6
  <2>2. t[p] = t[q]
    BY <2>1, <1>4, <1>7
  <2>3. QED
    BY <2>1, <2>2
<1>8. IsTree(w)
  BY <1>5, <1>6, <1>7 DEF IsTree
<1>9. IDsOf(w) = {t[p] : p \in kept}
  <2>1. IDsOf(w) = {w[Short(kept, p)] : p \in kept}
    BY <1>6 DEF IDsOf
  <2>2. QED
    BY <2>1, <1>4
<1>10. ASSUME NEW b \in Nat, \A p \in DOMAIN t : Len(p) < b, NEW m \in DOMAIN w PROVE Len(m) < b
  <2>1. PICK p \in kept : m = Short(kept, p)
    BY <1>6
  <2>2. p \in Path /\ Len(m) <= Len(p) /\ Len(p) < b /\ m \in Path
    BY <2>1, <1>1, <1>10, ShortIsPath
  <2>3. Len(m) \in Nat /\ Len(p) \in Nat
    BY <2>2, Steps
  <2>4. QED
    BY <2>2, <2>3
<1>11. QED
  BY <1>2, <1>8, <1>9, <1>10

(* A tree of which all is kept stays what it is. *)
LEMMA PrunedToAll ==
  ASSUME NEW t, Shape(DOMAIN t), t = [p \in DOMAIN t |-> t[p]]
  PROVE  Pruned(t, DOMAIN t) = t
<1>1. PICK D : D = DOMAIN t
  OBVIOUS
<1>2. D \in SUBSET Path /\ Full(D)
  BY <1>1 DEF Shape
<1>3. ASSUME NEW p \in D PROVE Short(D, p) = p
  <2>1. p \in Path /\ Len(p) \in Nat
    BY <1>2, Steps
  <2>2. \A i \in 1..Len(p) : i \in Stays(D, p)
    BY <2>1, <1>2, StaysIs DEF Full
  <2>3. PICK f : f = At(D, p)
    OBVIOUS
  <2>4. f[0] = <<>> /\ Short(D, p) = f[Len(p)] /\ \A n \in 1..Len(p) : f[n] = Append(f[n - 1], p[n])
    BY <2>1, <2>2, <2>3, AtIs
  <2> DEFINE Whole(n) == f[n] \in Path /\ Len(f[n]) = n /\ Below(p, f[n])
             Bad == {n \in 0..Len(p) : ~Whole(n)}
  <2>5. ASSUME Bad # {} PROVE FALSE
    <3>1. Bad \in SUBSET Nat
      BY <2>1
    <3>2. PICK n \in Bad : \A m \in Bad : n <= m
      <4> HIDE DEF Bad
      <4> QED BY <3>1, <2>5, LeastNatural
    <3>3. n \in 0..Len(p) /\ ~Whole(n)
      OBVIOUS
    <3>4. n # 0
      <4>1. <<>> \in Path /\ Len(<<>>) = 0 /\ 1..0 = {} /\ 0 <= Len(p)
        BY <2>1, NoStep
      <4>2. Below(p, <<>>)
        BY <4>1 DEF Below
      <4>3. QED
        BY <3>3, <4>1, <4>2, <2>4
    <3>5. n - 1 \in 0..Len(p) /\ ~(n <= n - 1) /\ n \in 1..Len(p) /\ n \in Nat
      BY <3>3, <3>4, <2>1
    <3>6. Whole(n - 1)
      <4>1. n - 1 \notin Bad
        BY <3>2, <3>5
      <4>2. QED
        BY <4>1, <3>5
    <3>7. PICK s : s = f[n - 1]
      OBVIOUS
    <3>8. s \in Path /\ Len(s) = n - 1 /\ \A j \in 1..n - 1 : p[j] = s[j]
      BY <3>6, <3>7 DEF Below
    <3>9. p[n] \in {1, 2} /\ f[n] = Append(s, p[n])
      BY <3>5, <3>7, <2>1, <2>4, Steps
    <3>10. PICK a : a = f[n]
      OBVIOUS
    <3>11. /\ a \in Path /\ Len(a) = Len(s) + 1 /\ a[Len(s) + 1] = p[n]
           /\ \A j \in 1..Len(s) : a[j] = s[j]
      BY <3>8, <3>9, <3>10, StepStays
    <3>12. Len(a) = n /\ a[n] = p[n] /\ \A j \in 1..n - 1 : a[j] = p[j]
      BY <3>5, <3>8, <3>11
    <3>13. \A j \in 1..n : j = n \/ j \in 1..n - 1
      BY <3>5
    <3>14. Below(p, a)
      BY <3>5, <3>12, <3>13 DEF Below
    <3>15. QED
      BY <3>3, <3>10, <3>11, <3>12, <3>14
  <2>6. Whole(Len(p))
    <3>1. Len(p) \in 0..Len(p) /\ Len(p) \notin Bad
      BY <2>1, <2>5
    <3>2. QED
      BY <3>1
  <2>7. PICK a : a = f[Len(p)]
    OBVIOUS
  <2>8. a \in Path /\ Len(a) = Len(p) /\ Below(p, a)
    BY <2>6, <2>7
  <2>9. Below(a, p)
    BY <2>1, <2>8 DEF Below
  <2>10. a = p
    BY <2>1, <2>8, <2>9, SamePath
  <2>11. QED
    BY <2>4, <2>7, <2>10
<1>4. {Short(D, p) : p \in D} = D
  BY <1>3
<1>5. ASSUME NEW s \in D PROVE (CHOOSE p \in D : Short(D, p) = s) = s
  <2>1. PICK u : u = CHOOSE p \in D : Short(D, p) = s
    OBVIOUS
  <2>2. u \in D /\ Short(D, u) = s
    BY <2>1, <1>3
  <2>3. QED
    BY <2>1, <2>2, <1>3
<1>6. Pruned(t, D) = [s \in D |-> t[CHOOSE p \in D : Short(D, p) = s]]
  BY <1>4, PrunedIs
<1>7. [s \in D |-> t[CHOOSE p \in D : Short(D, p) = s]] = [s \in D |-> t[s]]
  BY <1>5
<1>8. QED
  BY <1>1, <1>6, <1>7

(* The root is a leaf only of a tree without others. *)
LEMMA RootIsAlone ==
  ASSUME NEW t, IsTree(t), NEW id \in IDsOf(t), t # Leaf(id)
  PROVE  LET q == PathOf(t, id)
         IN  q \in DOMAIN t /\ t[q] = id /\ q # <<>> /\ \E v \in DOMAIN t : v # q
<1>1. PICK q, D : q = PathOf(t, id) /\ D = DOMAIN t
  OBVIOUS
<1>2. q \in D /\ t[q] = id /\ D \in SUBSET Path /\ Apart(D) /\ q \in Path /\ Full(D)
  BY <1>1, PathIs DEF IsTree, Shape
<1>3. q # <<>>
  <2> SUFFICES ASSUME q = <<>> PROVE FALSE
    OBVIOUS
  <2>1. \A p \in D : Below(p, q)
    <3> SUFFICES ASSUME NEW p \in D PROVE Below(p, q)
      OBVIOUS
    <3>1. Len(q) = 0 /\ Len(p) \in Nat
      BY <1>2, NoStep, Steps
    <3>2. QED
      BY <3>1 DEF Below
  <2>2. D = {<<>>}
    BY <2>1, <1>2 DEF Apart
  <2>3. t = [p \in {<<>>} |-> id]
    <3>1. t = [p \in {<<>>} |-> t[p]] /\ t[<<>>] = id
      BY <2>2, <1>1, <1>2 DEF IsTree
    <3>2. QED
      BY <3>1
  <2>4. QED
    BY <2>3 DEF Leaf
<1>4. Len(q) \in 1..Len(q)
  BY <1>2, <1>3, Steps, EmptySeq DEF Path
<1>5. PICK v \in D : Turns(v, q, Len(q))
  BY <1>2, <1>4 DEF Full
<1>6. v # q
  BY <1>5 DEF Turns
<1>7. QED
  BY <1>1, <1>2, <1>3, <1>6

(* A tree without one of its terminals has the others, and got no deeper. *)
LEMMA WithoutIsTree ==
  ASSUME NEW t, IsTree(t), NEW id \in IDsOf(t), t # Leaf(id)
  PROVE  /\ IsTree(Without(t, id)) /\ IDsOf(Without(t, id)) = IDsOf(t) \ {id}
         /\ \A b \in Nat : (\A p \in DOMAIN t : Len(p) < b)
                             => \A p \in DOMAIN Without(t, id) : Len(p) < b
<1>1. PICK kept : kept = {p \in DOMAIN t : t[p] # id}
  OBVIOUS
<1>2. Without(t, id) = Pruned(t, kept)
  BY <1>1 DEF Without
<1>3. kept \in SUBSET DOMAIN t /\ kept # {}
  <2>1. PICK v \in DOMAIN t : v # PathOf(t, id) /\ PathOf(t, id) \in DOMAIN t /\ t[PathOf(t, id)] = id
    BY RootIsAlone
  <2>2. t[v] # id
    BY <2>1 DEF IsTree
  <2>3. QED
    BY <2>2, <1>1
<1>4. Shape(DOMAIN t) /\ \A p, q \in kept : t[p] = t[q] => p = q
  BY <1>1 DEF IsTree
<1>5. /\ IsTree(Pruned(t, kept)) /\ IDsOf(Pruned(t, kept)) = {t[p] : p \in kept}
      /\ \A b \in Nat : (\A p \in DOMAIN t : Len(p) < b)
                          => \A p \in DOMAIN Pruned(t, kept) : Len(p) < b
  BY <1>3, <1>4, PrunedIsTree
<1>6. {t[p] : p \in kept} = IDsOf(t) \ {id}
  BY <1>1 DEF IDsOf
<1>7. QED
  BY <1>2, <1>5, <1>6

(* Depth. *)
LEMMA DepthIs ==
  ASSUME NEW t, Shape(DOMAIN t), NEW b \in Nat
  PROVE  Depth(t) \in Nat /\ (Depth(t) <= b <=> \A p \in DOMAIN t : Len(p) < b)
<1> DEFINE L == {Len(p) : p \in DOMAIN t}
<1>1. DOMAIN t \in SUBSET Path /\ DOMAIN t # {} /\ Bounded(DOMAIN t)
  BY DEF Shape
<1>2. \A p \in DOMAIN t : Len(p) \in Nat
  BY <1>1, Steps
<1>3. L \in SUBSET Nat /\ L # {}
  BY <1>1, <1>2
<1>4. PICK c \in Nat : \A n \in L : n <= c
  BY <1>1 DEF Bounded
<1>5. \E n \in L : \A m \in L : m <= n
  <2> HIDE DEF L
  <2> QED BY <1>3, <1>4, GreatestNatural
<1>6. \E n \in L : \A p \in DOMAIN t : Len(p) <= n
  BY <1>5
<1>7. PICK n : n = CHOOSE m \in L : \A p \in DOMAIN t : Len(p) <= m
  OBVIOUS
<1>8. n \in L /\ \A p \in DOMAIN t : Len(p) <= n
  <2> HIDE DEF L
  <2> QED BY <1>6, <1>7
<1>9. Depth(t) = 1 + n
  BY <1>7 DEF Depth
<1>10. n \in Nat
  BY <1>3, <1>8
<1>11. PICK p \in DOMAIN t : Len(p) = n
  BY <1>8
<1>12. Depth(t) <= b <=> n < b
  BY <1>9, <1>10
<1>13. ASSUME n < b, NEW u \in DOMAIN t PROVE Len(u) < b
  <2>1. Len(u) <= n /\ Len(u) \in Nat
    BY <1>2, <1>8
  <2>2. QED
    BY <2>1, <1>10, <1>13
<1>14. Depth(t) \in Nat
  BY <1>9, <1>10
<1>15. QED
  BY <1>11, <1>12, <1>13, <1>14

(* First(tree) is a terminal of the tree. *)
LEMMA FirstInside ==
  ASSUME NEW t, Shape(DOMAIN t)
  PROVE  First(t) \in IDsOf(t)
<1>1. DOMAIN t \in SUBSET Path /\ DOMAIN t # {} /\ Bounded(DOMAIN t) /\ Full(DOMAIN t)
  BY DEF Shape
<1> DEFINE Leading(n) == \E p \in DOMAIN t : n <= Len(p) /\ \A i \in 1..n : p[i] = 1
           N == {n \in Nat : Leading(n)}
<1>2. PICK b \in Nat : \A p \in DOMAIN t : Len(p) <= b
  BY <1>1 DEF Bounded
<1>3. N \in SUBSET Nat /\ N # {}
  <2>1. PICK p \in DOMAIN t : p \in Path
    BY <1>1
  <2>2. 0 <= Len(p) /\ 1..0 = {}
    BY <2>1, Steps
  <2>3. Leading(0)
    BY <2>2
  <2>4. QED
    BY <2>3
<1>4. \A n \in N : n <= b
  <2> SUFFICES ASSUME NEW n \in Nat, NEW p \in DOMAIN t, n <= Len(p) PROVE n <= b
    OBVIOUS
  <2>1. Len(p) \in Nat /\ Len(p) <= b
    BY <1>1, <1>2, Steps
  <2>2. QED
    BY <2>1
<1>5. PICK n \in N : \A m \in N : m <= n
  <2> HIDE DEF N
  <2> QED BY <1>3, <1>4, GreatestNatural
<1>6. n \in Nat /\ n + 1 \notin N /\ n + 1 \in Nat
  <2>1. n \in Nat /\ n + 1 \in Nat /\ ~(n + 1 <= n)
    OBVIOUS
  <2> HIDE DEF N
  <2>2. QED
    BY <2>1, <1>5
<1>7. PICK p \in DOMAIN t : n <= Len(p) /\ \A i \in 1..n : p[i] = 1
  OBVIOUS
<1>8. Len(p) = n
  <2> SUFFICES ASSUME Len(p) # n PROVE FALSE
    OBVIOUS
  <2>1. p \in Path /\ Len(p) \in Nat
    BY <1>1, Steps
  <2>2. n + 1 \in 1..Len(p)
    BY <2>1, <1>6, <1>7
  <2>3. PICK h : h = n + 1 /\ h \in 1..Len(p) /\ h - 1 = n
    BY <2>2, <1>6
  <2>4. p[h] # 1
    <3> SUFFICES ASSUME p[h] = 1 PROVE FALSE
      OBVIOUS
    <3>1. h <= Len(p) /\ \A i \in 1..h : p[i] = 1
      BY <2>1, <2>3, <1>6, <1>7
    <3>2. Leading(h)
      BY <3>1
    <3>3. QED
      BY <3>2, <2>3, <1>6
  <2>5. p[h] = 2
    BY <2>1, <2>3, <2>4, Steps
  <2>6. PICK u \in DOMAIN t : Turns(u, p, h)
    BY <2>3, <1>1 DEF Full
  <2>7. u \in Path /\ h <= Len(u) /\ u[h] # p[h] /\ \A j \in 1..n : u[j] = p[j]
    BY <2>3, <2>6, <1>1 DEF Turns
  <2>8. u[h] \in {1, 2}
    BY <2>3, <2>7, Steps
  <2>9. \A j \in 1..h : u[j] = 1
    <3> SUFFICES ASSUME NEW j \in 1..h PROVE u[j] = 1
      OBVIOUS
    <3>1. CASE j = h
      BY <3>1, <2>5, <2>7, <2>8
    <3>2. CASE j # h
      <4>1. j \in 1..n
        BY <3>2, <2>3, <1>6
      <4>2. QED
        BY <4>1, <2>7, <1>7
    <3>3. QED
      BY <3>1, <3>2
  <2>10. Leading(h)
    BY <2>7, <2>9
  <2>11. QED
    BY <2>3, <2>10, <1>6
<1>9. \A i \in 1..Len(p) : p[i] = 1
  BY <1>7, <1>8
<1>10. PICK u : u = CHOOSE v \in DOMAIN t : \A i \in 1..Len(v) : v[i] = 1
  OBVIOUS
<1>11. u \in DOMAIN t
  BY <1>9, <1>10
<1>12. First(t) = t[u]
  BY <1>10 DEF First
<1>13. QED
  BY <1>11, <1>12 DEF IDsOf

(* A path is where it leads to a node, and on from there. *)
LEMMA Rejoined ==
  ASSUME NEW r \in Path, NEW x \in Path, Below(r, x)
  PROVE  /\ SubSeq(r, Len(x) + 1, Len(r)) \in Path
         /\ x \o SubSeq(r, Len(x) + 1, Len(r)) = r
<1>1. Len(x) <= Len(r) /\ (\A i \in 1..Len(x) : r[i] = x[i]) /\ Len(x) \in Nat /\ Len(r) \in Nat
  BY Steps DEF Below
<1>2. PICK m : m = Len(x) + 1
  OBVIOUS
<1>3. PICK s : s = SubSeq(r, m, Len(r))
  OBVIOUS
<1>4. s \in Path /\ Len(s) = Len(r) - Len(x) /\ \A i \in 1..Len(r) - Len(x) : s[i] = r[Len(x) + i]
  <2>1. m \in 1..Len(r) + 1 /\ Len(r) \in m - 1..Len(r) /\ Len(r) - m + 1 = Len(r) - Len(x)
    BY <1>1, <1>2
  <2>2. s \in Path /\ Len(s) = Len(r) - Len(x) /\ \A i \in 1..Len(r) - Len(x) : s[i] = r[m + i - 1]
    BY <2>1, <1>3, Cut
  <2>3. \A i \in 1..Len(r) - Len(x) : m + i - 1 = Len(x) + i
    BY <1>1, <1>2
  <2>4. QED
    BY <2>2, <2>3
<1>5. PICK u : u = x \o s
  OBVIOUS
<1>6. /\ u \in Path /\ Len(u) = Len(x) + Len(s)
      /\ \A i \in 1..Len(x) : u[i] = x[i]
      /\ \A i \in 1..Len(s) : u[Len(x) + i] = s[i]
  BY <1>4, <1>5, Joined
<1>7. Len(u) = Len(r)
  BY <1>1, <1>4, <1>6
<1>8. ASSUME NEW i \in 1..Len(r) PROVE u[i] = r[i]
  <2>1. CASE i <= Len(x)
    BY <2>1, <1>1, <1>6
  <2>2. CASE ~(i <= Len(x))
    <3>1. PICK j \in 1..Len(s) : i = Len(x) + j
      <4>1. i - Len(x) \in 1..Len(s) /\ i = Len(x) + (i - Len(x))
        BY <2>2, <1>1, <1>4
      <4>2. QED
        BY <4>1
    <3>2. u[Len(x) + j] = s[j]
      BY <1>6
    <3>3. s[j] = r[Len(x) + j]
      BY <1>4
    <3>4. QED
      BY <3>1, <3>2, <3>3
  <2>3. QED
    BY <2>1, <2>2
<1>9. u = r
  BY <1>6, <1>7, <1>8, SeqEqual DEF Path
<1>10. QED
  BY <1>2, <1>3, <1>4, <1>5, <1>9

(* What turns off below a node goes through it. *)
LEMMA TurnsOfJoined ==
  ASSUME NEW q \in Path, NEW r \in Path, NEW s \in Path, NEW i \in 1..Len(r),
         Turns(q \o s, q \o r, Len(q) + i)
  PROVE  Turns(s, r, i)
<1>1. /\ Len(q \o r) = Len(q) + Len(r)
      /\ \A k \in 1..Len(q) : (q \o r)[k] = q[k]
      /\ \A k \in 1..Len(r) : (q \o r)[Len(q) + k] = r[k]
  BY Joined
<1>2. /\ Len(q \o s) = Len(q) + Len(s)
      /\ \A k \in 1..Len(q) : (q \o s)[k] = q[k]
      /\ \A k \in 1..Len(s) : (q \o s)[Len(q) + k] = s[k]
  BY Joined
<1>3. Len(q) \in Nat /\ Len(r) \in Nat /\ Len(s) \in Nat
  BY Steps
<1>4. /\ Len(q) + i <= Len(q \o s) /\ (q \o s)[Len(q) + i] # (q \o r)[Len(q) + i]
      /\ \A k \in 1..(Len(q) + i) - 1 : (q \o s)[k] = (q \o r)[k]
  BY DEF Turns
<1>5. i <= Len(s) /\ i \in 1..Len(s)
  BY <1>2, <1>3, <1>4
<1>6. s[i] # r[i]
  BY <1>1, <1>2, <1>4, <1>5
<1>7. ASSUME NEW j \in 1..i - 1 PROVE s[j] = r[j]
  <2>1. PICK k \in 1..(Len(q) + i) - 1 : k = Len(q) + j
    BY <1>3
  <2>2. j \in 1..Len(s) /\ j \in 1..Len(r)
    BY <1>3, <1>5
  <2>3. (q \o s)[k] = s[j] /\ (q \o r)[k] = r[j]
    BY <2>1, <2>2, <1>1, <1>2
  <2>4. QED
    BY <2>3, <1>4
<1>8. QED
  BY <1>5, <1>6, <1>7 DEF Turns

(* What is below a node has the shape of a tree, and terminals of the tree. *)
LEMMA SubtreeShape ==
  ASSUME NEW t, Shape(DOMAIN t), NEW x \in Path, NEW some \in DOMAIN t, Below(some, x)
  PROVE  /\ Shape(DOMAIN Subtree(t, x))
         /\ \A id \in IDsOf(Subtree(t, x)) : \E r \in DOMAIN t : Below(r, x) /\ t[r] = id
<1>1. PICK D : D = DOMAIN t
  OBVIOUS
<1>2. D \in SUBSET Path /\ Apart(D) /\ Full(D) /\ Bounded(D)
  BY <1>1 DEF Shape
<1> DEFINE B == {SubSeq(r, Len(x) + 1, Len(r)) : r \in {r \in D : Extends(r, x)}}
<1>3. \A e \in B : e \in Path /\ x \o e \in D
  <2> SUFFICES ASSUME NEW r \in D, Extends(r, x)
               PROVE  /\ SubSeq(r, Len(x) + 1, Len(r)) \in Path
                      /\ x \o SubSeq(r, Len(x) + 1, Len(r)) \in D
    OBVIOUS
  <2>1. r \in Path /\ Below(r, x)
    BY <1>2, ExtendsIsBelow
  <2>2. QED
    BY <2>1, Rejoined
<1>4. \A r \in D : Below(r, x) => \E e \in B : r = x \o e
  <2> SUFFICES ASSUME NEW r \in D, Below(r, x) PROVE \E e \in B : r = x \o e
    OBVIOUS
  <2>1. r \in Path /\ Extends(r, x)
    BY <1>2, ExtendsIsBelow
  <2>2. x \o SubSeq(r, Len(x) + 1, Len(r)) = r
    BY <2>1, Rejoined
  <2>3. QED
    BY <2>1, <2>2
<1>5. PICK s : s = Subtree(t, x)
  OBVIOUS
<1>6. DOMAIN s = B /\ s = [e \in DOMAIN s |-> s[e]] /\ \A e \in B : s[e] = t[x \o e]
  BY <1>1, <1>5 DEF Subtree
<1> HIDE DEF B
<1>7. B \in SUBSET Path /\ B # {}
  BY <1>1, <1>3, <1>4
<1>8. Apart(B)
  <2> SUFFICES ASSUME NEW e \in B, NEW f \in B, Below(e, f) PROVE e = f
    BY DEF Apart
  <2>1. e \in Path /\ f \in Path /\ x \o e \in D /\ x \o f \in D
    BY <1>3
  <2>2. Below(x \o e, x \o f)
    BY <2>1, JoinedBelow
  <2>3. x \o e = x \o f
    BY <2>1, <2>2, <1>2 DEF Apart
  <2>4. x \o f \in Path /\ Below(x \o f, x \o f)
    BY <2>1, <2>2, <2>3, <1>2
  <2>5. Below(f, e)
    BY <2>1, <2>3, <2>4, JoinedBelow
  <2>6. QED
    BY <2>1, <2>5, SamePath
<1>9. Full(B)
  <2> SUFFICES ASSUME NEW e \in B, NEW i \in 1..Len(e) PROVE \E f \in B : Turns(f, e, i)
    BY DEF Full
  <2>1. e \in Path /\ x \o e \in D
    BY <1>3
  <2>2. /\ Len(x \o e) = Len(x) + Len(e) /\ Len(x) \in Nat /\ Len(e) \in Nat
        /\ \A j \in 1..Len(x) : (x \o e)[j] = x[j]
    BY <2>1, Joined, Steps
  <2>3. PICK k \in 1..Len(x \o e) : k = Len(x) + i
    BY <2>2
  <2>4. PICK u \in D : Turns(u, x \o e, k)
    BY <2>1, <2>3, <1>2 DEF Full
  <2>5. k <= Len(u) /\ Len(u) \in Nat /\ \A j \in 1..k - 1 : u[j] = (x \o e)[j]
    BY <2>4, <1>2, Steps DEF Turns
  <2>6. Below(u, x)
    <3>1. Len(x) <= Len(u) /\ \A j \in 1..Len(x) : j \in 1..k - 1
      BY <2>2, <2>3, <2>5
    <3>2. QED
      BY <3>1, <2>2, <2>5 DEF Below
  <2>7. PICK f \in B : u = x \o f
    BY <2>6, <1>4
  <2>8. f \in Path /\ Turns(x \o f, x \o e, Len(x) + i)
    BY <2>3, <2>4, <2>7, <1>3
  <2>9. Turns(f, e, i)
    BY <2>1, <2>8, TurnsOfJoined
  <2>10. QED
    BY <2>9
<1>10. Bounded(B)
  <2>1. PICK b \in Nat : \A p \in D : Len(p) <= b
    BY <1>2 DEF Bounded
  <2>2. ASSUME NEW e \in B PROVE Len(e) <= b
    <3>1. /\ Len(x \o e) = Len(x) + Len(e) /\ Len(x) \in Nat /\ Len(e) \in Nat
          /\ Len(x \o e) <= b
      BY <2>1, <1>3, Joined, Steps
    <3>2. QED
      BY <3>1
  <2>3. QED
    BY <2>2 DEF Bounded
<1>11. Shape(B)
  BY <1>7, <1>8, <1>9, <1>10 DEF Shape
<1>12. ASSUME NEW id \in IDsOf(s) PROVE \E r \in DOMAIN t : Below(r, x) /\ t[r] = id
  <2>1. PICK e \in B : s[e] = id
    BY <1>6 DEF IDsOf
  <2>2. e \in Path /\ x \o e \in D /\ t[x \o e] = id
    BY <2>1, <1>3, <1>6
  <2>3. Below(x \o e, x)
    BY <2>2, JoinedBelow
  <2>4. QED
    BY <2>2, <2>3, <1>1
<1>13. QED
  BY <1>5, <1>6, <1>11, <1>12

(* The first terminal beside the one that is closed stays. *)
LEMMA SiblingStays ==
  ASSUME NEW t, IsTree(t), NEW id \in IDsOf(t), t # Leaf(id)
  PROVE  First(Sibling(t, id)) \in IDsOf(t) \ {id}
<1>1. PICK q : q = PathOf(t, id)
  OBVIOUS
<1>2. q \in DOMAIN t /\ t[q] = id /\ q # <<>> /\ DOMAIN t \in SUBSET Path /\ q \in Path /\ Full(DOMAIN t)
  <2>1. q \in DOMAIN t /\ t[q] = id /\ q # <<>>
    BY <1>1, RootIsAlone
  <2>2. QED
    BY <2>1 DEF IsTree, Shape
<1>3. PICK k : k = Len(q) /\ k \in 1..Len(q)
  BY <1>2, Steps, EmptySeq DEF Path
<1>4. PICK x : x = Turned(q, k)
  OBVIOUS
<1>5. x \in Path
  BY <1>2, <1>3, <1>4, TurnedIs
<1>6. Sibling(t, id) = Subtree(t, x)
  BY <1>1, <1>3, <1>4 DEF Sibling, Turned
<1>7. PICK v \in DOMAIN t : Turns(v, q, k)
  BY <1>2, <1>3 DEF Full
<1>8. Below(v, x)
  BY <1>2, <1>3, <1>4, <1>7, TurnsIsBelow
<1>9. /\ Shape(DOMAIN Subtree(t, x))
      /\ \A i \in IDsOf(Subtree(t, x)) : \E r \in DOMAIN t : Below(r, x) /\ t[r] = i
  BY <1>5, <1>8, SubtreeShape DEF IsTree
<1>10. First(Subtree(t, x)) \in IDsOf(Subtree(t, x))
  BY <1>9, FirstInside
<1>11. PICK r \in DOMAIN t : Below(r, x) /\ t[r] = First(Subtree(t, x))
  BY <1>9, <1>10
<1>12. Turns(r, q, k)
  BY <1>2, <1>3, <1>4, <1>11, TurnsIsBelow
<1>13. r # q
  BY <1>12 DEF Turns
<1>14. t[r] # id
  BY <1>2, <1>13 DEF IsTree
<1>15. QED
  BY <1>6, <1>11, <1>14 DEF IDsOf

(* There are n numbers from 1 to n. *)
LEMMA CountOfInterval ==
  ASSUME NEW n \in Nat
  PROVE  IsFiniteSet(1..n) /\ Cardinality(1..n) = n
<1>1. PICK a : a = 1
  OBVIOUS
<1>2. a \in Int /\ n \in Int
  BY <1>1
<1>3. IsFiniteSet(a..n) /\ Cardinality(a..n) = IF a > n THEN 0 ELSE n - a + 1
  BY <1>2, FS_Interval
<1>4. (IF a > n THEN 0 ELSE n - a + 1) = n
  BY <1>1
<1>5. QED
  BY <1>1, <1>3, <1>4

(* R puts the elements of S in a line. *)
Orders(R, S) ==
  /\ \A x \in S : <<x, x>> \notin R
  /\ \A x, y, z \in S : <<x, y>> \in R /\ <<y, z>> \in R => <<x, z>> \in R
  /\ \A x, y \in S : x # y => <<x, y>> \in R \/ <<y, x>> \in R

CountsOff(e, R, S) ==
  /\ e \in [1..Cardinality(S) -> S]
  /\ \A i, j \in 1..Cardinality(S) : i < j => <<e[i], e[j]>> \in R

(* The elements of a finite set that a relation orders can be counted off in *)
(* that order.                                                               *)
LEMMA CountedOff ==
  ASSUME NEW S, IsFiniteSet(S), NEW R, Orders(R, S)
  PROVE  \E e : CountsOff(e, R, S)
<1>0. /\ \A x \in S : <<x, x>> \notin R
      /\ \A x, y, z \in S : <<x, y>> \in R /\ <<y, z>> \in R => <<x, z>> \in R
      /\ \A x, y \in S : x # y => <<x, y>> \in R \/ <<y, x>> \in R
  BY DEF Orders
<1>1. PICK n : n = Cardinality(S) /\ n \in Nat
  BY FS_CardinalityType
<1> DEFINE UpTo(x) == {y \in S : y = x \/ <<y, x>> \in R}
           rank == [x \in S |-> Cardinality(UpTo(x))]
<1>2. \A x \in S : UpTo(x) \in SUBSET S /\ x \in UpTo(x)
  OBVIOUS
<1>3. ASSUME NEW x \in S PROVE IsFiniteSet(UpTo(x)) /\ rank[x] = Cardinality(UpTo(x)) /\ rank[x] \in 1..n
  <2>1. /\ IsFiniteSet(UpTo(x)) /\ Cardinality(UpTo(x)) <= n /\ Cardinality(UpTo(x)) \in Nat
    <3> HIDE DEF UpTo
    <3> QED BY <1>1, <1>2, FS_Subset, FS_CardinalityType
  <2>2. Cardinality(UpTo(x)) # 0
    <3> HIDE DEF UpTo
    <3> QED BY <1>2, <2>1, FS_EmptySet
  <2>3. rank[x] = Cardinality(UpTo(x))
    OBVIOUS
  <2> HIDE DEF UpTo, rank
  <2>4. QED
    BY <2>1, <2>2, <2>3, <1>1
<1>4. ASSUME NEW x \in S, NEW y \in S, <<x, y>> \in R PROVE rank[x] < rank[y]
  <2>1. UpTo(x) \subseteq UpTo(y) /\ y \in UpTo(y) /\ y \notin UpTo(x)
    BY <1>0, <1>4
  <2>2. /\ Cardinality(UpTo(x)) <= Cardinality(UpTo(y))
        /\ (Cardinality(UpTo(y)) = Cardinality(UpTo(x)) => UpTo(y) = UpTo(x))
    <3>1. IsFiniteSet(UpTo(y)) /\ UpTo(x) \in SUBSET UpTo(y)
      BY <1>3, <2>1
    <3> HIDE DEF UpTo
    <3>2. QED
      BY <3>1, FS_Subset
  <2>3. rank[x] = Cardinality(UpTo(x)) /\ rank[y] = Cardinality(UpTo(y))
    OBVIOUS
  <2>4. rank[x] \in Nat /\ rank[y] \in Nat
    BY <1>3
  <2> HIDE DEF UpTo, rank
  <2>5. QED
    BY <2>1, <2>2, <2>3, <2>4
<1>5. rank \in [S -> 1..n]
  <2>1. \A x \in S : rank[x] \in 1..n
    BY <1>3
  <2>2. rank = [x \in S |-> rank[x]]
    OBVIOUS
  <2> HIDE DEF rank
  <2>3. QED
    BY <2>1, <2>2
<1> HIDE DEF UpTo, rank
<1>6. \A x, y \in S : rank[x] = rank[y] => x = y
  <2> SUFFICES ASSUME NEW x \in S, NEW y \in S, rank[x] = rank[y], x # y PROVE FALSE
    OBVIOUS
  <2>1. rank[x] < rank[y] \/ rank[y] < rank[x]
    BY <1>0, <1>4
  <2>2. rank[x] \in Nat /\ rank[y] \in Nat
    BY <1>3
  <2>3. QED
    BY <2>1, <2>2
<1>7. rank \in Injection(S, 1..n)
  BY <1>5, <1>6 DEF Injection, IsInjective
<1>8. IsFiniteSet(1..n) /\ Cardinality(1..n) = n
  BY <1>1, CountOfInterval
<1>9. rank \in Surjection(S, 1..n)
  BY <1>1, <1>7, <1>8, FS_Injection
<1>10. \A k \in 1..n : \E x \in S : rank[x] = k
  BY <1>9 DEF Surjection
<1> DEFINE e == [k \in 1..n |-> CHOOSE x \in S : rank[x] = k]
<1>11. \A k \in 1..n : e[k] \in S /\ rank[e[k]] = k
  BY <1>10
<1>12. e \in [1..n -> S]
  BY <1>11
<1>13. ASSUME NEW i \in 1..n, NEW j \in 1..n, i < j PROVE <<e[i], e[j]>> \in R
  <2>1. e[i] \in S /\ e[j] \in S /\ rank[e[i]] = i /\ rank[e[j]] = j
    BY <1>11
  <2> HIDE DEF e
  <2>2. e[i] # e[j]
    BY <2>1, <1>13
  <2>3. ~(<<e[j], e[i]>> \in R)
    <3> SUFFICES ASSUME <<e[j], e[i]>> \in R PROVE FALSE
      OBVIOUS
    <3>1. j < i
      BY <2>1, <1>4
    <3>2. QED
      BY <3>1, <1>13
  <2>4. QED
    BY <2>1, <2>2, <2>3, <1>0
<1> HIDE DEF e
<1>14. CountsOff(e, R, S)
  BY <1>1, <1>12, <1>13 DEF CountsOff
<1>15. QED
  BY <1>14

(* What is counted off so is counted off to the last. *)
LEMMA AllCountedOff ==
  ASSUME NEW S, IsFiniteSet(S), NEW R, Orders(R, S), NEW e, CountsOff(e, R, S)
  PROVE  \A x \in S : \E k \in 1..Cardinality(S) : e[k] = x
<1>1. PICK n : n = Cardinality(S) /\ n \in Nat
  BY FS_CardinalityType
<1>0. /\ e \in [1..n -> S] /\ \A x \in S : <<x, x>> \notin R
      /\ \A i, j \in 1..n : i < j => <<e[i], e[j]>> \in R
  BY <1>1 DEF CountsOff, Orders
<1>2. \A i, j \in 1..n : e[i] = e[j] => i = j
  <2> SUFFICES ASSUME NEW i \in 1..n, NEW j \in 1..n, e[i] = e[j], i # j PROVE FALSE
    OBVIOUS
  <2>1. DOMAIN e = 1..n /\ e[i] \in S /\ e[j] \in S
    BY <1>0
  <2>2. i < j \/ j < i
    BY <1>1
  <2>3. QED
    BY <2>1, <2>2, <1>0
<1>3. e \in Injection(1..n, S)
  BY <1>0, <1>2 DEF Injection, IsInjective
<1>4. Cardinality(1..n) = n
  BY <1>1, CountOfInterval
<1>5. e \in Surjection(1..n, S)
  BY <1>1, <1>3, <1>4, FS_Injection
<1>6. QED
  BY <1>1, <1>5 DEF Surjection

-----------------------------------------------------------------------------
(* The reading order. *)

(* Before, step by step. *)
LEMMA BeforeIs ==
  ASSUME NEW p \in Path, NEW q \in Path
  PROVE  Before(p, q) <=> \E k \in 1..Len(p) :
                            k <= Len(q) /\ (\A j \in 1..k - 1 : p[j] = q[j]) /\ p[k] < q[k]
<1> SUFFICES ASSUME NEW k \in 1..Len(p), k <= Len(q)
             PROVE  SubSeq(p, 1, k - 1) = SubSeq(q, 1, k - 1) <=> \A j \in 1..k - 1 : p[j] = q[j]
  BY DEF Before
<1>1. k \in Nat \ {0} /\ Len(p) \in Nat /\ Len(q) \in Nat
  BY Steps
<1>2. PICK h : h = k - 1 /\ h \in 0..Len(p) /\ h \in 0..Len(q)
  BY <1>1
<1>3. PICK a, b : a = SubSeq(p, 1, h) /\ b = SubSeq(q, 1, h)
  OBVIOUS
<1>4. a \in Path /\ Len(a) = h /\ \A j \in 1..h : a[j] = p[j]
  BY <1>2, <1>3, CutFromStart
<1>5. b \in Path /\ Len(b) = h /\ \A j \in 1..h : b[j] = q[j]
  BY <1>2, <1>3, CutFromStart
<1>6. a = b <=> \A j \in 1..h : p[j] = q[j]
  BY <1>4, <1>5, SeqEqual DEF Path
<1>7. QED
  BY <1>2, <1>3, <1>6

(* No leaf is before itself. *)
LEMMA NotBeforeItself ==
  ASSUME NEW p \in Path
  PROVE  ~Before(p, p)
BY BeforeIs, Steps

(* What is before a leaf is before all that leaf is before. *)
LEMMA BeforeAgain ==
  ASSUME NEW p \in Path, NEW q \in Path, NEW r \in Path, Before(p, q), Before(q, r)
  PROVE  Before(p, r)
<1>1. PICK k \in 1..Len(p) : k <= Len(q) /\ (\A j \in 1..k - 1 : p[j] = q[j]) /\ p[k] < q[k]
  BY BeforeIs
<1>2. PICK m \in 1..Len(q) : m <= Len(r) /\ (\A j \in 1..m - 1 : q[j] = r[j]) /\ q[m] < r[m]
  BY BeforeIs
<1>3. Len(p) \in Nat /\ Len(q) \in Nat /\ Len(r) \in Nat
  BY Steps
<1>4. CASE k < m
  <2>1. k <= Len(r) /\ (\A j \in 1..k - 1 : p[j] = r[j]) /\ q[k] = r[k]
    BY <1>1, <1>2, <1>3, <1>4
  <2>2. p[k] < r[k]
    BY <2>1, <1>1
  <2>3. QED
    BY <2>1, <2>2, BeforeIs
<1>5. CASE k = m
  <2>1. k <= Len(r) /\ (\A j \in 1..k - 1 : p[j] = r[j])
    BY <1>1, <1>2, <1>3, <1>5
  <2>2. p[k] \in {1, 2} /\ q[k] \in {1, 2} /\ r[k] \in {1, 2}
    BY <2>1, <1>1, <1>3, Steps
  <2>3. p[k] < r[k]
    BY <2>2, <1>1, <1>2, <1>5
  <2>4. QED
    BY <2>1, <2>3, BeforeIs
<1>6. CASE m < k
  <2>1. m \in 1..Len(p) /\ m <= Len(r) /\ (\A j \in 1..m - 1 : p[j] = r[j]) /\ p[m] = q[m]
    BY <1>1, <1>2, <1>3, <1>6
  <2>2. p[m] < r[m]
    BY <2>1, <1>2
  <2>3. QED
    BY <2>1, <2>2, BeforeIs
<1>7. QED
  BY <1>4, <1>5, <1>6, <1>3

(* Of two leaves apart from each other one is before the other. *)
LEMMA BeforeOrAfter ==
  ASSUME NEW p \in Path, NEW q \in Path, ~Below(p, q), ~Below(q, p)
  PROVE  Before(p, q) \/ Before(q, p)
<1>1. PICK k \in 1..Len(p) : k \in 1..Len(q) /\ Turns(q, p, k)
  BY Parting
<1>2. p[k] # q[k] /\ \A j \in 1..k - 1 : p[j] = q[j] /\ q[j] = p[j]
  BY <1>1 DEF Turns
<1>3. p[k] \in {1, 2} /\ q[k] \in {1, 2}
  BY <1>1, Steps
<1>4. p[k] < q[k] \/ q[k] < p[k]
  BY <1>2, <1>3
<1>5. k <= Len(p) /\ k <= Len(q)
  BY <1>1, Steps
<1>6. QED
  BY <1>1, <1>2, <1>4, <1>5, BeforeIs

Shallow(t) == \A p \in DOMAIN t : Len(p) < MaxDepth
Roots == {t \in UNION {[D -> IDs] : D \in SUBSET Path} : IsTree(t) /\ Shallow(t)}
Tabs == {tab \in [root : Roots, focus : IDs] : tab.focus \in IDsOf(tab.root)}

(* What a tab is. *)
LEMMA TabFacts ==
  ASSUME NEW tab \in Tabs
  PROVE  /\ IsTree(tab.root) /\ Shallow(tab.root) /\ IDsOf(tab.root) \subseteq IDs
         /\ tab.focus \in IDsOf(tab.root) /\ tab = Tab(tab.root, tab.focus) /\ tab.root \in Roots
<1>1. tab \in [root : Roots, focus : IDs] /\ tab.focus \in IDsOf(tab.root)
  BY DEF Tabs
<1>2. tab.root \in Roots /\ tab = Tab(tab.root, tab.focus)
  BY <1>1 DEF Tab
<1>3. IsTree(tab.root) /\ Shallow(tab.root) /\ \E D \in SUBSET Path : tab.root \in [D -> IDs]
  BY <1>2 DEF Roots
<1>4. IDsOf(tab.root) \subseteq IDs
  BY <1>3 DEF IDsOf
<1>5. QED
  BY <1>1, <1>2, <1>3, <1>4

(* What makes a tab. *)
LEMMA TabType ==
  ASSUME NEW t, IsTree(t), Shallow(t), IDsOf(t) \subseteq IDs, NEW id \in IDsOf(t)
  PROVE  Tab(t, id) \in Tabs /\ Tab(t, id).root = t /\ Tab(t, id).focus = id
<1>1. DOMAIN t \in SUBSET Path /\ t = [p \in DOMAIN t |-> t[p]]
  BY DEF IsTree, Shape
<1>2. t \in [DOMAIN t -> IDs]
  BY <1>1 DEF IDsOf
<1>3. t \in Roots
  BY <1>1, <1>2 DEF Roots
<1>4. QED
  BY <1>3 DEF Tab, Tabs

-----------------------------------------------------------------------------
(* Sequences with one element less, and with one more. *)

(* The tabs without the i-th. *)
LEMMA DroppedIs ==
  ASSUME NEW S, NEW tabs \in Seq(S), NEW i \in 1..Len(tabs)
  PROVE  /\ Dropped(tabs, i) \in Seq(S) /\ Len(Dropped(tabs, i)) = Len(tabs) - 1
         /\ \A j \in 1..Len(tabs) - 1 : Dropped(tabs, i)[j] = IF j < i THEN tabs[j] ELSE tabs[j + 1]
<1>1. Len(tabs) \in Nat /\ i \in Nat \ {0} /\ \A j \in 1..Len(tabs) : tabs[j] \in S
  BY LenProperties, ElementOfSeq
<1>2. PICK h, k, n : h = i - 1 /\ k = i + 1 /\ n = Len(tabs)
  OBVIOUS
<1>3. PICK m : m = 1
  OBVIOUS
<1>4. PICK a, b : a = SubSeq(tabs, m, h) /\ b = SubSeq(tabs, k, n)
  OBVIOUS
<1>5. a \in Seq(S) /\ Len(a) = h /\ \A j \in 1..h : a[j] = tabs[j]
  <2>1. m \in Int /\ h \in Int /\ \A j \in m..h : tabs[j] \in S
    BY <1>1, <1>2, <1>3
  <2>2. /\ a \in Seq(S) /\ Len(a) = (IF m <= h THEN h - m + 1 ELSE 0)
        /\ \A j \in 1..h - m + 1 : a[j] = tabs[m + j - 1]
    BY <2>1, <1>4, SubSeqProperties
  <2>3. (IF m <= h THEN h - m + 1 ELSE 0) = h /\ h - m + 1 = h /\ \A j \in 1..h : m + j - 1 = j
    BY <1>1, <1>2, <1>3
  <2>4. QED
    BY <2>2, <2>3
<1>6. b \in Seq(S) /\ Len(b) = n - i /\ \A j \in 1..n - i : b[j] = tabs[i + j]
  <2>1. k \in Int /\ n \in Int /\ \A j \in k..n : tabs[j] \in S
    BY <1>1, <1>2
  <2>2. /\ b \in Seq(S) /\ Len(b) = (IF k <= n THEN n - k + 1 ELSE 0)
        /\ \A j \in 1..n - k + 1 : b[j] = tabs[k + j - 1]
    BY <2>1, <1>4, SubSeqProperties
  <2>3. /\ (IF k <= n THEN n - k + 1 ELSE 0) = n - i /\ n - k + 1 = n - i
        /\ \A j \in 1..n - i : k + j - 1 = i + j
    BY <1>1, <1>2
  <2>4. QED
    BY <2>2, <2>3
<1>7. PICK d : d = a \o b
  OBVIOUS
<1>8. d = Dropped(tabs, i)
  BY <1>2, <1>3, <1>4, <1>7 DEF Dropped
<1>9. /\ d \in Seq(S) /\ Len(d) = Len(a) + Len(b)
      /\ \A j \in 1..Len(a) + Len(b) : d[j] = IF j <= Len(a) THEN a[j] ELSE b[j - Len(a)]
  BY <1>5, <1>6, <1>7, ConcatProperties
<1>10. Len(d) = n - 1
  BY <1>1, <1>2, <1>5, <1>6, <1>9
<1>11. ASSUME NEW j \in 1..n - 1 PROVE d[j] = IF j < i THEN tabs[j] ELSE tabs[j + 1]
  <2>1. j \in 1..Len(a) + Len(b)
    BY <1>1, <1>2, <1>5, <1>6
  <2>2. CASE j < i
    <3>1. j <= Len(a) /\ j \in 1..h
      BY <2>2, <1>1, <1>2, <1>5
    <3>2. QED
      BY <3>1, <2>1, <2>2, <1>5, <1>9
  <2>3. CASE ~(j < i)
    <3>1. PICK g \in 1..n - i : g = j - h
      BY <2>3, <1>1, <1>2
    <3>2. ~(j <= Len(a)) /\ j - Len(a) = g /\ i + g = j + 1
      BY <2>3, <3>1, <1>1, <1>2, <1>5
    <3>3. d[j] = b[g] /\ b[g] = tabs[i + g]
      BY <3>1, <3>2, <2>1, <1>6, <1>9
    <3>4. QED
      BY <3>2, <3>3, <2>3
  <2>4. QED
    BY <2>2, <2>3
<1>12. QED
  BY <1>2, <1>8, <1>9, <1>10, <1>11

(* The tabs with one more in front of the i-th. *)
LEMMA InsertedIs ==
  ASSUME NEW S, NEW tabs \in Seq(S), NEW i \in 1..Len(tabs) + 1, NEW tab \in S
  PROVE  /\ Inserted(tabs, i, tab) \in Seq(S) /\ Len(Inserted(tabs, i, tab)) = Len(tabs) + 1
         /\ \A j \in 1..Len(tabs) + 1 :
              Inserted(tabs, i, tab)[j] = IF j < i THEN tabs[j]
                                          ELSE IF j = i THEN tab ELSE tabs[j - 1]
<1>1. Len(tabs) \in Nat /\ i \in Nat \ {0} /\ \A j \in 1..Len(tabs) : tabs[j] \in S
  BY LenProperties, ElementOfSeq
<1>2. PICK h, n : h = i - 1 /\ n = Len(tabs)
  OBVIOUS
<1>3. PICK m : m = 1
  OBVIOUS
<1>4. PICK a, b, c : a = SubSeq(tabs, m, h) /\ b = SubSeq(tabs, i, n) /\ c = <<tab>>
  OBVIOUS
<1>5. a \in Seq(S) /\ Len(a) = h /\ \A j \in 1..h : a[j] = tabs[j]
  <2>1. m \in Int /\ h \in Int /\ \A j \in m..h : tabs[j] \in S
    BY <1>1, <1>2, <1>3
  <2>2. /\ a \in Seq(S) /\ Len(a) = (IF m <= h THEN h - m + 1 ELSE 0)
        /\ \A j \in 1..h - m + 1 : a[j] = tabs[m + j - 1]
    BY <2>1, <1>4, SubSeqProperties
  <2>3. (IF m <= h THEN h - m + 1 ELSE 0) = h /\ h - m + 1 = h /\ \A j \in 1..h : m + j - 1 = j
    BY <1>1, <1>2, <1>3
  <2>4. QED
    BY <2>2, <2>3
<1>6. b \in Seq(S) /\ Len(b) = n - h /\ \A j \in 1..n - h : b[j] = tabs[h + j]
  <2>1. i \in Int /\ n \in Int /\ \A j \in i..n : tabs[j] \in S
    BY <1>1, <1>2
  <2>2. /\ b \in Seq(S) /\ Len(b) = (IF i <= n THEN n - i + 1 ELSE 0)
        /\ \A j \in 1..n - i + 1 : b[j] = tabs[i + j - 1]
    BY <2>1, <1>4, SubSeqProperties
  <2>3. /\ (IF i <= n THEN n - i + 1 ELSE 0) = n - h /\ n - i + 1 = n - h
        /\ \A j \in 1..n - h : i + j - 1 = h + j
    BY <1>1, <1>2
  <2>4. QED
    BY <2>2, <2>3
<1>7. c \in Seq(S) /\ Len(c) = 1 /\ c[1] = tab
  BY <1>4
<1>8. PICK d, e : d = a \o c /\ e = d \o b
  OBVIOUS
<1>9. Inserted(tabs, i, tab) = e
  BY <1>2, <1>3, <1>4, <1>8 DEF Inserted
<1>10. /\ d \in Seq(S) /\ Len(d) = Len(a) + Len(c)
       /\ \A j \in 1..Len(a) + Len(c) : d[j] = IF j <= Len(a) THEN a[j] ELSE c[j - Len(a)]
  BY <1>5, <1>7, <1>8, ConcatProperties
<1>11. Len(d) = i /\ (\A j \in 1..h : d[j] = tabs[j]) /\ d[i] = tab
  <2>1. Len(a) + Len(c) = i /\ Len(d) = i
    BY <1>1, <1>2, <1>5, <1>7, <1>10
  <2>2. \A j \in 1..h : j \in 1..Len(a) + Len(c) /\ j <= Len(a)
    BY <2>1, <1>1, <1>2, <1>5
  <2>3. i \in 1..Len(a) + Len(c) /\ ~(i <= Len(a)) /\ i - Len(a) = 1
    BY <2>1, <1>1, <1>2, <1>5
  <2>4. QED
    BY <2>1, <2>2, <2>3, <1>5, <1>7, <1>10
<1>12. /\ e \in Seq(S) /\ Len(e) = Len(d) + Len(b)
       /\ \A j \in 1..Len(d) + Len(b) : e[j] = IF j <= Len(d) THEN d[j] ELSE b[j - Len(d)]
  <2>1. d \in Seq(S) /\ b \in Seq(S)
    BY <1>6, <1>10
  <2>2. /\ d \o b \in Seq(S) /\ Len(d \o b) = Len(d) + Len(b)
        /\ \A j \in 1..Len(d) + Len(b) : (d \o b)[j] = IF j <= Len(d) THEN d[j] ELSE b[j - Len(d)]
    BY <2>1, ConcatProperties
  <2>3. QED
    BY <2>2, <1>8
<1>13. Len(e) = n + 1
  BY <1>1, <1>2, <1>6, <1>11, <1>12
<1>14. ASSUME NEW j \in 1..n + 1
       PROVE  e[j] = IF j < i THEN tabs[j] ELSE IF j = i THEN tab ELSE tabs[j - 1]
  <2>1. j \in 1..Len(d) + Len(b)
    BY <1>1, <1>2, <1>6, <1>11
  <2>2. CASE j < i
    <3>1. j <= Len(d) /\ j \in 1..h
      BY <2>2, <1>1, <1>2, <1>11
    <3>2. QED
      BY <3>1, <2>1, <2>2, <1>11, <1>12
  <2>3. CASE j = i
    <3>1. j <= Len(d)
      BY <2>3, <1>1, <1>11
    <3>2. QED
      BY <3>1, <2>1, <2>3, <1>1, <1>11, <1>12
  <2>4. CASE j > i
    <3>1. PICK g \in 1..n - h : g = j - i
      BY <2>4, <1>1, <1>2
    <3>2. ~(j <= Len(d)) /\ j - Len(d) = g /\ h + g = j - 1 /\ ~(j < i) /\ j # i
      BY <2>4, <3>1, <1>1, <1>2, <1>11
    <3>3. e[j] = b[g] /\ b[g] = tabs[h + g]
      BY <3>1, <3>2, <2>1, <1>6, <1>12
    <3>4. QED
      BY <3>2, <3>3
  <2>5. QED
    BY <2>2, <2>3, <2>4, <1>1
<1>15. QED
  BY <1>2, <1>9, <1>12, <1>13, <1>14

-----------------------------------------------------------------------------
(* Tabs that share no terminal. *)

GoodTabs(tabs) ==
  /\ tabs \in Seq(Tabs)
  /\ \A i, j \in 1..Len(tabs) : i # j => IDsOf(tabs[i].root) \cap IDsOf(tabs[j].root) = {}

ShownBy(tabs) == UNION {IDsOf(tabs[i].root) : i \in 1..Len(tabs)}

GoodLayout(l) ==
  /\ l = [tabs |-> l.tabs, focused |-> l.focused]
  /\ GoodTabs(l.tabs)
  /\ IF l.tabs = <<>> THEN l.focused = 1 ELSE l.focused \in 1..Len(l.tabs)

(* Each of the tabs is one. *)
LEMMA TabIs ==
  ASSUME NEW tabs, GoodTabs(tabs)
  PROVE  Len(tabs) \in Nat /\ \A i \in 1..Len(tabs) : tabs[i] \in Tabs
BY LenProperties, ElementOfSeq DEF GoodTabs

(* There are no tabs when there are none to count. *)
LEMMA NoTabs ==
  ASSUME NEW tabs \in Seq(Tabs)
  PROVE  tabs = <<>> <=> Len(tabs) = 0
BY EmptySeq, LenProperties

(* A terminal that is shown is in the one tab that TabOf tells. *)
LEMMA Located ==
  ASSUME NEW l, GoodTabs(l.tabs), NEW id \in ShownBy(l.tabs)
  PROVE  /\ TabOf(l, id) \in 1..Len(l.tabs) /\ id \in IDsOf(l.tabs[TabOf(l, id)].root)
         /\ TabsWith(l, id) = {TabOf(l, id)}
<1>1. PICK i \in 1..Len(l.tabs) : id \in IDsOf(l.tabs[i].root)
  BY DEF ShownBy
<1>2. \A j \in 1..Len(l.tabs) : id \in IDsOf(l.tabs[j].root) => j = i
  BY <1>1 DEF GoodTabs
<1>3. TabsWith(l, id) = {i}
  BY <1>1, <1>2 DEF TabsWith, Holds
<1>4. i <= i
  BY TabIs
<1>5. TabOf(l, id) = i
  BY <1>3, <1>4 DEF TabOf
<1>6. QED
  BY <1>1, <1>3, <1>5

(* One that is not shown is in none. *)
LEMMA NowhereShown ==
  ASSUME NEW l, NEW id, id \notin ShownBy(l.tabs)
  PROVE  TabsWith(l, id) = {}
BY DEF TabsWith, Holds, ShownBy

(* Tabs that share no terminal, after one with others was added. *)
LEMMA TabAdded ==
  ASSUME NEW tabs, GoodTabs(tabs), NEW tab \in Tabs, IDsOf(tab.root) \cap ShownBy(tabs) = {}
  PROVE  /\ GoodTabs(Append(tabs, tab)) /\ Len(Append(tabs, tab)) = Len(tabs) + 1
         /\ ShownBy(Append(tabs, tab)) = ShownBy(tabs) \cup IDsOf(tab.root)
<1>1. PICK new, n : new = Append(tabs, tab) /\ n = Len(tabs)
  OBVIOUS
<1>2. /\ new \in Seq(Tabs) /\ Len(new) = n + 1 /\ n \in Nat
      /\ (\A i \in 1..n : new[i] = tabs[i]) /\ new[n + 1] = tab
  BY <1>1, AppendProperties, TabIs DEF GoodTabs
<1>3. \A i \in 1..n + 1 : i \in 1..n \/ i = n + 1
  BY <1>2
<1>4. \A i \in 1..n : IDsOf(tabs[i].root) \subseteq ShownBy(tabs)
  BY <1>1 DEF ShownBy
<1>5. ASSUME NEW i \in 1..n + 1, NEW j \in 1..n + 1, i # j
      PROVE  IDsOf(new[i].root) \cap IDsOf(new[j].root) = {}
  <2>1. CASE i \in 1..n /\ j \in 1..n
    BY <2>1, <1>1, <1>2, <1>5 DEF GoodTabs
  <2>2. CASE i = n + 1 /\ j \in 1..n
    BY <2>2, <1>2, <1>4
  <2>3. CASE i \in 1..n /\ j = n + 1
    BY <2>3, <1>2, <1>4
  <2>4. QED
    BY <2>1, <2>2, <2>3, <1>3, <1>5
<1>6. ShownBy(new) = ShownBy(tabs) \cup IDsOf(tab.root)
  <2>1. \A i \in 1..n + 1 : IDsOf(new[i].root) \subseteq ShownBy(tabs) \cup IDsOf(tab.root)
    BY <1>2, <1>3, <1>4
  <2>2. n + 1 \in 1..n + 1 /\ \A i \in 1..n : i \in 1..n + 1
    BY <1>2
  <2>3. \A i \in 1..n + 1 : IDsOf(new[i].root) \subseteq ShownBy(new)
    BY <1>2 DEF ShownBy
  <2>4. IDsOf(tab.root) \subseteq ShownBy(new) /\ \A i \in 1..n : IDsOf(tabs[i].root) \subseteq ShownBy(new)
    BY <2>2, <2>3, <1>2
  <2>5. ShownBy(tabs) \subseteq ShownBy(new)
    BY <2>4, <1>1 DEF ShownBy
  <2>6. ShownBy(new) \subseteq ShownBy(tabs) \cup IDsOf(tab.root)
    BY <2>1, <1>2 DEF ShownBy
  <2>7. QED
    BY <2>4, <2>5, <2>6
<1>7. GoodTabs(new)
  BY <1>2, <1>5 DEF GoodTabs
<1>8. QED
  BY <1>1, <1>2, <1>6, <1>7

(* After one was replaced. *)
LEMMA TabReplaced ==
  ASSUME NEW tabs, GoodTabs(tabs), NEW i \in 1..Len(tabs), NEW tab \in Tabs,
         IDsOf(tab.root) \cap (ShownBy(tabs) \ IDsOf(tabs[i].root)) = {}
  PROVE  /\ GoodTabs([tabs EXCEPT ![i] = tab]) /\ Len([tabs EXCEPT ![i] = tab]) = Len(tabs)
         /\ ShownBy([tabs EXCEPT ![i] = tab]) = (ShownBy(tabs) \ IDsOf(tabs[i].root)) \cup IDsOf(tab.root)
<1>1. PICK new, n : new = [tabs EXCEPT ![i] = tab] /\ n = Len(tabs)
  OBVIOUS
<1>2. /\ new \in Seq(Tabs) /\ Len(new) = n /\ n \in Nat
      /\ \A j \in 1..n : new[j] = IF j = i THEN tab ELSE tabs[j]
  BY <1>1, ExceptSeq, TabIs DEF GoodTabs
<1>3. ASSUME NEW j \in 1..n, j # i
      PROVE  IDsOf(tabs[j].root) \subseteq ShownBy(tabs) \ IDsOf(tabs[i].root)
  BY <1>1, <1>3 DEF ShownBy, GoodTabs
<1>4. ASSUME NEW h \in 1..n, NEW j \in 1..n, h # j
      PROVE  IDsOf(new[h].root) \cap IDsOf(new[j].root) = {}
  <2>1. CASE h # i /\ j # i
    BY <2>1, <1>1, <1>2, <1>4 DEF GoodTabs
  <2>2. CASE h = i
    <3>1. new[h] = tab /\ new[j] = tabs[j] /\ j # i
      BY <2>2, <1>2, <1>4
    <3>2. QED
      BY <3>1, <1>3
  <2>3. CASE j = i
    <3>1. new[j] = tab /\ new[h] = tabs[h] /\ h # i
      BY <2>3, <1>2, <1>4
    <3>2. QED
      BY <3>1, <1>3
  <2>4. QED
    BY <2>1, <2>2, <2>3
<1>5. ShownBy(new) = (ShownBy(tabs) \ IDsOf(tabs[i].root)) \cup IDsOf(tab.root)
  <2>1. \A j \in 1..n : IDsOf(new[j].root) \subseteq (ShownBy(tabs) \ IDsOf(tabs[i].root)) \cup IDsOf(tab.root)
    BY <1>2, <1>3
  <2>2. ASSUME NEW id \in ShownBy(tabs), id \notin IDsOf(tabs[i].root) PROVE id \in ShownBy(new)
    <3>1. PICK j \in 1..n : id \in IDsOf(tabs[j].root)
      BY <1>1 DEF ShownBy
    <3>2. new[j] = tabs[j]
      BY <3>1, <2>2, <1>2
    <3>3. QED
      BY <3>1, <3>2, <1>2 DEF ShownBy
  <2>3. new[i] = tab /\ i \in 1..n
    BY <1>1, <1>2
  <2>4. IDsOf(tab.root) \subseteq ShownBy(new)
    BY <2>3, <1>2 DEF ShownBy
  <2>5. ShownBy(new) \subseteq (ShownBy(tabs) \ IDsOf(tabs[i].root)) \cup IDsOf(tab.root)
    BY <2>1, <1>2 DEF ShownBy
  <2>6. QED
    BY <2>2, <2>4, <2>5
<1>6. GoodTabs(new)
  BY <1>2, <1>4 DEF GoodTabs
<1>7. QED
  BY <1>1, <1>2, <1>5, <1>6

(* After one was dropped. *)
LEMMA TabDropped ==
  ASSUME NEW tabs, GoodTabs(tabs), NEW i \in 1..Len(tabs)
  PROVE  /\ GoodTabs(Dropped(tabs, i)) /\ Len(Dropped(tabs, i)) = Len(tabs) - 1
         /\ ShownBy(Dropped(tabs, i)) = ShownBy(tabs) \ IDsOf(tabs[i].root)
         /\ \A j \in 1..Len(tabs) - 1 : Dropped(tabs, i)[j] = IF j < i THEN tabs[j] ELSE tabs[j + 1]
<1>1. PICK new, n : new = Dropped(tabs, i) /\ n = Len(tabs)
  OBVIOUS
<1>2. /\ new \in Seq(Tabs) /\ Len(new) = n - 1 /\ n \in Nat /\ i \in Nat
      /\ \A j \in 1..n - 1 : new[j] = IF j < i THEN tabs[j] ELSE tabs[j + 1]
  BY <1>1, DroppedIs, TabIs DEF GoodTabs
<1> DEFINE from(j) == IF j < i THEN j ELSE j + 1
<1>3. \A j \in 1..n - 1 : from(j) \in 1..n /\ from(j) # i /\ new[j] = tabs[from(j)]
  BY <1>1, <1>2
<1>4. \A h, j \in 1..n - 1 : h # j => from(h) # from(j)
  BY <1>2
<1>5. \A h \in 1..n : h # i => \E j \in 1..n - 1 : h = from(j)
  <2> SUFFICES ASSUME NEW h \in 1..n, h # i PROVE \E j \in 1..n - 1 : h = from(j)
    OBVIOUS
  <2>1. CASE h < i
    BY <2>1, <1>1, <1>2
  <2>2. CASE h > i
    <3>1. h - 1 \in 1..n - 1 /\ ~(h - 1 < i) /\ h = (h - 1) + 1
      BY <2>2, <1>1, <1>2
    <3>2. QED
      BY <3>1
  <2>3. QED
    BY <2>1, <2>2, <1>2
<1> HIDE DEF from
<1>6. ASSUME NEW h \in 1..n - 1, NEW j \in 1..n - 1, h # j
      PROVE  IDsOf(new[h].root) \cap IDsOf(new[j].root) = {}
  BY <1>1, <1>3, <1>4, <1>6 DEF GoodTabs
<1>7. ShownBy(new) = ShownBy(tabs) \ IDsOf(tabs[i].root)
  <2>1. ASSUME NEW h \in 1..n, h # i
        PROVE  IDsOf(tabs[h].root) \subseteq ShownBy(tabs) \ IDsOf(tabs[i].root)
    BY <2>1, <1>1 DEF ShownBy, GoodTabs
  <2>2. ShownBy(new) \subseteq ShownBy(tabs) \ IDsOf(tabs[i].root)
    <3> SUFFICES ASSUME NEW id \in ShownBy(new)
                 PROVE  id \in ShownBy(tabs) \ IDsOf(tabs[i].root)
      OBVIOUS
    <3>1. PICK j \in 1..n - 1 : id \in IDsOf(new[j].root)
      BY <1>2 DEF ShownBy
    <3>2. from(j) \in 1..n /\ from(j) # i /\ id \in IDsOf(tabs[from(j)].root)
      BY <3>1, <1>3
    <3>3. QED
      BY <3>2, <2>1
  <2>3. ASSUME NEW id \in ShownBy(tabs), id \notin IDsOf(tabs[i].root) PROVE id \in ShownBy(new)
    <3>1. PICK h \in 1..n : id \in IDsOf(tabs[h].root)
      BY <1>1 DEF ShownBy
    <3>2. PICK j \in 1..n - 1 : h = from(j)
      BY <3>1, <2>3, <1>5
    <3>3. id \in IDsOf(new[j].root)
      BY <3>1, <3>2, <1>3
    <3>4. QED
      BY <3>3, <1>2 DEF ShownBy
  <2>4. QED
    BY <2>2, <2>3
<1>8. GoodTabs(new)
  BY <1>2, <1>6 DEF GoodTabs
<1>9. QED
  BY <1>1, <1>2, <1>7, <1>8

(* After one was inserted. *)
LEMMA TabInserted ==
  ASSUME NEW tabs, GoodTabs(tabs), NEW i \in 1..Len(tabs) + 1, NEW tab \in Tabs,
         IDsOf(tab.root) \cap ShownBy(tabs) = {}
  PROVE  /\ GoodTabs(Inserted(tabs, i, tab)) /\ Len(Inserted(tabs, i, tab)) = Len(tabs) + 1
         /\ ShownBy(Inserted(tabs, i, tab)) = ShownBy(tabs) \cup IDsOf(tab.root)
         /\ \A j \in 1..Len(tabs) + 1 :
              Inserted(tabs, i, tab)[j] = IF j < i THEN tabs[j]
                                          ELSE IF j = i THEN tab ELSE tabs[j - 1]
<1>1. PICK new, n : new = Inserted(tabs, i, tab) /\ n = Len(tabs)
  OBVIOUS
<1>2. /\ new \in Seq(Tabs) /\ Len(new) = n + 1 /\ n \in Nat /\ i \in Nat
      /\ \A j \in 1..n + 1 : new[j] = IF j < i THEN tabs[j] ELSE IF j = i THEN tab ELSE tabs[j - 1]
  <2>1. tabs \in Seq(Tabs) /\ n \in Nat
    BY <1>1, TabIs DEF GoodTabs
  <2>2. /\ Inserted(tabs, i, tab) \in Seq(Tabs) /\ Len(Inserted(tabs, i, tab)) = Len(tabs) + 1
        /\ \A j \in 1..Len(tabs) + 1 :
             Inserted(tabs, i, tab)[j] = IF j < i THEN tabs[j]
                                         ELSE IF j = i THEN tab ELSE tabs[j - 1]
    BY <2>1, InsertedIs
  <2>3. i \in Nat
    BY <2>1, <1>1
  <2>4. QED
    BY <2>1, <2>2, <2>3, <1>1
<1> DEFINE from(j) == IF j < i THEN j ELSE j - 1
<1>3. \A j \in 1..n + 1 : j # i => from(j) \in 1..n /\ new[j] = tabs[from(j)]
  BY <1>1, <1>2
<1>4. \A h, j \in 1..n + 1 : h # j /\ h # i /\ j # i => from(h) # from(j)
  BY <1>2
<1>5. \A h \in 1..n : \E j \in 1..n + 1 : j # i /\ h = from(j)
  <2> SUFFICES ASSUME NEW h \in 1..n PROVE \E j \in 1..n + 1 : j # i /\ h = from(j)
    OBVIOUS
  <2>1. CASE h < i
    BY <2>1, <1>1, <1>2
  <2>2. CASE ~(h < i)
    <3>1. h + 1 \in 1..n + 1 /\ ~(h + 1 < i) /\ h + 1 # i /\ h = (h + 1) - 1
      BY <2>2, <1>1, <1>2
    <3>2. QED
      BY <3>1
  <2>3. QED
    BY <2>1, <2>2
<1>6. new[i] = tab /\ i \in 1..n + 1
  BY <1>1, <1>2
<1> HIDE DEF from
<1>7. \A h \in 1..n : IDsOf(tabs[h].root) \subseteq ShownBy(tabs)
  BY <1>1 DEF ShownBy
<1>8. ASSUME NEW h \in 1..n + 1, NEW j \in 1..n + 1, h # j
      PROVE  IDsOf(new[h].root) \cap IDsOf(new[j].root) = {}
  <2>1. CASE h # i /\ j # i
    BY <2>1, <1>1, <1>3, <1>4, <1>8 DEF GoodTabs
  <2>2. CASE h = i
    <3>1. new[h] = tab /\ IDsOf(new[j].root) \subseteq ShownBy(tabs)
      BY <2>2, <1>3, <1>6, <1>7, <1>8
    <3>2. QED
      BY <3>1
  <2>3. CASE j = i
    <3>1. new[j] = tab /\ IDsOf(new[h].root) \subseteq ShownBy(tabs)
      BY <2>3, <1>3, <1>6, <1>7, <1>8
    <3>2. QED
      BY <3>1
  <2>4. QED
    BY <2>1, <2>2, <2>3
<1>9. ShownBy(new) = ShownBy(tabs) \cup IDsOf(tab.root)
  <2>1. \A j \in 1..n + 1 : IDsOf(new[j].root) \subseteq ShownBy(tabs) \cup IDsOf(tab.root)
    BY <1>3, <1>6, <1>7
  <2>2. \A j \in 1..n + 1 : IDsOf(new[j].root) \subseteq ShownBy(new)
    BY <1>2 DEF ShownBy
  <2>3. \A h \in 1..n : IDsOf(tabs[h].root) \subseteq ShownBy(new)
    BY <2>2, <1>3, <1>5
  <2>4. ShownBy(tabs) \subseteq ShownBy(new)
    BY <2>3, <1>1 DEF ShownBy
  <2>5. ShownBy(new) \subseteq ShownBy(tabs) \cup IDsOf(tab.root)
    BY <2>1, <1>2 DEF ShownBy
  <2>6. QED
    BY <2>2, <2>4, <2>5, <1>6
<1>10. GoodTabs(new)
  BY <1>2, <1>8 DEF GoodTabs
<1>11. QED
  BY <1>1, <1>2, <1>9, <1>10

-----------------------------------------------------------------------------
(* What each operation makes of a good layout. *)

(* What a layout shows, by its tabs. *)
LEMMA ShownIs ==
  ASSUME NEW l
  PROVE  Shown(l) = ShownBy(l.tabs)
BY DEF Shown, ShownBy

(* What is shown are terminals. *)
LEMMA ShownAreIDs ==
  ASSUME NEW tabs, GoodTabs(tabs)
  PROVE  ShownBy(tabs) \subseteq IDs
<1>1. \A i \in 1..Len(tabs) : IDsOf(tabs[i].root) \subseteq IDs
  BY TabIs, TabFacts
<1>2. QED
  BY <1>1 DEF ShownBy

(* A leaf is never too deep. *)
LEMMA LeafShallow ==
  ASSUME SessionLayoutAssumption, NEW id
  PROVE  Shallow(Leaf(id))
<1>1. DOMAIN Leaf(id) = {<<>>} /\ Len(<<>>) = 0 /\ 0 < MaxDepth
  BY LeafIsTree, NoStep DEF SessionLayoutAssumption
<1>2. QED
  BY <1>1 DEF Shallow

(* The tab of one terminal. *)
LEMMA LeafTab ==
  ASSUME SessionLayoutAssumption, NEW id \in IDs
  PROVE  /\ Tab(Leaf(id), id) \in Tabs /\ Tab(Leaf(id), id).root = Leaf(id)
         /\ IDsOf(Leaf(id)) = {id}
<1>1. IsTree(Leaf(id)) /\ IDsOf(Leaf(id)) = {id} /\ Shallow(Leaf(id))
  BY LeafIsTree, LeafShallow
<1>2. IDsOf(Leaf(id)) \subseteq IDs /\ id \in IDsOf(Leaf(id))
  BY <1>1
<1>3. QED
  BY <1>1, <1>2, TabType

(* A new tab for a new terminal. *)
LEMMA AppendedGood ==
  ASSUME SessionLayoutAssumption, NEW l, GoodLayout(l), NEW id \in IDs, id \notin ShownBy(l.tabs)
  PROVE  /\ GoodLayout(Appended(l, id, TRUE))
         /\ ShownBy(Appended(l, id, TRUE).tabs) = ShownBy(l.tabs) \cup {id}
<1>1. PICK a, tab : a = Appended(l, id, TRUE) /\ tab = Tab(Leaf(id), id)
  OBVIOUS
<1>2. a.tabs = Append(l.tabs, tab) /\ a.focused = Len(l.tabs) + 1 /\ a = [tabs |-> a.tabs, focused |-> a.focused]
  BY <1>1 DEF Appended
<1>3. tab \in Tabs /\ IDsOf(tab.root) = {id}
  BY <1>1, LeafTab
<1>4. GoodTabs(l.tabs) /\ IDsOf(tab.root) \cap ShownBy(l.tabs) = {}
  BY <1>3 DEF GoodLayout
<1>5. /\ GoodTabs(a.tabs) /\ Len(a.tabs) = Len(l.tabs) + 1
      /\ ShownBy(a.tabs) = ShownBy(l.tabs) \cup {id}
  <2>1. /\ GoodTabs(Append(l.tabs, tab)) /\ Len(Append(l.tabs, tab)) = Len(l.tabs) + 1
        /\ ShownBy(Append(l.tabs, tab)) = ShownBy(l.tabs) \cup IDsOf(tab.root)
    BY <1>3, <1>4, TabAdded
  <2>2. QED
    BY <2>1, <1>2, <1>3
<1>6. Len(l.tabs) \in Nat /\ a.tabs \in Seq(Tabs)
  BY <1>4, <1>5, TabIs DEF GoodTabs
<1>7. a.tabs # <<>> /\ a.focused \in 1..Len(a.tabs)
  BY <1>2, <1>5, <1>6, NoTabs
<1>8. QED
  BY <1>1, <1>2, <1>5, <1>7 DEF GoodLayout

(* A tab of a good layout gets another tree. *)
LEMMA RootedGood ==
  ASSUME NEW tabs, GoodTabs(tabs), NEW i \in 1..Len(tabs), NEW root, IsTree(root), Shallow(root),
         IDsOf(root) \subseteq IDs, NEW id \in IDsOf(root),
         IDsOf(root) \cap (ShownBy(tabs) \ IDsOf(tabs[i].root)) = {}
  PROVE  /\ GoodTabs([tabs EXCEPT ![i] = Tab(root, id)])
         /\ Len([tabs EXCEPT ![i] = Tab(root, id)]) = Len(tabs)
         /\ ShownBy([tabs EXCEPT ![i] = Tab(root, id)])
              = (ShownBy(tabs) \ IDsOf(tabs[i].root)) \cup IDsOf(root)
<1>1. PICK tab : tab = Tab(root, id)
  OBVIOUS
<1>2. tab \in Tabs /\ tab.root = root
  BY <1>1, TabType
<1>3. IDsOf(tab.root) \cap (ShownBy(tabs) \ IDsOf(tabs[i].root)) = {}
  BY <1>2
<1>4. /\ GoodTabs([tabs EXCEPT ![i] = tab]) /\ Len([tabs EXCEPT ![i] = tab]) = Len(tabs)
      /\ ShownBy([tabs EXCEPT ![i] = tab]) = (ShownBy(tabs) \ IDsOf(tabs[i].root)) \cup IDsOf(tab.root)
  BY <1>2, <1>3, TabReplaced
<1>5. QED
  BY <1>1, <1>2, <1>4

(* What the tabs of a good layout are. *)
LEMMA TabOfGood ==
  ASSUME NEW l, GoodTabs(l.tabs), NEW i \in 1..Len(l.tabs)
  PROVE  /\ IsTree(l.tabs[i].root) /\ Shallow(l.tabs[i].root)
         /\ IDsOf(l.tabs[i].root) \subseteq IDs /\ IDsOf(l.tabs[i].root) \subseteq ShownBy(l.tabs)
         /\ l.tabs[i].focus \in IDsOf(l.tabs[i].root)
         /\ l.tabs[i] = Tab(l.tabs[i].root, l.tabs[i].focus)
<1>1. l.tabs[i] \in Tabs
  BY TabIs
<1>2. IDsOf(l.tabs[i].root) \subseteq ShownBy(l.tabs)
  BY DEF ShownBy
<1>3. QED
  BY <1>1, <1>2, TabFacts

(* Two terminals in a split. *)
LEMMA TwoLeaves ==
  ASSUME NEW a, NEW b, a # b
  PROVE  IsTree(Split(Leaf(a), Leaf(b))) /\ IDsOf(Split(Leaf(a), Leaf(b))) = {a, b}
<1>1. IsTree(Leaf(a)) /\ IDsOf(Leaf(a)) = {a} /\ IsTree(Leaf(b)) /\ IDsOf(Leaf(b)) = {b}
  BY LeafIsTree
<1>2. IDsOf(Leaf(a)) \cap IDsOf(Leaf(b)) = {}
  BY <1>1
<1>3. IsTree(Split(Leaf(a), Leaf(b))) /\ IDsOf(Split(Leaf(a), Leaf(b))) = IDsOf(Leaf(a)) \cup IDsOf(Leaf(b))
  BY <1>1, <1>2, SplitIsTree
<1>4. QED
  BY <1>1, <1>3

(* Depth tells whether a leaf is too deep. *)
LEMMA ShallowIs ==
  ASSUME SessionLayoutAssumption, NEW t, Shape(DOMAIN t)
  PROVE  Depth(t) > MaxDepth <=> ~Shallow(t)
<1>1. MaxDepth \in Nat
  BY DEF SessionLayoutAssumption
<1>2. Depth(t) \in Nat /\ (Depth(t) <= MaxDepth <=> \A p \in DOMAIN t : Len(p) < MaxDepth)
  BY <1>1, DepthIs
<1>3. QED
  BY <1>1, <1>2 DEF Shallow

(* A new terminal beside another, unless that is too deep. *)
LEMMA SplitBesideGood ==
  ASSUME SessionLayoutAssumption, NEW l, GoodLayout(l), NEW id \in ShownBy(l.tabs),
         NEW new \in IDs, new \notin ShownBy(l.tabs)
  PROVE  \/ SplitBeside(l, id, new) = l
         \/ /\ GoodLayout(SplitBeside(l, id, new))
            /\ ShownBy(SplitBeside(l, id, new).tabs) = ShownBy(l.tabs) \cup {new}
<1>1. GoodTabs(l.tabs)
  BY DEF GoodLayout
<1>2. PICK i : i = TabOf(l, id) /\ i \in 1..Len(l.tabs) /\ id \in IDsOf(l.tabs[i].root)
  BY <1>1, Located
<1>3. PICK old : old = l.tabs[i].root
  OBVIOUS
<1>4. IsTree(old) /\ IDsOf(old) \subseteq IDs /\ IDsOf(old) \subseteq ShownBy(l.tabs) /\ id \in IDsOf(old)
  BY <1>1, <1>2, <1>3, TabOfGood
<1>5. PICK by : by = Split(Leaf(id), Leaf(new))
  OBVIOUS
<1>6. IsTree(by) /\ IDsOf(by) = {id, new}
  BY <1>5, TwoLeaves
<1>7. PICK root : root = Replaced(old, id, by)
  OBVIOUS
<1>8. IsTree(root) /\ IDsOf(root) = IDsOf(old) \cup {new}
  <2>1. IDsOf(by) \cap (IDsOf(old) \ {id}) = {}
    BY <1>4, <1>6
  <2>2. IsTree(Replaced(old, id, by)) /\ IDsOf(Replaced(old, id, by)) = (IDsOf(old) \ {id}) \cup IDsOf(by)
    BY <2>1, <1>4, <1>6, ReplacedIsTree
  <2>3. QED
    BY <2>2, <1>4, <1>6, <1>7
<1>9. SplitBeside(l, id, new) = IF Depth(root) > MaxDepth THEN l ELSE [l EXCEPT !.tabs[i] = Tab(root, new)]
  BY <1>2, <1>3, <1>5, <1>7 DEF SplitBeside
<1>10. SUFFICES ASSUME ~(Depth(root) > MaxDepth)
                PROVE  /\ GoodLayout([l EXCEPT !.tabs[i] = Tab(root, new)])
                       /\ ShownBy([l EXCEPT !.tabs[i] = Tab(root, new)].tabs) = ShownBy(l.tabs) \cup {new}
  BY <1>9
<1>11. Shallow(root)
  BY <1>8, <1>10, ShallowIs DEF IsTree
<1>12. PICK m, tabs : m = [l EXCEPT !.tabs[i] = Tab(root, new)] /\ tabs = [l.tabs EXCEPT ![i] = Tab(root, new)]
  OBVIOUS
<1>13. m = [tabs |-> tabs, focused |-> l.focused]
  BY <1>12 DEF GoodLayout
<1>14. /\ GoodTabs(tabs) /\ Len(tabs) = Len(l.tabs)
       /\ ShownBy(tabs) = (ShownBy(l.tabs) \ IDsOf(old)) \cup IDsOf(root)
  <2>1. /\ IDsOf(root) \subseteq IDs /\ new \in IDsOf(root)
        /\ IDsOf(root) \cap (ShownBy(l.tabs) \ IDsOf(l.tabs[i].root)) = {}
    BY <1>3, <1>4, <1>8
  <2>2. QED
    BY <2>1, <1>1, <1>2, <1>3, <1>8, <1>11, <1>12, RootedGood
<1>15. Len(l.tabs) \in Nat /\ l.tabs \in Seq(Tabs) /\ tabs \in Seq(Tabs)
  BY <1>1, <1>14, TabIs DEF GoodTabs
<1>16. l.tabs # <<>> /\ tabs # <<>>
  BY <1>2, <1>14, <1>15, NoTabs
<1>17. GoodLayout(m)
  BY <1>13, <1>14, <1>16 DEF GoodLayout
<1>18. ShownBy(tabs) = ShownBy(l.tabs) \cup {new}
  BY <1>4, <1>8, <1>14
<1>19. QED
  BY <1>12, <1>13, <1>17, <1>18

(* A terminal is closed, with its tab when it was alone there. *)
LEMMA ClosedGood ==
  ASSUME SessionLayoutAssumption, NEW l, GoodLayout(l), NEW id \in ShownBy(l.tabs)
  PROVE  /\ GoodLayout(Closed(l, id))
         /\ ShownBy(Closed(l, id).tabs) = ShownBy(l.tabs) \ {id}
         /\ Len(Closed(l, id).tabs) = IF l.tabs[TabOf(l, id)].root = Leaf(id)
                                      THEN Len(l.tabs) - 1 ELSE Len(l.tabs)
<1>1. GoodTabs(l.tabs) /\ l = [tabs |-> l.tabs, focused |-> l.focused]
  BY DEF GoodLayout
<1>2. PICK i : i = TabOf(l, id) /\ i \in 1..Len(l.tabs) /\ id \in IDsOf(l.tabs[i].root) /\ TabsWith(l, id) # {}
  BY <1>1, Located
<1>3. PICK tab, old : tab = l.tabs[i] /\ old = tab.root
  OBVIOUS
<1>4. /\ IsTree(old) /\ Shallow(old) /\ IDsOf(old) \subseteq IDs /\ IDsOf(old) \subseteq ShownBy(l.tabs)
      /\ id \in IDsOf(old) /\ tab.focus \in IDsOf(old)
  BY <1>1, <1>2, <1>3, TabOfGood
<1>5. Len(l.tabs) \in Nat /\ l.tabs \in Seq(Tabs) /\ l.tabs # <<>> /\ l.focused \in 1..Len(l.tabs)
  <2>1. Len(l.tabs) \in Nat /\ l.tabs \in Seq(Tabs)
    BY <1>1, TabIs DEF GoodTabs
  <2>2. l.tabs # <<>>
    BY <2>1, <1>2, NoTabs
  <2>3. QED
    BY <2>1, <2>2 DEF GoodLayout
<1>6. CASE old # Leaf(id)
  <2>1. PICK root, f : /\ root = Without(old, id)
                       /\ f = IF tab.focus = id THEN First(Sibling(old, id)) ELSE tab.focus
    OBVIOUS
  <2>2. IsTree(root) /\ IDsOf(root) = IDsOf(old) \ {id} /\ Shallow(root)
    <3>1. /\ IsTree(Without(old, id)) /\ IDsOf(Without(old, id)) = IDsOf(old) \ {id}
          /\ \A b \in Nat : (\A p \in DOMAIN old : Len(p) < b)
                              => \A p \in DOMAIN Without(old, id) : Len(p) < b
      BY <1>4, <1>6, WithoutIsTree
    <3>2. QED
      BY <3>1, <2>1, <1>4 DEF SessionLayoutAssumption, Shallow
  <2>3. f \in IDsOf(root)
    <3>1. First(Sibling(old, id)) \in IDsOf(old) \ {id}
      BY <1>4, <1>6, SiblingStays
    <3>2. QED
      BY <3>1, <2>1, <2>2, <1>4
  <2>4. PICK tabs : tabs = [l.tabs EXCEPT ![i] = Tab(root, f)]
    OBVIOUS
  <2>5. Closed(l, id) = [tabs |-> tabs, focused |-> l.focused]
    <3>1. Closed(l, id) = [l EXCEPT !.tabs[i] = Tab(root, f)]
      BY <1>2, <1>3, <1>6, <2>1 DEF Closed
    <3>2. QED
      BY <3>1, <2>4, <1>1
  <2>6. /\ GoodTabs(tabs) /\ Len(tabs) = Len(l.tabs)
        /\ ShownBy(tabs) = (ShownBy(l.tabs) \ IDsOf(old)) \cup IDsOf(root)
    <3>1. IDsOf(root) \subseteq IDs /\ IDsOf(root) \cap (ShownBy(l.tabs) \ IDsOf(l.tabs[i].root)) = {}
      BY <2>2, <1>3, <1>4
    <3>2. QED
      BY <3>1, <2>2, <2>3, <2>4, <1>1, <1>2, <1>3, RootedGood
  <2>7. tabs # <<>>
    BY <2>6, <1>5, NoTabs DEF GoodTabs
  <2>8. GoodLayout(Closed(l, id))
    BY <2>5, <2>6, <2>7, <1>5 DEF GoodLayout
  <2>9. ShownBy(tabs) = ShownBy(l.tabs) \ {id}
    BY <2>2, <2>6, <1>4
  <2>10. QED
    BY <2>5, <2>6, <2>8, <2>9, <1>2, <1>3, <1>6
<1>7. CASE old = Leaf(id)
  <2>1. PICK tabs : tabs = Dropped(l.tabs, i)
    OBVIOUS
  <2>2. /\ GoodTabs(tabs) /\ Len(tabs) = Len(l.tabs) - 1
        /\ ShownBy(tabs) = ShownBy(l.tabs) \ IDsOf(old)
    BY <2>1, <1>1, <1>2, <1>3, TabDropped
  <2>3. ShownBy(tabs) = ShownBy(l.tabs) \ {id}
    BY <2>2, <1>7, LeafIsTree
  <2>4. PICK c : c = Closed(l, id)
    OBVIOUS
  <2>5. c = IF tabs = <<>> THEN Empty
            ELSE [tabs |-> tabs,
                  focused |-> CASE l.focused > i -> l.focused - 1
                                [] l.focused = i -> IF i < Len(tabs) THEN i ELSE Len(tabs)
                                [] OTHER -> l.focused]
    BY <2>1, <2>4, <1>2, <1>3, <1>7 DEF Closed
  <2>6. c.tabs = tabs
    BY <2>5 DEF Empty
  <2>7. CASE tabs = <<>>
    <3>1. GoodLayout(c)
      BY <2>2, <2>5, <2>7 DEF Empty, GoodLayout
    <3>2. QED
      BY <3>1, <2>2, <2>3, <2>4, <2>6, <1>2, <1>3, <1>7
  <2>8. CASE tabs # <<>>
    <3>1. Len(tabs) \in Nat \ {0}
      BY <2>2, <2>8, NoTabs, TabIs DEF GoodTabs
    <3>2. c.focused = CASE l.focused > i -> l.focused - 1
                        [] l.focused = i -> IF i < Len(tabs) THEN i ELSE Len(tabs)
                        [] OTHER -> l.focused
      BY <2>5, <2>8
    <3>3. c.focused \in 1..Len(tabs)
      <4>1. CASE l.focused > i
        BY <4>1, <3>1, <3>2, <2>2, <1>2, <1>5
      <4>2. CASE l.focused = i
        <5>1. i \in Nat \ {0} /\ ~(l.focused > i)
          BY <4>2, <1>2, <1>5
        <5>2. c.focused = IF i < Len(tabs) THEN i ELSE Len(tabs)
          BY <5>1, <4>2, <3>2
        <5>3. QED
          BY <5>1, <5>2, <3>1
      <4>3. CASE l.focused < i
        <5>1. ~(l.focused > i) /\ l.focused # i
          BY <4>3, <1>2, <1>5
        <5>2. c.focused = l.focused
          BY <5>1, <3>2
        <5>3. QED
          BY <5>2, <4>3, <3>1, <2>2, <1>2, <1>5
      <4>4. QED
        BY <4>1, <4>2, <4>3, <1>2, <1>5
    <3>4. c = [tabs |-> c.tabs, focused |-> c.focused]
      BY <2>5, <2>8
    <3>5. GoodLayout(c)
      BY <3>3, <3>4, <2>2, <2>6, <2>8 DEF GoodLayout
    <3>6. QED
      BY <3>5, <2>2, <2>3, <2>4, <2>6, <1>2, <1>3, <1>7
  <2>9. QED
    BY <2>7, <2>8
<1>8. QED
  BY <1>6, <1>7

(* A terminal that was taken from its place is docked in another tree. *)
LEMMA DockedGood ==
  ASSUME SessionLayoutAssumption, NEW l, GoodLayout(l), NEW id \in ShownBy(l.tabs),
         NEW stripped, GoodTabs(stripped.tabs), ShownBy(stripped.tabs) = ShownBy(l.tabs) \ {id},
         NEW i \in 1..Len(stripped.tabs), NEW root, IsTree(root),
         IDsOf(root) = IDsOf(stripped.tabs[i].root) \cup {id}
  PROVE  /\ GoodLayout(Docked(l, stripped, i, root, id))
         /\ ShownBy(Docked(l, stripped, i, root, id).tabs) = ShownBy(l.tabs)
<1>1. SUFFICES ASSUME ~(Depth(root) > MaxDepth)
               PROVE  LET m == [tabs |-> [stripped.tabs EXCEPT ![i] = Tab(root, id)], focused |-> i]
                      IN  GoodLayout(m) /\ ShownBy(m.tabs) = ShownBy(l.tabs)
  BY DEF Docked
<1>2. Shallow(root)
  BY <1>1, ShallowIs DEF IsTree
<1>3. PICK tabs : tabs = [stripped.tabs EXCEPT ![i] = Tab(root, id)]
  OBVIOUS
<1>4. PICK old : old = stripped.tabs[i].root
  OBVIOUS
<1>5. IDsOf(old) \subseteq ShownBy(stripped.tabs) /\ IDsOf(root) \subseteq IDs
  <2>1. IDsOf(old) \subseteq ShownBy(stripped.tabs) /\ IDsOf(old) \subseteq IDs
    BY <1>4, TabOfGood
  <2>2. id \in IDs
    BY ShownAreIDs DEF GoodLayout
  <2>3. QED
    BY <2>1, <2>2, <1>4
<1>6. /\ GoodTabs(tabs) /\ Len(tabs) = Len(stripped.tabs)
      /\ ShownBy(tabs) = (ShownBy(stripped.tabs) \ IDsOf(old)) \cup IDsOf(root)
  <2>1. id \in IDsOf(root) /\ IDsOf(root) \cap (ShownBy(stripped.tabs) \ IDsOf(stripped.tabs[i].root)) = {}
    BY <1>4
  <2>2. QED
    BY <2>1, <1>2, <1>3, <1>4, <1>5, RootedGood
<1>7. ShownBy(tabs) = ShownBy(l.tabs)
  BY <1>4, <1>5, <1>6
<1>8. i \in 1..Len(tabs) /\ tabs # <<>>
  BY <1>6, NoTabs DEF GoodTabs
<1>9. QED
  BY <1>3, <1>6, <1>7, <1>8 DEF GoodLayout

(* A terminal moves to a tab of its own. *)
LEMMA ToNewTabGood ==
  ASSUME SessionLayoutAssumption, NEW l, GoodLayout(l), NEW id \in ShownBy(l.tabs)
  PROVE  GoodLayout(ToNewTab(l, id)) /\ ShownBy(ToNewTab(l, id).tabs) = ShownBy(l.tabs)
<1>1. GoodLayout(Closed(l, id)) /\ ShownBy(Closed(l, id).tabs) = ShownBy(l.tabs) \ {id}
  BY ClosedGood
<1>2. id \in IDs
  BY ShownAreIDs DEF GoodLayout
<1>3. PICK c : c = Closed(l, id)
  OBVIOUS
<1>4. /\ GoodLayout(Appended(c, id, TRUE))
      /\ ShownBy(Appended(c, id, TRUE).tabs) = ShownBy(c.tabs) \cup {id}
  BY <1>1, <1>2, <1>3, AppendedGood
<1>5. ToNewTab(l, id) \in {l, Appended(c, id, TRUE)}
  BY <1>3 DEF ToNewTab
<1>6. QED
  BY <1>1, <1>3, <1>4, <1>5

(* It moves beside another. *)
LEMMA ToBesideGood ==
  ASSUME SessionLayoutAssumption, NEW l, GoodLayout(l), NEW id \in ShownBy(l.tabs),
         NEW target, NEW leads \in BOOLEAN
  PROVE  /\ GoodLayout(ToBeside(l, id, target, leads))
         /\ ShownBy(ToBeside(l, id, target, leads).tabs) = ShownBy(l.tabs)
<1>1. CASE id = target \/ TabsWith(l, target) = {}
  BY <1>1 DEF ToBeside
<1>2. CASE id # target /\ TabsWith(l, target) # {}
  <2>1. target \in ShownBy(l.tabs)
    BY <1>2, NowhereShown
  <2>2. PICK c : c = Closed(l, id)
    OBVIOUS
  <2>3. GoodTabs(c.tabs) /\ ShownBy(c.tabs) = ShownBy(l.tabs) \ {id}
    BY <2>2, ClosedGood DEF GoodLayout
  <2>4. PICK i : i = TabOf(c, target) /\ i \in 1..Len(c.tabs) /\ target \in IDsOf(c.tabs[i].root)
    BY <2>1, <2>3, <1>2, Located
  <2>5. PICK old : old = c.tabs[i].root
    OBVIOUS
  <2>6. IsTree(old) /\ IDsOf(old) \subseteq ShownBy(c.tabs) /\ target \in IDsOf(old) /\ id \notin IDsOf(old)
    BY <2>3, <2>4, <2>5, TabOfGood
  <2>7. PICK by : by = DockedSplit(Leaf(id), Leaf(target), leads)
    OBVIOUS
  <2>8. IsTree(by) /\ IDsOf(by) = {id, target}
    BY <2>7, <1>2, TwoLeaves DEF DockedSplit
  <2>9. PICK root : root = Replaced(old, target, by)
    OBVIOUS
  <2>10. IsTree(root) /\ IDsOf(root) = IDsOf(old) \cup {id}
    <3>1. IDsOf(by) \cap (IDsOf(old) \ {target}) = {}
      BY <2>6, <2>8
    <3>2. /\ IsTree(Replaced(old, target, by))
          /\ IDsOf(Replaced(old, target, by)) = (IDsOf(old) \ {target}) \cup IDsOf(by)
      BY <3>1, <2>6, <2>8, ReplacedIsTree
    <3>3. QED
      BY <3>2, <2>6, <2>8, <2>9
  <2>11. ToBeside(l, id, target, leads) = Docked(l, c, i, root, id)
    BY <1>2, <2>2, <2>4, <2>5, <2>7, <2>9 DEF ToBeside
  <2>12. /\ GoodLayout(Docked(l, c, i, root, id))
         /\ ShownBy(Docked(l, c, i, root, id).tabs) = ShownBy(l.tabs)
    BY <2>3, <2>4, <2>5, <2>10, DockedGood
  <2>13. QED
    BY <2>11, <2>12
<1>3. QED
  BY <1>1, <1>2

(* It moves into another tab, or into what is left of its own. *)
LEMMA ToTabGood ==
  ASSUME SessionLayoutAssumption, NEW l, GoodLayout(l), NEW id \in ShownBy(l.tabs),
         NEW requested \in 1..Len(l.tabs)
  PROVE  /\ GoodLayout(ToTab(l, id, requested))
         /\ ShownBy(ToTab(l, id, requested).tabs) = ShownBy(l.tabs)
<1>1. PICK c, source : c = Closed(l, id) /\ source = TabOf(l, id)
  OBVIOUS
<1>2. /\ GoodTabs(c.tabs) /\ ShownBy(c.tabs) = ShownBy(l.tabs) \ {id}
      /\ Len(c.tabs) = Len(l.tabs) - 1 \/ Len(c.tabs) = Len(l.tabs)
  <2>1. /\ GoodLayout(Closed(l, id))
        /\ ShownBy(Closed(l, id).tabs) = ShownBy(l.tabs) \ {id}
        /\ Len(Closed(l, id).tabs) = IF l.tabs[TabOf(l, id)].root = Leaf(id)
                                     THEN Len(l.tabs) - 1 ELSE Len(l.tabs)
    BY ClosedGood
  <2>2. QED
    BY <2>1, <1>1 DEF GoodLayout
<1>3. Len(l.tabs) \in Nat /\ source \in 1..Len(l.tabs)
  BY <1>1, Located, TabIs DEF GoodLayout
<1>4. Len(c.tabs) \in Nat
  BY <1>2, TabIs
<1>5. PICK i : i = IF Len(c.tabs) < Len(l.tabs) /\ source < requested THEN requested - 1 ELSE requested
  OBVIOUS
<1>6. PICK root : root = DockedSplit(Leaf(id), c.tabs[i].root, FALSE)
  OBVIOUS
<1>7. ToTab(l, id, requested) = IF Len(c.tabs) < Len(l.tabs) /\ source = requested THEN l
                               ELSE Docked(l, c, i, root, id)
  BY <1>1, <1>5, <1>6 DEF ToTab
<1>8. CASE Len(c.tabs) < Len(l.tabs) /\ source = requested
  BY <1>7, <1>8
<1>9. CASE ~(Len(c.tabs) < Len(l.tabs) /\ source = requested)
  <2>1. i \in 1..Len(c.tabs)
    <3>1. CASE Len(c.tabs) < Len(l.tabs)
      <4>1. Len(c.tabs) = Len(l.tabs) - 1 /\ source # requested
        BY <3>1, <1>2, <1>3, <1>4, <1>9
      <4>2. CASE source < requested
        <5>1. i = requested - 1
          BY <3>1, <4>2, <1>5
        <5>2. QED
          BY <5>1, <4>1, <4>2, <1>3
      <4>3. CASE ~(source < requested)
        <5>1. i = requested /\ requested < source
          BY <4>1, <4>3, <1>3, <1>5
        <5>2. QED
          BY <5>1, <4>1, <1>3
      <4>4. QED
        BY <4>2, <4>3
    <3>2. CASE ~(Len(c.tabs) < Len(l.tabs))
      <4>1. Len(c.tabs) = Len(l.tabs) /\ i = requested
        BY <3>2, <1>2, <1>3, <1>4, <1>5
      <4>2. QED
        BY <4>1
    <3>3. QED
      BY <3>1, <3>2
  <2>2. PICK old : old = c.tabs[i].root
    OBVIOUS
  <2>3. IsTree(old) /\ IDsOf(old) \subseteq ShownBy(c.tabs)
    BY <2>1, <2>2, <1>2, TabOfGood
  <2>4. IsTree(root) /\ IDsOf(root) = IDsOf(old) \cup {id}
    <3>1. IsTree(Leaf(id)) /\ IDsOf(Leaf(id)) = {id} /\ IDsOf(old) \cap IDsOf(Leaf(id)) = {}
      BY <2>3, <1>2, LeafIsTree
    <3>2. root = Split(old, Leaf(id))
      BY <2>2, <1>6 DEF DockedSplit
    <3>3. IsTree(Split(old, Leaf(id))) /\ IDsOf(Split(old, Leaf(id))) = IDsOf(old) \cup IDsOf(Leaf(id))
      BY <3>1, <2>3, SplitIsTree
    <3>4. QED
      BY <3>1, <3>2, <3>3
  <2>5. /\ GoodLayout(Docked(l, c, i, root, id))
        /\ ShownBy(Docked(l, c, i, root, id).tabs) = ShownBy(l.tabs)
    BY <2>1, <2>2, <2>4, <1>2, DockedGood
  <2>6. QED
    BY <2>5, <1>7, <1>9
<1>10. QED
  BY <1>8, <1>9

(* The tabs after a tab was moved, and where the focus is. *)
LEMMA TabMovedGood ==
  ASSUME NEW l, GoodLayout(l), NEW from \in 1..Len(l.tabs), NEW to \in 1..Len(l.tabs)
  PROVE  LET m == TabMoved(l, from, to)
         IN  /\ GoodLayout(m) /\ ShownBy(m.tabs) = ShownBy(l.tabs)
             /\ m.tabs[m.focused] = l.tabs[l.focused]
<1>1. PICK n : n = Len(l.tabs) /\ n \in Nat /\ GoodTabs(l.tabs)
  BY TabIs DEF GoodLayout
<1>2. l.tabs # <<>> /\ l.focused \in 1..n
  BY <1>1, NoTabs DEF GoodLayout, GoodTabs
<1>3. CASE from = to
  BY <1>3 DEF TabMoved
<1>4. CASE from # to
  <2>1. PICK tab, rest : tab = l.tabs[from] /\ rest = Dropped(l.tabs, from)
    OBVIOUS
  <2>2. /\ GoodTabs(rest) /\ Len(rest) = n - 1
        /\ ShownBy(rest) = ShownBy(l.tabs) \ IDsOf(tab.root)
        /\ \A j \in 1..n - 1 : rest[j] = IF j < from THEN l.tabs[j] ELSE l.tabs[j + 1]
    BY <2>1, <1>1, TabDropped
  <2>3. tab \in Tabs /\ IDsOf(tab.root) \subseteq ShownBy(l.tabs)
    BY <2>1, <1>1, TabIs, TabOfGood
  <2>4. PICK all : all = Inserted(rest, to, tab)
    OBVIOUS
  <2>5. /\ GoodTabs(all) /\ Len(all) = n /\ ShownBy(all) = ShownBy(rest) \cup IDsOf(tab.root)
        /\ \A j \in 1..n : all[j] = IF j < to THEN rest[j] ELSE IF j = to THEN tab ELSE rest[j - 1]
    <3>1. to \in 1..Len(rest) + 1 /\ Len(rest) + 1 = n
      BY <2>2, <1>1
    <3>2. IDsOf(tab.root) \cap ShownBy(rest) = {}
      BY <2>2
    <3>3. /\ GoodTabs(Inserted(rest, to, tab)) /\ Len(Inserted(rest, to, tab)) = Len(rest) + 1
          /\ ShownBy(Inserted(rest, to, tab)) = ShownBy(rest) \cup IDsOf(tab.root)
          /\ \A j \in 1..Len(rest) + 1 :
               Inserted(rest, to, tab)[j] = IF j < to THEN rest[j]
                                            ELSE IF j = to THEN tab ELSE rest[j - 1]
      BY <3>1, <3>2, <2>2, <2>3, TabInserted
    <3>4. QED
      BY <3>1, <3>3, <2>4
  <2>6. ShownBy(all) = ShownBy(l.tabs)
    BY <2>2, <2>3, <2>5
  <2>7. PICK left, at :
          /\ left = IF l.focused > from THEN l.focused - 1 ELSE l.focused
          /\ at = IF l.focused = from THEN to ELSE IF left >= to THEN left + 1 ELSE left
    OBVIOUS
  <2>8. TabMoved(l, from, to) = [tabs |-> all, focused |-> at]
    BY <2>1, <2>4, <2>7, <1>4 DEF TabMoved
  <2>9. at \in 1..n /\ all[at] = l.tabs[l.focused]
    <3>1. CASE l.focused = from
      <4>1. at = to /\ ~(to < to)
        BY <3>1, <2>7
      <4>2. QED
        BY <4>1, <3>1, <2>1, <2>5, <1>1
    <3>2. CASE l.focused # from
      <4>1. left \in 1..n - 1 /\ rest[left] = l.tabs[l.focused]
        <5>1. CASE l.focused > from
          <6>1. left = l.focused - 1 /\ left \in 1..n - 1 /\ ~(left < from) /\ left + 1 = l.focused
            BY <5>1, <2>7, <1>1, <1>2
          <6>2. QED
            BY <6>1, <2>2
        <5>2. CASE ~(l.focused > from)
          <6>1. left = l.focused /\ left \in 1..n - 1 /\ left < from
            BY <5>2, <3>2, <2>7, <1>1, <1>2
          <6>2. QED
            BY <6>1, <2>2
        <5>3. QED
          BY <5>1, <5>2
      <4>2. CASE left >= to
        <5>1. at = left + 1 /\ at \in 1..n /\ ~(at < to) /\ at # to /\ at - 1 = left
          BY <4>1, <4>2, <3>2, <2>7, <1>1
        <5>2. QED
          BY <5>1, <4>1, <2>5
      <4>3. CASE ~(left >= to)
        <5>1. at = left /\ at \in 1..n /\ at < to
          BY <4>1, <4>3, <3>2, <2>7, <1>1
        <5>2. QED
          BY <5>1, <4>1, <2>5
      <4>4. QED
        BY <4>2, <4>3
    <3>3. QED
      BY <3>1, <3>2
  <2>10. all # <<>>
    BY <2>5, <1>1, <1>2, NoTabs DEF GoodTabs
  <2>11. QED
    BY <2>5, <2>6, <2>8, <2>9, <2>10 DEF GoodLayout
<1>5. QED
  BY <1>3, <1>4

-----------------------------------------------------------------------------
(* The leaves of all tabs, in reading order. *)

(* Tabs whose trees have the shape of one, whatever they show. *)
ShapedTabs(tabs) == Len(tabs) \in Nat /\ \A i \in 1..Len(tabs) : Shape(DOMAIN tabs[i].root)

(* Those of a good layout do. *)
LEMMA GoodIsShaped ==
  ASSUME NEW tabs, GoodTabs(tabs)
  PROVE  ShapedTabs(tabs)
BY TabIs, TabFacts DEF ShapedTabs, IsTree

(* What a leaf of a layout is. *)
LEMMA LeavesAre ==
  ASSUME NEW l, ShapedTabs(l.tabs), NEW x \in Leaves(l)
  PROVE  /\ x = <<x[1], x[2]>> /\ x[1] \in 1..Len(l.tabs) /\ x[2] \in DOMAIN l.tabs[x[1]].root
         /\ x[1] \in Nat /\ x[2] \in Path
<1>1. PICK i \in 1..Len(l.tabs) : \E p \in DOMAIN l.tabs[i].root : x = <<i, p>>
  BY DEF Leaves
<1>2. PICK p \in DOMAIN l.tabs[i].root : x = <<i, p>>
  BY <1>1
<1>3. p \in Path /\ i \in Nat
  BY <1>2 DEF ShapedTabs, Shape
<1>4. QED
  BY <1>2, <1>3

(* What makes one. *)
LEMMA LeafOf ==
  ASSUME NEW l, NEW i \in 1..Len(l.tabs), NEW p \in DOMAIN l.tabs[i].root
  PROVE  <<i, p>> \in Leaves(l)
BY DEF Leaves

(* No terminal is shown at two leaves. *)
LEMMA LeavesDiffer ==
  ASSUME NEW l, GoodTabs(l.tabs), NEW x \in Leaves(l), NEW y \in Leaves(l),
         l.tabs[x[1]].root[x[2]] = l.tabs[y[1]].root[y[2]]
  PROVE  x = y
<1>1. /\ x = <<x[1], x[2]>> /\ x[1] \in 1..Len(l.tabs) /\ x[2] \in DOMAIN l.tabs[x[1]].root
      /\ y = <<y[1], y[2]>> /\ y[1] \in 1..Len(l.tabs) /\ y[2] \in DOMAIN l.tabs[y[1]].root
  BY GoodIsShaped, LeavesAre
<1>2. /\ l.tabs[x[1]].root[x[2]] \in IDsOf(l.tabs[x[1]].root)
      /\ l.tabs[y[1]].root[y[2]] \in IDsOf(l.tabs[y[1]].root)
  BY <1>1 DEF IDsOf
<1>3. x[1] = y[1]
  BY <1>1, <1>2 DEF GoodTabs
<1>4. IsTree(l.tabs[x[1]].root)
  BY <1>1, TabOfGood
<1>5. x[2] = y[2]
  BY <1>1, <1>3, <1>4 DEF IsTree
<1>6. QED
  BY <1>1, <1>3, <1>5

(* A tree has finitely many leaves. *)
LEMMA ShapeIsFinite ==
  ASSUME NEW D, Shape(D)
  PROVE  IsFiniteSet(D)
<1>1. D \in SUBSET Path
  BY DEF Shape
<1>2. PICK b \in Nat : \A p \in D : Len(p) <= b
  BY DEF Shape, Bounded
<1>3. PICK T : T = (0..b) \X SUBSET (1..b)
  OBVIOUS
<1>4. IsFiniteSet(T)
  <2>1. IsFiniteSet(0..b) /\ IsFiniteSet(1..b)
    BY <1>2, FS_Interval, CountOfInterval
  <2>2. IsFiniteSet(SUBSET (1..b))
    BY <2>1, FS_SUBSET
  <2>3. QED
    BY <2>1, <2>2, <1>3, FS_Product
<1>5. PICK f : f = [p \in D |-> <<Len(p), {i \in 1..Len(p) : p[i] = 1}>>]
  OBVIOUS
<1>6. ASSUME NEW p \in D PROVE f[p] \in T
  <2>1. Len(p) \in 0..b
    BY <1>1, <1>2, Steps
  <2>2. 1..Len(p) \subseteq 1..b
    BY <2>1, <1>2
  <2>3. QED
    BY <2>1, <2>2, <1>3, <1>5
<1>7. ASSUME NEW p \in D, NEW q \in D, f[p] = f[q] PROVE p = q
  <2>1. Len(p) = Len(q) /\ {i \in 1..Len(p) : p[i] = 1} = {i \in 1..Len(q) : q[i] = 1}
    BY <1>5, <1>7
  <2>2. ASSUME NEW i \in 1..Len(p) PROVE p[i] = q[i]
    <3>1. p[i] = 1 <=> q[i] = 1
      BY <2>1
    <3>2. p[i] \in {1, 2} /\ q[i] \in {1, 2}
      BY <2>1, <1>1, Steps
    <3>3. QED
      BY <3>1, <3>2
  <2>3. QED
    BY <2>1, <2>2, <1>1, SeqEqual DEF Path
<1>8. f \in [D -> T]
  BY <1>5, <1>6
<1>9. f \in Injection(D, T)
  BY <1>7, <1>8 DEF Injection, IsInjective
<1>10. QED
  BY <1>4, <1>9, FS_Injection

(* And so have all tabs. *)
LEMMA LeavesAreFinite ==
  ASSUME NEW l, ShapedTabs(l.tabs)
  PROVE  IsFiniteSet(Leaves(l))
<1>1. PICK n : n = Len(l.tabs) /\ n \in Nat
  BY DEF ShapedTabs
<1>2. PICK row : row = [i \in 1..n |-> {<<i, p>> : p \in DOMAIN l.tabs[i].root}]
  OBVIOUS
<1>3. ASSUME NEW i \in 1..n PROVE IsFiniteSet(row[i])
  <2>1. PICK D, R : D = DOMAIN l.tabs[i].root /\ R = row[i]
    OBVIOUS
  <2>2. IsFiniteSet(D)
    BY <2>1, <1>1, ShapeIsFinite DEF ShapedTabs
  <2>3. R = {<<i, p>> : p \in D}
    BY <2>1, <1>2
  <2>4. PICK f : f = [p \in D |-> <<i, p>>]
    OBVIOUS
  <2>5. f \in [D -> R] /\ \A x \in R : \E p \in D : f[p] = x
    BY <2>3, <2>4
  <2>6. f \in Surjection(D, R)
    BY <2>5 DEF Surjection
  <2>7. QED
    BY <2>1, <2>2, <2>6, FS_Surjection
<1>4. PICK rows : rows = {row[i] : i \in 1..n}
  OBVIOUS
<1>5. IsFiniteSet(rows)
  <2>1. row \in [1..n -> rows] /\ \A x \in rows : \E i \in 1..n : row[i] = x
    BY <1>2, <1>4
  <2>2. row \in Surjection(1..n, rows)
    BY <2>1 DEF Surjection
  <2>3. QED
    BY <2>2, <1>1, CountOfInterval, FS_Surjection
<1>6. IsFiniteSet(UNION rows)
  BY <1>3, <1>4, <1>5, FS_UNION
<1>7. Leaves(l) = UNION rows
  <2>1. \A i \in 1..n : row[i] = {<<i, p>> : p \in DOMAIN l.tabs[i].root}
    BY <1>2
  <2>2. Leaves(l) = UNION {row[i] : i \in 1..n}
    BY <2>1, <1>1 DEF Leaves
  <2>3. QED
    BY <2>2, <1>4
<1>8. QED
  BY <1>6, <1>7

(* Reading order puts all leaves in a line. *)
LEMMA EarlierOrders ==
  ASSUME NEW l, ShapedTabs(l.tabs), NEW x \in Leaves(l)
  PROVE  /\ ~Earlier(x, x)
         /\ \A y \in Leaves(l) : x # y => Earlier(x, y) \/ Earlier(y, x)
         /\ \A y, z \in Leaves(l) : Earlier(x, y) /\ Earlier(y, z) => Earlier(x, z)
<1>1. \A y \in Leaves(l) :
        /\ y = <<y[1], y[2]>> /\ y[1] \in 1..Len(l.tabs) /\ y[2] \in DOMAIN l.tabs[y[1]].root
        /\ y[1] \in Nat /\ y[2] \in Path
  BY LeavesAre
<1>2. ~Earlier(x, x)
  BY <1>1, NotBeforeItself DEF Earlier
<1>3. ASSUME NEW y \in Leaves(l), x # y PROVE Earlier(x, y) \/ Earlier(y, x)
  <2>1. CASE x[1] # y[1]
    <3>1. x[1] < y[1] \/ y[1] < x[1]
      BY <2>1, <1>1
    <3>2. QED
      BY <3>1 DEF Earlier
  <2>2. CASE x[1] = y[1]
    <3>1. PICK D : D = DOMAIN l.tabs[x[1]].root
      OBVIOUS
    <3>2. Apart(D)
      BY <3>1, <1>1 DEF ShapedTabs, Shape
    <3>3. x[2] \in D /\ y[2] \in D /\ x[2] # y[2] /\ x[2] \in Path /\ y[2] \in Path
      BY <3>1, <2>2, <1>1, <1>3
    <3>4. ~Below(x[2], y[2]) /\ ~Below(y[2], x[2])
      BY <3>2, <3>3 DEF Apart
    <3>5. Before(x[2], y[2]) \/ Before(y[2], x[2])
      BY <3>3, <3>4, BeforeOrAfter
    <3>6. QED
      BY <3>5, <2>2 DEF Earlier
  <2>3. QED
    BY <2>1, <2>2
<1>4. ASSUME NEW y \in Leaves(l), NEW z \in Leaves(l), Earlier(x, y), Earlier(y, z)
      PROVE  Earlier(x, z)
  <2>1. x[1] \in Nat /\ y[1] \in Nat /\ z[1] \in Nat /\ x[2] \in Path /\ y[2] \in Path /\ z[2] \in Path
    BY <1>1
  <2>2. /\ x[1] < y[1] \/ (x[1] = y[1] /\ Before(x[2], y[2]))
        /\ y[1] < z[1] \/ (y[1] = z[1] /\ Before(y[2], z[2]))
    BY <1>4 DEF Earlier
  <2>3. CASE x[1] < y[1] \/ y[1] < z[1]
    <3>1. x[1] < z[1]
      BY <2>1, <2>2, <2>3
    <3>2. QED
      BY <3>1 DEF Earlier
  <2>4. CASE ~(x[1] < y[1] \/ y[1] < z[1])
    <3>1. x[1] = z[1] /\ Before(x[2], y[2]) /\ Before(y[2], z[2])
      BY <2>2, <2>4
    <3>2. Before(x[2], z[2])
      BY <3>1, <2>1, BeforeAgain
    <3>3. QED
      BY <3>1, <3>2 DEF Earlier
  <2>5. QED
    BY <2>3, <2>4
<1>5. QED
  BY <1>2, <1>3, <1>4

(* So Entries counts them off, and each is somewhere in it. *)
LEMMA EntriesAre ==
  ASSUME NEW l, ShapedTabs(l.tabs)
  PROVE  /\ Len(Entries(l)) \in Nat
         /\ \A k \in 1..Len(Entries(l)) : Entries(l)[k] \in Leaves(l)
         /\ \A x \in Leaves(l) : \E k \in 1..Len(Entries(l)) : Entries(l)[k] = x
<1>1. PICK S : S = Leaves(l) /\ IsFiniteSet(S)
  BY LeavesAreFinite
<1>2. PICK n : n = Cardinality(S) /\ n \in Nat
  BY <1>1, FS_CardinalityType
<1>3. PICK R : R = {xy \in S \X S : Earlier(xy[1], xy[2])}
  OBVIOUS
<1>4. \A x, y \in S : <<x, y>> \in R <=> Earlier(x, y)
  BY <1>3
<1>5. Orders(R, S)
  BY <1>1, <1>4, EarlierOrders DEF Orders
<1>6. PICK some : CountsOff(some, R, S)
  BY <1>1, <1>5, CountedOff
<1>7. /\ some \in [1..Cardinality(Leaves(l)) -> Leaves(l)]
      /\ \A i, j \in DOMAIN some : i < j => Earlier(some[i], some[j])
  BY <1>1, <1>4, <1>6 DEF CountsOff
<1>8. PICK e : e = Entries(l)
  OBVIOUS
<1>9. e \in [1..Cardinality(S) -> S] /\ \A i, j \in DOMAIN e : i < j => Earlier(e[i], e[j])
  BY <1>7, <1>8, <1>1 DEF Entries
<1>10. CountsOff(e, R, S)
  BY <1>4, <1>9 DEF CountsOff
<1>11. \A x \in S : \E k \in 1..Cardinality(S) : e[k] = x
  BY <1>1, <1>5, <1>10, AllCountedOff
<1>12. e \in Seq(S) /\ Len(e) = n
  BY <1>2, <1>9
<1>13. QED
  BY <1>1, <1>2, <1>8, <1>9, <1>11, <1>12

(* Going round a ring of n stays in it. *)
LEMMA RoundTheRing ==
  ASSUME NEW n \in Nat \ {0}, NEW k \in Int
  PROVE  (k % n) + 1 \in 1..n
OBVIOUS

(* The layout after a tab and a terminal in it got the focus. *)
Refocused(l, i, id) == [tabs |-> [l.tabs EXCEPT ![i].focus = id], focused |-> i]

(* It is as good as it was. *)
LEMMA RefocusedGood ==
  ASSUME NEW l, GoodLayout(l), NEW i \in 1..Len(l.tabs), NEW id \in IDsOf(l.tabs[i].root)
  PROVE  GoodLayout(Refocused(l, i, id)) /\ ShownBy(Refocused(l, i, id).tabs) = ShownBy(l.tabs)
<1>1. PICK tab, root, new : tab = l.tabs[i] /\ root = tab.root /\ new = Tab(root, id)
  OBVIOUS
<1>2. GoodTabs(l.tabs) /\ tab \in Tabs /\ tab = Tab(root, tab.focus)
  BY <1>1, TabIs, TabFacts DEF GoodLayout
<1>3. new \in Tabs /\ new.root = root
  BY <1>1, <1>2, TabFacts, TabType
<1>4. [tab EXCEPT !.focus = id] = new
  BY <1>1, <1>2 DEF Tab
<1>5. [l.tabs EXCEPT ![i].focus = id] = [l.tabs EXCEPT ![i] = new]
  BY <1>1, <1>4
<1>6. PICK tabs : tabs = [l.tabs EXCEPT ![i] = new]
  OBVIOUS
<1>7. /\ GoodTabs(tabs) /\ Len(tabs) = Len(l.tabs)
      /\ ShownBy(tabs) = (ShownBy(l.tabs) \ IDsOf(root)) \cup IDsOf(root)
  <2>1. IDsOf(new.root) \cap (ShownBy(l.tabs) \ IDsOf(l.tabs[i].root)) = {}
    BY <1>1, <1>3
  <2>2. /\ GoodTabs([l.tabs EXCEPT ![i] = new]) /\ Len([l.tabs EXCEPT ![i] = new]) = Len(l.tabs)
        /\ ShownBy([l.tabs EXCEPT ![i] = new]) = (ShownBy(l.tabs) \ IDsOf(l.tabs[i].root)) \cup IDsOf(new.root)
    BY <2>1, <1>2, <1>3, TabReplaced
  <2>3. QED
    BY <2>2, <1>1, <1>3, <1>6
<1>8. IDsOf(root) \subseteq ShownBy(l.tabs)
  BY <1>1, <1>2, TabOfGood
<1>9. i \in 1..Len(tabs) /\ tabs # <<>>
  BY <1>7, NoTabs DEF GoodTabs
<1>10. QED
  BY <1>5, <1>6, <1>7, <1>8, <1>9 DEF GoodLayout, Refocused

(* The tabs after the focus went to a neighbour. *)
LEMMA FocusMovedGood ==
  ASSUME NEW l, GoodLayout(l), l.tabs # <<>>, NEW forward \in BOOLEAN
  PROVE  GoodLayout(FocusMoved(l, forward)) /\ ShownBy(FocusMoved(l, forward).tabs) = ShownBy(l.tabs)
<1>1. PICK e, n : e = Entries(l) /\ n = Len(e)
  OBVIOUS
<1>2. /\ n \in Nat /\ GoodTabs(l.tabs) /\ ShapedTabs(l.tabs)
      /\ \A k \in 1..n : e[k] \in Leaves(l)
      /\ \A x \in Leaves(l) : \E k \in 1..n : e[k] = x
  BY <1>1, GoodIsShaped, EntriesAre DEF GoodLayout
<1>3. PICK here : here = <<l.focused, PathOf(l.tabs[l.focused].root, l.tabs[l.focused].focus)>>
  OBVIOUS
<1>4. here \in Leaves(l)
  <2>1. l.focused \in 1..Len(l.tabs)
    BY DEF GoodLayout
  <2>2. l.tabs[l.focused].focus \in IDsOf(l.tabs[l.focused].root)
    BY <2>1, <1>2, TabOfGood
  <2>3. PathOf(l.tabs[l.focused].root, l.tabs[l.focused].focus) \in DOMAIN l.tabs[l.focused].root
    BY <2>2, PathIs
  <2>4. QED
    BY <2>1, <2>3, <1>3, LeafOf
<1>5. PICK at : at = CHOOSE k \in 1..n : e[k] = here
  OBVIOUS
<1>6. at \in 1..n
  BY <1>2, <1>4, <1>5
<1>7. PICK next : next = e[((at - 1 + (IF forward THEN 1 ELSE n - 1)) % n) + 1]
  OBVIOUS
<1>8. FocusMoved(l, forward) = IF n < 2 THEN l ELSE Refocused(l, next[1], l.tabs[next[1]].root[next[2]])
  BY <1>1, <1>3, <1>5, <1>7 DEF FocusMoved, Refocused
<1>9. SUFFICES ASSUME ~(n < 2)
               PROVE  LET m == Refocused(l, next[1], l.tabs[next[1]].root[next[2]])
                      IN  GoodLayout(m) /\ ShownBy(m.tabs) = ShownBy(l.tabs)
  BY <1>8
<1>10. next \in Leaves(l)
  <2>1. PICK s : s = at - 1 + (IF forward THEN 1 ELSE n - 1)
    OBVIOUS
  <2>2. s \in Int /\ n \in Nat \ {0}
    BY <2>1, <1>2, <1>6
  <2>3. (s % n) + 1 \in 1..n
    BY <2>2, RoundTheRing
  <2>4. next = e[(s % n) + 1]
    BY <2>1, <1>7
  <2>5. QED
    BY <2>3, <2>4, <1>2
<1>11. next[1] \in 1..Len(l.tabs) /\ next[2] \in DOMAIN l.tabs[next[1]].root
  BY <1>2, <1>10, LeavesAre
<1>12. l.tabs[next[1]].root[next[2]] \in IDsOf(l.tabs[next[1]].root)
  BY <1>11 DEF IDsOf
<1>13. QED
  BY <1>11, <1>12, RefocusedGood

(* Closing a terminal without the focus leaves the focus on its terminal. *)
LEMMA ClosedKeepsFocus ==
  ASSUME NEW l, GoodLayout(l), NEW id \in ShownBy(l.tabs), id # Focused(l)
  PROVE  Focused(Closed(l, id)) = Focused(l)
<1>1. GoodTabs(l.tabs) /\ l = [tabs |-> l.tabs, focused |-> l.focused]
  BY DEF GoodLayout
<1>2. PICK i : i = TabOf(l, id) /\ i \in 1..Len(l.tabs) /\ id \in IDsOf(l.tabs[i].root) /\ TabsWith(l, id) # {}
  BY <1>1, Located
<1>3. PICK tab, f : tab = l.tabs[i] /\ f = l.focused
  OBVIOUS
<1>4. Len(l.tabs) \in Nat /\ l.tabs \in Seq(Tabs) /\ f \in 1..Len(l.tabs)
  <2>1. Len(l.tabs) \in Nat /\ l.tabs \in Seq(Tabs)
    BY <1>1, TabIs DEF GoodTabs
  <2>2. l.tabs # <<>>
    BY <2>1, <1>2, NoTabs
  <2>3. QED
    BY <2>1, <2>2, <1>3 DEF GoodLayout
<1>5. PICK c : c = Closed(l, id)
  OBVIOUS
<1>6. f = i => tab.focus # id
  BY <1>3 DEF Focused
<1>7. CASE tab.root # Leaf(id)
  <2>1. PICK g, root : /\ root = Without(tab.root, id)
                       /\ g = IF tab.focus = id THEN First(Sibling(tab.root, id)) ELSE tab.focus
    OBVIOUS
  <2>2. c = [l EXCEPT !.tabs[i] = Tab(root, g)]
    BY <1>2, <1>3, <1>5, <1>7, <2>1 DEF Closed
  <2>3. PICK tabs : tabs = [l.tabs EXCEPT ![i] = Tab(root, g)]
    OBVIOUS
  <2>4. c.tabs = tabs /\ c.focused = f
    BY <2>2, <2>3, <1>1, <1>3
  <2>5. CASE f = i
    <3>1. tabs[f] = Tab(root, g) /\ g = tab.focus
      BY <2>1, <2>3, <2>5, <1>2, <1>4, <1>6
    <3>2. Focused(c) = g
      BY <3>1, <2>4 DEF Focused, Tab
    <3>3. QED
      BY <3>1, <3>2, <2>5, <1>3, <1>5 DEF Focused
  <2>6. CASE f # i
    <3>1. tabs[f] = l.tabs[f]
      BY <2>3, <2>6, <1>2, <1>4
    <3>2. QED
      BY <3>1, <2>4, <1>3, <1>5 DEF Focused
  <2>7. QED
    BY <2>5, <2>6
<1>8. CASE tab.root = Leaf(id)
  <2>1. f # i
    <3>1. tab.focus \in IDsOf(tab.root) /\ IDsOf(Leaf(id)) = {id}
      BY <1>1, <1>2, <1>3, TabOfGood, LeafIsTree
    <3>2. QED
      BY <3>1, <1>6, <1>8
  <2>2. PICK tabs : tabs = Dropped(l.tabs, i)
    OBVIOUS
  <2>3. /\ GoodTabs(tabs) /\ Len(tabs) = Len(l.tabs) - 1
        /\ \A j \in 1..Len(l.tabs) - 1 : tabs[j] = IF j < i THEN l.tabs[j] ELSE l.tabs[j + 1]
    BY <2>2, <1>1, <1>2, TabDropped
  <2>4. tabs # <<>>
    <3>1. Len(tabs) # 0
      BY <2>1, <2>3, <1>2, <1>4
    <3>2. QED
      BY <3>1, <2>3, NoTabs DEF GoodTabs
  <2>5. PICK g : g = CASE f > i -> f - 1
                       [] f = i -> IF i < Len(tabs) THEN i ELSE Len(tabs)
                       [] OTHER -> f
    OBVIOUS
  <2>6. c = [tabs |-> tabs, focused |-> g]
    BY <2>2, <2>4, <2>5, <1>2, <1>3, <1>5, <1>8 DEF Closed
  <2>7. tabs[g] = l.tabs[f]
    <3>1. CASE f > i
      <4>1. g = f - 1 /\ g \in 1..Len(l.tabs) - 1 /\ ~(g < i) /\ g + 1 = f
        BY <3>1, <2>5, <1>2, <1>4
      <4>2. QED
        BY <4>1, <2>3
    <3>2. CASE f < i
      <4>1. ~(f > i) /\ f # i
        BY <3>2, <1>2, <1>4
      <4>2. g = f
        BY <4>1, <2>5
      <4>3. g \in 1..Len(l.tabs) - 1 /\ g < i
        BY <4>2, <3>2, <1>2, <1>4
      <4>4. QED
        BY <4>2, <4>3, <2>3
    <3>3. QED
      BY <3>1, <3>2, <2>1, <1>2, <1>4
  <2>8. QED
    BY <2>6, <2>7, <1>3, <1>5 DEF Focused
<1>9. QED
  BY <1>7, <1>8

-----------------------------------------------------------------------------
(* What repair makes of a stored layout. *)

(* A path cut where a tree may be no deeper. *)
Top(p) == IF Len(p) >= MaxDepth THEN SubSeq(p, 1, MaxDepth - 1) ELSE p

(* It is above the path, and not too deep. *)
LEMMA TopIs ==
  ASSUME SessionLayoutAssumption, NEW p \in Path
  PROVE  /\ Top(p) \in Path /\ Below(p, Top(p)) /\ Len(Top(p)) < MaxDepth
         /\ Top(p) = p \/ Len(Top(p)) = MaxDepth - 1
<1>1. Len(p) \in Nat /\ MaxDepth \in Nat \ {0}
  BY Steps DEF SessionLayoutAssumption
<1>2. CASE Len(p) >= MaxDepth
  <2>1. PICK n : n = MaxDepth - 1
    OBVIOUS
  <2>2. n \in 0..Len(p) /\ n < MaxDepth /\ n <= Len(p)
    BY <2>1, <1>1, <1>2
  <2>3. Top(p) = SubSeq(p, 1, n)
    BY <2>1, <1>2 DEF Top
  <2>4. Top(p) \in Path /\ Len(Top(p)) = n /\ \A i \in 1..n : Top(p)[i] = p[i]
    BY <2>2, <2>3, CutFromStart
  <2>5. QED
    BY <2>1, <2>2, <2>4 DEF Below
<1>3. CASE ~(Len(p) >= MaxDepth)
  <2>1. Top(p) = p /\ Len(p) < MaxDepth
    BY <1>1, <1>3 DEF Top
  <2>2. QED
    BY <2>1, <1>1 DEF Below
<1>4. QED
  BY <1>2, <1>3

(* The leaves of a tree, cut there, are those of a tree. *)
LEMMA TopShape ==
  ASSUME SessionLayoutAssumption, NEW D, Shape(D)
  PROVE  Shape({Top(p) : p \in D})
<1>1. PICK E : E = {Top(p) : p \in D}
  OBVIOUS
<1>2. D \in SUBSET Path /\ D # {} /\ Apart(D) /\ Full(D) /\ MaxDepth \in Nat \ {0}
  BY DEF Shape, SessionLayoutAssumption
<1>3. \A p \in D : /\ Top(p) \in Path /\ Below(p, Top(p)) /\ Len(Top(p)) < MaxDepth
                   /\ Top(p) = p \/ Len(Top(p)) = MaxDepth - 1
  BY <1>2, TopIs
<1>4. E \in SUBSET Path /\ E # {}
  BY <1>1, <1>2, <1>3
<1>5. Apart(E)
  <2> SUFFICES ASSUME NEW p \in D, NEW q \in D, Below(Top(p), Top(q)) PROVE Top(p) = Top(q)
    BY <1>1 DEF Apart
  <2>1. /\ p \in Path /\ q \in Path /\ Top(p) \in Path /\ Top(q) \in Path
        /\ Below(p, Top(p)) /\ Below(q, Top(q))
        /\ Len(Top(p)) < MaxDepth /\ (Top(q) = q \/ Len(Top(q)) = MaxDepth - 1)
    BY <1>2, <1>3
  <2>2. CASE Top(q) = q
    <3>1. Below(p, q)
      BY <2>1, <2>2, BelowAgain
    <3>2. p = q
      BY <3>1, <1>2 DEF Apart
    <3>3. QED
      BY <3>2
  <2>3. CASE Len(Top(q)) = MaxDepth - 1
    <3>1. Len(Top(p)) = Len(Top(q)) /\ Len(Top(q)) \in Nat
      BY <2>1, <2>3, <1>2, Steps DEF Below
    <3>2. Below(Top(q), Top(p))
      BY <3>1 DEF Below
    <3>3. QED
      BY <3>2, <2>1, SamePath
  <2>4. QED
    BY <2>1, <2>2, <2>3
<1>6. Full(E)
  <2> SUFFICES ASSUME NEW p \in D, NEW i \in 1..Len(Top(p))
               PROVE  \E u \in D : Turns(Top(u), Top(p), i)
    BY <1>1 DEF Full
  <2>1. p \in Path /\ Top(p) \in Path /\ Below(p, Top(p)) /\ Len(Top(p)) < MaxDepth
    BY <1>2, <1>3
  <2>2. Len(p) \in Nat /\ Len(Top(p)) \in Nat /\ i \in 1..Len(p)
    BY <2>1, Steps DEF Below
  <2>3. PICK u \in D : Turns(u, p, i)
    BY <2>2, <1>2 DEF Full
  <2>4. /\ u \in Path /\ Top(u) \in Path /\ Below(u, Top(u))
        /\ Top(u) = u \/ Len(Top(u)) = MaxDepth - 1
    BY <1>2, <1>3
  <2>5. Turns(u, Top(p), i)
    BY <2>1, <2>3, <2>4, TurnsBelow
  <2>6. i \in 1..Len(Top(u))
    <3>1. i <= Len(u) /\ Len(u) \in Nat /\ Len(Top(u)) \in Nat
      BY <2>3, <2>4, Steps DEF Turns
    <3>2. CASE Top(u) = u
      BY <3>1, <3>2
    <3>3. CASE Len(Top(u)) = MaxDepth - 1
      BY <3>1, <3>3, <2>1, <2>2, <1>2
    <3>4. QED
      BY <3>2, <3>3, <2>4
  <2>7. Turns(Top(u), Top(p), i)
    BY <2>1, <2>4, <2>5, <2>6, TurnsBelow
  <2>8. QED
    BY <2>7
<1>7. Bounded(E)
  <2>1. \A p \in D : Len(Top(p)) <= MaxDepth
    <3> SUFFICES ASSUME NEW p \in D PROVE Len(Top(p)) <= MaxDepth
      OBVIOUS
    <3>1. Len(Top(p)) < MaxDepth /\ Len(Top(p)) \in Nat
      BY <1>3, Steps
    <3>2. QED
      BY <3>1, <1>2
  <2>2. QED
    BY <2>1, <1>1, <1>2 DEF Bounded
<1>8. QED
  BY <1>1, <1>4, <1>5, <1>6, <1>7 DEF Shape

(* A tree that was cut has some of its terminals, and none too deep; one that *)
(* was not too deep is as it was.                                             *)
LEMMA TruncatedIs ==
  ASSUME SessionLayoutAssumption, NEW t, Shape(DOMAIN t)
  PROVE  /\ Shape(DOMAIN Truncated(t)) /\ Shallow(Truncated(t))
         /\ Truncated(t) = [p \in DOMAIN Truncated(t) |-> Truncated(t)[p]]
         /\ IDsOf(Truncated(t)) \subseteq IDsOf(t)
         /\ Shallow(t) /\ t = [p \in DOMAIN t |-> t[p]] => Truncated(t) = t
<1>1. PICK D, w : D = DOMAIN t /\ w = Truncated(t)
  OBVIOUS
<1>2. D \in SUBSET Path /\ Shape(D) /\ MaxDepth \in Nat \ {0}
  BY <1>1 DEF Shape, SessionLayoutAssumption
<1>3. PICK deep, cuts : /\ deep = {p \in D : Len(p) >= MaxDepth}
                        /\ cuts = {SubSeq(p, 1, MaxDepth - 1) : p \in deep}
  OBVIOUS
<1>4. w = [p \in (D \ deep) \cup cuts |-> IF p \in cuts THEN First(Subtree(t, p)) ELSE t[p]]
  BY <1>1, <1>3 DEF Truncated
<1>5. (D \ deep) \cup cuts = {Top(p) : p \in D}
  <2>1. \A p \in D : (p \in deep => Top(p) \in cuts) /\ (p \notin deep => Top(p) = p)
    BY <1>3 DEF Top
  <2>2. \A c \in cuts : \E p \in D : c = Top(p)
    BY <1>3 DEF Top
  <2>3. QED
    BY <2>1, <2>2
<1>6. DOMAIN w = {Top(p) : p \in D} /\ w = [p \in DOMAIN w |-> w[p]]
  BY <1>4, <1>5
<1>7. Shape(DOMAIN w)
  BY <1>2, <1>6, TopShape
<1>8. Shallow(w)
  BY <1>2, <1>6, TopIs DEF Shallow
<1>9. ASSUME NEW c \in DOMAIN w PROVE w[c] \in IDsOf(t)
  <2>1. CASE c \in cuts
    <3>1. PICK p \in deep : c = SubSeq(p, 1, MaxDepth - 1)
      BY <2>1, <1>3
    <3>2. p \in D /\ c = Top(p) /\ p \in Path
      BY <3>1, <1>2, <1>3 DEF Top
    <3>3. c \in Path /\ Below(p, c)
      BY <3>2, TopIs
    <3>4. /\ Shape(DOMAIN Subtree(t, c))
          /\ \A id \in IDsOf(Subtree(t, c)) : \E r \in DOMAIN t : Below(r, c) /\ t[r] = id
      BY <3>2, <3>3, <1>1, SubtreeShape
    <3>5. First(Subtree(t, c)) \in IDsOf(Subtree(t, c))
      BY <3>4, FirstInside
    <3>6. w[c] = First(Subtree(t, c))
      BY <2>1, <1>4
    <3>7. QED
      BY <3>4, <3>5, <3>6 DEF IDsOf
  <2>2. CASE c \notin cuts
    <3>1. c \in D /\ w[c] = t[c]
      BY <2>2, <1>4
    <3>2. QED
      BY <3>1, <1>1 DEF IDsOf
  <2>3. QED
    BY <2>1, <2>2
<1>10. IDsOf(w) \subseteq IDsOf(t)
  BY <1>9 DEF IDsOf
<1>11. ASSUME Shallow(t), t = [p \in DOMAIN t |-> t[p]] PROVE w = t
  <2>1. \A p \in D : Len(p) < MaxDepth /\ Len(p) \in Nat
    BY <1>1, <1>2, <1>11, Steps DEF Shallow
  <2>2. deep = {}
    BY <2>1, <1>2, <1>3
  <2>3. cuts = {} /\ (D \ deep) \cup cuts = D
    BY <2>2, <1>3
  <2>4. w = [p \in D |-> t[p]]
    BY <2>3, <1>4
  <2>5. QED
    BY <2>4, <1>1, <1>11
<1>12. QED
  BY <1>1, <1>6, <1>7, <1>8, <1>10, <1>11

(* Of some leaves one is the first. *)
LEMMA FirstOfLeaves ==
  ASSUME NEW l, ShapedTabs(l.tabs), NEW S \in SUBSET Leaves(l), S # {}
  PROVE  \E x \in S : \A y \in S : ~Earlier(y, x)
<1>1. IsFiniteSet(S)
  BY LeavesAreFinite, FS_Subset
<1>2. PICK R : R = {xy \in S \X S : Earlier(xy[1], xy[2])}
  OBVIOUS
<1>3. \A x, y \in S : <<x, y>> \in R <=> Earlier(x, y)
  BY <1>2
<1>4. /\ \A x \in S : ~Earlier(x, x)
      /\ \A x, y \in S : x # y => Earlier(x, y) \/ Earlier(y, x)
      /\ \A x, y, z \in S : Earlier(x, y) /\ Earlier(y, z) => Earlier(x, z)
  BY EarlierOrders
<1>5. Orders(R, S)
  BY <1>3, <1>4 DEF Orders
<1>6. PICK e : CountsOff(e, R, S)
  BY <1>1, <1>5, CountedOff
<1>7. PICK n : n = Cardinality(S) /\ n \in Nat
  BY <1>1, FS_CardinalityType
<1>8. /\ e \in [1..n -> S] /\ \A i, j \in 1..n : i < j => <<e[i], e[j]>> \in R
      /\ \A x \in S : \E k \in 1..n : e[k] = x
  BY <1>1, <1>5, <1>6, <1>7, AllCountedOff DEF CountsOff
<1>9. 1 \in 1..n
  BY <1>7, <1>8
<1>10. PICK x \in S : x = e[1]
  BY <1>8, <1>9
<1>11. ASSUME NEW y \in S, Earlier(y, x) PROVE FALSE
  <2>1. PICK k \in 1..n : e[k] = y
    BY <1>8
  <2>2. k # 1
    BY <2>1, <1>4, <1>10, <1>11
  <2>3. 1 < k
    BY <2>2, <1>7
  <2>4. Earlier(x, y)
    BY <2>1, <2>3, <1>3, <1>8, <1>9, <1>10
  <2>5. Earlier(x, x)
    BY <2>4, <1>4, <1>11
  <2>6. QED
    BY <2>5, <1>4
<1>12. QED
  BY <1>11

(* What Survivors keeps shows each terminal that is allowed and shown, once. *)
LEMMA SurvivorsAre ==
  ASSUME NEW tabs, ShapedTabs(tabs), NEW allowed
  PROVE  /\ \A x \in Survivors(tabs, allowed) :
              /\ x = <<x[1], x[2]>> /\ x[1] \in 1..Len(tabs) /\ x[2] \in DOMAIN tabs[x[1]].root
              /\ tabs[x[1]].root[x[2]] \in allowed
         /\ \A x, y \in Survivors(tabs, allowed) :
              tabs[x[1]].root[x[2]] = tabs[y[1]].root[y[2]] => x = y
         /\ \A id \in ShownBy(tabs) \cap allowed :
              \E x \in Survivors(tabs, allowed) : tabs[x[1]].root[x[2]] = id
<1>1. PICK l : l = [tabs |-> tabs]
  OBVIOUS
<1>2. l.tabs = tabs /\ ShapedTabs(l.tabs)
  BY <1>1
<1>3. PICK S : S = Survivors(tabs, allowed)
  OBVIOUS
<1>4. S = {x \in Leaves(l) : /\ tabs[x[1]].root[x[2]] \in allowed
                             /\ ~\E y \in Leaves(l) : /\ Earlier(y, x)
                                                      /\ tabs[y[1]].root[y[2]] = tabs[x[1]].root[x[2]]}
  BY <1>2, <1>3 DEF Survivors, Leaves
<1>5. ASSUME NEW x \in S
      PROVE  /\ x = <<x[1], x[2]>> /\ x[1] \in 1..Len(tabs) /\ x[2] \in DOMAIN tabs[x[1]].root
             /\ tabs[x[1]].root[x[2]] \in allowed
  BY <1>2, <1>4, LeavesAre
<1>6. ASSUME NEW x \in S, NEW y \in S, tabs[x[1]].root[x[2]] = tabs[y[1]].root[y[2]], x # y
      PROVE  FALSE
  <2>1. Earlier(x, y) \/ Earlier(y, x)
    BY <1>2, <1>4, <1>6, EarlierOrders
  <2>2. QED
    BY <2>1, <1>4, <1>6
<1>7. ASSUME NEW id \in ShownBy(tabs) \cap allowed PROVE \E x \in S : tabs[x[1]].root[x[2]] = id
  <2>0. PICK i \in 1..Len(tabs) : id \in IDsOf(tabs[i].root)
    BY DEF ShownBy
  <2>1. PICK p \in DOMAIN tabs[i].root : tabs[i].root[p] = id
    BY <2>0 DEF IDsOf
  <2>2. PICK Same : Same = {x \in Leaves(l) : tabs[x[1]].root[x[2]] = id}
    OBVIOUS
  <2>3. <<i, p>> \in Same
    <3>1. <<i, p>> \in Leaves(l)
      BY <2>1, <1>2, LeafOf
    <3>2. QED
      BY <3>1, <2>1, <2>2
  <2>4. Same \in SUBSET Leaves(l) /\ Same # {}
    BY <2>2, <2>3
  <2>5. PICK x \in Same : \A y \in Same : ~Earlier(y, x)
    BY <2>4, <1>2, FirstOfLeaves
  <2>6. x \in S
    BY <2>2, <2>5, <1>4
  <2>7. QED
    BY <2>2, <2>6
<1>8. QED
  BY <1>3, <1>5, <1>6, <1>7

(* The k-th of some numbers, as Repaired counts them. *)
Rank(live, i) == Cardinality({j \in live : j <= i})
Nth(live, k) == CHOOSE i \in live : Rank(live, i) = k

(* There is a k-th as long as there are so many, and each is one. *)
LEMMA NthIs ==
  ASSUME NEW n \in Nat, NEW live \in SUBSET (1..n)
  PROVE  /\ IsFiniteSet(live) /\ Cardinality(live) \in Nat
         /\ \A k \in 1..Cardinality(live) : Nth(live, k) \in live /\ Rank(live, Nth(live, k)) = k
         /\ \A i \in live : Rank(live, i) \in 1..Cardinality(live) /\ Nth(live, Rank(live, i)) = i
<1>1. IsFiniteSet(live)
  BY CountOfInterval, FS_Subset
<1>2. PICK c : c = Cardinality(live) /\ c \in Nat
  BY <1>1, FS_CardinalityType
<1>3. \A i \in live : i \in Nat
  OBVIOUS
<1> DEFINE UpTo(i) == {j \in live : j <= i}
<1>4. \A i \in live : UpTo(i) \in SUBSET live /\ i \in UpTo(i)
  BY <1>3
<1>5. ASSUME NEW i \in live
      PROVE  IsFiniteSet(UpTo(i)) /\ Rank(live, i) = Cardinality(UpTo(i)) /\ Rank(live, i) \in 1..c
  <2>1. Rank(live, i) = Cardinality(UpTo(i))
    BY DEF Rank
  <2> HIDE DEF UpTo
  <2>2. /\ IsFiniteSet(UpTo(i)) /\ Cardinality(UpTo(i)) <= c /\ Cardinality(UpTo(i)) \in Nat
    BY <1>1, <1>2, <1>4, FS_Subset, FS_CardinalityType
  <2>3. Cardinality(UpTo(i)) # 0
    BY <1>4, <2>2, FS_EmptySet
  <2>4. QED
    BY <2>1, <2>2, <2>3, <1>2
<1>6. ASSUME NEW i \in live, NEW j \in live, i < j PROVE Rank(live, i) < Rank(live, j)
  <2>1. UpTo(i) \subseteq UpTo(j) /\ j \in UpTo(j) /\ j \notin UpTo(i)
    <3>1. i \in Nat /\ j \in Nat
      BY <1>3
    <3>2. ~(j <= i) /\ j <= j /\ \A k \in live : k <= i => k <= j
      BY <3>1, <1>3, <1>6
    <3>3. QED
      BY <3>2
  <2> HIDE DEF UpTo
  <2>2. UpTo(i) \in SUBSET UpTo(j) /\ IsFiniteSet(UpTo(j))
    BY <2>1, <1>5
  <2>3. /\ Cardinality(UpTo(i)) <= Cardinality(UpTo(j))
        /\ (Cardinality(UpTo(j)) = Cardinality(UpTo(i)) => UpTo(j) = UpTo(i))
    BY <2>2, FS_Subset
  <2>4. /\ Rank(live, i) = Cardinality(UpTo(i)) /\ Rank(live, j) = Cardinality(UpTo(j))
        /\ Rank(live, i) \in Nat /\ Rank(live, j) \in Nat
    BY <1>2, <1>5
  <2>5. QED
    BY <2>1, <2>3, <2>4
<1> HIDE DEF UpTo
<1>7. ASSUME NEW i \in live, NEW j \in live, Rank(live, i) = Rank(live, j) PROVE i = j
  <2>1. Rank(live, i) \in Nat /\ i \in Nat /\ j \in Nat
    BY <1>2, <1>3, <1>5
  <2>2. ~(i < j) /\ ~(j < i)
    BY <2>1, <1>6, <1>7
  <2>3. QED
    BY <2>1, <2>2
<1>8. PICK rank : rank = [i \in live |-> Rank(live, i)]
  OBVIOUS
<1>9. rank \in [live -> 1..c] /\ \A i, j \in live : rank[i] = rank[j] => i = j
  BY <1>5, <1>7, <1>8
<1>10. rank \in Injection(live, 1..c)
  BY <1>9 DEF Injection, IsInjective
<1>11. rank \in Surjection(live, 1..c)
  BY <1>2, <1>10, CountOfInterval, FS_Injection
<1>12. \A k \in 1..c : \E i \in live : Rank(live, i) = k
  BY <1>8, <1>11 DEF Surjection
<1>13. \A k \in 1..c : Nth(live, k) \in live /\ Rank(live, Nth(live, k)) = k
  BY <1>12 DEF Nth
<1>14. ASSUME NEW i \in live PROVE Nth(live, Rank(live, i)) = i
  BY <1>5, <1>7, <1>13
<1>15. QED
  BY <1>1, <1>2, <1>5, <1>13, <1>14

(* Where the focus goes when only the live tabs stay. *)
FocusAfter(live, focused) ==
  LET before == Cardinality({i \in live : i < focused})
      count == Cardinality(live)
  IN  IF count = 0 THEN 1
      ELSE IF focused \in live THEN before + 1
      ELSE IF before + 1 > count THEN count ELSE before + 1

(* It is one of them, if there are any. *)
LEMMA FocusAfterIs ==
  ASSUME NEW n \in Nat, NEW live \in SUBSET (1..n), NEW focused \in Nat
  PROVE  IF Cardinality(live) = 0 THEN FocusAfter(live, focused) = 1
         ELSE FocusAfter(live, focused) \in 1..Cardinality(live)
<1>1. IsFiniteSet(live)
  BY NthIs
<1>2. PICK c : c = Cardinality(live) /\ c \in Nat
  BY NthIs
<1>3. PICK Earl : Earl = {i \in live : i < focused}
  OBVIOUS
<1>4. Earl \in SUBSET live
  BY <1>3
<1>5. PICK b : b = Cardinality(Earl)
  OBVIOUS
<1>6. b \in Nat /\ b <= c /\ (c = b => live = Earl)
  BY <1>1, <1>2, <1>4, <1>5, FS_Subset, FS_CardinalityType
<1>7. focused \in live => b # c
  BY <1>3, <1>6
<1>8. FocusAfter(live, focused) = IF c = 0 THEN 1
                                  ELSE IF focused \in live THEN b + 1
                                  ELSE IF b + 1 > c THEN c ELSE b + 1
  BY <1>2, <1>3, <1>5 DEF FocusAfter
<1>9. QED
  BY <1>2, <1>6, <1>7, <1>8

(* What a stored layout may hold: trees that show anything, and a focus that *)
(* may be on nothing.                                                        *)
RawRoots == {t \in UNION {[D -> IDs] : D \in SUBSET Path} : Shape(DOMAIN t)}
RawTabs == [root : RawRoots, focus : IDs]
RawLayout(l) == l.tabs \in Seq(RawTabs) /\ l.focused \in Nat

(* What a stored tree is. *)
LEMMA RawRootIs ==
  ASSUME NEW t
  PROVE  t \in RawRoots <=> /\ Shape(DOMAIN t) /\ t = [p \in DOMAIN t |-> t[p]]
                            /\ IDsOf(t) \subseteq IDs
<1>1. ASSUME t \in RawRoots
      PROVE  Shape(DOMAIN t) /\ t = [p \in DOMAIN t |-> t[p]] /\ IDsOf(t) \subseteq IDs
  <2>1. Shape(DOMAIN t) /\ \E D \in SUBSET Path : t \in [D -> IDs]
    BY <1>1 DEF RawRoots
  <2>2. PICK D \in SUBSET Path : t \in [D -> IDs]
    BY <2>1
  <2>3. IDsOf(t) \subseteq IDs
    BY <2>2 DEF IDsOf
  <2>4. QED
    BY <2>1, <2>2, <2>3
<1>2. ASSUME Shape(DOMAIN t), t = [p \in DOMAIN t |-> t[p]], IDsOf(t) \subseteq IDs
      PROVE  t \in RawRoots
  <2>1. DOMAIN t \in SUBSET Path
    BY <1>2 DEF Shape
  <2>2. \A p \in DOMAIN t : t[p] \in IDs
    BY <1>2 DEF IDsOf
  <2>3. t \in [DOMAIN t -> IDs]
    BY <1>2, <2>2
  <2>4. QED
    BY <2>1, <2>3, <1>2 DEF RawRoots
<1>3. QED
  BY <1>1, <1>2

(* What stored tabs are. *)
LEMMA RawTabsAre ==
  ASSUME NEW tabs \in Seq(RawTabs)
  PROVE  /\ ShapedTabs(tabs)
         /\ \A i \in 1..Len(tabs) : /\ tabs[i] = Tab(tabs[i].root, tabs[i].focus)
                                    /\ tabs[i].root \in RawRoots /\ tabs[i].focus \in IDs
<1>1. Len(tabs) \in Nat /\ \A i \in 1..Len(tabs) : tabs[i] \in RawTabs
  BY LenProperties, ElementOfSeq
<1>2. ASSUME NEW i \in 1..Len(tabs)
      PROVE  /\ tabs[i] = Tab(tabs[i].root, tabs[i].focus)
             /\ tabs[i].root \in RawRoots /\ tabs[i].focus \in IDs
  BY <1>1 DEF RawTabs, Tab
<1>3. \A i \in 1..Len(tabs) : Shape(DOMAIN tabs[i].root)
  BY <1>2 DEF RawRoots
<1>4. QED
  BY <1>1, <1>2, <1>3 DEF ShapedTabs

(* The steps of Repaired, by name. *)
CutTabs(tabs) == [i \in 1..Len(tabs) |-> [tabs[i] EXCEPT !.root = Truncated(@)]]
KeptIn(cut, allowed, i) == {x[2] : x \in {x \in Survivors(cut, allowed) : x[1] = i}}
LiveIn(cut, allowed) == {i \in 1..Len(cut) : KeptIn(cut, allowed, i) # {}}
Mended(cut, allowed, i) ==
  LET root == Pruned(cut[i].root, KeptIn(cut, allowed, i))
  IN  Tab(root, IF Holds(root, cut[i].focus) THEN cut[i].focus ELSE First(root))

(* They make up Repaired. *)
LEMMA RepairedIs ==
  ASSUME NEW l, NEW allowed, NEW cut, NEW live, cut = CutTabs(l.tabs), live = LiveIn(cut, allowed)
  PROVE  Repaired(l, allowed) =
           [tabs |-> [n \in 1..Cardinality(live) |-> Mended(cut, allowed, Nth(live, n))],
            focused |-> FocusAfter(live, l.focused)]
BY DEF Repaired, CutTabs, KeptIn, LiveIn, Mended, Nth, Rank, FocusAfter

(* Stored tabs, cut. *)
LEMMA CutTabsAre ==
  ASSUME SessionLayoutAssumption, NEW tabs \in Seq(RawTabs), NEW cut, cut = CutTabs(tabs)
  PROVE  /\ cut \in Seq(RawTabs) /\ Len(cut) = Len(tabs)
         /\ \A i \in 1..Len(tabs) : Shallow(cut[i].root)
         /\ (\A i \in 1..Len(tabs) : Shallow(tabs[i].root)) => cut = tabs
<1>1. PICK n : n = Len(tabs) /\ n \in Nat
  BY LenProperties
<1>2. /\ ShapedTabs(tabs)
      /\ \A i \in 1..n : /\ tabs[i] = Tab(tabs[i].root, tabs[i].focus)
                         /\ tabs[i].root \in RawRoots /\ tabs[i].focus \in IDs
  BY <1>1, RawTabsAre
<1>3. ASSUME NEW i \in 1..n
      PROVE  /\ cut[i] = Tab(Truncated(tabs[i].root), tabs[i].focus)
             /\ Truncated(tabs[i].root) \in RawRoots /\ Shallow(Truncated(tabs[i].root))
             /\ Shallow(tabs[i].root) => Truncated(tabs[i].root) = tabs[i].root
  <2>1. PICK t, id : t = tabs[i].root /\ id = tabs[i].focus
    OBVIOUS
  <2>2. tabs[i] = [root |-> t, focus |-> id]
    BY <2>1, <1>2 DEF Tab
  <2>3. cut[i] = [tabs[i] EXCEPT !.root = Truncated(t)]
    BY <2>1, <1>1 DEF CutTabs
  <2>4. cut[i] = [root |-> Truncated(t), focus |-> id]
    BY <2>2, <2>3
  <2>5. Shape(DOMAIN t) /\ t = [p \in DOMAIN t |-> t[p]] /\ IDsOf(t) \subseteq IDs
    BY <2>1, <1>2, RawRootIs
  <2>6. /\ Shape(DOMAIN Truncated(t)) /\ Shallow(Truncated(t))
        /\ Truncated(t) = [p \in DOMAIN Truncated(t) |-> Truncated(t)[p]]
        /\ IDsOf(Truncated(t)) \subseteq IDsOf(t)
        /\ Shallow(t) /\ t = [p \in DOMAIN t |-> t[p]] => Truncated(t) = t
    BY <2>5, TruncatedIs
  <2>7. Truncated(t) \in RawRoots
    BY <2>5, <2>6, RawRootIs
  <2>8. Shallow(t) => Truncated(t) = t
    BY <2>5, <2>6
  <2>9. QED
    BY <2>1, <2>4, <2>6, <2>7, <2>8 DEF Tab
<1>4. cut = [i \in 1..n |-> cut[i]]
  BY <1>1 DEF CutTabs
<1>5. \A i \in 1..n : cut[i] \in RawTabs /\ Shallow(cut[i].root)
  <2> SUFFICES ASSUME NEW i \in 1..n PROVE cut[i] \in RawTabs /\ Shallow(cut[i].root)
    OBVIOUS
  <2>1. /\ cut[i] = [root |-> Truncated(tabs[i].root), focus |-> tabs[i].focus]
        /\ Truncated(tabs[i].root) \in RawRoots /\ Shallow(Truncated(tabs[i].root))
        /\ tabs[i].focus \in IDs
    BY <1>2, <1>3 DEF Tab
  <2>2. cut[i].root = Truncated(tabs[i].root)
    BY <2>1
  <2>3. QED
    BY <2>1, <2>2 DEF RawTabs
<1>6. cut \in Seq(RawTabs) /\ Len(cut) = n
  BY <1>1, <1>4, <1>5, IsASeq, LenProperties
<1>7. ASSUME \A i \in 1..n : Shallow(tabs[i].root) PROVE cut = tabs
  <2>1. \A i \in 1..n : cut[i] = tabs[i]
    BY <1>2, <1>3, <1>7
  <2>2. QED
    BY <2>1, <1>1, <1>6, SeqEqual
<1>8. QED
  BY <1>1, <1>5, <1>6, <1>7

(* What is shown in a tab after repair. *)
ShownIn(cut, allowed, i) == {cut[i].root[p] : p \in KeptIn(cut, allowed, i)}

(* The leaves that are kept show each terminal that may be shown once. *)
LEMMA KeptAre ==
  ASSUME NEW cut, ShapedTabs(cut), NEW allowed
  PROVE  /\ \A i \in 1..Len(cut) : /\ KeptIn(cut, allowed, i) \in SUBSET DOMAIN cut[i].root
                                   /\ ShownIn(cut, allowed, i) \subseteq allowed
         /\ \A i, j \in 1..Len(cut) :
              \A p \in KeptIn(cut, allowed, i), q \in KeptIn(cut, allowed, j) :
                cut[i].root[p] = cut[j].root[q] => i = j /\ p = q
         /\ UNION {ShownIn(cut, allowed, i) : i \in LiveIn(cut, allowed)} = ShownBy(cut) \cap allowed
<1>1. PICK S : S = Survivors(cut, allowed)
  OBVIOUS
<1>2. /\ \A x \in S : /\ x = <<x[1], x[2]>> /\ x[1] \in 1..Len(cut) /\ x[2] \in DOMAIN cut[x[1]].root
                      /\ cut[x[1]].root[x[2]] \in allowed
      /\ \A x, y \in S : cut[x[1]].root[x[2]] = cut[y[1]].root[y[2]] => x = y
      /\ \A id \in ShownBy(cut) \cap allowed : \E x \in S : cut[x[1]].root[x[2]] = id
  BY <1>1, SurvivorsAre
<1>3. \A i : KeptIn(cut, allowed, i) = {x[2] : x \in {x \in S : x[1] = i}}
  BY <1>1 DEF KeptIn
<1>4. ASSUME NEW i, NEW p \in KeptIn(cut, allowed, i)
      PROVE  /\ <<i, p>> \in S /\ i \in 1..Len(cut) /\ p \in DOMAIN cut[i].root
             /\ cut[i].root[p] \in allowed
  <2>1. PICK x \in S : x[1] = i /\ p = x[2]
    BY <1>3
  <2>2. x = <<i, p>>
    BY <2>1, <1>2
  <2>3. QED
    BY <2>1, <2>2, <1>2
<1>5. ASSUME NEW x \in S
      PROVE  /\ x[2] \in KeptIn(cut, allowed, x[1]) /\ x[1] \in LiveIn(cut, allowed)
             /\ cut[x[1]].root[x[2]] \in ShownIn(cut, allowed, x[1])
  <2>1. x[2] \in KeptIn(cut, allowed, x[1])
    BY <1>3
  <2>2. QED
    BY <2>1, <1>2 DEF LiveIn, ShownIn
<1>6. ASSUME NEW i \in 1..Len(cut)
      PROVE  /\ KeptIn(cut, allowed, i) \in SUBSET DOMAIN cut[i].root
             /\ ShownIn(cut, allowed, i) \subseteq allowed
  BY <1>4 DEF ShownIn
<1>7. ASSUME NEW i, NEW j, NEW p \in KeptIn(cut, allowed, i), NEW q \in KeptIn(cut, allowed, j),
             cut[i].root[p] = cut[j].root[q]
      PROVE  i = j /\ p = q
  <2>1. PICK x \in S, y \in S : x = <<i, p>> /\ y = <<j, q>>
    BY <1>4
  <2>2. x[1] = i /\ x[2] = p /\ y[1] = j /\ y[2] = q
    BY <2>1
  <2>3. x = y
    BY <2>2, <1>2, <1>7
  <2>4. QED
    BY <2>2, <2>3
<1>8. ASSUME NEW i \in LiveIn(cut, allowed), NEW id \in ShownIn(cut, allowed, i)
      PROVE  id \in ShownBy(cut) \cap allowed
  <2>1. PICK p \in KeptIn(cut, allowed, i) : id = cut[i].root[p]
    BY <1>8 DEF ShownIn
  <2>2. i \in 1..Len(cut) /\ p \in DOMAIN cut[i].root /\ id \in allowed
    BY <2>1, <1>4
  <2>3. id \in IDsOf(cut[i].root)
    BY <2>1, <2>2 DEF IDsOf
  <2>4. QED
    BY <2>2, <2>3 DEF ShownBy
<1>9. ASSUME NEW id \in ShownBy(cut) \cap allowed
      PROVE  \E i \in LiveIn(cut, allowed) : id \in ShownIn(cut, allowed, i)
  <2>1. PICK x \in S : cut[x[1]].root[x[2]] = id
    BY <1>2
  <2>2. QED
    BY <2>1, <1>5
<1>10. UNION {ShownIn(cut, allowed, i) : i \in LiveIn(cut, allowed)} = ShownBy(cut) \cap allowed
  BY <1>8, <1>9
<1>11. QED
  BY <1>6, <1>7, <1>10

(* A tab of which something is kept is one again. *)
LEMMA MendedIs ==
  ASSUME NEW cut \in Seq(RawTabs), \A i \in 1..Len(cut) : Shallow(cut[i].root), SessionLayoutAssumption,
         NEW allowed, NEW i \in LiveIn(cut, allowed)
  PROVE  /\ Mended(cut, allowed, i) \in Tabs
         /\ IDsOf(Mended(cut, allowed, i).root) = ShownIn(cut, allowed, i)
<1>1. PICK t, id, kept : t = cut[i].root /\ id = cut[i].focus /\ kept = KeptIn(cut, allowed, i)
  OBVIOUS
<1>2. i \in 1..Len(cut) /\ kept # {}
  BY <1>1 DEF LiveIn
<1>3. ShapedTabs(cut) /\ t \in RawRoots
  BY <1>1, <1>2, RawTabsAre
<1>4. Shape(DOMAIN t) /\ IDsOf(t) \subseteq IDs /\ Shallow(t)
  BY <1>1, <1>2, <1>3, RawRootIs
<1>5. kept \in SUBSET DOMAIN t /\ \A p, q \in kept : t[p] = t[q] => p = q
  BY <1>1, <1>2, <1>3, KeptAre
<1>6. PICK root : root = Pruned(t, kept)
  OBVIOUS
<1>7. /\ IsTree(root) /\ IDsOf(root) = {t[p] : p \in kept}
      /\ \A b \in Nat : (\A p \in DOMAIN t : Len(p) < b) => \A p \in DOMAIN root : Len(p) < b
  BY <1>2, <1>4, <1>5, <1>6, PrunedIsTree
<1>8. Shallow(root)
  BY <1>4, <1>7 DEF Shallow, SessionLayoutAssumption
<1>9. IDsOf(root) = ShownIn(cut, allowed, i)
  BY <1>1, <1>7 DEF ShownIn
<1>10. IDsOf(root) \subseteq IDs
  BY <1>4, <1>5, <1>7 DEF IDsOf
<1>11. PICK focus : focus = IF Holds(root, id) THEN id ELSE First(root)
  OBVIOUS
<1>12. focus \in IDsOf(root)
  <2>1. First(root) \in IDsOf(root)
    BY <1>7, FirstInside DEF IsTree
  <2>2. QED
    BY <2>1, <1>11 DEF Holds
<1>13. Mended(cut, allowed, i) = Tab(root, focus)
  BY <1>1, <1>6, <1>11 DEF Mended
<1>14. Tab(root, focus) \in Tabs /\ Tab(root, focus).root = root
  BY <1>7, <1>8, <1>10, <1>12, TabType
<1>15. QED
  BY <1>9, <1>13, <1>14

(* Repair makes any stored layout good, and shows what may be shown. *)
LEMMA RepairedGood ==
  ASSUME SessionLayoutAssumption, NEW l, RawLayout(l), NEW allowed
  PROVE  /\ GoodLayout(Repaired(l, allowed))
         /\ ShownBy(Repaired(l, allowed).tabs) \subseteq allowed
         /\ (\A i \in 1..Len(l.tabs) : Shallow(l.tabs[i].root))
              => ShownBy(Repaired(l, allowed).tabs) = ShownBy(l.tabs) \cap allowed
<1>1. PICK cut, live, r : /\ cut = CutTabs(l.tabs) /\ live = LiveIn(cut, allowed)
                          /\ r = Repaired(l, allowed)
  OBVIOUS
<1>2. /\ cut \in Seq(RawTabs) /\ Len(cut) = Len(l.tabs) /\ \A i \in 1..Len(cut) : Shallow(cut[i].root)
      /\ (\A i \in 1..Len(l.tabs) : Shallow(l.tabs[i].root)) => cut = l.tabs
  BY <1>1, CutTabsAre DEF RawLayout
<1>3. ShapedTabs(cut) /\ Len(cut) \in Nat
  BY <1>2, RawTabsAre, LenProperties
<1>4. live \in SUBSET (1..Len(cut)) /\ l.focused \in Nat
  BY <1>1 DEF LiveIn, RawLayout
<1>5. PICK c : c = Cardinality(live)
  OBVIOUS
<1>6. /\ c \in Nat
      /\ \A k \in 1..c : Nth(live, k) \in live /\ Rank(live, Nth(live, k)) = k
      /\ \A i \in live : Rank(live, i) \in 1..c /\ Nth(live, Rank(live, i)) = i
  BY <1>3, <1>4, <1>5, NthIs
<1>7. PICK tabs : tabs = [n \in 1..c |-> Mended(cut, allowed, Nth(live, n))]
  OBVIOUS
<1>8. r = [tabs |-> tabs, focused |-> FocusAfter(live, l.focused)]
  BY <1>1, <1>5, <1>7, RepairedIs
<1>9. \A i \in live : /\ Mended(cut, allowed, i) \in Tabs
                      /\ IDsOf(Mended(cut, allowed, i).root) = ShownIn(cut, allowed, i)
  BY <1>1, <1>2, MendedIs
<1>10. tabs \in Seq(Tabs) /\ Len(tabs) = c /\ \A n \in 1..c : tabs[n] = Mended(cut, allowed, Nth(live, n))
  <2>1. \A n \in 1..c : Mended(cut, allowed, Nth(live, n)) \in Tabs
    BY <1>6, <1>9
  <2>2. tabs \in Seq(Tabs)
    BY <2>1, <1>6, <1>7, IsASeq
  <2>3. QED
    BY <2>2, <1>6, <1>7, LenProperties
<1>11. \A n \in 1..c : IDsOf(tabs[n].root) = ShownIn(cut, allowed, Nth(live, n))
  BY <1>6, <1>9, <1>10
<1>12. ASSUME NEW n \in 1..c, NEW m \in 1..c, n # m
       PROVE  IDsOf(tabs[n].root) \cap IDsOf(tabs[m].root) = {}
  <2>1. PICK i \in live, j \in live : i = Nth(live, n) /\ j = Nth(live, m)
    BY <1>6
  <2>2. i # j
    BY <2>1, <1>6, <1>12
  <2>3. ASSUME NEW id \in ShownIn(cut, allowed, i), id \in ShownIn(cut, allowed, j) PROVE FALSE
    <3>1. PICK p \in KeptIn(cut, allowed, i) : id = cut[i].root[p]
      BY <2>3 DEF ShownIn
    <3>2. PICK q \in KeptIn(cut, allowed, j) : id = cut[j].root[q]
      BY <2>3 DEF ShownIn
    <3>3. i \in 1..Len(cut) /\ j \in 1..Len(cut)
      BY <1>4
    <3>4. i = j
      BY <3>1, <3>2, <3>3, <1>3, KeptAre
    <3>5. QED
      BY <3>4, <2>2
  <2>4. QED
    BY <2>1, <2>3, <1>11
<1>13. GoodTabs(tabs)
  BY <1>10, <1>12 DEF GoodTabs
<1>14. IF c = 0 THEN FocusAfter(live, l.focused) = 1 ELSE FocusAfter(live, l.focused) \in 1..c
  BY <1>3, <1>4, <1>5, FocusAfterIs
<1>15. GoodLayout(r)
  <2>1. tabs = <<>> <=> c = 0
    BY <1>10, NoTabs
  <2>2. r.tabs = tabs /\ r.focused = FocusAfter(live, l.focused)
        /\ r = [tabs |-> r.tabs, focused |-> r.focused]
    BY <1>8
  <2>3. QED
    BY <2>1, <2>2, <1>10, <1>13, <1>14 DEF GoodLayout
<1>16. ShownBy(tabs) = ShownBy(cut) \cap allowed
  <2>1. ShownBy(tabs) = UNION {ShownIn(cut, allowed, Nth(live, n)) : n \in 1..c}
    BY <1>10, <1>11 DEF ShownBy
  <2>2. {ShownIn(cut, allowed, Nth(live, n)) : n \in 1..c} = {ShownIn(cut, allowed, i) : i \in live}
    <3>1. \A n \in 1..c : \E i \in live : i = Nth(live, n)
      BY <1>6
    <3>2. \A i \in live : \E n \in 1..c : i = Nth(live, n)
      BY <1>6
    <3>3. QED
      BY <3>1, <3>2
  <2>3. UNION {ShownIn(cut, allowed, i) : i \in live} = ShownBy(cut) \cap allowed
    BY <1>1, <1>3, KeptAre
  <2>4. QED
    BY <2>1, <2>2, <2>3
<1>17. r.tabs = tabs
  BY <1>8
<1>18. QED
  BY <1>1, <1>2, <1>15, <1>16, <1>17

(* What is good may be stored. *)
LEMMA GoodIsRaw ==
  ASSUME NEW l, GoodLayout(l)
  PROVE  RawLayout(l) /\ Len(l.tabs) \in Nat
<1>1. /\ l.tabs \in Seq(Tabs) /\ GoodTabs(l.tabs)
      /\ IF l.tabs = <<>> THEN l.focused = 1 ELSE l.focused \in 1..Len(l.tabs)
  BY DEF GoodLayout, GoodTabs
<1>2. Len(l.tabs) \in Nat
  BY <1>1, LenProperties
<1>3. l.focused \in Nat
  BY <1>1, <1>2
<1>4. ASSUME NEW tab \in Tabs PROVE tab \in RawTabs
  <2>1. /\ IsTree(tab.root) /\ IDsOf(tab.root) \subseteq IDs /\ tab = Tab(tab.root, tab.focus)
        /\ tab.focus \in IDsOf(tab.root)
    BY TabFacts
  <2>2. tab.root \in RawRoots
    BY <2>1, RawRootIs DEF IsTree
  <2>3. [root |-> tab.root, focus |-> tab.focus] \in RawTabs
    BY <2>1, <2>2 DEF RawTabs
  <2>4. QED
    BY <2>1, <2>3 DEF Tab
<1>5. l.tabs \in Seq(RawTabs)
  BY <1>1, <1>4, SeqMonotonic
<1>6. QED
  BY <1>2, <1>3, <1>5 DEF RawLayout

(* A good layout is sound. *)
LEMMA GoodIsSound ==
  ASSUME SessionLayoutAssumption, NEW l, GoodLayout(l), NEW allowed, ShownBy(l.tabs) \subseteq allowed
  PROVE  Sound(l, allowed)
<1>1. GoodTabs(l.tabs)
  BY DEF GoodLayout
<1>2. ASSUME NEW i \in 1..Len(l.tabs)
      PROVE  /\ Depth(l.tabs[i].root) <= MaxDepth
             /\ IDsOf(l.tabs[i].root) \subseteq allowed
             /\ Holds(l.tabs[i].root, l.tabs[i].focus)
  <2>1. /\ IsTree(l.tabs[i].root) /\ Shallow(l.tabs[i].root)
        /\ IDsOf(l.tabs[i].root) \subseteq ShownBy(l.tabs)
        /\ l.tabs[i].focus \in IDsOf(l.tabs[i].root)
    BY <1>1, TabOfGood
  <2>2. MaxDepth \in Nat
    BY DEF SessionLayoutAssumption
  <2>3. Depth(l.tabs[i].root) <= MaxDepth
    BY <2>1, <2>2, DepthIs DEF Shallow, IsTree
  <2>4. QED
    BY <2>1, <2>3 DEF Holds
<1>3. \A x, y \in Leaves(l) : l.tabs[x[1]].root[x[2]] = l.tabs[y[1]].root[y[2]] => x = y
  BY <1>1, LeavesDiffer
<1>4. IF l.tabs = <<>> THEN l.focused = 1 ELSE l.focused \in 1..Len(l.tabs)
  BY DEF GoodLayout
<1>5. QED
  BY <1>2, <1>3, <1>4 DEF Sound

(* In a row of n, each is at the place it counts to. *)
LEMMA RankInRow ==
  ASSUME NEW n \in Nat, NEW i \in 1..n
  PROVE  /\ Rank(1..n, i) = i /\ Nth(1..n, i) = i
         /\ Cardinality({j \in 1..n : j < i}) = i - 1
<1>1. {j \in 1..n : j <= i} = 1..i /\ {j \in 1..n : j < i} = 1..i - 1
  OBVIOUS
<1>2. i \in Nat /\ i - 1 \in Nat
  OBVIOUS
<1>3. Cardinality(1..i) = i
  BY <1>2, CountOfInterval
<1>4. Cardinality(1..i - 1) = i - 1
  <2>1. PICK k \in Nat : k = i - 1
    BY <1>2
  <2>2. Cardinality(1..k) = k
    BY CountOfInterval
  <2>3. QED
    BY <2>1, <2>2
<1>5. Rank(1..n, i) = i
  BY <1>1, <1>3 DEF Rank
<1>6. Nth(1..n, Rank(1..n, i)) = i
  <2>1. PICK live : live = 1..n
    OBVIOUS
  <2>2. live \in SUBSET (1..n) /\ i \in live
    BY <2>1
  <2>3. Nth(live, Rank(live, i)) = i
    BY <2>2, NthIs
  <2>4. QED
    BY <2>1, <2>3
<1>7. QED
  BY <1>1, <1>4, <1>5, <1>6

(* Repair leaves a good layout as it is. *)
LEMMA RepairedToItself ==
  ASSUME SessionLayoutAssumption, NEW l, GoodLayout(l), NEW allowed, ShownBy(l.tabs) \subseteq allowed
  PROVE  Repaired(l, allowed) = l
<1>1. PICK tabs, n : tabs = l.tabs /\ n = Len(tabs)
  OBVIOUS
<1>2. /\ tabs \in Seq(RawTabs) /\ GoodTabs(tabs) /\ n \in Nat /\ tabs \in Seq(Tabs)
      /\ l = [tabs |-> tabs, focused |-> l.focused]
      /\ IF tabs = <<>> THEN l.focused = 1 ELSE l.focused \in 1..n
  BY <1>1, GoodIsRaw DEF RawLayout, GoodLayout, GoodTabs
<1>3. ASSUME NEW i \in 1..n
      PROVE  /\ IsTree(tabs[i].root) /\ Shallow(tabs[i].root)
             /\ tabs[i].focus \in IDsOf(tabs[i].root)
             /\ tabs[i] = Tab(tabs[i].root, tabs[i].focus)
  BY <1>1, <1>2, TabOfGood
<1>4. tabs = CutTabs(tabs)
  BY <1>1, <1>2, <1>3, CutTabsAre
<1>5. ShapedTabs(tabs)
  BY <1>2, RawTabsAre
<1>6. PICK live : live = LiveIn(tabs, allowed)
  OBVIOUS
<1>7. ASSUME NEW i \in 1..n PROVE KeptIn(tabs, allowed, i) = DOMAIN tabs[i].root
  <2>1. KeptIn(tabs, allowed, i) \in SUBSET DOMAIN tabs[i].root
    BY <1>1, <1>5, KeptAre
  <2>2. ASSUME NEW p \in DOMAIN tabs[i].root PROVE p \in KeptIn(tabs, allowed, i)
    <3>1. PICK id : id = tabs[i].root[p]
      OBVIOUS
    <3>2. id \in IDsOf(tabs[i].root)
      BY <3>1 DEF IDsOf
    <3>3. id \in ShownBy(tabs) \cap allowed
      BY <3>2, <1>1 DEF ShownBy
    <3>4. id \in UNION {ShownIn(tabs, allowed, j) : j \in LiveIn(tabs, allowed)}
      BY <3>3, <1>5, KeptAre
    <3>5. PICK j \in LiveIn(tabs, allowed) : id \in ShownIn(tabs, allowed, j)
      BY <3>4
    <3>6. PICK q \in KeptIn(tabs, allowed, j) : id = tabs[j].root[q]
      BY <3>5 DEF ShownIn
    <3>7. j \in 1..n /\ q \in DOMAIN tabs[j].root
      BY <3>6, <1>1, <1>5, KeptAre DEF LiveIn
    <3>8. id \in IDsOf(tabs[j].root)
      BY <3>6, <3>7 DEF IDsOf
    <3>9. i = j
      BY <3>2, <3>7, <3>8, <1>1, <1>2 DEF GoodTabs
    <3>10. p = q
      BY <3>1, <3>6, <3>7, <3>9, <1>3 DEF IsTree
    <3>11. QED
      BY <3>6, <3>9, <3>10
  <2>3. QED
    BY <2>1, <2>2
<1>8. live = 1..n
  <2>1. \A i \in 1..n : DOMAIN tabs[i].root # {}
    BY <1>3 DEF IsTree, Shape
  <2>2. QED
    BY <2>1, <1>1, <1>6, <1>7 DEF LiveIn
<1>9. Cardinality(live) = n
  BY <1>2, <1>8, CountOfInterval
<1>10. ASSUME NEW i \in 1..n PROVE Mended(tabs, allowed, Nth(live, i)) = tabs[i]
  <2>1. Nth(live, i) = i
    BY <1>2, <1>8, RankInRow
  <2>2. Pruned(tabs[i].root, DOMAIN tabs[i].root) = tabs[i].root
    BY <1>3, PrunedToAll DEF IsTree
  <2>3. Mended(tabs, allowed, i) = Tab(tabs[i].root, tabs[i].focus)
    BY <2>2, <1>3, <1>7 DEF Mended, Holds
  <2>4. QED
    BY <2>1, <2>3, <1>3
<1>11. [i \in 1..n |-> Mended(tabs, allowed, Nth(live, i))] = tabs
  <2>1. tabs = [i \in 1..n |-> tabs[i]]
    BY <1>1, <1>2, LenProperties
  <2>2. [i \in 1..n |-> Mended(tabs, allowed, Nth(live, i))] = [i \in 1..n |-> tabs[i]]
    BY <1>10
  <2>3. QED
    BY <2>1, <2>2
<1>12. FocusAfter(live, l.focused) = l.focused
  <2>1. tabs = <<>> <=> n = 0
    BY <1>1, <1>2, NoTabs
  <2>2. CASE n = 0
    BY <2>1, <2>2, <1>2, <1>9 DEF FocusAfter
  <2>3. CASE n # 0
    <3>1. PICK f \in 1..n : f = l.focused
      BY <2>1, <2>3, <1>2
    <3>2. Cardinality({i \in 1..n : i < f}) = f - 1
      BY <1>2, RankInRow
    <3>3. f - 1 + 1 = f
      BY <1>2
    <3>4. FocusAfter(live, f) = f
      BY <2>3, <3>2, <3>3, <1>8, <1>9 DEF FocusAfter
    <3>5. QED
      BY <3>1, <3>4
  <2>4. QED
    BY <2>2, <2>3
<1>13. Repaired(l, allowed) =
         [tabs |-> [i \in 1..n |-> Mended(tabs, allowed, Nth(live, i))],
          focused |-> FocusAfter(live, l.focused)]
  BY <1>1, <1>4, <1>6, <1>9, RepairedIs
<1>14. QED
  BY <1>2, <1>11, <1>12, <1>13

(* A stored layout in which one tab came to be another. *)
LEMMA RawReplaced ==
  ASSUME NEW l, RawLayout(l), NEW i \in 1..Len(l.tabs), NEW tab \in RawTabs, NEW d,
         d.tabs = [l.tabs EXCEPT ![i] = tab], d.focused = l.focused
  PROVE  RawLayout(d)
<1>1. l.tabs \in Seq(RawTabs) /\ l.focused \in Nat
  BY DEF RawLayout
<1>2. [l.tabs EXCEPT ![i] = tab] \in Seq(RawTabs)
  BY <1>1, ExceptSeq
<1>3. QED
  BY <1>1, <1>2 DEF RawLayout

(* A stored tab with another tree. *)
LEMMA RawRerooted ==
  ASSUME NEW tab \in RawTabs, NEW root \in RawRoots
  PROVE  [tab EXCEPT !.root = root] \in RawTabs
BY DEF RawTabs

(* A stored tab with its focus elsewhere. *)
LEMMA RawRefocused ==
  ASSUME NEW tab \in RawTabs, NEW id \in IDs
  PROVE  [tab EXCEPT !.focus = id] \in RawTabs
BY DEF RawTabs

(* A tree in which a pane names another terminal may be stored. *)
LEMMA RawRenamed ==
  ASSUME NEW t \in RawRoots, NEW p \in DOMAIN t, NEW id \in IDs
  PROVE  [t EXCEPT ![p] = id] \in RawRoots
<1>1. Shape(DOMAIN t) /\ t = [q \in DOMAIN t |-> t[q]] /\ IDsOf(t) \subseteq IDs
  BY RawRootIs
<1>2. PICK u : u = [t EXCEPT ![p] = id]
  OBVIOUS
<1>3. DOMAIN u = DOMAIN t /\ u = [q \in DOMAIN u |-> u[q]]
  BY <1>2
<1>4. ASSUME NEW q \in DOMAIN t PROVE u[q] \in IDs
  <2>1. t[q] \in IDs
    BY <1>1 DEF IDsOf
  <2>2. u[q] = IF q = p THEN id ELSE t[q]
    BY <1>2
  <2>3. QED
    BY <2>1, <2>2
<1>5. IDsOf(u) \subseteq IDs
  BY <1>3, <1>4 DEF IDsOf
<1>6. u \in RawRoots
  BY <1>1, <1>3, <1>5, RawRootIs
<1>7. QED
  BY <1>2, <1>6

(* A tree nested beside itself may be stored. *)
LEMMA RawDoubled ==
  ASSUME NEW t \in RawRoots
  PROVE  Split(t, t) \in RawRoots
<1>1. Shape(DOMAIN t) /\ IDsOf(t) \subseteq IDs
  BY RawRootIs
<1>2. PICK u : u = Split(t, t)
  OBVIOUS
<1>3. Shape(DOMAIN u) /\ u = [p \in DOMAIN u |-> u[p]] /\ IDsOf(u) = IDsOf(t) \cup IDsOf(t)
  BY <1>1, <1>2, SplitShape
<1>4. IDsOf(u) \subseteq IDs
  BY <1>1, <1>3
<1>5. u \in RawRoots
  BY <1>3, <1>4, RawRootIs
<1>6. QED
  BY <1>2, <1>5

(* The kinds of damage, by name. *)
Misfocused(l, i) == [l EXCEPT !.focused = i]
Renamed(l, x, id) == [l EXCEPT !.tabs[x[1]].root[x[2]] = id]
Refocusing(l, i, id) == [l EXCEPT !.tabs[i].focus = id]
Doubled(l, i) == [l EXCEPT !.tabs[i].root = Split(@, @)]

(* They make up Damaged. *)
LEMMA DamagedIs ==
  ASSUME NEW l
  PROVE  Damaged(l) = {Misfocused(l, i) : i \in 0..Len(l.tabs) + 1}
                        \cup {Renamed(l, x, id) : x \in Leaves(l), id \in existing}
                        \cup {Refocusing(l, i, id) : i \in 1..Len(l.tabs), id \in existing}
                        \cup {Doubled(l, i) : i \in 1..Len(l.tabs)}
BY DEF Damaged, Misfocused, Renamed, Refocusing, Doubled

(* Every damage leaves a layout that may be stored. *)
LEMMA DamagedIsRaw ==
  ASSUME NEW l, GoodLayout(l), existing \subseteq IDs, NEW d \in Damaged(l)
  PROVE  RawLayout(d)
<1>1. /\ RawLayout(l) /\ Len(l.tabs) \in Nat /\ l.focused \in Nat /\ l.tabs \in Seq(RawTabs)
      /\ l = [tabs |-> l.tabs, focused |-> l.focused]
  BY GoodIsRaw DEF RawLayout, GoodLayout
<1>2. ShapedTabs(l.tabs) /\ \A i \in 1..Len(l.tabs) : l.tabs[i].root \in RawRoots
  BY <1>1, RawTabsAre
<1>3. \A i \in 1..Len(l.tabs) : l.tabs[i] \in RawTabs
  BY <1>1, ElementOfSeq
<1>4. CASE d \in {Misfocused(l, i) : i \in 0..Len(l.tabs) + 1}
  <2>1. PICK i \in 0..Len(l.tabs) + 1 : d = Misfocused(l, i)
    BY <1>4
  <2>2. d = [tabs |-> l.tabs, focused |-> i]
    BY <2>1, <1>1 DEF Misfocused
  <2>3. d.tabs = l.tabs /\ d.focused = i /\ i \in Nat
    BY <2>2, <1>1
  <2>4. QED
    BY <2>3, <1>1 DEF RawLayout
<1>5. CASE d \in {Renamed(l, x, id) : x \in Leaves(l), id \in existing}
  <2>1. PICK x \in Leaves(l), id \in existing : d = Renamed(l, x, id)
    BY <1>5
  <2>2. PICK i, p : i = x[1] /\ p = x[2]
    OBVIOUS
  <2>3. i \in 1..Len(l.tabs) /\ p \in DOMAIN l.tabs[i].root
    BY <2>2, <1>2, LeavesAre
  <2>4. PICK root, tab : /\ root = [l.tabs[i].root EXCEPT ![p] = id]
                         /\ tab = [l.tabs[i] EXCEPT !.root = [l.tabs[i].root EXCEPT ![p] = id]]
    OBVIOUS
  <2>5. root \in RawRoots /\ tab = [l.tabs[i] EXCEPT !.root = root]
    BY <2>3, <2>4, <1>2, RawRenamed
  <2>6. tab \in RawTabs
    BY <2>3, <2>5, <1>3, RawRerooted
  <2>7. d = [tabs |-> [l.tabs EXCEPT ![i] = tab], focused |-> l.focused]
    BY <2>1, <2>2, <2>4, <1>1 DEF Renamed
  <2>8. d.tabs = [l.tabs EXCEPT ![i] = tab] /\ d.focused = l.focused
    BY <2>7
  <2>9. QED
    BY <2>3, <2>6, <2>8, <1>1, RawReplaced
<1>6. CASE d \in {Refocusing(l, i, id) : i \in 1..Len(l.tabs), id \in existing}
  <2>1. PICK i \in 1..Len(l.tabs), id \in existing : d = Refocusing(l, i, id)
    BY <1>6
  <2>2. PICK tab : tab = [l.tabs[i] EXCEPT !.focus = id]
    OBVIOUS
  <2>3. tab \in RawTabs
    BY <2>2, <1>3, RawRefocused
  <2>4. d = [tabs |-> [l.tabs EXCEPT ![i] = tab], focused |-> l.focused]
    BY <2>1, <2>2, <1>1 DEF Refocusing
  <2>5. d.tabs = [l.tabs EXCEPT ![i] = tab] /\ d.focused = l.focused
    BY <2>4
  <2>6. QED
    BY <2>3, <2>5, <1>1, RawReplaced
<1>7. CASE d \in {Doubled(l, i) : i \in 1..Len(l.tabs)}
  <2>1. PICK i \in 1..Len(l.tabs) : d = Doubled(l, i)
    BY <1>7
  <2>2. PICK root, tab : /\ root = Split(l.tabs[i].root, l.tabs[i].root)
                         /\ tab = [l.tabs[i] EXCEPT !.root = Split(l.tabs[i].root, l.tabs[i].root)]
    OBVIOUS
  <2>3. root \in RawRoots /\ tab = [l.tabs[i] EXCEPT !.root = root]
    BY <2>2, <1>2, RawDoubled
  <2>4. tab \in RawTabs
    BY <2>3, <1>3, RawRerooted
  <2>5. d = [tabs |-> [l.tabs EXCEPT ![i] = tab], focused |-> l.focused]
    BY <2>1, <2>2, <1>1 DEF Doubled
  <2>6. d.tabs = [l.tabs EXCEPT ![i] = tab] /\ d.focused = l.focused
    BY <2>5
  <2>7. QED
    BY <2>4, <2>6, <1>1, RawReplaced
<1>8. QED
  BY <1>4, <1>5, <1>6, <1>7, DamagedIs

-----------------------------------------------------------------------------
(* The invariant: the tabs are trees that share no terminal, no leaf too     *)
(* deep, each with its focus on one of its terminals, and show between them  *)
(* the terminals there are.                                                  *)
LayoutInv ==
  /\ GoodLayout(layout)
  /\ ShownBy(layout.tabs) = existing

(* The layout of a session without terminals. *)
LEMMA NothingShown == GoodLayout(Empty) /\ ShownBy(Empty.tabs) = {}
<1>1. <<>> \in Seq(Tabs) /\ Len(<<>>) = 0 /\ 1..0 = {}
  OBVIOUS
<1>2. Empty.tabs = <<>> /\ Empty.focused = 1 /\ Empty = [tabs |-> Empty.tabs, focused |-> Empty.focused]
  BY DEF Empty
<1>3. QED
  BY <1>1, <1>2 DEF GoodLayout, GoodTabs, ShownBy

(* The invariant holds at first. *)
LEMMA LayoutInitInv == Init => LayoutInv
BY NothingShown DEF Init, LayoutInv

(* A terminal in a new tab keeps it. *)
LEMMA NewTabInv ==
  ASSUME SessionLayoutAssumption, LayoutInv, NEW id \in IDs, NewTab(id)
  PROVE  LayoutInv'
<1>1. id \notin ShownBy(layout.tabs) /\ GoodLayout(layout) /\ ShownBy(layout.tabs) = existing
  BY DEF LayoutInv, NewTab
<1>2. layout' = Appended(layout, id, TRUE) /\ existing' = existing \cup {id}
  BY DEF NewTab
<1>3. /\ GoodLayout(Appended(layout, id, TRUE))
      /\ ShownBy(Appended(layout, id, TRUE).tabs) = ShownBy(layout.tabs) \cup {id}
  BY <1>1, AppendedGood
<1>4. GoodLayout(layout') /\ ShownBy(layout'.tabs) = existing'
  BY <1>1, <1>2, <1>3
<1>5. QED
  BY <1>4 DEF LayoutInv, GoodLayout, ShownBy

(* So does one in a split. *)
LEMMA NewSplitInv ==
  ASSUME SessionLayoutAssumption, LayoutInv, NEW beside \in IDs, NEW id \in IDs, NewSplit(beside, id)
  PROVE  LayoutInv'
<1>1. /\ beside \in ShownBy(layout.tabs) /\ id \notin ShownBy(layout.tabs)
      /\ GoodLayout(layout) /\ ShownBy(layout.tabs) = existing
  BY DEF LayoutInv, NewSplit
<1>2. /\ layout' = SplitBeside(layout, beside, id) /\ existing' = existing \cup {id}
      /\ SplitBeside(layout, beside, id) # layout
  BY DEF NewSplit
<1>3. \/ SplitBeside(layout, beside, id) = layout
      \/ /\ GoodLayout(SplitBeside(layout, beside, id))
         /\ ShownBy(SplitBeside(layout, beside, id).tabs) = ShownBy(layout.tabs) \cup {id}
  BY <1>1, SplitBesideGood
<1>4. GoodLayout(layout') /\ ShownBy(layout'.tabs) = existing'
  BY <1>1, <1>2, <1>3
<1>5. QED
  BY <1>4 DEF LayoutInv, GoodLayout, ShownBy

(* So does closing one. *)
LEMMA CloseInv ==
  ASSUME SessionLayoutAssumption, LayoutInv, NEW id \in IDs, Close(id)
  PROVE  LayoutInv'
<1>1. id \in ShownBy(layout.tabs) /\ GoodLayout(layout) /\ ShownBy(layout.tabs) = existing
  BY DEF LayoutInv, Close
<1>2. layout' = Closed(layout, id) /\ existing' = existing \ {id}
  BY DEF Close
<1>3. GoodLayout(Closed(layout, id)) /\ ShownBy(Closed(layout, id).tabs) = ShownBy(layout.tabs) \ {id}
  BY <1>1, ClosedGood
<1>4. GoodLayout(layout') /\ ShownBy(layout'.tabs) = existing'
  BY <1>1, <1>2, <1>3
<1>5. QED
  BY <1>4 DEF LayoutInv, GoodLayout, ShownBy

(* The other actions leave the terminals alone. *)
LEMMA StillShown ==
  ASSUME LayoutInv, GoodLayout(layout'), ShownBy(layout'.tabs) = ShownBy(layout.tabs),
         UNCHANGED existing
  PROVE  LayoutInv'
BY DEF LayoutInv, GoodLayout, ShownBy

(* Moving a tab. *)
LEMMA MoveTabInv ==
  ASSUME LayoutInv, NEW from, NEW to, MoveTab(from, to)
  PROVE  LayoutInv'
<1>1. /\ from \in 1..Len(layout.tabs) /\ to \in 1..Len(layout.tabs) /\ GoodLayout(layout)
      /\ layout' = TabMoved(layout, from, to) /\ UNCHANGED existing
  BY DEF LayoutInv, MoveTab
<1>2. /\ GoodLayout(TabMoved(layout, from, to))
      /\ ShownBy(TabMoved(layout, from, to).tabs) = ShownBy(layout.tabs)
  BY <1>1, TabMovedGood
<1>3. QED
  BY <1>1, <1>2, StillShown

(* Moving a terminal. *)
LEMMA MoveTerminalInv ==
  ASSUME SessionLayoutAssumption, LayoutInv, NEW id \in IDs, MoveTerminal(id)
  PROVE  LayoutInv'
<1>1. /\ id \in ShownBy(layout.tabs) /\ GoodLayout(layout) /\ UNCHANGED existing
      /\ \/ layout' = ToNewTab(layout, id)
         \/ \E target \in existing, leads \in BOOLEAN :
              layout' = ToBeside(layout, id, target, leads)
         \/ \E i \in 1..Len(layout.tabs) : layout' = ToTab(layout, id, i)
  BY DEF LayoutInv, MoveTerminal
<1>2. CASE layout' = ToNewTab(layout, id)
  <2>1. /\ GoodLayout(ToNewTab(layout, id))
        /\ ShownBy(ToNewTab(layout, id).tabs) = ShownBy(layout.tabs)
    BY <1>1, ToNewTabGood
  <2>2. QED
    BY <2>1, <1>1, <1>2, StillShown
<1>3. CASE \E target \in existing, leads \in BOOLEAN :
             layout' = ToBeside(layout, id, target, leads)
  <2>1. PICK target \in existing, leads \in BOOLEAN :
               layout' = ToBeside(layout, id, target, leads)
    BY <1>3
  <2>2. /\ GoodLayout(ToBeside(layout, id, target, leads))
        /\ ShownBy(ToBeside(layout, id, target, leads).tabs) = ShownBy(layout.tabs)
    BY <1>1, ToBesideGood
  <2>3. QED
    BY <2>1, <2>2, <1>1, StillShown
<1>4. CASE \E i \in 1..Len(layout.tabs) : layout' = ToTab(layout, id, i)
  <2>1. PICK i \in 1..Len(layout.tabs) : layout' = ToTab(layout, id, i)
    BY <1>4
  <2>2. /\ GoodLayout(ToTab(layout, id, i))
        /\ ShownBy(ToTab(layout, id, i).tabs) = ShownBy(layout.tabs)
    BY <1>1, ToTabGood
  <2>3. QED
    BY <2>1, <2>2, <1>1, StillShown
<1>5. QED
  BY <1>1, <1>2, <1>3, <1>4

(* Going round the panes. *)
LEMMA FocusNeighbourInv ==
  ASSUME LayoutInv, NEW forward \in BOOLEAN, FocusNeighbour(forward)
  PROVE  LayoutInv'
<1>1. /\ layout.tabs # <<>> /\ GoodLayout(layout)
      /\ layout' = FocusMoved(layout, forward) /\ UNCHANGED existing
  BY DEF LayoutInv, FocusNeighbour
<1>2. /\ GoodLayout(FocusMoved(layout, forward))
      /\ ShownBy(FocusMoved(layout, forward).tabs) = ShownBy(layout.tabs)
  BY <1>1, FocusMovedGood
<1>3. QED
  BY <1>1, <1>2, StillShown

(* So every step keeps it. *)
LEMMA LayoutNextInv == SessionLayoutAssumption /\ LayoutInv /\ [Next]_vars => LayoutInv'
<1> SUFFICES ASSUME SessionLayoutAssumption, LayoutInv, [Next]_vars PROVE LayoutInv'
  OBVIOUS
<1>1. ASSUME NEW id \in IDs, NewTab(id) PROVE LayoutInv'
  BY <1>1, NewTabInv
<1>2. ASSUME NEW id \in IDs, Close(id) PROVE LayoutInv'
  BY <1>2, CloseInv
<1>3. ASSUME NEW id \in IDs, MoveTerminal(id) PROVE LayoutInv'
  BY <1>3, MoveTerminalInv
<1>4. ASSUME NEW beside \in IDs, NEW id \in IDs, NewSplit(beside, id) PROVE LayoutInv'
  BY <1>4, NewSplitInv
<1>5. ASSUME NEW from, NEW to, MoveTab(from, to) PROVE LayoutInv'
  BY <1>5, MoveTabInv
<1>6. ASSUME NEW forward \in BOOLEAN, FocusNeighbour(forward) PROVE LayoutInv'
  BY <1>6, FocusNeighbourInv
<1>7. CASE UNCHANGED vars
  BY <1>7 DEF vars, LayoutInv, GoodLayout, ShownBy
<1>8. QED
  BY <1>1, <1>2, <1>3, <1>4, <1>5, <1>6, <1>7 DEF Next

(* And it always holds. *)
LEMMA LayoutInvariance == SessionLayoutAssumption => (Spec => []LayoutInv)
<1> SUFFICES ASSUME SessionLayoutAssumption PROVE Spec => []LayoutInv
  OBVIOUS
<1>1. Init => LayoutInv
  BY LayoutInitInv
<1>2. LayoutInv /\ [Next]_vars => LayoutInv'
  BY LayoutNextInv
<1>3. QED
  BY <1>1, <1>2, PTL DEF Spec

(* Whatever the daemon and the clients do to a layout, and whatever the      *)
(* deepest a tree may be, it shows each of the session's terminals once, at  *)
(* no leaf too deep, with every focus on a pane there is                     *)
(* (session-layout.ts, layoutViolations).                                    *)
THEOREM ShowsEachOnce == SessionLayoutAssumption => (Spec => []EachTerminalOnce)
<1> SUFFICES ASSUME SessionLayoutAssumption PROVE Spec => []EachTerminalOnce
  OBVIOUS
<1>1. LayoutInv => EachTerminalOnce
  <2> SUFFICES ASSUME LayoutInv PROVE EachTerminalOnce
    OBVIOUS
  <2>1. GoodLayout(layout) /\ ShownBy(layout.tabs) = existing
    BY DEF LayoutInv
  <2>2. Sound(layout, existing)
    BY <2>1, GoodIsSound
  <2>3. QED
    BY <2>1, <2>2, ShownIs DEF EachTerminalOnce
<1>2. QED
  BY <1>1, LayoutInvariance, PTL

(* Moving tabs, and closing a terminal other than the focused one, leave the *)
(* focus on the terminal it was on, though its tab may have moved            *)
(* (session-layout.ts, moveTab and closeTerminal).                           *)
THEOREM KeepsFocus == SessionLayoutAssumption => (Spec => [][FocusKept]_vars)
<1> SUFFICES ASSUME SessionLayoutAssumption PROVE Spec => [][FocusKept]_vars
  OBVIOUS
<1>1. LayoutInv /\ [Next]_vars => [FocusKept]_vars
  <2> SUFFICES ASSUME LayoutInv,
                      \/ \E from, to \in 1..Len(layout.tabs) : MoveTab(from, to)
                      \/ \E id \in existing : id # Focused(layout) /\ Close(id)
               PROVE  Focused(layout') = Focused(layout)
    BY DEF FocusKept
  <2>1. ASSUME NEW from \in 1..Len(layout.tabs), NEW to \in 1..Len(layout.tabs), MoveTab(from, to)
        PROVE  Focused(layout') = Focused(layout)
    <3>1. layout' = TabMoved(layout, from, to) /\ GoodLayout(layout)
      BY <2>1 DEF MoveTab, LayoutInv
    <3>2. PICK m : m = TabMoved(layout, from, to)
      OBVIOUS
    <3>3. m.tabs[m.focused] = layout.tabs[layout.focused]
      BY <3>1, <3>2, TabMovedGood
    <3>4. QED
      BY <3>1, <3>2, <3>3 DEF Focused
  <2>2. ASSUME NEW id \in existing, id # Focused(layout), Close(id)
        PROVE  Focused(layout') = Focused(layout)
    <3>1. layout' = Closed(layout, id) /\ GoodLayout(layout) /\ id \in ShownBy(layout.tabs)
      BY <2>2 DEF Close, LayoutInv
    <3>2. Focused(Closed(layout, id)) = Focused(layout)
      BY <3>1, <2>2, ClosedKeepsFocus
    <3>3. QED
      BY <3>1, <3>2 DEF Focused
  <2>3. QED
    BY <2>1, <2>2
<1>2. QED
  BY <1>1, LayoutInvariance, PTL DEF Spec

(* Repair leaves the layout of a session as it is, makes each damaged one    *)
(* sound for whatever part of the terminals was read, and keeps every pane   *)
(* it may, none being too deep (session-layout.ts, repairLayout).            *)
THEOREM RepairsMend == SessionLayoutAssumption => (Spec => []RepairMends)
<1> SUFFICES ASSUME SessionLayoutAssumption PROVE Spec => []RepairMends
  OBVIOUS
<1>1. LayoutInv => RepairMends
  <2> SUFFICES ASSUME LayoutInv PROVE RepairMends
    OBVIOUS
  <2>1. GoodLayout(layout) /\ ShownBy(layout.tabs) = existing /\ existing \subseteq IDs
    BY ShownAreIDs DEF LayoutInv, GoodLayout
  <2>2. Repaired(layout, existing) = layout
    BY <2>1, RepairedToItself
  <2>3. ASSUME NEW d \in Damaged(layout), NEW allowed \in SUBSET existing
        PROVE  /\ Sound(Repaired(d, allowed), allowed)
               /\ (\A i \in 1..Len(d.tabs) : Depth(d.tabs[i].root) <= MaxDepth)
                    => Shown(Repaired(d, allowed)) = Shown(d) \cap allowed
    <3>1. RawLayout(d)
      BY <2>1, DamagedIsRaw
    <3>2. PICK r : r = Repaired(d, allowed)
      OBVIOUS
    <3>3. /\ GoodLayout(r) /\ ShownBy(r.tabs) \subseteq allowed
          /\ (\A i \in 1..Len(d.tabs) : Shallow(d.tabs[i].root))
               => ShownBy(r.tabs) = ShownBy(d.tabs) \cap allowed
      BY <3>1, <3>2, RepairedGood
    <3>4. Sound(r, allowed)
      BY <3>3, GoodIsSound
    <3>5. ASSUME \A i \in 1..Len(d.tabs) : Depth(d.tabs[i].root) <= MaxDepth
          PROVE  \A i \in 1..Len(d.tabs) : Shallow(d.tabs[i].root)
      <4> SUFFICES ASSUME NEW i \in 1..Len(d.tabs) PROVE Shallow(d.tabs[i].root)
        OBVIOUS
      <4>1. Shape(DOMAIN d.tabs[i].root)
        BY <3>1, RawTabsAre DEF RawLayout, ShapedTabs
      <4>2. MaxDepth \in Nat /\ Depth(d.tabs[i].root) <= MaxDepth
        BY <3>5 DEF SessionLayoutAssumption
      <4>3. QED
        BY <4>1, <4>2, DepthIs DEF Shallow
    <3>6. Shown(r) = ShownBy(r.tabs) /\ Shown(d) = ShownBy(d.tabs)
      BY ShownIs
    <3>7. QED
      BY <3>2, <3>3, <3>4, <3>5, <3>6
  <2>4. QED
    BY <2>2, <2>3 DEF RepairMends
<1>2. QED
  BY <1>1, LayoutInvariance, PTL
=============================================================================
