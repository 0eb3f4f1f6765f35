----------------------- MODULE PseudoTerminal_proofs -----------------------
(***************************************************************************)
(* Proofs about PseudoTerminal, for every number of terminals and slots,   *)
(* every pair of water marks, and every size of reads and drains: the ring *)
(* delivers what was read, in order, whatever the two threads do between   *)
(* each other's steps; a reader sleeps only when it should; and a terminal *)
(* that ended has delivered everything and has its own exit code.          *)
(*                                                                         *)
(* The invariant has a part for the ring, for the reader thread, for the   *)
(* daemon's side of a terminal, and for the table of handles.  Positions   *)
(* in the ring are written without remainders: an index wraps once.        *)
(***************************************************************************)
EXTENDS PseudoTerminal, Integers, FiniteSetTheorems, SequenceTheorems,
        WellFoundedInduction, TLAPS

(* The cell that is i after the k-th of a ring of n. *)
Cell(k, i, n) == IF k + i < n THEN k + i ELSE k + i - n

Holding(p) == p.at \in {"read", "commit"}

(* The ring of a terminal whose capacity is n, when d bytes of it have been *)
(* delivered: its live cells, the stretch the reader writes to, and, read   *)
(* and not committed, that stretch's bytes.                                 *)
RingOf(p, d, n) ==
  /\ p.head < n /\ p.len <= n /\ p.tail = Cell(p.head, p.len, n)
  /\ ~Holding(p) => p.room = 0
  /\ Holding(p) => p.room > 0 /\ p.tail + p.room <= n /\ p.len + p.room <= n
  /\ p.taken = d + p.len + (IF p.at = "commit" THEN p.room ELSE 0)
  /\ p.taken <= p.written
  /\ \A i \in 0..p.len - 1 : p.buf[Cell(p.head, i, n)] = d + i + 1
  /\ p.at = "commit" => \A i \in 0..p.room - 1 : p.buf[p.tail + i] = d + p.len + i + 1

Ring(p, d) == \E n \in 1..Ceiling : p \in Pty(n) /\ RingOf(p, d, n)

(* The reader: what it knows at each place.  A stream that ended by itself  *)
(* is one whose child writes no more and whose bytes have all been taken.   *)
Winding == {"reap", "store", "publish", "retire", "done"}

Thread(t, p) ==
  /\ p.at # "gate" => p.child # "unborn"
  /\ p.at \in {"tail", "read"} => p.taken < p.written \/ p.child # "running"
  /\ p.at = "parking" => p.len > LowWater
  /\ p.at = "close" => p.hungUp
  /\ p.hungUp => p.shutdown
  /\ p.at \in Winding => p.hungUp \/ (p.taken = p.written /\ p.child # "running")
  /\ p.at \in Winding \ {"reap"} => p.child = "dead"
  /\ p.finished <=> p.at \in {"publish", "retire", "done"}
  /\ p.code = (IF p.finished THEN t ELSE None)
  /\ p.stopped <=> p.at \in {"retire", "done"}

(* The daemon's side s of a terminal p. *)
Held(t, p, s) ==
  /\ p.at = "parked" => p.len > LowWater \/ s.doing = "notify"
  /\ p.shutdown => s.closed
  /\ s.closed => ~s.running /\ p.child # "unborn"
  /\ s.running => p.child # "unborn"
  /\ p.child # "unborn" /\ ~s.running /\ ~s.closed =>
       p.stopped /\ s.delivered = p.written /\ s.status = t
  /\ s.status \in {None, t}

(* The table: a handle names its own terminal, or what is kept of it. *)
Named(t) ==
  /\ side[t].handle[1] <= Len(table)
  /\ side[t].handle[2] <= SlotOf(t).generation
  /\ Holds(t) => \/ SlotOf(t).of = t
                 \/ SlotOf(t).of = None /\ SlotOf(t).code = t
  /\ ~(pty[t].shutdown /\ pty[t].finished) => Occupied(t)

(* A slot has had at most as many generations as there are of these. *)
Spawned == {t \in Terminals : Reading(t)}

Table ==
  /\ \A k \in 1..Len(free) : free[k] <= Len(table) /\ table[free[k]].of = None
  /\ \A k, l \in 1..Len(free) : free[k] = free[l] => k = l
  /\ \A t \in Terminals : Reading(t) => Named(t)
  /\ \A t, u \in Terminals :
       Reading(t) /\ Reading(u) /\ side[t].handle = side[u].handle => t = u
  /\ \A k \in 1..Len(table) : table[k].generation <= Cardinality(Spawned)

Inv ==
  /\ TypeOK
  /\ \A t \in Terminals : Ring(pty[t], side[t].delivered)
  /\ \A t \in Terminals : Thread(t, pty[t])
  /\ \A t \in Terminals : Held(t, pty[t], side[t])
  /\ Table

-----------------------------------------------------------------------------
(* Arithmetic of the ring. *)

LEMMA Constants ==
  /\ MaxBytes \in Nat /\ LowWater \in Nat /\ HighWater \in Nat \ {0}
  /\ ReadSize \in Nat \ {0} /\ DrainSize \in Nat \ {0} /\ MaxSlots \in Nat \ {0}
  /\ Ceiling \in Nat /\ Ceiling > ReadSize /\ LowWater < HighWater
  /\ None \notin Terminals /\ MaxGeneration \in Nat \ {0}
BY PseudoTerminalAssumption DEF Ceiling

LEMMA CapacityIs ==
  ASSUME NEW n \in Nat \ {0}, NEW p \in Pty(n)
  PROVE  CapacityOf(p) = n /\ DOMAIN p.buf = 0..n - 1
<1>1. DOMAIN p.buf = 0..n - 1
  BY DEF Pty
<1>2. Cardinality(0..n - 1) = n
  BY FS_Interval
<1>3. QED
  BY <1>1, <1>2 DEF CapacityOf

(* An index wraps around at most once. *)
LEMMA WrapsOnce ==
  ASSUME NEW n \in Nat \ {0}, NEW k \in 0..n - 1, NEW i \in 0..n
  PROVE  (k + i) % n = Cell(k, i, n) /\ Cell(k, i, n) \in 0..n - 1
<1>1. CASE k + i < n
  BY <1>1 DEF Cell
<1>2. CASE ~(k + i < n)
  BY <1>2 DEF Cell
<1>3. QED
  BY <1>1, <1>2

LEMMA CellInRing ==
  ASSUME NEW n \in Nat \ {0}, NEW k \in 0..n - 1, NEW i \in 0..n
  PROVE  Cell(k, i, n) \in 0..n - 1
BY WrapsOnce

(* How far a cell lies behind the head. *)
LEMMA DistanceFromHead ==
  ASSUME NEW n \in Nat \ {0}, NEW k \in 0..n - 1, NEW i \in 0..n - 1
  PROVE  (Cell(k, i, n) + n - k) % n = i
<1>1. CASE k + i < n
  <2>1. Cell(k, i, n) + n - k = i + n
    BY <1>1 DEF Cell
  <2>2. QED
    BY <2>1
<1>2. CASE ~(k + i < n)
  <2>1. Cell(k, i, n) + n - k = i
    BY <1>2 DEF Cell
  <2>2. QED
    BY <2>1
<1>3. QED
  BY <1>1, <1>2

(* Cells that differ in their distance from the head are different. *)
LEMMA CellsDiffer ==
  ASSUME NEW n \in Nat \ {0}, NEW k \in 0..n - 1, NEW i \in 0..n - 1, NEW j \in 0..n - 1,
         Cell(k, i, n) = Cell(k, j, n)
  PROVE  i = j
BY DEF Cell

(* A non-empty set of natural numbers has a least element. *)
LEMMA LeastNatural ==
  ASSUME NEW S \in SUBSET Nat, S # {}
  PROVE  \E n \in S : \A m \in S : n <= m
<1> DEFINE Below == {0..n : n \in S}
<1>1. \A n \in S : 0..n \in FiniteSubsetsOf(Nat)
  BY FS_Interval DEF FiniteSubsetsOf
<1>2. Below \subseteq FiniteSubsetsOf(Nat) /\ Below # {}
  BY <1>1
<1>3. PICK least \in Below : \A other \in Below : <<other, least>> \notin StrictSubsetOrdering(Nat)
  <2> HIDE DEF Below
  <2> QED BY <1>2, FS_StrictSubsetOrderingWellFounded, WFMin
<1>4. PICK n \in S : least = 0..n
  OBVIOUS
<1>5. ASSUME NEW m \in S, m < n PROVE FALSE
  <2>1. 0..m \subseteq 0..n /\ n \in 0..n /\ n \notin 0..m
    BY <1>5
  <2>2. 0..m \in Below
    OBVIOUS
  <2>3. 0..m \subseteq least /\ 0..m # least /\ least \in SUBSET Nat /\ 0..m \in SUBSET Nat
    BY <2>1, <1>4
  <2>4. <<0..m, least>> \in StrictSubsetOrdering(Nat)
    BY <2>3 DEF StrictSubsetOrdering
  <2>5. QED
    BY <2>2, <2>4, <1>3
<1>6. QED
  BY <1>5

LEMMA CellAdds ==
  ASSUME NEW n \in Nat \ {0}, NEW k \in 0..n - 1, NEW i \in Nat, NEW j \in Nat, i + j <= n
  PROVE  Cell(Cell(k, i, n), j, n) = Cell(k, i + j, n)
BY DEF Cell

-----------------------------------------------------------------------------
(* What the operations of the ring do to it. *)

(* The fields no operation of the ring but growing leaves as they are. *)
SameButRing(p, q) ==
  /\ q.child = p.child /\ q.written = p.written /\ q.taken = p.taken /\ q.len = p.len
  /\ q.paused = p.paused /\ q.stopped = p.stopped /\ q.at = p.at /\ q.room = p.room
  /\ q.hungUp = p.hungUp /\ q.master = p.master /\ q.wake = p.wake
  /\ q.shutdown = p.shutdown /\ q.finished = p.finished /\ q.code = p.code

(* The fields of a terminal, for the provers. *)
LEMMA PtyFields ==
  ASSUME NEW n \in 1..Ceiling, NEW p \in Pty(n)
  PROVE  /\ p.written \in Nat /\ p.taken \in Nat /\ p.written <= MaxBytes
         /\ p.head \in Nat /\ p.tail \in Nat /\ p.len \in Nat /\ p.room \in Nat
         /\ p.room <= ReadSize
         /\ p.buf \in [0..n - 1 -> 0..MaxBytes]
         /\ n \in Nat \ {0} /\ n <= Ceiling
BY Constants DEF Pty

(* The cells the reader writes to lie behind the live ones. *)
LEMMA WrittenCells ==
  ASSUME NEW n \in 1..Ceiling, NEW p \in Pty(n), NEW d \in Nat, RingOf(p, d, n), Holding(p),
         NEW j \in 0..p.room - 1
  PROVE  /\ p.tail + j = Cell(p.head, p.len + j, n)
         /\ p.head \in 0..n - 1 /\ p.len + j \in 0..n - 1
<1>1. /\ p.head \in 0..n - 1 /\ p.len + j \in 0..n - 1
      /\ p.tail + j < n /\ p.tail = Cell(p.head, p.len, n) /\ p.tail \in Nat
      /\ p.len \in Nat /\ n \in Nat \ {0} /\ j \in Nat
  <2>1. /\ p.head \in Nat /\ p.tail \in Nat /\ p.len \in Nat /\ p.room \in Nat
        /\ n \in Nat \ {0}
    BY PtyFields
  <2>2. /\ p.head < n /\ p.tail = Cell(p.head, p.len, n)
        /\ p.tail + p.room <= n /\ p.len + p.room <= n
    BY DEF RingOf
  <2>3. j \in Nat /\ j < p.room
    BY <2>1
  <2>4. QED
    BY <2>1, <2>2, <2>3
<1>2. Cell(p.tail, j, n) = p.tail + j
  BY <1>1 DEF Cell
<1>3. QED
  BY <1>1, <1>2, CellAdds

LEMMA SizeForRoom ==
  ASSUME NEW n \in 1..Ceiling, NEW p \in Pty(n)
  PROVE  SizeFor(p, ReadSize) \in n..Ceiling
<1> DEFINE enough == {m \in CapacityOf(p)..Ceiling :
                        m = Ceiling \/ (Doubles(m, CapacityOf(p)) /\ m >= p.len + ReadSize)}
<1>1. CapacityOf(p) = n /\ n \in Nat /\ n <= Ceiling /\ Ceiling \in Nat /\ p.len \in Nat
  BY CapacityIs, PtyFields, Constants
<1>2. Ceiling \in enough /\ enough \in SUBSET Nat /\ enough \subseteq n..Ceiling
  BY <1>1
<1>3. PICK m \in enough : \A other \in enough : m <= other
  <2> HIDE DEF enough
  <2> QED BY <1>2, LeastNatural
<1>4. SizeFor(p, ReadSize) \in enough
  <2>1. SizeFor(p, ReadSize) = CHOOSE least \in enough : \A other \in enough : least <= other
    BY DEF SizeFor
  <2> HIDE DEF enough
  <2>2. QED
    BY <1>3, <2>1
<1>5. QED
  <2> HIDE DEF enough
  <2> QED BY <1>1, <1>2, <1>4

(* grow_for: the bytes are those that were there. *)
LEMMA GrownRing ==
  ASSUME NEW n \in 1..Ceiling, NEW p \in Pty(n), NEW d \in Nat, RingOf(p, d, n), ~Holding(p)
  PROVE  /\ SameButRing(p, Grown(p, ReadSize))
         /\ \E m \in 1..Ceiling : Grown(p, ReadSize) \in Pty(m) /\ RingOf(Grown(p, ReadSize), d, m)
<1> DEFINE size == SizeFor(p, ReadSize)
           cells == [i \in 0..size - 1 |->
                       IF i < p.len THEN p.buf[(p.head + i) % CapacityOf(p)] ELSE 0]
           q == [p EXCEPT !.buf = cells, !.head = 0, !.tail = p.len]
<1>1. /\ CapacityOf(p) = n /\ p.head \in 0..n - 1 /\ p.len \in 0..n
      /\ p.buf \in [0..n - 1 -> 0..MaxBytes] /\ n \in Nat \ {0} /\ n <= Ceiling /\ Ceiling \in Nat
  BY CapacityIs, PtyFields, Constants DEF RingOf
<1>2. size \in n..Ceiling /\ (size # n => size > p.len)
  <2>1. size \in n..Ceiling
    BY SizeForRoom
  <2> HIDE DEF size
  <2>2. QED
    BY <1>1, <2>1
<1>3. CASE size = n
  <2>1. Grown(p, ReadSize) = p
    BY <1>1, <1>3 DEF Grown
  <2>2. QED
    BY <2>1 DEF SameButRing
<1>4. CASE size # n
  <2> HIDE DEF size
  <2>1. Grown(p, ReadSize) = q
    BY <1>1, <1>4 DEF Grown, size
  <2>2. ASSUME NEW i \in 0..p.len - 1
        PROVE  /\ i \in 0..size - 1 /\ cells[i] = p.buf[Cell(p.head, i, n)]
               /\ Cell(p.head, i, n) \in 0..n - 1 /\ Cell(0, i, size) = i
    <3>1. i \in 0..n /\ i < p.len /\ i \in 0..size - 1
      BY <1>1, <1>2, <1>4
    <3>2. (p.head + i) % n = Cell(p.head, i, n) /\ Cell(p.head, i, n) \in 0..n - 1
      BY <1>1, <3>1, WrapsOnce
    <3>3. Cell(0, i, size) = i
      BY <1>2, <3>1 DEF Cell
    <3>4. QED
      BY <1>1, <3>1, <3>2, <3>3
  <2>3. cells \in [0..size - 1 -> 0..MaxBytes]
    <3> SUFFICES ASSUME NEW i \in 0..size - 1 PROVE cells[i] \in 0..MaxBytes
      OBVIOUS
    <3>1. CASE i < p.len
      <4>1. i \in 0..p.len - 1
        BY <1>1, <1>2, <3>1
      <4>2. QED
        BY <4>1, <2>2, <1>1
    <3>2. CASE ~(i < p.len)
      BY <3>2, Constants
    <3>3. QED
      BY <3>1, <3>2
  <2>4. /\ \A i \in 0..p.len - 1 : cells[i] = d + i + 1 /\ Cell(0, i, size) = i
        /\ p.len = Cell(0, p.len, size) /\ p.len < size
    <3>1. \A i \in 0..p.len - 1 : cells[i] = d + i + 1 /\ Cell(0, i, size) = i
      <4> HIDE DEF cells
      <4> QED BY <2>2 DEF RingOf
    <3>2. p.len \in Nat /\ p.len < size
      BY <1>1, <1>2, <1>4
    <3>3. QED
      BY <3>1, <3>2, SMTT(30) DEF Cell
  <2> HIDE DEF cells
  <2>5. SameButRing(p, q)
    BY DEF SameButRing, Pty
  <2>6. q \in Pty(size)
    <3>1. p.len \in 0..Ceiling /\ 0 \in 0..Ceiling
      BY <1>1, Constants
    <3>2. QED
      BY <2>3, <3>1 DEF Pty
  <2>7. RingOf(q, d, size)
    <3>1. q.head = 0 /\ q.tail = p.len /\ q.buf = cells /\ q.len = p.len
      BY DEF Pty
    <3>2. /\ q.head < size /\ q.len <= size /\ q.tail = Cell(q.head, q.len, size)
          /\ \A i \in 0..q.len - 1 : q.buf[Cell(q.head, i, size)] = d + i + 1
      BY <3>1, <2>4, <1>1, <1>2, <1>4
    <3> HIDE DEF q
    <3>3. QED
      BY <3>2, <2>5 DEF RingOf, SameButRing, Holding
  <2>8. size \in 1..Ceiling
    BY <1>1, <1>2
  <2>9. QED
    BY <2>1, <2>5, <2>6, <2>7, <2>8
<1>5. QED
  BY <1>3, <1>4

(* What Reads makes of a terminal when it gets m bytes. *)
WithRead(p, m) ==
  [p EXCEPT !.at = "commit", !.room = m, !.taken = @ + m,
            !.buf = [i \in DOMAIN p.buf |->
                       IF i \in p.tail..p.tail + m - 1 THEN p.taken + 1 + i - p.tail ELSE p.buf[i]]]

(* A read writes behind the live cells, the bytes that come next. *)
LEMMA ReadRing ==
  ASSUME NEW n \in 1..Ceiling, NEW p \in Pty(n), NEW d \in Nat, RingOf(p, d, n), p.at = "read",
         NEW m \in 1..p.room, p.taken + m <= p.written
  PROVE  WithRead(p, m) \in Pty(n) /\ RingOf(WithRead(p, m), d, n)
<1> DEFINE cells == [i \in DOMAIN p.buf |->
                       IF i \in p.tail..p.tail + m - 1 THEN p.taken + 1 + i - p.tail ELSE p.buf[i]]
           q == WithRead(p, m)
<1>1. /\ p.written \in Nat /\ p.taken \in Nat /\ p.written <= MaxBytes /\ MaxBytes \in Nat
      /\ p.head \in Nat /\ p.tail \in Nat /\ p.len \in Nat /\ p.room \in Nat /\ p.room <= ReadSize
      /\ p.buf \in [0..n - 1 -> 0..MaxBytes] /\ DOMAIN p.buf = 0..n - 1
      /\ n \in Nat \ {0} /\ n <= Ceiling /\ ReadSize \in Nat
  BY PtyFields, Constants
<1>2. m \in Nat /\ m > 0 /\ m <= p.room
  BY <1>1
<1>3. /\ p.head < n /\ p.len <= n /\ p.tail = Cell(p.head, p.len, n)
      /\ p.tail + p.room <= n /\ p.len + p.room <= n /\ p.taken = d + p.len
      /\ \A i \in 0..p.len - 1 : p.buf[Cell(p.head, i, n)] = d + i + 1
      /\ Holding(p)
  <2>1. Holding(p)
    BY DEF Holding
  <2>2. p.taken = d + p.len + 0
    BY DEF RingOf
  <2>3. p.taken = d + p.len
    BY <2>2, <1>1
  <2>4. QED
    BY <2>1, <2>3 DEF RingOf
<1>4. cells \in [0..n - 1 -> 0..MaxBytes]
  <2> SUFFICES ASSUME NEW i \in 0..n - 1 PROVE cells[i] \in 0..MaxBytes
    BY <1>1
  <2>1. CASE i \in p.tail..p.tail + m - 1
    <3>1. cells[i] = p.taken + 1 + i - p.tail
      BY <2>1, <1>1
    <3>2. i - p.tail \in 0..m - 1 /\ i \in Nat
      BY <2>1, <1>1, <1>2, SMTT(30)
    <3> DEFINE j == i - p.tail
    <3>3. p.taken + 1 + i - p.tail = p.taken + 1 + j
      BY <3>2, <1>1
    <3>4. j \in 0..m - 1
      BY <3>2
    <3> HIDE DEF j
    <3>5. p.taken + 1 + j \in 0..MaxBytes
      <4>1. /\ p.taken \in Nat /\ m \in Nat /\ p.written \in Nat /\ MaxBytes \in Nat
            /\ p.written <= MaxBytes
        BY <1>1, <1>2
      <4>2. p.taken + m <= MaxBytes
        BY <4>1
      <4>3. QED
        BY <4>1, <4>2, <3>4
    <3>6. QED
      BY <3>1, <3>3, <3>5
  <2>2. CASE i \notin p.tail..p.tail + m - 1
    BY <2>2, <1>1
  <2>3. QED
    BY <2>1, <2>2
<1>5. \A i \in 0..p.len - 1 : cells[Cell(p.head, i, n)] = d + i + 1
  <2> SUFFICES ASSUME NEW i \in 0..p.len - 1 PROVE cells[Cell(p.head, i, n)] = d + i + 1
    OBVIOUS
  <2>1. i \in 0..n - 1 /\ i < p.len /\ i \in 0..n /\ p.head \in 0..n - 1
    <3>1. /\ p.len \in Nat /\ n \in Nat /\ p.head \in Nat /\ p.head < n /\ p.len <= n
      BY <1>1, <1>3
    <3>2. QED
      BY <3>1
  <2>2. Cell(p.head, i, n) \in 0..n - 1
    BY <2>1, <1>1, WrapsOnce
  <2>3. ASSUME Cell(p.head, i, n) \in p.tail..p.tail + m - 1 PROVE FALSE
    <3> DEFINE j == Cell(p.head, i, n) - p.tail
    <3>1. j \in 0..p.room - 1 /\ p.tail + j = Cell(p.head, i, n)
      <4>1. p.tail \in Nat /\ p.room \in Nat /\ n \in Nat
        BY <1>1
      <4>2. QED
        BY <4>1, <2>2, <2>3, <1>2
    <3> HIDE DEF j
    <3>2. p.tail + j = Cell(p.head, p.len + j, n) /\ p.len + j \in 0..n - 1
      BY <3>1, <1>3, WrittenCells
    <3>3. i = p.len + j
      BY <3>1, <3>2, <2>1, <1>1, CellsDiffer
    <3>4. QED
      BY <3>1, <3>3, <2>1, <1>1
  <2>4. cells[Cell(p.head, i, n)] = p.buf[Cell(p.head, i, n)]
    BY <2>2, <2>3, <1>1
  <2>5. QED
    BY <2>4, <1>3
<1>6. \A i \in 0..m - 1 : cells[p.tail + i] = d + p.len + i + 1
  <2> SUFFICES ASSUME NEW i \in 0..m - 1 PROVE cells[p.tail + i] = d + p.len + i + 1
    OBVIOUS
  <2>1. p.tail + i \in 0..n - 1 /\ p.tail + i \in p.tail..p.tail + m - 1
    <3>1. p.tail \in Nat /\ p.room \in Nat /\ n \in Nat /\ p.tail + p.room <= n
      BY <1>1, <1>3
    <3>2. QED
      BY <3>1, <1>2
  <2>2. cells[p.tail + i] = p.taken + 1 + (p.tail + i) - p.tail
    BY <2>1, <1>1
  <2>3. QED
    BY <2>2, <1>1, <1>2, <1>3
<1>7. q = [p EXCEPT !.at = "commit", !.room = m, !.taken = @ + m, !.buf = cells]
  BY DEF WithRead
<1> HIDE DEF cells, q
<1>8. /\ q.at = "commit" /\ q.room = m /\ q.taken = p.taken + m /\ q.buf = cells
      /\ q.head = p.head /\ q.tail = p.tail /\ q.len = p.len /\ q.written = p.written
  BY <1>7 DEF Pty
<1>9. q \in Pty(n)
  <2>1. m \in 0..ReadSize /\ p.taken + m \in 0..MaxBytes
    BY <1>1, <1>2
  <2>2. QED
    BY <2>1, <1>4, <1>7 DEF Pty, Places
<1>10. RingOf(q, d, n)
  <2>1. Holding(q)
    BY <1>8 DEF Holding
  <2>2. p.tail + m <= n /\ p.len + m <= n
    BY <1>1, <1>2, <1>3, SMTT(30)
  <2>3. p.taken + m = d + p.len + m
    BY <1>3
  <2>4. QED
    BY <2>1, <2>2, <2>3, <1>2, <1>3, <1>5, <1>6, <1>8 DEF RingOf
<1>11. QED
  BY <1>9, <1>10 DEF q

(* commit: the stretch becomes live. *)
LEMMA CommitRing ==
  ASSUME NEW n \in 1..Ceiling, NEW p \in Pty(n), NEW d \in Nat, RingOf(p, d, n), p.at = "commit"
  PROVE  LET q == [Committed(p) EXCEPT !.at = "gate"] IN q \in Pty(n) /\ RingOf(q, d, n)
<1> DEFINE q == [Committed(p) EXCEPT !.at = "gate"]
<1>1. /\ p.written \in Nat /\ p.taken \in Nat
      /\ p.head \in Nat /\ p.tail \in Nat /\ p.len \in Nat /\ p.room \in Nat
      /\ n \in Nat \ {0} /\ n <= Ceiling /\ Ceiling \in Nat /\ ReadSize \in Nat
      /\ CapacityOf(p) = n
  BY PtyFields, Constants, CapacityIs
<1>2. /\ p.head < n /\ p.len <= n /\ p.tail = Cell(p.head, p.len, n) /\ p.room > 0
      /\ p.tail + p.room <= n /\ p.len + p.room <= n /\ p.taken = d + p.len + p.room
      /\ p.taken <= p.written /\ Holding(p)
      /\ \A i \in 0..p.len - 1 : p.buf[Cell(p.head, i, n)] = d + i + 1
      /\ \A i \in 0..p.room - 1 : p.buf[p.tail + i] = d + p.len + i + 1
  BY DEF RingOf, Holding
<1>3. (p.tail + p.room) % n = Cell(p.head, p.len + p.room, n)
  <2>1. p.tail \in 0..n - 1 /\ p.room \in 0..n
    BY <1>1, <1>2
  <2>2. (p.tail + p.room) % n = Cell(p.tail, p.room, n)
    BY <2>1, <1>1, WrapsOnce
  <2>3. Cell(p.tail, p.room, n) = Cell(p.head, p.len + p.room, n)
    <3>1. p.head \in 0..n - 1
      BY <1>1, <1>2
    <3>2. QED
      BY <3>1, <1>1, <1>2, CellAdds
  <2>4. QED
    BY <2>2, <2>3
<1>4. \A i \in 0..p.len + p.room - 1 : p.buf[Cell(p.head, i, n)] = d + i + 1
  <2> SUFFICES ASSUME NEW i \in 0..p.len + p.room - 1
               PROVE  p.buf[Cell(p.head, i, n)] = d + i + 1
    OBVIOUS
  <2>1. CASE i < p.len
    <3>1. i \in 0..p.len - 1
      BY <2>1, <1>1
    <3>2. QED
      BY <3>1, <1>2
  <2>2. CASE ~(i < p.len)
    <3> DEFINE j == i - p.len
    <3>1. j \in 0..p.room - 1 /\ i = p.len + j
      BY <2>2, <1>1
    <3> HIDE DEF j
    <3>2. p.tail + j = Cell(p.head, i, n)
      BY <3>1, <1>2, WrittenCells
    <3>3. p.buf[p.tail + j] = d + p.len + j + 1
      BY <3>1, <1>2
    <3>4. d + p.len + j + 1 = d + i + 1
      BY <3>1, <1>1
    <3>5. QED
      BY <3>2, <3>3, <3>4
  <2>3. QED
    BY <2>1, <2>2
<1>5. q = [p EXCEPT !.tail = Cell(p.head, p.len + p.room, n), !.len = p.len + p.room,
                    !.room = 0, !.at = "gate"]
  BY <1>1, <1>3 DEF Committed, Pty
<1> HIDE DEF q
<1>6. /\ q.tail = Cell(p.head, p.len + p.room, n) /\ q.len = p.len + p.room /\ q.room = 0
      /\ q.at = "gate" /\ q.head = p.head /\ q.buf = p.buf /\ q.taken = p.taken
      /\ q.written = p.written
  BY <1>5 DEF Pty
<1>7. q \in Pty(n)
  <2>1. p.len + p.room \in 0..Ceiling /\ 0 \in 0..ReadSize
    BY <1>1, <1>2
  <2>2. Cell(p.head, p.len + p.room, n) \in 0..Ceiling
    <3>1. p.head \in 0..n - 1 /\ p.len + p.room \in 0..n
      BY <1>1, <1>2
    <3>2. Cell(p.head, p.len + p.room, n) \in 0..n - 1
      BY <3>1, <1>1, WrapsOnce
    <3>3. QED
      BY <3>2, <1>1
  <2>3. QED
    BY <2>1, <2>2, <1>5 DEF Pty, Places
<1>8. RingOf(q, d, n)
  <2>1. ~Holding(q)
    BY <1>6 DEF Holding
  <2>2. p.taken = d + (p.len + p.room) + 0
    BY <1>1, <1>2
  <2>3. q.at # "commit"
    BY <1>6
  <2>4. q.taken = d + q.len + (IF q.at = "commit" THEN q.room ELSE 0)
    BY <2>2, <2>3, <1>6
  <2>5. /\ q.head < n /\ q.len <= n /\ q.tail = Cell(q.head, q.len, n) /\ q.room = 0
        /\ q.taken <= q.written
    BY <1>2, <1>6
  <2>6. \A i \in 0..q.len - 1 : q.buf[Cell(q.head, i, n)] = d + i + 1
    <3>1. q.len = p.len + p.room /\ q.buf = p.buf /\ q.head = p.head
      BY <1>6
    <3>2. ASSUME NEW i \in 0..q.len - 1 PROVE p.buf[Cell(p.head, i, n)] = d + i + 1
      <4>1. i \in 0..p.len + p.room - 1
        BY <3>1, <1>1
      <4>2. QED
        BY <4>1, <1>4
    <3>3. QED
      BY <3>1, <3>2
  <2>7. QED
    BY <2>1, <2>3, <2>4, <2>5, <2>6 DEF RingOf
<1>9. QED
  BY <1>7, <1>8 DEF q

(* drain_into: the first m bytes are delivered. *)
LEMMA DrainRing ==
  ASSUME NEW n \in 1..Ceiling, NEW p \in Pty(n), NEW d \in Nat, RingOf(p, d, n),
         NEW m \in 0..p.len
  PROVE  /\ DrainedBy(p, m) \in Pty(n) /\ RingOf(DrainedBy(p, m), d + m, n)
         /\ DrainedBy(p, m).len = p.len - m
         /\ \A f \in {"child", "written", "taken", "paused", "stopped", "at", "room", "hungUp",
                      "master", "wake", "shutdown", "finished", "code"} :
              DrainedBy(p, m)[f] = p[f]
<1> DEFINE cells == [i \in DOMAIN p.buf |->
                       IF (i + CapacityOf(p) - p.head) % CapacityOf(p) < m THEN 0 ELSE p.buf[i]]
           q == DrainedBy(p, m)
           head == Cell(p.head, m, n)
<1>1. /\ p.written \in Nat /\ p.taken \in Nat
      /\ p.head \in Nat /\ p.tail \in Nat /\ p.len \in Nat /\ p.room \in Nat
      /\ n \in Nat \ {0} /\ n <= Ceiling /\ Ceiling \in Nat /\ MaxBytes \in Nat
      /\ CapacityOf(p) = n /\ p.buf \in [0..n - 1 -> 0..MaxBytes] /\ DOMAIN p.buf = 0..n - 1
      /\ m \in Nat /\ m <= p.len
  BY PtyFields, Constants, CapacityIs
<1>2. /\ p.head < n /\ p.len <= n /\ p.tail = Cell(p.head, p.len, n)
      /\ p.taken = d + p.len + (IF p.at = "commit" THEN p.room ELSE 0)
      /\ p.taken <= p.written
      /\ \A i \in 0..p.len - 1 : p.buf[Cell(p.head, i, n)] = d + i + 1
      /\ p.at = "commit" => \A i \in 0..p.room - 1 : p.buf[p.tail + i] = d + p.len + i + 1
  BY DEF RingOf
<1>3. p.head \in 0..n - 1 /\ m \in 0..n
  BY <1>1, <1>2
<1>4. (p.head + m) % n = head /\ head \in 0..n - 1
  <2> HIDE DEF cells, q
  <2>1. n \in Nat \ {0}
    BY <1>1
  <2>2. QED
    BY <2>1, <1>3, WrapsOnce
<1>5. cells \in [0..n - 1 -> 0..MaxBytes]
  <2> SUFFICES ASSUME NEW i \in 0..n - 1 PROVE cells[i] \in 0..MaxBytes
    BY <1>1
  <2>1. CASE (i + CapacityOf(p) - p.head) % CapacityOf(p) < m
    BY <2>1, <1>1
  <2>2. CASE ~((i + CapacityOf(p) - p.head) % CapacityOf(p) < m)
    BY <2>2, <1>1
  <2>3. QED
    BY <2>1, <2>2
<1>6. ASSUME NEW k \in 0..n - 1, ~(k < m) PROVE cells[Cell(p.head, k, n)] = p.buf[Cell(p.head, k, n)]
  <2>1. Cell(p.head, k, n) \in 0..n - 1
    <3>1. n \in Nat \ {0} /\ k \in 0..n
      BY <1>1
    <3>2. QED
      BY <3>1, <1>3, CellInRing
  <2>2. (Cell(p.head, k, n) + n - p.head) % n = k
    <3>1. n \in Nat \ {0}
      BY <1>1
    <3> HIDE DEF cells, q, head
    <3>2. QED
      BY <3>1, <1>3, DistanceFromHead
  <2>3. QED
    BY <2>1, <2>2, <1>1, <1>6
<1>7. \A i \in 0..(p.len - m) - 1 : cells[Cell(head, i, n)] = (d + m) + i + 1
  <2> SUFFICES ASSUME NEW i \in 0..(p.len - m) - 1
               PROVE  cells[Cell(head, i, n)] = (d + m) + i + 1
    OBVIOUS
  <2>1. /\ m + i \in 0..p.len - 1 /\ m + i \in 0..n - 1 /\ ~(m + i < m) /\ m + i <= n
        /\ i \in Nat
    BY <1>1, <1>2, SMTT(30)
  <2>2. Cell(head, i, n) = Cell(p.head, m + i, n)
    <3>1. n \in Nat \ {0} /\ m \in Nat
      BY <1>1
    <3>2. QED
      BY <3>1, <2>1, <1>3, CellAdds
  <2>3. cells[Cell(p.head, m + i, n)] = d + (m + i) + 1
    BY <2>1, <1>2, <1>6
  <2>4. QED
    BY <2>1, <2>2, <2>3, <1>1
<1>8. ASSUME p.at = "commit"
      PROVE  \A i \in 0..p.room - 1 : cells[p.tail + i] = (d + m) + (p.len - m) + i + 1
  <2> SUFFICES ASSUME NEW i \in 0..p.room - 1
               PROVE  cells[p.tail + i] = (d + m) + (p.len - m) + i + 1
    OBVIOUS
  <2>1. Holding(p)
    BY <1>8 DEF Holding
  <2>2. p.tail + i = Cell(p.head, p.len + i, n) /\ p.len + i \in 0..n - 1
    BY <2>1, WrittenCells
  <2>3. ~(p.len + i < m) /\ i \in Nat
    BY <1>1
  <2>4. cells[p.tail + i] = p.buf[p.tail + i]
    BY <2>2, <2>3, <1>6
  <2>5. p.buf[p.tail + i] = d + p.len + i + 1
    BY <1>2, <1>8
  <2>6. d + p.len + i + 1 = (d + m) + (p.len - m) + i + 1
    BY <2>3, <1>1
  <2>7. QED
    BY <2>4, <2>5, <2>6
<1>9. p.tail = Cell(head, p.len - m, n)
  <2>1. p.len - m \in Nat /\ m + (p.len - m) = p.len
    BY <1>1
  <2>2. QED
    BY <2>1, <1>1, <1>2, <1>3, CellAdds
<1>10. q = [p EXCEPT !.buf = cells, !.head = head, !.len = p.len - m]
  BY <1>1, <1>4 DEF DrainedBy, Pty
<1> HIDE DEF cells, head, q
<1>11. /\ q.buf = cells /\ q.head = head /\ q.len = p.len - m /\ q.tail = p.tail
       /\ q.taken = p.taken /\ q.written = p.written /\ q.room = p.room /\ q.at = p.at
  BY <1>10 DEF Pty
<1>12. q \in Pty(n)
  <2>1. head \in 0..Ceiling /\ p.len - m \in 0..Ceiling
    <3>1. /\ n \in Nat /\ n <= Ceiling /\ Ceiling \in Nat /\ p.len \in Nat /\ p.len <= n
          /\ m \in Nat /\ m <= p.len /\ head \in 0..n - 1
      BY <1>1, <1>2, <1>4
    <3>2. QED
      BY <3>1
  <2>2. QED
    BY <2>1, <1>5, <1>10 DEF Pty
<1>13. RingOf(q, d + m, n)
  <2>1. head < n /\ p.len - m <= n
    <3>1. p.len \in Nat /\ m \in Nat /\ n \in Nat /\ p.len <= n /\ m <= p.len
      BY <1>1, <1>2
    <3>2. QED
      BY <3>1, <1>4
  <2>2. p.taken = (d + m) + (p.len - m) + (IF p.at = "commit" THEN p.room ELSE 0)
    BY <1>1, <1>2
  <2>3. Holding(q) <=> Holding(p)
    BY <1>11 DEF Holding
  <2>4. ~Holding(p) => p.room = 0
    BY DEF RingOf
  <2>5. Holding(p) => p.room > 0 /\ p.tail + p.room <= n /\ (p.len - m) + p.room <= n
    <3>1. Holding(p) => p.room > 0 /\ p.tail + p.room <= n /\ p.len + p.room <= n
      BY DEF RingOf
    <3>2. QED
      BY <3>1, <1>1
  <2>6. QED
    BY <2>1, <2>2, <2>3, <2>4, <2>5, <1>2, <1>7, <1>8, <1>9, <1>11 DEF RingOf
<1>14. \A f \in {"child", "written", "taken", "paused", "stopped", "at", "room", "hungUp",
                 "master", "wake", "shutdown", "finished", "code"} : q[f] = p[f]
  BY <1>10 DEF Pty
<1>15. QED
  BY <1>11, <1>12, <1>13, <1>14 DEF q

-----------------------------------------------------------------------------
(* Steps of one terminal. *)

(* The ring is as it was, whatever else happened to the terminal. *)
LEMMA KeptRing ==
  ASSUME NEW n \in 1..Ceiling, NEW p \in Pty(n), NEW q \in Pty(n), NEW d \in Nat, RingOf(p, d, n),
         q.buf = p.buf, q.head = p.head, q.tail = p.tail, q.len = p.len, q.room = p.room,
         q.taken = p.taken, p.written <= q.written,
         q.at = p.at \/ (~Holding(p) /\ ~Holding(q))
  PROVE  RingOf(q, d, n)
<1>1. Holding(q) <=> Holding(p)
  BY DEF Holding
<1>2. q.at = "commit" <=> p.at = "commit"
  BY DEF Holding
<1>3. q.taken <= q.written
  BY PtyFields DEF RingOf
<1>4. QED
  BY <1>1, <1>2, <1>3 DEF RingOf

(* What a step that is not the daemon's may do to p, which becomes q. *)
Follows(p, q) ==
  /\ q.shutdown = p.shutdown /\ (q.child = "unborn" <=> p.child = "unborn")
  /\ p.finished => q.finished
  /\ q.at = "parked" => p.at \in {"parking", "parked"} /\ q.len = p.len
  /\ p.stopped => q.stopped /\ q.written = p.written

LEMMA FollowsHeld ==
  ASSUME NEW t, NEW p, NEW q, NEW s, Thread(t, p), Held(t, p, s), Follows(p, q)
  PROVE  Held(t, q, s)
BY DEF Thread, Held, Follows

(* The table is as it was, and no terminal has become less finished. *)
LEMMA KeptTable ==
  ASSUME Inv, UNCHANGED <<table, free>>,
         \A t \in Terminals : /\ side'[t].handle = side[t].handle
                              /\ pty'[t].child = "unborn" <=> pty[t].child = "unborn"
                              /\ pty[t].shutdown => pty'[t].shutdown
                              /\ pty[t].finished => pty'[t].finished
  PROVE  Table'
<1>1. ASSUME NEW t \in Terminals
      PROVE  /\ (Reading(t)' <=> Reading(t)) /\ (Holds(t)' <=> Holds(t)) /\ SlotOf(t)' = SlotOf(t)
             /\ (Occupied(t)' <=> Occupied(t))
  BY DEF Reading, Holds, SlotOf, Occupied
<1>2. ASSUME NEW t \in Terminals, Reading(t)' PROVE Named(t)'
  <2>1. Named(t)
    BY <1>1, <1>2 DEF Inv, Table
  <2>2. QED
    BY <2>1, <1>1 DEF Named
<1>3. Spawned' = Spawned
  BY <1>1 DEF Spawned
<1>4. QED
  BY <1>1, <1>2, <1>3 DEF Inv, Table

(* A step of the reader or of the child. *)
LEMMA ReaderKeeps ==
  ASSUME Inv, NEW t \in Terminals, NEW q, Reader(t, q),
         Ring(q, side[t].delivered), Thread(t, q), Follows(pty[t], q)
  PROVE  Inv'
<1>1. /\ pty' = [pty EXCEPT ![t] = q] /\ pty = [u \in Terminals |-> pty[u]]
      /\ UNCHANGED <<side, table, free>>
  BY DEF Reader, Inv, TypeOK
<1>2. pty' = [u \in Terminals |-> pty'[u]] /\ pty'[t] = q
      /\ \A u \in Terminals : u # t => pty'[u] = pty[u]
  BY <1>1
<1>3. TypeOK'
  <2>1. \A u \in Terminals : \E capacity \in 1..Ceiling : pty'[u] \in Pty(capacity)
    BY <1>2 DEF Inv, TypeOK, Ring
  <2>2. QED
    BY <2>1, <1>1, <1>2 DEF Inv, TypeOK
<1>4. \A u \in Terminals : Ring(pty'[u], side'[u].delivered) /\ Thread(u, pty'[u])
  BY <1>1, <1>2 DEF Inv
<1>5. \A u \in Terminals : Held(u, pty'[u], side'[u])
  <2>1. Held(t, q, side[t])
    BY FollowsHeld DEF Inv
  <2>2. QED
    BY <2>1, <1>1, <1>2 DEF Inv
<1>6. Table'
  <2>1. \A u \in Terminals : /\ side'[u].handle = side[u].handle
                             /\ pty'[u].child = "unborn" <=> pty[u].child = "unborn"
                             /\ pty[u].shutdown => pty'[u].shutdown
                             /\ pty[u].finished => pty'[u].finished
    BY <1>1, <1>2 DEF Follows
  <2>2. QED
    BY <2>1, <1>1, KeptTable
<1>7. QED
  BY <1>3, <1>4, <1>5, <1>6 DEF Inv

(* What the invariant says of one terminal. *)
LEMMA OfTerminal ==
  ASSUME Inv, NEW t \in Terminals
  PROVE  /\ \E n \in 1..Ceiling : pty[t] \in Pty(n) /\ RingOf(pty[t], side[t].delivered, n)
         /\ Thread(t, pty[t]) /\ Held(t, pty[t], side[t])
         /\ side[t] \in Side /\ side[t].delivered \in Nat
BY Constants DEF Inv, Ring, TypeOK, Side

(* A step of the reader that leaves the ring alone. *)
LEMMA ReaderKeepsRing ==
  ASSUME Inv, NEW t \in Terminals, NEW n \in 1..Ceiling, pty[t] \in Pty(n),
         RingOf(pty[t], side[t].delivered, n), NEW q \in Pty(n), Reader(t, q),
         q.buf = pty[t].buf, q.head = pty[t].head, q.tail = pty[t].tail, q.len = pty[t].len,
         q.room = pty[t].room, q.taken = pty[t].taken, pty[t].written <= q.written,
         q.at = pty[t].at \/ (~Holding(pty[t]) /\ ~Holding(q)),
         Thread(t, q), Follows(pty[t], q)
  PROVE  Inv'
<1>1. side[t].delivered \in Nat
  BY OfTerminal
<1>2. RingOf(q, side[t].delivered, n)
  <2> DEFINE p == pty[t]
             d == side[t].delivered
  <2>1. p \in Pty(n) /\ RingOf(p, d, n) /\ d \in Nat
    BY <1>1
  <2>2. /\ q.buf = p.buf /\ q.head = p.head /\ q.tail = p.tail /\ q.len = p.len /\ q.room = p.room
        /\ q.taken = p.taken /\ p.written <= q.written
        /\ q.at = p.at \/ (~Holding(p) /\ ~Holding(q))
    OBVIOUS
  <2> HIDE DEF p, d
  <2>3. RingOf(q, d, n)
    BY <2>1, <2>2, KeptRing
  <2>4. QED
    BY <2>3 DEF d
<1>3. Ring(q, side[t].delivered)
  BY <1>2 DEF Ring
<1>4. QED
  BY <1>3, ReaderKeeps

-----------------------------------------------------------------------------
(* The reader's steps and the child's. *)

LEMMA ParksKeeps == ASSUME Inv, NEW t \in Terminals, Parks(t) PROVE Inv'
<1> DEFINE p == pty[t]
           q == [p EXCEPT !.at = "parked"]
<1>1. PICK n \in 1..Ceiling : p \in Pty(n) /\ RingOf(p, side[t].delivered, n)
  BY OfTerminal
<1>2. p.at = "parking" /\ Reader(t, q)
  BY DEF Parks
<1>3. Thread(t, p)
  BY OfTerminal
<1> HIDE DEF p
<1>4. /\ q \in Pty(n) /\ q.buf = p.buf /\ q.head = p.head /\ q.tail = p.tail /\ q.len = p.len
      /\ q.room = p.room /\ q.taken = p.taken /\ p.written <= q.written
  <2>1. p.written \in Nat
    BY <1>1, PtyFields
  <2>2. q \in Pty(n)
    BY <1>1 DEF Pty, Places
  <2>3. /\ q.buf = p.buf /\ q.head = p.head /\ q.tail = p.tail /\ q.len = p.len
        /\ q.room = p.room /\ q.taken = p.taken /\ p.written = q.written
    BY <1>1 DEF Pty
  <2> HIDE DEF q
  <2>4. QED
    BY <2>1, <2>2, <2>3
<1>5. q.at = p.at \/ (~Holding(p) /\ ~Holding(q))
  BY <1>1, <1>2 DEF Pty, Holding
<1>6. Thread(t, q) /\ Follows(p, q)
  BY <1>1, <1>2, <1>3 DEF Pty, Thread, Follows, Winding
<1>7. QED
  <2> HIDE DEF q
  <2> QED BY <1>1, <1>2, <1>4, <1>5, <1>6, ReaderKeepsRing DEF p

LEMMA WakesSpuriouslyKeeps == ASSUME Inv, NEW t \in Terminals, WakesSpuriously(t) PROVE Inv'
<1> DEFINE p == pty[t]
           q == [p EXCEPT !.at = "gate"]
<1>1. PICK n \in 1..Ceiling : p \in Pty(n) /\ RingOf(p, side[t].delivered, n)
  BY OfTerminal
<1>2. p.at = "parked" /\ Reader(t, q)
  BY DEF WakesSpuriously
<1>3. Thread(t, p)
  BY OfTerminal
<1> HIDE DEF p
<1>4. /\ q \in Pty(n) /\ q.buf = p.buf /\ q.head = p.head /\ q.tail = p.tail /\ q.len = p.len
      /\ q.room = p.room /\ q.taken = p.taken /\ p.written <= q.written
  <2>1. p.written \in Nat
    BY <1>1, PtyFields
  <2>2. q \in Pty(n)
    BY <1>1 DEF Pty, Places
  <2>3. /\ q.buf = p.buf /\ q.head = p.head /\ q.tail = p.tail /\ q.len = p.len
        /\ q.room = p.room /\ q.taken = p.taken /\ p.written = q.written
    BY <1>1 DEF Pty
  <2> HIDE DEF q
  <2>4. QED
    BY <2>1, <2>2, <2>3
<1>5. q.at = p.at \/ (~Holding(p) /\ ~Holding(q))
  BY <1>1, <1>2 DEF Pty, Holding
<1>6. Thread(t, q) /\ Follows(p, q)
  BY <1>1, <1>2, <1>3 DEF Pty, Thread, Follows, Winding
<1>7. QED
  <2> HIDE DEF q
  <2> QED BY <1>1, <1>2, <1>4, <1>5, <1>6, ReaderKeepsRing DEF p

LEMMA ClosesFirstKeeps == ASSUME Inv, NEW t \in Terminals, ClosesFirst(t) PROVE Inv'
<1> DEFINE p == pty[t]
           q == [p EXCEPT !.master = FALSE, !.at = "reap"]
<1>1. PICK n \in 1..Ceiling : p \in Pty(n) /\ RingOf(p, side[t].delivered, n)
  BY OfTerminal
<1>2. p.at = "close" /\ Reader(t, q)
  BY DEF ClosesFirst
<1>3. Thread(t, p)
  BY OfTerminal
<1> HIDE DEF p
<1>4. /\ q \in Pty(n) /\ q.buf = p.buf /\ q.head = p.head /\ q.tail = p.tail /\ q.len = p.len
      /\ q.room = p.room /\ q.taken = p.taken /\ p.written <= q.written
  <2>1. p.written \in Nat
    BY <1>1, PtyFields
  <2>2. q \in Pty(n)
    BY <1>1 DEF Pty, Places
  <2>3. /\ q.buf = p.buf /\ q.head = p.head /\ q.tail = p.tail /\ q.len = p.len
        /\ q.room = p.room /\ q.taken = p.taken /\ p.written = q.written
    BY <1>1 DEF Pty
  <2> HIDE DEF q
  <2>4. QED
    BY <2>1, <2>2, <2>3
<1>5. q.at = p.at \/ (~Holding(p) /\ ~Holding(q))
  BY <1>1, <1>2 DEF Pty, Holding
<1>6. Thread(t, q) /\ Follows(p, q)
  BY <1>1, <1>2, <1>3 DEF Pty, Thread, Follows, Winding
<1>7. QED
  <2> HIDE DEF q
  <2> QED BY <1>1, <1>2, <1>4, <1>5, <1>6, ReaderKeepsRing DEF p

LEMMA ReapsKeeps == ASSUME Inv, NEW t \in Terminals, Reaps(t) PROVE Inv'
<1> DEFINE p == pty[t]
           q == [p EXCEPT !.master = FALSE, !.at = "store"]
<1>1. PICK n \in 1..Ceiling : p \in Pty(n) /\ RingOf(p, side[t].delivered, n)
  BY OfTerminal
<1>2. p.at = "reap" /\ p.child = "dead" /\ Reader(t, q)
  BY DEF Reaps
<1>3. Thread(t, p)
  BY OfTerminal
<1> HIDE DEF p
<1>4. /\ q \in Pty(n) /\ q.buf = p.buf /\ q.head = p.head /\ q.tail = p.tail /\ q.len = p.len
      /\ q.room = p.room /\ q.taken = p.taken /\ p.written <= q.written
  <2>1. p.written \in Nat
    BY <1>1, PtyFields
  <2>2. q \in Pty(n)
    BY <1>1 DEF Pty, Places
  <2>3. /\ q.buf = p.buf /\ q.head = p.head /\ q.tail = p.tail /\ q.len = p.len
        /\ q.room = p.room /\ q.taken = p.taken /\ p.written = q.written
    BY <1>1 DEF Pty
  <2> HIDE DEF q
  <2>4. QED
    BY <2>1, <2>2, <2>3
<1>5. q.at = p.at \/ (~Holding(p) /\ ~Holding(q))
  BY <1>1, <1>2 DEF Pty, Holding
<1>6. Thread(t, q) /\ Follows(p, q)
  BY <1>1, <1>2, <1>3 DEF Pty, Thread, Follows, Winding
<1>7. QED
  <2> HIDE DEF q
  <2> QED BY <1>1, <1>2, <1>4, <1>5, <1>6, ReaderKeepsRing DEF p

LEMMA StoresCodeKeeps == ASSUME Inv, NEW t \in Terminals, StoresCode(t) PROVE Inv'
<1> DEFINE p == pty[t]
           q == [p EXCEPT !.code = t, !.finished = TRUE, !.at = "publish"]
<1>1. PICK n \in 1..Ceiling : p \in Pty(n) /\ RingOf(p, side[t].delivered, n)
  BY OfTerminal
<1>2. p.at = "store" /\ Reader(t, q)
  BY DEF StoresCode
<1>3. Thread(t, p)
  BY OfTerminal
<1> HIDE DEF p
<1>4. /\ q \in Pty(n) /\ q.buf = p.buf /\ q.head = p.head /\ q.tail = p.tail /\ q.len = p.len
      /\ q.room = p.room /\ q.taken = p.taken /\ p.written <= q.written
  <2>1. p.written \in Nat
    BY <1>1, PtyFields
  <2>2. q \in Pty(n)
    BY <1>1 DEF Pty, Places
  <2>3. /\ q.buf = p.buf /\ q.head = p.head /\ q.tail = p.tail /\ q.len = p.len
        /\ q.room = p.room /\ q.taken = p.taken /\ p.written = q.written
    BY <1>1 DEF Pty
  <2> HIDE DEF q
  <2>4. QED
    BY <2>1, <2>2, <2>3
<1>5. q.at = p.at \/ (~Holding(p) /\ ~Holding(q))
  BY <1>1, <1>2 DEF Pty, Holding
<1>6. Thread(t, q) /\ Follows(p, q)
  BY <1>1, <1>2, <1>3 DEF Pty, Thread, Follows, Winding
<1>7. QED
  <2> HIDE DEF q
  <2> QED BY <1>1, <1>2, <1>4, <1>5, <1>6, ReaderKeepsRing DEF p

LEMMA PublishesKeeps == ASSUME Inv, NEW t \in Terminals, Publishes(t) PROVE Inv'
<1> DEFINE p == pty[t]
           q == [p EXCEPT !.stopped = TRUE, !.at = "retire"]
<1>1. PICK n \in 1..Ceiling : p \in Pty(n) /\ RingOf(p, side[t].delivered, n)
  BY OfTerminal
<1>2. p.at = "publish" /\ Reader(t, q)
  BY DEF Publishes
<1>3. Thread(t, p)
  BY OfTerminal
<1> HIDE DEF p
<1>4. /\ q \in Pty(n) /\ q.buf = p.buf /\ q.head = p.head /\ q.tail = p.tail /\ q.len = p.len
      /\ q.room = p.room /\ q.taken = p.taken /\ p.written <= q.written
  <2>1. p.written \in Nat
    BY <1>1, PtyFields
  <2>2. q \in Pty(n)
    BY <1>1 DEF Pty, Places
  <2>3. /\ q.buf = p.buf /\ q.head = p.head /\ q.tail = p.tail /\ q.len = p.len
        /\ q.room = p.room /\ q.taken = p.taken /\ p.written = q.written
    BY <1>1 DEF Pty
  <2> HIDE DEF q
  <2>4. QED
    BY <2>1, <2>2, <2>3
<1>5. q.at = p.at \/ (~Holding(p) /\ ~Holding(q))
  BY <1>1, <1>2 DEF Pty, Holding
<1>6. Thread(t, q) /\ Follows(p, q)
  BY <1>1, <1>2, <1>3 DEF Pty, Thread, Follows, Winding
<1>7. QED
  <2> HIDE DEF q
  <2> QED BY <1>1, <1>2, <1>4, <1>5, <1>6, ReaderKeepsRing DEF p

LEMMA ChecksGateKeeps == ASSUME Inv, NEW t \in Terminals, ChecksGate(t) PROVE Inv'
<1> DEFINE p == pty[t]
           q == IF p.shutdown THEN [p EXCEPT !.at = "close", !.hungUp = TRUE]
                ELSE [p EXCEPT !.paused = GateOf(p), !.at = IF GateOf(p) THEN "parking" ELSE "poll"]
<1>1. PICK n \in 1..Ceiling : p \in Pty(n) /\ RingOf(p, side[t].delivered, n)
  BY OfTerminal
<1>2. p.at = "gate" /\ p.child # "unborn" /\ Reader(t, q)
  BY DEF ChecksGate, Reading
<1>3. Thread(t, p)
  BY OfTerminal
<1> HIDE DEF p
<1>4. p.written \in Nat /\ p.len \in Nat /\ p.paused \in BOOLEAN
  BY <1>1, PtyFields DEF Pty
<1>5. GateOf(p) \in BOOLEAN /\ (GateOf(p) => p.len > LowWater)
  BY <1>4, Constants DEF GateOf
<1>6. /\ q \in Pty(n)
      /\ q.buf = p.buf /\ q.head = p.head /\ q.tail = p.tail /\ q.len = p.len
      /\ q.room = p.room /\ q.taken = p.taken /\ p.written = q.written
      /\ q.child = p.child /\ q.shutdown = p.shutdown /\ q.finished = p.finished
      /\ q.stopped = p.stopped /\ q.code = p.code
  <2>1. CASE p.shutdown
    BY <1>1, <2>1 DEF Pty, Places
  <2>2. CASE ~p.shutdown
    BY <1>1, <1>5, <2>2 DEF Pty, Places
  <2>3. QED
    BY <2>1, <2>2
<1>7. /\ p.shutdown => q.at = "close" /\ q.hungUp
      /\ ~p.shutdown => q.hungUp = p.hungUp /\ q.at = IF GateOf(p) THEN "parking" ELSE "poll"
  BY <1>1 DEF Pty
<1> HIDE DEF q
<1>8. q.at = p.at \/ (~Holding(p) /\ ~Holding(q))
  BY <1>2, <1>7 DEF Holding
<1>9. Thread(t, q)
  BY <1>2, <1>3, <1>5, <1>6, <1>7 DEF Thread, Winding
<1>10. Follows(p, q)
  BY <1>6, <1>7 DEF Follows
<1>11. QED
  BY <1>1, <1>2, <1>4, <1>6, <1>8, <1>9, <1>10, ReaderKeepsRing DEF p

LEMMA PollsKeeps == ASSUME Inv, NEW t \in Terminals, Polls(t) PROVE Inv'
<1> DEFINE p == pty[t]
           readable == p.written - p.taken > 0 \/ p.child # "running"
           q == IF p.wake /\ p.shutdown
                  THEN [p EXCEPT !.wake = FALSE, !.at = "close", !.hungUp = TRUE]
                ELSE [p EXCEPT !.wake = FALSE, !.at = IF readable THEN "tail" ELSE "gate"]
<1>1. PICK n \in 1..Ceiling : p \in Pty(n) /\ RingOf(p, side[t].delivered, n)
  BY OfTerminal
<1>2. p.at = "poll" /\ Reader(t, q)
  BY DEF Polls, Unread
<1>3. Thread(t, p)
  BY OfTerminal
<1> HIDE DEF p
<1>4. p.written \in Nat /\ p.taken \in Nat
  BY <1>1, PtyFields
<1>5. readable => p.taken < p.written \/ p.child # "running"
  BY <1>4
<1> HIDE DEF readable
<1>6. /\ q \in Pty(n)
      /\ q.buf = p.buf /\ q.head = p.head /\ q.tail = p.tail /\ q.len = p.len
      /\ q.room = p.room /\ q.taken = p.taken /\ p.written = q.written
      /\ q.child = p.child /\ q.shutdown = p.shutdown /\ q.finished = p.finished
      /\ q.stopped = p.stopped /\ q.code = p.code
  <2>1. CASE p.wake /\ p.shutdown
    BY <1>1, <2>1 DEF Pty, Places
  <2>2. CASE ~(p.wake /\ p.shutdown)
    BY <1>1, <2>2 DEF Pty, Places
  <2>3. QED
    BY <2>1, <2>2
<1>7. \/ q.at = "close" /\ q.hungUp /\ p.shutdown
      \/ q.hungUp = p.hungUp /\ q.at = IF readable THEN "tail" ELSE "gate"
  BY <1>1 DEF Pty
<1> HIDE DEF q
<1>8. q.at = p.at \/ (~Holding(p) /\ ~Holding(q))
  BY <1>2, <1>7 DEF Holding
<1>9. Thread(t, q)
  BY <1>2, <1>3, <1>5, <1>6, <1>7 DEF Thread, Winding
<1>10. Follows(p, q)
  BY <1>6, <1>7 DEF Follows
<1>11. QED
  BY <1>1, <1>2, <1>4, <1>6, <1>8, <1>9, <1>10, ReaderKeepsRing DEF p

(* With no room in the ring the reader goes back to the gate. *)
LEMMA FindsRoomKeeps == ASSUME Inv, NEW t \in Terminals, FindsRoom(t) PROVE Inv'
<1> DEFINE p == pty[t]
           d == side[t].delivered
           g == Grown(p, ReadSize)
           q == IF RoomOf(g) = 0 THEN [g EXCEPT !.at = "gate"]
                ELSE [g EXCEPT !.at = "read", !.room = RoomOf(g)]
<1>1. PICK n \in 1..Ceiling : p \in Pty(n) /\ RingOf(p, d, n)
  BY OfTerminal
<1>2. p.at = "tail" /\ Reader(t, q)
  BY DEF FindsRoom
<1>3. Thread(t, p) /\ d \in Nat
  BY OfTerminal
<1> HIDE DEF p, d
<1>4. ~Holding(p)
  BY <1>2 DEF Holding
<1>5. SameButRing(p, g) /\ \E m \in 1..Ceiling : g \in Pty(m) /\ RingOf(g, d, m)
  BY <1>1, <1>3, <1>4, GrownRing
<1>6. PICK m \in 1..Ceiling : g \in Pty(m) /\ RingOf(g, d, m)
  BY <1>5
<1> HIDE DEF g
<1>7. RoomOf(g) \in 0..ReadSize /\ g.len + RoomOf(g) <= m /\ g.tail + RoomOf(g) <= m
  <2>1. /\ CapacityOf(g) = m /\ m \in Nat /\ g.len \in Nat /\ g.tail \in Nat /\ g.head \in Nat
        /\ ReadSize \in Nat
    BY <1>6, CapacityIs, PtyFields, Constants
  <2>2. g.len <= m /\ g.tail <= m
    <3>1. g.len <= m /\ g.head < m /\ g.tail = Cell(g.head, g.len, m)
      BY <1>6 DEF RingOf
    <3>2. QED
      BY <3>1, <2>1 DEF Cell
  <2>3. QED
    BY <2>1, <2>2 DEF RoomOf, Smaller
<1>8. /\ q \in Pty(m)
      /\ q.buf = g.buf /\ q.head = g.head /\ q.tail = g.tail /\ q.len = g.len
      /\ q.taken = g.taken /\ q.written = g.written
      /\ q.child = g.child /\ q.shutdown = g.shutdown /\ q.finished = g.finished
      /\ q.stopped = g.stopped /\ q.code = g.code /\ q.hungUp = g.hungUp
      /\ q.at = IF RoomOf(g) = 0 THEN "gate" ELSE "read"
      /\ q.room = IF RoomOf(g) = 0 THEN g.room ELSE RoomOf(g)
  <2>1. CASE RoomOf(g) = 0
    BY <1>6, <2>1 DEF Pty, Places
  <2>2. CASE RoomOf(g) # 0
    BY <1>6, <1>7, <2>2 DEF Pty, Places
  <2>3. QED
    BY <2>1, <2>2
<1> HIDE DEF q
<1>9. RingOf(q, d, m)
  <2>1. ~Holding(g) /\ g.at # "commit" /\ q.at # "commit"
    BY <1>2, <1>5, <1>8 DEF SameButRing, Holding
  <2>2. CASE RoomOf(g) = 0
    <3>1. ~Holding(q) /\ q.room = 0
      BY <1>6, <1>8, <2>1, <2>2 DEF Holding, RingOf
    <3>2. QED
      BY <1>6, <1>8, <2>1, <3>1 DEF RingOf
  <2>3. CASE RoomOf(g) # 0
    <3>1. q.room > 0 /\ q.tail + q.room <= m /\ q.len + q.room <= m
      BY <1>7, <1>8, <2>3
    <3>2. Holding(q)
      BY <1>8, <2>3 DEF Holding
    <3>3. QED
      BY <1>6, <1>8, <2>1, <3>1, <3>2 DEF RingOf
  <2>4. QED
    BY <2>2, <2>3
<1>10. Thread(t, q)
  BY <1>2, <1>3, <1>5, <1>8 DEF Thread, Winding, SameButRing
<1>11. Follows(p, q)
  BY <1>5, <1>8 DEF Follows, SameButRing
<1>12. Ring(q, d)
  BY <1>8, <1>9 DEF Ring
<1>13. QED
  BY <1>2, <1>10, <1>11, <1>12, ReaderKeeps DEF p, d

(* A read of nothing is the end of the stream: the child writes no more. *)
LEMMA ReadsKeeps == ASSUME Inv, NEW t \in Terminals, Reads(t) PROVE Inv'
<1> DEFINE p == pty[t]
           d == side[t].delivered
           m == Smaller(p.room, p.written - p.taken)
<1>1. PICK n \in 1..Ceiling : p \in Pty(n) /\ RingOf(p, d, n)
  BY OfTerminal
<1>2. p.at = "read" /\ Reader(t, IF m = 0 THEN [p EXCEPT !.at = "reap", !.room = 0]
                                 ELSE WithRead(p, m))
  BY DEF Reads, Unread, WithRead
<1>3. Thread(t, p) /\ d \in Nat
  BY OfTerminal
<1> HIDE DEF p, d
<1>4. /\ p.room \in Nat /\ p.written \in Nat /\ p.taken \in Nat /\ p.room > 0
      /\ p.taken <= p.written
  <2>1. Holding(p)
    BY <1>2 DEF Holding
  <2>2. QED
    BY <1>1, <2>1, PtyFields DEF RingOf
<1>5. m \in 0..p.room /\ p.taken + m <= p.written /\ (m = 0 => p.taken = p.written)
  BY <1>4 DEF Smaller
<1>6. CASE m = 0
  <2> DEFINE q == [p EXCEPT !.at = "reap", !.room = 0]
  <2>1. Reader(t, q) /\ p.taken = p.written
    BY <1>2, <1>5, <1>6
  <2>2. /\ q \in Pty(n)
        /\ q.buf = p.buf /\ q.head = p.head /\ q.tail = p.tail /\ q.len = p.len
        /\ q.taken = p.taken /\ q.written = p.written /\ q.room = 0 /\ q.at = "reap"
        /\ q.child = p.child /\ q.shutdown = p.shutdown /\ q.finished = p.finished
        /\ q.stopped = p.stopped /\ q.code = p.code /\ q.hungUp = p.hungUp
    <3>1. 0 \in 0..ReadSize
      BY Constants
    <3>2. QED
      BY <1>1, <3>1 DEF Pty, Places
  <2> HIDE DEF q, m
  <2>3. RingOf(q, d, n)
    <3>1. ~Holding(q) /\ q.at # "commit" /\ p.at # "commit"
      BY <1>2, <2>2 DEF Holding
    <3>2. QED
      BY <1>1, <2>2, <3>1 DEF RingOf
  <2>4. Thread(t, q)
    BY <1>2, <1>3, <1>4, <2>1, <2>2 DEF Thread, Winding
  <2>5. Follows(p, q)
    BY <2>2 DEF Follows
  <2>6. Ring(q, d)
    BY <2>2, <2>3 DEF Ring
  <2>7. QED
    BY <2>1, <2>4, <2>5, <2>6, ReaderKeeps DEF p, d
<1>7. CASE m # 0
  <2> DEFINE q == WithRead(p, m)
  <2>1. Reader(t, q)
    BY <1>2, <1>7
  <2>2. m \in 1..p.room
    BY <1>4, <1>5, <1>7
  <2> HIDE DEF m
  <2>3. q \in Pty(n) /\ RingOf(q, d, n)
    BY <1>1, <1>2, <1>3, <1>5, <2>2, ReadRing
  <2>4. /\ q.len = p.len /\ q.written = p.written /\ q.at = "commit"
        /\ q.child = p.child /\ q.shutdown = p.shutdown /\ q.finished = p.finished
        /\ q.stopped = p.stopped /\ q.code = p.code /\ q.hungUp = p.hungUp
    BY <1>1 DEF Pty, WithRead
  <2> HIDE DEF q
  <2>5. Thread(t, q)
    BY <1>2, <1>3, <2>4 DEF Thread, Winding
  <2>6. Follows(p, q)
    BY <2>4 DEF Follows
  <2>7. Ring(q, d)
    BY <2>3 DEF Ring
  <2>8. QED
    BY <2>1, <2>5, <2>6, <2>7, ReaderKeeps DEF p, d
<1>8. QED
  BY <1>6, <1>7

LEMMA CommitsKeeps == ASSUME Inv, NEW t \in Terminals, Commits(t) PROVE Inv'
<1> DEFINE p == pty[t]
           d == side[t].delivered
           q == [Committed(p) EXCEPT !.at = "gate"]
<1>1. PICK n \in 1..Ceiling : p \in Pty(n) /\ RingOf(p, d, n)
  BY OfTerminal
<1>2. p.at = "commit" /\ Reader(t, q)
  BY DEF Commits
<1>3. Thread(t, p) /\ d \in Nat
  BY OfTerminal
<1> HIDE DEF p, d
<1>4. q \in Pty(n) /\ RingOf(q, d, n)
  BY <1>1, <1>2, <1>3, CommitRing
<1>5. /\ q.written = p.written /\ q.taken = p.taken /\ q.at = "gate"
      /\ q.child = p.child /\ q.shutdown = p.shutdown /\ q.finished = p.finished
      /\ q.stopped = p.stopped /\ q.code = p.code /\ q.hungUp = p.hungUp
  BY <1>1 DEF Pty, Committed
<1> HIDE DEF q
<1>6. Thread(t, q)
  BY <1>2, <1>3, <1>5 DEF Thread, Winding
<1>7. Follows(p, q)
  BY <1>5 DEF Follows
<1>8. Ring(q, d)
  BY <1>4 DEF Ring
<1>9. QED
  BY <1>2, <1>6, <1>7, <1>8, ReaderKeeps DEF p, d

(* The child writes only while the reader has its end of the terminal. *)
LEMMA ChildWritesKeeps == ASSUME Inv, NEW t \in Terminals, ChildWrites(t) PROVE Inv'
<1> DEFINE p == pty[t]
           q == [p EXCEPT !.written = @ + 1]
<1>1. PICK n \in 1..Ceiling : p \in Pty(n) /\ RingOf(p, side[t].delivered, n)
  BY OfTerminal
<1>2. p.child = "running" /\ p.written < MaxBytes /\ Reader(t, q)
  BY DEF ChildWrites, Reader
<1>3. Thread(t, p)
  BY OfTerminal
<1> HIDE DEF p
<1>4. p.written \in Nat /\ p.taken \in Nat /\ p.taken <= p.written /\ MaxBytes \in Nat
  BY <1>1, PtyFields, Constants DEF RingOf
<1>5. p.written + 1 \in 0..MaxBytes /\ p.written <= p.written + 1 /\ p.taken < p.written + 1
  BY <1>2, <1>4
<1>6. /\ q \in Pty(n)
      /\ q.buf = p.buf /\ q.head = p.head /\ q.tail = p.tail /\ q.len = p.len
      /\ q.room = p.room /\ q.taken = p.taken /\ q.written = p.written + 1 /\ q.at = p.at
      /\ q.child = p.child /\ q.shutdown = p.shutdown /\ q.finished = p.finished
      /\ q.stopped = p.stopped /\ q.code = p.code /\ q.hungUp = p.hungUp
  BY <1>1, <1>5 DEF Pty
<1> HIDE DEF q
<1>7. Thread(t, q)
  BY <1>2, <1>3, <1>5, <1>6 DEF Thread, Winding
<1>8. Follows(p, q)
  BY <1>2, <1>3, <1>6 DEF Follows, Thread, Winding
<1>9. QED
  BY <1>1, <1>2, <1>5, <1>6, <1>7, <1>8, ReaderKeepsRing DEF p

LEMMA ChildLeavesKeeps == ASSUME Inv, NEW t \in Terminals, ChildLeaves(t) PROVE Inv'
<1> DEFINE p == pty[t]
<1>1. PICK n \in 1..Ceiling : p \in Pty(n) /\ RingOf(p, side[t].delivered, n)
  BY OfTerminal
<1>2. PICK child \in {"mute", "dead"} :
        /\ p.child \in {"running", "mute"} /\ Reader(t, [p EXCEPT !.child = child])
  BY DEF ChildLeaves, Alive, Reader
<1>3. Thread(t, p)
  BY OfTerminal
<1> HIDE DEF p
<1> DEFINE q == [p EXCEPT !.child = child]
<1>4. Reader(t, q) /\ p.written \in Nat
  BY <1>1, <1>2, PtyFields
<1>5. /\ q \in Pty(n)
      /\ q.buf = p.buf /\ q.head = p.head /\ q.tail = p.tail /\ q.len = p.len
      /\ q.room = p.room /\ q.taken = p.taken /\ q.written = p.written /\ q.at = p.at
      /\ q.child = child /\ q.shutdown = p.shutdown /\ q.finished = p.finished
      /\ q.stopped = p.stopped /\ q.code = p.code /\ q.hungUp = p.hungUp
  BY <1>1, <1>2 DEF Pty
<1> HIDE DEF q
<1>6. Thread(t, q)
  BY <1>2, <1>3, <1>5 DEF Thread, Winding
<1>7. Follows(p, q)
  BY <1>2, <1>5 DEF Follows
<1>8. QED
  BY <1>1, <1>4, <1>5, <1>6, <1>7, ReaderKeepsRing DEF p

-----------------------------------------------------------------------------
(* Steps that touch the daemon's side or the table. *)

LEMMA StepKeeps ==
  ASSUME Inv, NEW t \in Terminals, NEW q, NEW s \in Side,
         pty' = [pty EXCEPT ![t] = q], side' = [side EXCEPT ![t] = s],
         Ring(q, s.delivered), Thread(t, q), Held(t, q, s),
         Table', table' \in Seq(Slot), Len(table') <= MaxSlots, free' \in Seq(1..MaxSlots)
  PROVE  Inv'
<1>1. /\ pty' = [u \in Terminals |-> pty'[u]] /\ pty'[t] = q
      /\ \A u \in Terminals : u # t => pty'[u] = pty[u]
  BY DEF Inv, TypeOK
<1>2. /\ side' \in [Terminals -> Side] /\ side'[t] = s
      /\ \A u \in Terminals : u # t => side'[u] = side[u]
  BY DEF Inv, TypeOK
<1>3. \A u \in Terminals : /\ Ring(pty'[u], side'[u].delivered) /\ Thread(u, pty'[u])
                           /\ Held(u, pty'[u], side'[u])
  BY <1>1, <1>2 DEF Inv
<1>4. \A u \in Terminals : \E capacity \in 1..Ceiling : pty'[u] \in Pty(capacity)
  BY <1>3 DEF Ring
<1>5. \A k \in DOMAIN free' : table'[free'[k]].of = None
  <2>1. DOMAIN free' = 1..Len(free')
    OBVIOUS
  <2>2. QED
    BY <2>1 DEF Table
<1>6. TypeOK'
  BY <1>1, <1>2, <1>4, <1>5 DEF TypeOK
<1>7. QED
  BY <1>3, <1>6 DEF Inv

(* The table is typed, and where it names a terminal it is that terminal. *)
LEMMA TableFacts ==
  ASSUME Inv
  PROVE  /\ table \in Seq(Slot) /\ Len(table) \in Nat /\ Len(table) <= MaxSlots
         /\ free \in Seq(1..MaxSlots) /\ Len(free) \in Nat
         /\ \A t \in Terminals : /\ side[t].handle \in (1..MaxSlots) \X (0..MaxGeneration)
                                 /\ side[t].handle[1] \in 1..MaxSlots /\ side[t].handle[2] \in Nat
         /\ \A t, u \in Terminals :
              side[t].handle[1] = side[u].handle[1] /\ side[t].handle[2] = side[u].handle[2]
                => side[t].handle = side[u].handle
<1>1. /\ table \in Seq(Slot) /\ Len(table) \in Nat /\ Len(table) <= MaxSlots
      /\ free \in Seq(1..MaxSlots) /\ Len(free) \in Nat
  BY DEF Inv, TypeOK
<1>2. \A t \in Terminals : side[t].handle \in (1..MaxSlots) \X (0..MaxGeneration)
  BY DEF Inv, TypeOK, Side
<1>3. \A t \in Terminals : side[t].handle[1] \in 1..MaxSlots /\ side[t].handle[2] \in 0..MaxGeneration
  BY <1>2
<1>4. \A t \in Terminals : side[t].handle = <<side[t].handle[1], side[t].handle[2]>>
  BY <1>2
<1>5. 0..MaxGeneration \subseteq Nat
  BY Constants
<1>6. \A t, u \in Terminals :
        side[t].handle[1] = side[u].handle[1] /\ side[t].handle[2] = side[u].handle[2]
          => side[t].handle = side[u].handle
  BY <1>4
<1>7. QED
  BY <1>1, <1>2, <1>3, <1>5, <1>6

(* retire_if_settled keeps the code of the terminal that settled. *)
LEMMA RetiredTable ==
  ASSUME Inv, NEW t \in Terminals, NEW q, Reading(t), Retires(t, q),
         q.finished => q.code = t,
         q.shutdown => pty'[t].shutdown, q.finished => pty'[t].finished,
         \A u \in Terminals : /\ side'[u].handle = side[u].handle
                              /\ pty'[u].child = "unborn" <=> pty[u].child = "unborn"
                              /\ pty[u].shutdown => pty'[u].shutdown
                              /\ pty[u].finished => pty'[u].finished
  PROVE  /\ Table' /\ table' \in Seq(Slot) /\ Len(table') <= MaxSlots
         /\ free' \in Seq(1..MaxSlots)
<1>1. CASE ~(q.shutdown /\ q.finished /\ Occupied(t))
  <2>1. UNCHANGED <<table, free>>
    BY <1>1 DEF Retires
  <2>2. QED
    BY <2>1, KeptTable, TableFacts
<1>2. CASE q.shutdown /\ q.finished /\ Occupied(t)
  <2> DEFINE i == side[t].handle[1]
             slot == [table[i] EXCEPT !.of = None, !.code = q.code]
  <2>1. table' = [table EXCEPT ![i] = slot] /\ free' = Append(free, i) /\ q.code = t
    BY <1>2 DEF Retires
  <2>2. /\ table \in Seq(Slot) /\ Len(table) \in Nat /\ Len(table) <= MaxSlots
        /\ free \in Seq(1..MaxSlots) /\ Len(free) \in Nat
        /\ i \in 1..Len(table) /\ i \in 1..MaxSlots
    BY <1>2, TableFacts DEF Occupied, Holds
  <2>3. table[i].of = t /\ table[i].generation = side[t].handle[2] /\ t # None
    BY <1>2, Constants DEF Occupied, Holds, SlotOf, Named, Inv, Table
  <2>4. slot \in Slot /\ slot.of = None /\ slot.code = t /\ slot.generation = table[i].generation
    <3>1. table[i] \in Slot
      BY <2>2
    <3>2. QED
      BY <2>1, <3>1 DEF Slot
  <2> HIDE DEF slot
  <2>5. /\ table' \in Seq(Slot) /\ Len(table') = Len(table) /\ table'[i] = slot
        /\ \A j \in 1..Len(table) : j # i => table'[j] = table[j]
    BY <2>1, <2>2, <2>4
  <2>6. /\ free' \in Seq(1..MaxSlots) /\ Len(free') = Len(free) + 1 /\ free'[Len(free) + 1] = i
        /\ \A k \in 1..Len(free) : free'[k] = free[k]
    BY <2>1, <2>2
  <2>7. \A k \in 1..Len(free) : free[k] \in 1..Len(table) /\ table[free[k]].of = None /\ free[k] # i
    <3> SUFFICES ASSUME NEW k \in 1..Len(free)
                 PROVE  free[k] \in 1..Len(table) /\ table[free[k]].of = None /\ free[k] # i
      OBVIOUS
    <3>1. free[k] \in 1..MaxSlots /\ MaxSlots \in Nat
      BY <2>2, Constants
    <3>2. free[k] <= Len(table) /\ table[free[k]].of = None
      BY DEF Inv, Table
    <3>3. QED
      BY <2>2, <2>3, <3>1, <3>2
  <2>8. \A k \in 1..Len(free') : free'[k] <= Len(table') /\ table'[free'[k]].of = None
    <3> SUFFICES ASSUME NEW k \in 1..Len(free')
                 PROVE  free'[k] <= Len(table') /\ table'[free'[k]].of = None
      OBVIOUS
    <3>1. CASE k = Len(free) + 1
      BY <2>2, <2>4, <2>5, <2>6, <3>1
    <3>2. CASE k # Len(free) + 1
      <4>1. k \in 1..Len(free)
        BY <2>2, <2>6, <3>2
      <4>2. QED
        BY <4>1, <2>2, <2>5, <2>6, <2>7
    <3>3. QED
      BY <3>1, <3>2
  <2>9. \A k, l \in 1..Len(free') : free'[k] = free'[l] => k = l
    <3> SUFFICES ASSUME NEW k \in 1..Len(free'), NEW l \in 1..Len(free'), free'[k] = free'[l]
                 PROVE  k = l
      OBVIOUS
    <3>1. \A m \in 1..Len(free') : m \in 1..Len(free) \/ m = Len(free) + 1
      BY <2>2, <2>6
    <3>2. \A m, o \in 1..Len(free) : free[m] = free[o] => m = o
      BY DEF Inv, Table
    <3>3. QED
      BY <2>6, <2>7, <3>1, <3>2
  <2>10. ASSUME NEW u \in Terminals, Reading(u)' PROVE Named(u)'
    <3>1. Reading(u) /\ Named(u) /\ side'[u].handle = side[u].handle
      BY <2>10 DEF Reading, Inv, Table
    <3>2. CASE u = t
      <4>1. pty'[t].shutdown /\ pty'[t].finished
        BY <1>2
      <4>2. SlotOf(t)' = slot
        BY <2>5 DEF SlotOf
      <4>3. side'[t].handle[1] <= Len(table') /\ side'[t].handle[2] <= SlotOf(t)'.generation
        BY <2>2, <2>4, <2>5, <3>1, <3>2, <4>2 DEF Named, SlotOf
      <4>4. QED
        BY <3>2, <4>1, <4>2, <4>3, <2>4 DEF Named
    <3>3. CASE u # t /\ side[u].handle[1] # i
      <4>1. side[u].handle[1] \in 1..Len(table)
        BY <2>2, <3>1, TableFacts DEF Named
      <4>2. SlotOf(u)' = SlotOf(u) /\ (Holds(u)' <=> Holds(u)) /\ (Occupied(u)' <=> Occupied(u))
        BY <2>5, <3>1, <3>3, <4>1 DEF SlotOf, Holds, Occupied
      <4>3. QED
        BY <2>5, <3>1, <4>2 DEF Named
    <3>4. CASE u # t /\ side[u].handle[1] = i
      <4>1. ~Holds(u)
        <5>1. side[u].handle # side[t].handle
          BY <3>1, <3>4 DEF Inv, Table
        <5>2. side[u].handle[2] # side[t].handle[2]
          BY <5>1, <3>4, TableFacts
        <5>3. QED
          BY <5>2, <3>4, <2>3 DEF Holds, SlotOf
      <4>2. ~Holds(u)' /\ side'[u].handle[2] <= SlotOf(u)'.generation
        BY <2>2, <2>4, <2>5, <3>1, <3>4, <4>1 DEF Holds, SlotOf, Named
      <4>3. pty'[u].shutdown /\ pty'[u].finished
        BY <3>1, <4>1 DEF Named, Occupied
      <4>4. QED
        BY <2>5, <3>1, <4>2, <4>3 DEF Named
    <3>5. QED
      BY <3>2, <3>3, <3>4
  <2>11. \A u, v \in Terminals :
           Reading(u)' /\ Reading(v)' /\ side'[u].handle = side'[v].handle => u = v
    BY DEF Reading, Inv, Table
  <2>12. \A k \in 1..Len(table') : table'[k].generation <= Cardinality(Spawned')
    <3>1. Spawned' = Spawned
      BY DEF Spawned, Reading
    <3>2. \A k \in 1..Len(table) : table'[k].generation = table[k].generation
      BY <2>3, <2>4, <2>5
    <3>3. QED
      BY <2>5, <3>1, <3>2 DEF Inv, Table
  <2>13. QED
    BY <2>2, <2>5, <2>6, <2>8, <2>9, <2>10, <2>11, <2>12 DEF Table
<1>3. QED
  BY <1>1, <1>2

LEMMA ReaderRetiresKeeps == ASSUME Inv, NEW t \in Terminals, ReaderRetires(t) PROVE Inv'
<1> DEFINE p == pty[t]
           q == [p EXCEPT !.at = "done"]
           d == side[t].delivered
<1>1. PICK n \in 1..Ceiling : p \in Pty(n) /\ RingOf(p, d, n)
  BY OfTerminal
<1>2. /\ p.at = "retire" /\ pty' = [pty EXCEPT ![t] = q] /\ Retires(t, p) /\ side' = side
  BY DEF ReaderRetires
<1>3. Thread(t, p) /\ Held(t, p, side[t]) /\ side[t] \in Side /\ d \in Nat
  BY OfTerminal
<1>4. pty'[t] = q /\ \A u \in Terminals : u # t => pty'[u] = pty[u]
  BY <1>2 DEF Inv, TypeOK
<1>5. side' = [side EXCEPT ![t] = side[t]]
  BY <1>2 DEF Inv, TypeOK
<1>6. Reading(t) <=> p.child # "unborn"
  BY DEF Reading
<1> HIDE DEF p, d
<1>7. /\ q \in Pty(n)
      /\ q.buf = p.buf /\ q.head = p.head /\ q.tail = p.tail /\ q.len = p.len
      /\ q.room = p.room /\ q.taken = p.taken /\ q.written = p.written /\ q.at = "done"
      /\ q.child = p.child /\ q.shutdown = p.shutdown /\ q.finished = p.finished
      /\ q.stopped = p.stopped /\ q.code = p.code /\ q.hungUp = p.hungUp
  BY <1>1 DEF Pty, Places
<1> HIDE DEF q
<1>8. RingOf(q, d, n)
  <2>1. p.written <= q.written
    BY <1>1, <1>7, PtyFields
  <2>2. ~Holding(p) /\ ~Holding(q)
    BY <1>2, <1>7 DEF Holding
  <2>3. QED
    BY <2>1, <2>2, <1>1, <1>3, <1>7, KeptRing
<1>9. Thread(t, q)
  BY <1>2, <1>3, <1>7 DEF Thread, Winding
<1>10. Held(t, q, side[t])
  BY <1>3, <1>7 DEF Held
<1>11. /\ Table' /\ table' \in Seq(Slot) /\ Len(table') <= MaxSlots
       /\ free' \in Seq(1..MaxSlots)
  <2>1. Reading(t) /\ (p.finished => p.code = t)
    BY <1>2, <1>3, <1>6 DEF Thread
  <2>2. \A u \in Terminals : /\ side'[u].handle = side[u].handle
                             /\ pty'[u].child = "unborn" <=> pty[u].child = "unborn"
                             /\ pty[u].shutdown => pty'[u].shutdown
                             /\ pty[u].finished => pty'[u].finished
    BY <1>2, <1>4, <1>7 DEF p
  <2>3. pty'[t].shutdown = p.shutdown /\ pty'[t].finished = p.finished
    BY <1>4, <1>7
  <2>4. QED
    BY <1>2, <2>1, <2>2, <2>3, RetiredTable
<1>12. Ring(q, side[t].delivered)
  BY <1>7, <1>8 DEF Ring, d
<1>13. QED
  BY <1>2, <1>3, <1>5, <1>9, <1>10, <1>11, <1>12, StepKeeps

(* A call of the daemon that leaves the table alone. *)
LEMMA CallKeeps ==
  ASSUME Inv, NEW t \in Terminals, NEW q, NEW s \in Side,
         pty' = [pty EXCEPT ![t] = q], side' = [side EXCEPT ![t] = s], UNCHANGED <<table, free>>,
         Ring(q, s.delivered), Thread(t, q), Held(t, q, s),
         s.handle = side[t].handle, q.child = "unborn" <=> pty[t].child = "unborn",
         pty[t].shutdown => q.shutdown, pty[t].finished => q.finished
  PROVE  Inv'
<1>1. pty'[t] = q /\ \A u \in Terminals : u # t => pty'[u] = pty[u]
  BY DEF Inv, TypeOK
<1>2. side'[t] = s /\ \A u \in Terminals : u # t => side'[u] = side[u]
  BY DEF Inv, TypeOK
<1>3. \A u \in Terminals : /\ side'[u].handle = side[u].handle
                           /\ pty'[u].child = "unborn" <=> pty[u].child = "unborn"
                           /\ pty[u].shutdown => pty'[u].shutdown
                           /\ pty[u].finished => pty'[u].finished
  BY <1>1, <1>2
<1>4. Table'
  BY <1>3, KeptTable
<1>5. table' \in Seq(Slot) /\ Len(table') <= MaxSlots /\ free' \in Seq(1..MaxSlots)
  BY TableFacts
<1>6. QED
  BY <1>4, <1>5, StepKeeps

LEMMA DrainKeeps == ASSUME Inv, NEW t \in Terminals, Drain(t) PROVE Inv'
<1> DEFINE p == pty[t]
           d == side[t].delivered
           m == Smaller(p.len, DrainSize)
           q == DrainedBy(p, m)
           s == [side[t] EXCEPT !.delivered = d + m, !.doing = "notify"]
<1>1. PICK n \in 1..Ceiling : p \in Pty(n) /\ RingOf(p, d, n)
  BY OfTerminal
<1>2. Thread(t, p) /\ Held(t, p, side[t]) /\ side[t] \in Side /\ d \in Nat
  BY OfTerminal
<1>3. /\ side[t].running /\ p.at # "parking" /\ UNCHANGED <<table, free>>
      /\ pty' = [pty EXCEPT ![t] = q] /\ side' = [side EXCEPT ![t] = s]
  <2>1. side \in [Terminals -> Side]
    BY DEF Inv, TypeOK
  <2>2. side' = [side EXCEPT ![t] = s]
    BY <2>1 DEF Drain
  <2>3. QED
    BY <2>2 DEF Drain
<1> HIDE DEF p, d
<1>4. m \in 0..p.len
  BY <1>1, PtyFields, Constants DEF Smaller
<1> HIDE DEF m
<1>5. /\ q \in Pty(n) /\ RingOf(q, d + m, n) /\ q.len = p.len - m
      /\ \A f \in {"child", "written", "taken", "paused", "stopped", "at", "room", "hungUp",
                   "master", "wake", "shutdown", "finished", "code"} : q[f] = p[f]
  BY <1>1, <1>2, <1>4, DrainRing
<1>6. /\ q.child = p.child /\ q.written = p.written /\ q.taken = p.taken /\ q.at = p.at
      /\ q.hungUp = p.hungUp /\ q.shutdown = p.shutdown /\ q.finished = p.finished
      /\ q.stopped = p.stopped /\ q.code = p.code
  BY <1>5
<1> HIDE DEF q
<1>7. d + m \in 0..MaxBytes
  <2>1. /\ q.taken \in Nat /\ q.len \in Nat /\ q.room \in Nat /\ q.written \in Nat
        /\ q.written <= MaxBytes /\ MaxBytes \in Nat /\ m \in Nat
    <3>1. p.len \in Nat
      BY <1>1, PtyFields
    <3>2. QED
      BY <1>4, <1>5, <3>1, PtyFields, Constants
  <2>2. /\ q.taken = (d + m) + q.len + (IF q.at = "commit" THEN q.room ELSE 0)
        /\ q.taken <= q.written
    BY <1>5 DEF RingOf
  <2>3. QED
    BY <1>2, <2>1, <2>2
<1>8. /\ s \in Side /\ s.delivered = d + m /\ s.handle = side[t].handle /\ s.doing = "notify"
      /\ s.running = side[t].running /\ s.closed = side[t].closed /\ s.status = side[t].status
  BY <1>2, <1>7 DEF Side
<1> HIDE DEF s
<1>9. Thread(t, q)
  BY <1>2, <1>3, <1>6 DEF Thread, Winding
<1>10. Held(t, q, s)
  BY <1>2, <1>3, <1>6, <1>8 DEF Held
<1>11. Ring(q, s.delivered)
  BY <1>5, <1>8 DEF Ring
<1>12. QED
  BY <1>3, <1>6, <1>8, <1>9, <1>10, <1>11, CallKeeps DEF p

LEMMA NotifiedKeeps ==
  ASSUME NEW n \in 1..Ceiling, NEW p \in Pty(n), NEW d \in Nat, NEW t,
         RingOf(p, d, n), Thread(t, p)
  PROVE  /\ Notified(p) \in Pty(n) /\ RingOf(Notified(p), d, n) /\ Thread(t, Notified(p))
         /\ Notified(p).at # "parked" /\ Notified(p).child = p.child
         /\ Notified(p).shutdown = p.shutdown /\ Notified(p).finished = p.finished
         /\ Notified(p).stopped = p.stopped /\ Notified(p).written = p.written
         /\ Notified(p).code = p.code /\ Notified(p).len = p.len
<1> DEFINE q == Notified(p)
<1>1. CASE p.at # "parked"
  BY <1>1 DEF Notified
<1>2. CASE p.at = "parked"
  <2>1. /\ q \in Pty(n) /\ q.at = "gate" /\ p.written \in Nat
        /\ q.buf = p.buf /\ q.head = p.head /\ q.tail = p.tail /\ q.len = p.len
        /\ q.room = p.room /\ q.taken = p.taken /\ q.written = p.written
        /\ q.child = p.child /\ q.shutdown = p.shutdown /\ q.finished = p.finished
        /\ q.stopped = p.stopped /\ q.code = p.code /\ q.hungUp = p.hungUp
    <3>1. p.written \in Nat
      BY PtyFields
    <3>2. q = [p EXCEPT !.at = "gate"]
      BY <1>2 DEF Notified
    <3>3. QED
      BY <3>1, <3>2 DEF Pty, Places
  <2> HIDE DEF q
  <2>2. RingOf(q, d, n)
    <3>1. ~Holding(p) /\ ~Holding(q) /\ p.written <= q.written
      BY <1>2, <2>1 DEF Holding
    <3>2. QED
      BY <2>1, <3>1, KeptRing
  <2>3. Thread(t, q)
    BY <1>2, <2>1 DEF Thread, Winding
  <2>4. QED
    BY <2>1, <2>2, <2>3 DEF q
<1>3. QED
  BY <1>1, <1>2

LEMMA NotifyKeeps == ASSUME Inv, NEW t \in Terminals, Notify(t) PROVE Inv'
<1> DEFINE p == pty[t]
           d == side[t].delivered
           q == Notified(p)
           s == [side[t] EXCEPT !.doing = "nothing"]
<1>1. PICK n \in 1..Ceiling : p \in Pty(n) /\ RingOf(p, d, n)
  BY OfTerminal
<1>2. Thread(t, p) /\ Held(t, p, side[t]) /\ side[t] \in Side /\ d \in Nat
  BY OfTerminal
<1>3. /\ UNCHANGED <<table, free>>
      /\ pty' = [pty EXCEPT ![t] = q] /\ side' = [side EXCEPT ![t] = s]
  BY DEF Notify, Inv, TypeOK
<1> HIDE DEF p
<1>4. /\ q \in Pty(n) /\ RingOf(q, d, n) /\ Thread(t, q) /\ q.at # "parked"
      /\ q.child = p.child /\ q.shutdown = p.shutdown /\ q.finished = p.finished
      /\ q.stopped = p.stopped /\ q.written = p.written
  <2> HIDE DEF d
  <2> QED BY <1>1, <1>2, NotifiedKeeps
<1>5. /\ s \in Side /\ s.delivered = d /\ s.handle = side[t].handle
      /\ s.running = side[t].running /\ s.closed = side[t].closed /\ s.status = side[t].status
  BY <1>2 DEF Side
<1> HIDE DEF q, s
<1>6. Held(t, q, s)
  BY <1>2, <1>4, <1>5 DEF Held
<1>7. Ring(q, s.delivered)
  BY <1>4, <1>5 DEF Ring
<1>8. QED
  BY <1>3, <1>4, <1>5, <1>6, <1>7, CallKeeps DEF p
(* What the table answers for a handle is that terminal's own code. *)
LEMMA OwnCode ==
  ASSUME Inv, NEW t \in Terminals, Reading(t)
  PROVE  /\ ExitCode(t) \in {None, t}
         /\ ~pty[t].shutdown => Occupied(t) /\ ExitCode(t) = pty[t].code
<1>1. Named(t) /\ t # None
  BY Constants DEF Inv, Table
<1>2. pty[t].code \in {None, t}
  BY OfTerminal DEF Thread
<1>3. Occupied(t) => Holds(t) /\ SlotOf(t).of = t
  BY <1>1 DEF Named, Occupied
<1>4. QED
  BY <1>1, <1>2, <1>3 DEF Named, ExitCode

(* A terminal nobody hung up has stopped: all it wrote has been delivered. *)
LEMMA DrainEndsKeeps == ASSUME Inv, NEW t \in Terminals, DrainEnds(t) PROVE Inv'
<1> DEFINE p == pty[t]
           d == side[t].delivered
           s == [side[t] EXCEPT !.running = FALSE, !.status = ExitCode(t)]
<1>1. PICK n \in 1..Ceiling : p \in Pty(n) /\ RingOf(p, d, n)
  BY OfTerminal
<1>2. Thread(t, p) /\ Held(t, p, side[t]) /\ side[t] \in Side /\ d \in Nat
  BY OfTerminal
<1>3. /\ side[t].running /\ (~Occupied(t) \/ (p.stopped /\ p.len = 0))
      /\ UNCHANGED <<table, free>> /\ side' = [side EXCEPT ![t] = s]
      /\ pty' = [pty EXCEPT ![t] = p]
  <2>1. side \in [Terminals -> Side] /\ pty = [u \in Terminals |-> pty[u]]
    BY DEF Inv, TypeOK
  <2>2. side' = [side EXCEPT ![t] = s]
    BY <2>1 DEF DrainEnds
  <2>3. pty' = [pty EXCEPT ![t] = p]
    BY <2>1 DEF DrainEnds
  <2>4. QED
    BY <2>2, <2>3 DEF DrainEnds
<1>4. ~side[t].closed /\ ~p.shutdown /\ Reading(t)
  BY <1>2, <1>3 DEF Held, Reading
<1>5. /\ p.stopped /\ p.len = 0 /\ ExitCode(t) = p.code
  BY <1>3, <1>4, OwnCode
<1> HIDE DEF p, d
<1>6. p.at \in {"retire", "done"} /\ p.code = t /\ p.taken = p.written
  BY <1>2, <1>4, <1>5 DEF Thread, Winding
<1>7. d = p.written
  BY <1>1, <1>2, <1>5, <1>6 DEF RingOf
<1>8. /\ s \in Side /\ s.delivered = d /\ s.handle = side[t].handle
      /\ ~s.running /\ s.closed = side[t].closed /\ s.status = t
  BY <1>2, <1>5, <1>6 DEF Side, d
<1> HIDE DEF s
<1>9. Held(t, p, s)
  BY <1>2, <1>4, <1>5, <1>6, <1>7, <1>8 DEF Held
<1>10. Ring(p, s.delivered)
  BY <1>1, <1>8 DEF Ring
<1>11. QED
  BY <1>2, <1>3, <1>8, <1>9, <1>10, CallKeeps DEF p

(* Only a terminal that was hung up has no code when its drains have ended. *)
LEMMA AskExitKeeps == ASSUME Inv, NEW t \in Terminals, AskExit(t) PROVE Inv'
<1> DEFINE p == pty[t]
           d == side[t].delivered
           s == [side[t] EXCEPT !.status = ExitCode(t)]
<1>1. PICK n \in 1..Ceiling : p \in Pty(n) /\ RingOf(p, d, n)
  BY OfTerminal
<1>2. Thread(t, p) /\ Held(t, p, side[t]) /\ side[t] \in Side /\ t # None
  BY OfTerminal, Constants
<1>3. /\ Reading(t) /\ ~side[t].running /\ side[t].status = None
      /\ UNCHANGED <<table, free>> /\ side' = [side EXCEPT ![t] = s]
      /\ pty' = [pty EXCEPT ![t] = p]
  <2>1. side \in [Terminals -> Side] /\ pty = [u \in Terminals |-> pty[u]]
    BY DEF Inv, TypeOK
  <2>2. side' = [side EXCEPT ![t] = s]
    BY <2>1 DEF AskExit
  <2>3. pty' = [pty EXCEPT ![t] = p]
    BY <2>1 DEF AskExit
  <2>4. QED
    BY <2>2, <2>3 DEF AskExit
<1>4. side[t].closed
  BY <1>2, <1>3 DEF Held, Reading
<1>5. ExitCode(t) \in {None, t}
  BY <1>3, OwnCode
<1> HIDE DEF p
<1>6. /\ s \in Side /\ s.delivered = d /\ s.handle = side[t].handle /\ s.doing = side[t].doing
      /\ s.running = side[t].running /\ s.closed /\ s.status \in {None, t}
  BY <1>2, <1>4, <1>5 DEF Side
<1> HIDE DEF s
<1>7. Held(t, p, s)
  BY <1>2, <1>3, <1>4, <1>6 DEF Held
<1>8. Ring(p, s.delivered)
  BY <1>1, <1>6 DEF Ring
<1>9. QED
  BY <1>2, <1>3, <1>6, <1>7, <1>8, CallKeeps DEF p

(* Nothing else of the daemon happens inside a call: no drain is on its way *)
(* to wake the reader when the terminal is hung up.                         *)
LEMMA CloseKeeps == ASSUME Inv, NEW t \in Terminals, Close(t) PROVE Inv'
<1> DEFINE p == pty[t]
           d == side[t].delivered
           q == IF Occupied(t) THEN [p EXCEPT !.shutdown = TRUE] ELSE p
           s == [side[t] EXCEPT !.closed = TRUE, !.running = FALSE,
                                !.doing = IF Occupied(t) THEN "wake" ELSE "nothing"]
<1>1. PICK n \in 1..Ceiling : p \in Pty(n) /\ RingOf(p, d, n)
  BY OfTerminal
<1>2. Thread(t, p) /\ Held(t, p, side[t]) /\ side[t] \in Side /\ d \in Nat
  BY OfTerminal
<1>3. /\ p.child # "unborn" /\ side[t].doing = "nothing" /\ UNCHANGED <<table, free>>
      /\ side' = [side EXCEPT ![t] = s] /\ pty' = [pty EXCEPT ![t] = q]
  <2>1. side \in [Terminals -> Side] /\ pty = [u \in Terminals |-> pty[u]]
    BY DEF Inv, TypeOK
  <2>2. side' = [side EXCEPT ![t] = s]
    BY <2>1 DEF Close
  <2>3. pty' = [pty EXCEPT ![t] = q]
    <3>1. CASE Occupied(t)
      BY <2>1, <3>1 DEF Close
    <3>2. CASE ~Occupied(t)
      BY <2>1, <3>2 DEF Close
    <3>3. QED
      BY <3>1, <3>2
  <2>4. QED
    BY <2>2, <2>3 DEF Close, InNoCall, Reading
<1> HIDE DEF p, d
<1>4. /\ q \in Pty(n) /\ p.written \in Nat
      /\ q.buf = p.buf /\ q.head = p.head /\ q.tail = p.tail /\ q.len = p.len
      /\ q.room = p.room /\ q.taken = p.taken /\ q.written = p.written /\ q.at = p.at
      /\ q.child = p.child /\ q.finished = p.finished
      /\ q.stopped = p.stopped /\ q.code = p.code /\ q.hungUp = p.hungUp
      /\ p.shutdown => q.shutdown
  <2>1. p.written \in Nat
    BY <1>1, PtyFields
  <2>2. CASE Occupied(t)
    BY <1>1, <2>1, <2>2 DEF Pty
  <2>3. CASE ~Occupied(t)
    BY <1>1, <2>1, <2>3 DEF Pty
  <2>4. QED
    BY <2>2, <2>3
<1> HIDE DEF q
<1>5. /\ s \in Side /\ s.delivered = d /\ s.handle = side[t].handle
      /\ ~s.running /\ s.closed /\ s.status = side[t].status
  BY <1>2 DEF Side, d
<1> HIDE DEF s
<1>6. RingOf(q, d, n)
  <2>1. p.written <= q.written
    BY <1>4
  <2>2. QED
    BY <2>1, <1>1, <1>2, <1>4, KeptRing
<1>7. Thread(t, q)
  BY <1>2, <1>4 DEF Thread, Winding
<1>8. Held(t, q, s)
  BY <1>2, <1>3, <1>4, <1>5 DEF Held
<1>9. Ring(q, s.delivered)
  BY <1>4, <1>5, <1>6 DEF Ring
<1>10. QED
  BY <1>3, <1>4, <1>5, <1>7, <1>8, <1>9, CallKeeps DEF p

LEMMA WakeKeeps == ASSUME Inv, NEW t \in Terminals, Wake(t) PROVE Inv'
<1> DEFINE p == pty[t]
           d == side[t].delivered
           r == Notified(p)
           q == [r EXCEPT !.wake = TRUE]
           s == [side[t] EXCEPT !.doing = "nothing"]
<1>1. PICK n \in 1..Ceiling : p \in Pty(n) /\ RingOf(p, d, n)
  BY OfTerminal
<1>2. Thread(t, p) /\ Held(t, p, side[t]) /\ side[t] \in Side /\ d \in Nat
  BY OfTerminal
<1>3. /\ Retires(t, q)
      /\ pty' = [pty EXCEPT ![t] = q] /\ side' = [side EXCEPT ![t] = s]
  BY DEF Wake, Inv, TypeOK
<1>4. /\ pty'[t] = q /\ \A u \in Terminals : u # t => pty'[u] = pty[u]
      /\ side'[t] = s /\ \A u \in Terminals : u # t => side'[u] = side[u]
  BY <1>3 DEF Inv, TypeOK
<1>5. Reading(t) <=> p.child # "unborn"
  BY DEF Reading
<1> HIDE DEF p
<1>6. /\ r \in Pty(n) /\ RingOf(r, d, n) /\ Thread(t, r) /\ r.at # "parked"
      /\ r.child = p.child /\ r.shutdown = p.shutdown /\ r.finished = p.finished
      /\ r.stopped = p.stopped /\ r.written = p.written /\ r.code = p.code
  <2> HIDE DEF d
  <2> QED BY <1>1, <1>2, NotifiedKeeps
<1> HIDE DEF r
<1>7. /\ q \in Pty(n) /\ r.written \in Nat
      /\ q.buf = r.buf /\ q.head = r.head /\ q.tail = r.tail /\ q.len = r.len
      /\ q.room = r.room /\ q.taken = r.taken /\ q.written = r.written /\ q.at = r.at
      /\ q.child = r.child /\ q.shutdown = r.shutdown /\ q.finished = r.finished
      /\ q.stopped = r.stopped /\ q.code = r.code /\ q.hungUp = r.hungUp
  <2>1. r.written \in Nat
    BY <1>6, PtyFields
  <2>2. QED
    BY <1>6, <2>1 DEF Pty
<1>8. /\ s \in Side /\ s.delivered = d /\ s.handle = side[t].handle
      /\ s.running = side[t].running /\ s.closed = side[t].closed /\ s.status = side[t].status
  BY <1>2 DEF Side
<1> HIDE DEF q, s
<1>9. RingOf(q, d, n)
  <2>1. r.written <= q.written
    BY <1>7
  <2> HIDE DEF d
  <2>2. QED
    BY <2>1, <1>2, <1>6, <1>7, KeptRing
<1>10. Thread(t, q)
  BY <1>6, <1>7 DEF Thread, Winding
<1>11. Held(t, q, s)
  BY <1>2, <1>6, <1>7, <1>8 DEF Held
<1>12. Ring(q, s.delivered)
  BY <1>7, <1>8, <1>9 DEF Ring
<1>13. /\ Table' /\ table' \in Seq(Slot) /\ Len(table') <= MaxSlots
       /\ free' \in Seq(1..MaxSlots)
  <2>1. \A u \in Terminals : /\ side'[u].handle = side[u].handle
                             /\ pty'[u].child = "unborn" <=> pty[u].child = "unborn"
                             /\ pty[u].shutdown => pty'[u].shutdown
                             /\ pty[u].finished => pty'[u].finished
    BY <1>4, <1>6, <1>7, <1>8 DEF p
  <2>2. CASE q.finished
    <3>1. q.code = t /\ Reading(t)
      BY <1>5, <1>6, <1>7, <1>10, <2>2 DEF Thread
    <3>2. pty'[t].shutdown = q.shutdown /\ pty'[t].finished = q.finished
      BY <1>4
    <3>3. QED
      BY <1>3, <2>1, <3>1, <3>2, RetiredTable
  <2>3. CASE ~q.finished
    <3>1. UNCHANGED <<table, free>>
      BY <1>3, <2>3 DEF Retires
    <3>2. QED
      BY <2>1, <3>1, KeptTable, TableFacts
  <2>4. QED
    BY <2>2, <2>3
<1>14. QED
  BY <1>3, <1>8, <1>10, <1>11, <1>12, <1>13, StepKeeps
(* A slot is taken anew: every handle that named it is of an older generation. *)
LEMMA TakenTable ==
  ASSUME Inv, NEW t \in Terminals, ~Reading(t), NEW i \in Nat, NEW g \in Nat, NEW slot \in Slot,
         slot.of = t, slot.generation = g,
         table' \in Seq(Slot), Len(table') \in Nat, Len(table) <= Len(table'),
         i \in 1..Len(table'), table'[i] = slot,
         \A j \in 1..Len(table) : j # i => table'[j] = table[j],
         i <= Len(table) => table[i].of = None /\ table[i].generation < g
                            /\ table[i].generation \in Nat,
         Len(free') \in Nat,
         \A k \in 1..Len(free') :
           free'[k] \in 1..Len(table) /\ free'[k] # i /\ table[free'[k]].of = None,
         \A k, l \in 1..Len(free') : free'[k] = free'[l] => k = l,
         side'[t].handle = <<i, g>>,
         \A u \in Terminals : u # t => side'[u].handle = side[u].handle /\ pty'[u] = pty[u],
         Len(table') <= Len(table) + 1, i = Len(table) + 1 \/ Len(table') = Len(table),
         Cardinality(Spawned) \in Nat, Cardinality(Spawned') = Cardinality(Spawned) + 1,
         g <= Cardinality(Spawned) + 1
  PROVE  Table'
<1>1. t # None /\ Len(table) \in Nat
  BY Constants, TableFacts
<1>2. \A k \in 1..Len(free') : free'[k] <= Len(table') /\ table'[free'[k]].of = None
  <2> SUFFICES ASSUME NEW k \in 1..Len(free')
               PROVE  free'[k] <= Len(table') /\ table'[free'[k]].of = None
    OBVIOUS
  <2>1. free'[k] \in 1..Len(table) /\ free'[k] # i /\ table[free'[k]].of = None
    OBVIOUS
  <2>2. table'[free'[k]] = table[free'[k]]
    BY <2>1
  <2>3. QED
    BY <1>1, <2>1, <2>2
<1>3. ASSUME NEW u \in Terminals, u # t, Reading(u)'
      PROVE  Named(u)' /\ side'[u].handle # <<i, g>>
  <2>1. Reading(u) /\ Named(u) /\ side'[u].handle = side[u].handle /\ pty'[u] = pty[u]
    BY <1>3 DEF Reading, Inv, Table
  <2>2. side[u].handle[1] \in 1..Len(table) /\ side[u].handle[2] \in Nat
    BY <1>1, <2>1, TableFacts DEF Named
  <2>3. CASE side[u].handle[1] # i
    <3>1. SlotOf(u)' = SlotOf(u) /\ (Holds(u)' <=> Holds(u)) /\ (Occupied(u)' <=> Occupied(u))
      <4>1. SlotOf(u)' = SlotOf(u)
        BY <2>1, <2>2, <2>3 DEF SlotOf
      <4>2. side[u].handle[1] <= Len(table) /\ side[u].handle[1] <= Len(table')
        BY <1>1, <2>2
      <4>3. QED
        BY <2>1, <4>1, <4>2 DEF Holds, Occupied
    <3>2. side'[u].handle[1] <= Len(table')
      BY <1>1, <2>1, <2>2
    <3>3. QED
      BY <2>1, <2>3, <3>1, <3>2 DEF Named
  <2>4. CASE side[u].handle[1] = i
    <3>1. table[i].of = None /\ SlotOf(u) = table[i] /\ side[u].handle[2] < g
      <4>1. side[u].handle[2] <= table[i].generation
        BY <2>1, <2>4 DEF Named, SlotOf
      <4>2. table[i].generation < g /\ table[i].generation \in Nat /\ table[i].of = None
        BY <1>1, <2>2, <2>4
      <4>3. QED
        BY <2>2, <2>4, <4>1, <4>2 DEF SlotOf
    <3>2. ~Occupied(u)
      BY <3>1 DEF Occupied
    <3>3. pty'[u].shutdown /\ pty'[u].finished
      BY <2>1, <3>2 DEF Named
    <3>4. SlotOf(u)' = slot
      BY <2>1, <2>4 DEF SlotOf
    <3>5. ~Holds(u)' /\ side'[u].handle[2] <= SlotOf(u)'.generation /\ side'[u].handle[1] <= Len(table')
      BY <2>1, <2>2, <2>4, <3>1, <3>4 DEF Holds
    <3>6. QED
      BY <2>1, <3>1, <3>3, <3>5 DEF Named
  <2>5. QED
    BY <2>3, <2>4
<1>4. Named(t)'
  <2>1. SlotOf(t)' = slot /\ Holds(t)'
    BY DEF SlotOf, Holds
  <2>2. QED
    BY <1>1, <2>1 DEF Named, Occupied
<1>5. \A u \in Terminals : Reading(u)' => Named(u)'
  BY <1>3, <1>4
<1>6. \A u, v \in Terminals :
        Reading(u)' /\ Reading(v)' /\ side'[u].handle = side'[v].handle => u = v
  <2> SUFFICES ASSUME NEW u \in Terminals, NEW v \in Terminals, Reading(u)', Reading(v)',
                      side'[u].handle = side'[v].handle
               PROVE  u = v
    OBVIOUS
  <2>1. CASE u # t /\ v # t
    BY <2>1, SMTT(30) DEF Reading, Inv, Table
  <2>2. CASE u = t \/ v = t
    BY <2>2, <1>3
  <2>3. QED
    BY <2>1, <2>2
<1>7. \A k \in 1..Len(table') : table'[k].generation <= Cardinality(Spawned')
  <2> SUFFICES ASSUME NEW k \in 1..Len(table')
               PROVE  table'[k].generation <= Cardinality(Spawned')
    OBVIOUS
  <2>1. CASE k = i
    BY <2>1
  <2>2. CASE k # i
    <3>1. k \in 1..Len(table)
      BY <1>1, <2>2
    <3>2. table[k].generation \in Nat
      <4>1. table[k] \in Slot
        BY <3>1, TableFacts
      <4>2. QED
        BY <4>1, Constants DEF Slot
    <3>3. table[k].generation <= Cardinality(Spawned)
      BY <3>1 DEF Inv, Table
    <3>4. QED
      BY <2>2, <3>1, <3>2, <3>3
  <2>3. QED
    BY <2>1, <2>2
<1>8. QED
  BY <1>2, <1>5, <1>6, <1>7 DEF Table

(* Spawning t makes one more, and a slot has a generation left for it. *)
LEMMA OneMore ==
  ASSUME Inv, NEW t \in Terminals, ~Reading(t), Reading(t)',
         \A u \in Terminals : u # t => (Reading(u)' <=> Reading(u))
  PROVE  /\ Cardinality(Spawned) \in Nat /\ Cardinality(Spawned') = Cardinality(Spawned) + 1
         /\ Cardinality(Spawned) < MaxGeneration
<1>1. IsFiniteSet(Terminals) /\ Cardinality(Terminals) <= MaxGeneration
  BY GenerationsAssumption
<1>2. Spawned \subseteq Terminals /\ t \notin Spawned /\ Spawned' = Spawned \cup {t}
  BY DEF Spawned
<1>3. IsFiniteSet(Spawned) /\ Cardinality(Spawned) \in Nat
  BY <1>1, <1>2, FS_Subset, FS_CardinalityType
<1>4. Cardinality(Spawned') = Cardinality(Spawned) + 1
  BY <1>2, <1>3, FS_AddElement
<1>5. Spawned' \subseteq Terminals
  BY <1>2
<1>6. Cardinality(Spawned') <= Cardinality(Terminals)
  BY <1>1, <1>5, FS_Subset
<1>7. Cardinality(Terminals) \in Nat /\ MaxGeneration \in Nat
  BY <1>1, FS_CardinalityType, Constants
<1>8. QED
  BY <1>1, <1>3, <1>4, <1>6, <1>7

LEMMA SpawnKeeps == ASSUME Inv, NEW t \in Terminals, Spawn(t) PROVE Inv'
<1> DEFINE p == pty[t]
           d == side[t].delivered
           q == [p EXCEPT !.child = "running"]
           i == IF free # <<>> THEN Head(free) ELSE Len(table) + 1
           g == NextGeneration(IF free # <<>> THEN table[i].generation ELSE 0)
           s == [side[t] EXCEPT !.running = TRUE, !.handle = <<i, g>>]
           slot == [generation |-> g, of |-> t, code |-> None]
<1>1. PICK n \in 1..Ceiling : p \in Pty(n) /\ RingOf(p, d, n)
  BY OfTerminal
<1>2. Thread(t, p) /\ Held(t, p, side[t]) /\ side[t] \in Side /\ d \in Nat
  BY OfTerminal
<1>3. p.child = "unborn" /\ ~Reading(t) /\ (free # <<>> \/ Len(table) < MaxSlots)
  BY DEF Spawn, Reading
<1>4. pty' = [pty EXCEPT ![t] = q] /\ side' = [side EXCEPT ![t] = s]
  <2>1. side \in [Terminals -> Side] /\ pty = [u \in Terminals |-> pty[u]]
    BY DEF Inv, TypeOK
  <2>2. QED
    BY <2>1 DEF Spawn
<1>5. /\ table' = (IF free # <<>> THEN [table EXCEPT ![i] = slot] ELSE Append(table, slot))
      /\ free' = IF free # <<>> THEN Tail(free) ELSE free
  BY DEF Spawn
<1>6. /\ pty'[t] = q /\ side'[t] = s
      /\ \A u \in Terminals : u # t => side'[u] = side[u] /\ pty'[u] = pty[u]
  BY <1>4 DEF Inv, TypeOK
<1>7. /\ table \in Seq(Slot) /\ Len(table) \in Nat /\ Len(table) <= MaxSlots
      /\ free \in Seq(1..MaxSlots) /\ Len(free) \in Nat /\ MaxSlots \in Nat
  BY TableFacts, Constants
<1>8. \A k \in 1..Len(free) : free[k] \in 1..Len(table) /\ table[free[k]].of = None
  <2> SUFFICES ASSUME NEW k \in 1..Len(free)
               PROVE  free[k] \in 1..Len(table) /\ table[free[k]].of = None
    OBVIOUS
  <2>1. free[k] \in 1..MaxSlots
    BY <1>7
  <2>2. free[k] <= Len(table) /\ table[free[k]].of = None
    BY DEF Inv, Table
  <2>3. QED
    BY <1>7, <2>1, <2>2
<1> HIDE DEF i, g
<1>9. /\ Cardinality(Spawned) \in Nat /\ Cardinality(Spawned') = Cardinality(Spawned) + 1
      /\ Cardinality(Spawned) < MaxGeneration /\ MaxGeneration \in Nat
  <2>1. p \in Pty(n) /\ Reading(t)' /\ \A u \in Terminals : u # t => (Reading(u)' <=> Reading(u))
    BY <1>1, <1>6 DEF Reading, Pty
  <2>2. QED
    BY <1>3, <2>1, OneMore, Constants
<1>10. /\ i \in 1..MaxSlots /\ g \in 1..MaxGeneration /\ i \in Nat /\ g <= Cardinality(Spawned) + 1
       /\ i <= Len(table) => /\ table[i].of = None /\ table[i].generation < g
                             /\ table[i].generation \in Nat
  <2>1. CASE free # <<>>
    <3>1. 1 \in 1..Len(free) /\ Head(free) = free[1]
      BY <1>7, <2>1
    <3>2. i = free[1] /\ i \in 1..Len(table) /\ table[i].of = None
      BY <1>8, <2>1, <3>1 DEF i
    <3>3. table[i].generation \in Nat
      <4>1. table[i] \in Slot
        BY <1>7, <3>2
      <4>2. QED
        BY <4>1, Constants DEF Slot
    <3>4. table[i].generation <= Cardinality(Spawned)
      BY <3>2 DEF Inv, Table
    <3>5. g = table[i].generation + 1
      BY <1>9, <2>1, <3>3, <3>4 DEF g, NextGeneration
    <3>6. /\ g \in 1..MaxGeneration /\ g <= Cardinality(Spawned) + 1
          /\ table[i].generation < g
      BY <1>9, <3>3, <3>4, <3>5
    <3>7. i \in 1..MaxSlots /\ i \in Nat
      BY <1>7, <3>2
    <3>8. QED
      BY <3>2, <3>3, <3>6, <3>7
  <2>2. CASE free = <<>>
    <3>1. g = 1
      BY <1>9, <2>2 DEF g, NextGeneration
    <3>2. QED
      BY <1>3, <1>7, <1>9, <2>2, <3>1 DEF i
  <2>3. QED
    BY <2>1, <2>2
<1>11. slot \in Slot /\ slot.of = t /\ slot.generation = g
  BY <1>10, Constants DEF Slot
<1> HIDE DEF slot
<1>12. /\ table' \in Seq(Slot) /\ Len(table') \in Nat /\ Len(table') <= MaxSlots
       /\ Len(table) <= Len(table') /\ i \in 1..Len(table') /\ table'[i] = slot
       /\ \A j \in 1..Len(table) : j # i => table'[j] = table[j]
       /\ Len(table') <= Len(table) + 1 /\ (i = Len(table) + 1 \/ Len(table') = Len(table))
  <2>1. CASE free # <<>>
    <3>1. 1 \in 1..Len(free) /\ Head(free) = free[1]
      BY <1>7, <2>1
    <3>2. i \in 1..Len(table) /\ table' = [table EXCEPT ![i] = slot]
      BY <1>5, <1>8, <2>1, <3>1 DEF i
    <3>3. QED
      BY <1>7, <1>11, <3>2
  <2>2. CASE free = <<>>
    <3>1. i = Len(table) + 1 /\ table' = Append(table, slot) /\ Len(table) < MaxSlots
      BY <1>3, <1>5, <2>2 DEF i
    <3>2. QED
      BY <1>7, <1>11, <3>1
  <2>3. QED
    BY <2>1, <2>2
<1>13. /\ free' \in Seq(1..MaxSlots) /\ Len(free') \in Nat
       /\ \A k \in 1..Len(free') :
            free'[k] \in 1..Len(table) /\ free'[k] # i /\ table[free'[k]].of = None
       /\ \A k, l \in 1..Len(free') : free'[k] = free'[l] => k = l
  <2>1. \A k, l \in 1..Len(free) : free[k] = free[l] => k = l
    BY DEF Inv, Table
  <2>2. CASE free # <<>>
    <3>1. free' = Tail(free) /\ i = free[1] /\ 1 \in 1..Len(free)
      BY <1>5, <1>7, <2>2 DEF i
    <3>2. /\ free' \in Seq(1..MaxSlots) /\ Len(free') = Len(free) - 1
          /\ \A k \in 1..Len(free') : free'[k] = free[k + 1]
      BY <1>7, <2>2, <3>1
    <3>3. \A k \in 1..Len(free') : k + 1 \in 1..Len(free) /\ k + 1 # 1
      BY <1>7, <3>2
    <3>4. \A k, l \in 1..Len(free') : free'[k] = free'[l] => k = l
      <4> SUFFICES ASSUME NEW k \in 1..Len(free'), NEW l \in 1..Len(free'), free'[k] = free'[l]
                   PROVE  k = l
        OBVIOUS
      <4>1. k + 1 = l + 1
        BY <2>1, <3>2, <3>3
      <4>2. QED
        BY <4>1, <3>2, <1>7
    <3>5. \A k \in 1..Len(free') :
            free'[k] \in 1..Len(table) /\ free'[k] # i /\ table[free'[k]].of = None
      BY <1>8, <2>1, <3>1, <3>2, <3>3
    <3>6. Len(free') \in Nat
      BY <3>2
    <3>7. QED
      BY <3>2, <3>4, <3>5, <3>6
  <2>3. CASE free = <<>>
    BY <1>5, <1>7, <2>3
  <2>4. QED
    BY <2>2, <2>3
<1>14. /\ s \in Side /\ s.handle = <<i, g>> /\ s.delivered = d /\ s.running
       /\ s.closed = side[t].closed /\ s.status = side[t].status /\ s.doing = side[t].doing
  <2>1. <<i, g>> \in (1..MaxSlots) \X (0..MaxGeneration)
    BY <1>10
  <2>2. QED
    BY <1>2, <2>1 DEF Side
<1>15. Table'
  <2>1. side'[t].handle = <<i, g>>
    BY <1>6, <1>14
  <2>2. \A u \in Terminals : u # t => side'[u].handle = side[u].handle /\ pty'[u] = pty[u]
    BY <1>6
  <2>3. g \in Nat
    BY <1>10, <1>9
  <2> HIDE DEF p, q, s
  <2>4. QED
    BY <1>3, <1>10, <1>11, <1>12, <1>13, <1>9, <2>1, <2>2, <2>3, TakenTable
<1> HIDE DEF p, d, s
<1>16. /\ q \in Pty(n) /\ p.written \in Nat
       /\ q.buf = p.buf /\ q.head = p.head /\ q.tail = p.tail /\ q.len = p.len
       /\ q.room = p.room /\ q.taken = p.taken /\ q.written = p.written /\ q.at = p.at
       /\ q.child = "running" /\ q.shutdown = p.shutdown /\ q.finished = p.finished
       /\ q.stopped = p.stopped /\ q.code = p.code /\ q.hungUp = p.hungUp
  <2>1. p.written \in Nat
    BY <1>1, PtyFields
  <2>2. QED
    BY <1>1, <2>1 DEF Pty
<1> HIDE DEF q
<1>17. RingOf(q, d, n)
  <2>1. p.written <= q.written
    BY <1>16
  <2>2. QED
    BY <2>1, <1>1, <1>2, <1>16, KeptRing
<1>18. p.at = "gate"
  BY <1>2, <1>3 DEF Thread
<1>19. Thread(t, q)
  BY <1>2, <1>16, <1>18 DEF Thread, Winding
<1>20. Held(t, q, s)
  BY <1>2, <1>3, <1>14, <1>16, <1>18 DEF Held
<1>21. Ring(q, s.delivered)
  BY <1>14, <1>16, <1>17 DEF Ring
<1>22. QED
  BY <1>4, <1>12, <1>13, <1>14, <1>15, <1>19, <1>20, <1>21, StepKeeps
-----------------------------------------------------------------------------
(* The theorems. *)

LEMMA InitInv == Init => Inv
<1> SUFFICES ASSUME Init PROVE Inv
  OBVIOUS
<1>1. /\ ReadSize \in Nat \ {0} /\ Ceiling \in Nat /\ Ceiling > ReadSize /\ MaxBytes \in Nat
      /\ MaxSlots \in Nat \ {0}
  BY Constants
<1> DEFINE n == Smaller(ReadSize, Ceiling)
<1>2. n = ReadSize /\ n \in 1..Ceiling
  BY <1>1 DEF Smaller
<1>3. Unborn \in Pty(n)
  <2>1. [i \in 0..n - 1 |-> 0] \in [0..n - 1 -> 0..MaxBytes]
    BY <1>1
  <2>2. 0 \in 0..MaxBytes /\ 0 \in 0..Ceiling /\ 0 \in 0..ReadSize
    BY <1>1
  <2>3. QED
    BY <2>1, <2>2 DEF Unborn, Pty, Places
<1>4. RingOf(Unborn, 0, n)
  <2>1. /\ Unborn.head = 0 /\ Unborn.len = 0 /\ Unborn.tail = 0 /\ Unborn.room = 0
        /\ Unborn.taken = 0 /\ Unborn.written = 0 /\ Unborn.at = "gate"
    BY DEF Unborn
  <2>2. n \in Nat /\ 0 < n /\ Cell(0, 0, n) = 0
    BY <1>1, <1>2 DEF Cell
  <2>3. ~Holding(Unborn) /\ Unborn.at # "commit"
    BY <2>1 DEF Holding
  <2> HIDE DEF n
  <2>4. QED
    BY <2>1, <2>2, <2>3 DEF RingOf
<1>5. \A t \in Terminals : pty[t] = Unborn /\ side[t].delivered = 0
  BY DEF Init
<1>6. \A t \in Terminals : Ring(pty[t], side[t].delivered)
  <2>1. \A t \in Terminals : pty[t] \in Pty(n) /\ RingOf(pty[t], side[t].delivered, n)
    <3> HIDE DEF n
    <3> QED BY <1>3, <1>4, <1>5
  <2>2. QED
    BY <1>2, <2>1 DEF Ring
<1>7. \A t \in Terminals : Thread(t, pty[t])
  BY <1>5 DEF Unborn, Thread, Winding
<1>8. \A t \in Terminals : Held(t, pty[t], side[t])
  BY <1>5 DEF Init, Unborn, Held
<1>9. table = <<>> /\ free = <<>> /\ Len(free) = 0 /\ Len(table) = 0
      /\ \A t \in Terminals : ~Reading(t)
  BY <1>5 DEF Init, Unborn, Reading
<1>10. Table
  BY <1>9 DEF Table
<1>11. TypeOK
  <2>1. side \in [Terminals -> Side]
    <3>1. <<1, 0>> \in (1..MaxSlots) \X (0..MaxGeneration) /\ 0 \in 0..MaxBytes
      BY <1>1, Constants
    <3>2. QED
      BY <3>1 DEF Init, Side
  <2>2. pty = [t \in Terminals |-> pty[t]]
    BY DEF Init
  <2>3. \A t \in Terminals : \E capacity \in 1..Ceiling : pty[t] \in Pty(capacity)
    BY <1>6 DEF Ring
  <2>4. table \in Seq(Slot) /\ Len(table) <= MaxSlots /\ free \in Seq(1..MaxSlots)
    BY <1>1, <1>9
  <2>5. \A k \in DOMAIN free : table[free[k]].of = None
    BY <1>9
  <2>6. QED
    BY <2>1, <2>2, <2>3, <2>4, <2>5 DEF TypeOK
<1>12. QED
  BY <1>6, <1>7, <1>8, <1>10, <1>11 DEF Inv

LEMMA NextInv == Inv /\ [Next]_vars => Inv'
<1> SUFFICES ASSUME Inv, [Next]_vars PROVE Inv'
  OBVIOUS
<1>1. CASE Next
  <2>1. PICK t \in Terminals :
          \/ Spawn(t) \/ Drain(t) \/ Notify(t) \/ DrainEnds(t) \/ Close(t) \/ Wake(t)
          \/ AskExit(t) \/ ReaderStep(t) \/ WakesSpuriously(t)
          \/ ChildWrites(t) \/ ChildLeaves(t)
    BY <1>1 DEF Next
  <2>2. CASE ReaderStep(t)
    BY <2>2, ChecksGateKeeps, ParksKeeps, PollsKeeps, FindsRoomKeeps, ReadsKeeps, CommitsKeeps,
       ClosesFirstKeeps, ReapsKeeps, StoresCodeKeeps, PublishesKeeps, ReaderRetiresKeeps
       DEF ReaderStep
  <2>3. QED
    BY <2>1, <2>2, SpawnKeeps, DrainKeeps, NotifyKeeps, DrainEndsKeeps, CloseKeeps, WakeKeeps,
       AskExitKeeps, WakesSpuriouslyKeeps, ChildWritesKeeps, ChildLeavesKeeps
<1>2. CASE UNCHANGED vars
  <2>1. UNCHANGED <<pty, side, table, free>>
    BY <1>2 DEF vars
  <2>2. TypeOK' /\ Table'
    BY <2>1 DEF Inv, TypeOK, Table, Named, Holds, Occupied, SlotOf, Reading,
       Spawned
  <2>3. QED
    BY <2>1, <2>2 DEF Inv
<1>3. QED
  BY <1>1, <1>2

(* The four parts together hold in every state: the ring, the reader, the    *)
(* daemon's side, and the table.                                            *)
LEMMA Invariance == Spec => []Inv
<1>1. QED
  BY InitInv, NextInv, PTL DEF Spec

(* Every field stays in its range: no index leaves the ring, no more than    *)
(* MAX_TERMINALS slots exist, and a slot on the free list is nobody's.       *)
THEOREM TypeCorrect == Spec => []TypeOK
<1>1. Inv => TypeOK
  BY DEF Inv
<1>2. QED
  BY <1>1, Invariance, PTL

(* The ring of Ring (read_loop, commit, drain_into, grow_for) holds what was *)
(* read and not drained, each byte once and in the order it was written,     *)
(* however reads, growth and drains interleave.                              *)
THEOREM InOrder == Spec => []OutputInOrder
<1>1. Inv => OutputInOrder
  <2> SUFFICES ASSUME Inv, NEW t \in Terminals
               PROVE  LET p == pty[t] IN
                      /\ p.taken = side[t].delivered + p.len
                                   + (IF p.at = "commit" THEN p.room ELSE 0)
                      /\ \A i \in 0..p.len - 1 :
                           p.buf[(p.head + i) % CapacityOf(p)] = side[t].delivered + i + 1
    BY DEF OutputInOrder
  <2> DEFINE p == pty[t]
             d == side[t].delivered
  <2>1. PICK n \in 1..Ceiling : p \in Pty(n) /\ RingOf(p, d, n)
    BY OfTerminal
  <2> HIDE DEF p, d
  <2>2. p.taken = d + p.len + (IF p.at = "commit" THEN p.room ELSE 0)
    BY <2>1 DEF RingOf
  <2>3. ASSUME NEW i \in 0..p.len - 1
        PROVE  p.buf[(p.head + i) % CapacityOf(p)] = d + i + 1
    <3>1. n \in Nat \ {0} /\ p.head \in 0..n - 1 /\ i \in 0..n /\ CapacityOf(p) = n
      <4>1. p.head < n /\ p.len <= n
        BY <2>1 DEF RingOf
      <4>2. p.head \in Nat /\ p.len \in Nat /\ n \in Nat \ {0}
        BY <2>1, PtyFields
      <4>3. QED
        BY <2>1, <4>1, <4>2, CapacityIs
    <3>2. (p.head + i) % n = Cell(p.head, i, n)
      BY <3>1, WrapsOnce
    <3>3. QED
      BY <2>1, <3>1, <3>2 DEF RingOf
  <2>4. QED
    BY <2>2, <2>3 DEF p, d
<1>2. QED
  BY <1>1, Invariance, PTL

(* A reader waits at the gate only while the backlog is above the low mark,  *)
(* or while the drain that lowered it has still to notify it: no wake-up of  *)
(* a drain is lost between the reader's check and its wait.                  *)
THEOREM SleepsOnlyFull == Spec => []SleepsOnlyWhenFull
<1>1. Inv => SleepsOnlyWhenFull
  BY DEF Inv, Thread, Held, SleepsOnlyWhenFull
<1>2. QED
  BY <1>1, Invariance, PTL

(* A terminal that ended by itself has delivered all that its child wrote    *)
(* and has its exit code in the same drain; no terminal is ever told the     *)
(* code of another, however often its slot has been taken again.             *)
THEOREM EndsWhole == Spec => []EndIsWhole
<1>1. Inv => EndIsWhole
  BY DEF Inv, Held, EndIsWhole, Reading
<1>2. QED
  BY <1>1, Invariance, PTL
=============================================================================
