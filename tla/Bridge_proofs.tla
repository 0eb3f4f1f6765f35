--------------------------- MODULE Bridge_proofs ---------------------------
(***************************************************************************)
(* Proofs about Bridge, for any number of connections and kinds of frames, *)
(* any capacity and any reads: a queue holds the frames that follow the    *)
(* last one answered, and whoever makes a sleeping poll's answer ready is  *)
(* about to say so.                                                        *)
(***************************************************************************)
EXTENDS Bridge, Integers, SequenceTheorems, TLAPS

(* The numbers after n. *)
Follow(q, n) == \A i \in 1..Len(q) : q[i] = n + i

(* Of kind k, the connection's queue goes on where the answers stopped; the *)
(* frames after it are yet to be read, unless the queue overflowed.         *)
GoesOn(l, p, k) ==
  /\ Follow(l.queues[k], p.got[k])
  /\ p.last[k] = p.got[k]
  /\ Len(l.queues[k]) <= Capacity
  /\ p.got[k] + Len(l.queues[k]) <= l.read[k]
  /\ \/ l.read[k] = p.got[k] + Len(l.queues[k])
     \/ l.severed /\ Len(l.queues[k]) = Capacity

Sleeps(p) == p.at = "wait" /\ ~p.told

Announced(l, p, at) ==
  Sleeps(p) => Quiet(l) \/ l.pump \in {"notify", "last"} \/ at = "notify"

Fine(l, p, at) == (\A k \in Kinds : GoesOn(l, p, k)) /\ Announced(l, p, at)

Inv == TypeOK /\ \A c \in IDs : Fine(link[c], poll[c], close[c])

-----------------------------------------------------------------------------
(* What a read, an answer and a notification do to one connection. *)

LEMMA Constants ==
  ASSUME BridgeAssumption
  PROVE  MaxID \in Nat /\ MaxFrames \in Nat /\ Capacity \in Nat \ {0} /\ MaxHeld \in Nat \ {0}
BY DEF BridgeAssumption

LEMMA LinkFields ==
  ASSUME BridgeAssumption, NEW l \in Link, NEW p \in Poll, NEW k \in Kinds
  PROVE  /\ l.queues[k] \in Seq(1..MaxFrames) /\ Len(l.queues[k]) \in Nat
         /\ l.read[k] \in Nat /\ l.read[k] <= MaxFrames
         /\ p.got[k] \in Nat /\ p.got[k] <= MaxFrames /\ p.last[k] \in Nat
BY Constants DEF Link, Poll

(* Told changes nothing but told. *)
LEMMA ToldIs ==
  ASSUME NEW p \in Poll
  PROVE  /\ Told(p) \in Poll /\ Told(p).at = p.at /\ Told(p).got = p.got /\ Told(p).last = p.last
         /\ (p.told => Told(p).told) /\ (p.at \in {"check", "wait"} => Told(p).told)
         /\ ~Sleeps(Told(p))
BY DEF Told, Poll, Sleeps

(* Of the frames of a read, how many fit. *)
Fitting(count, room) == IF count < room THEN count ELSE room

LEMMA FittingIs ==
  ASSUME NEW count \in Nat, NEW room \in Nat
  PROVE  /\ Fitting(count, room) \in 0..count /\ Fitting(count, room) <= room
         /\ (count > room => Fitting(count, room) = room)
         /\ (count <= room => Fitting(count, room) = count)
BY DEF Fitting

(* The first m of count numbers after n. *)
LEMMA FirstNumbers ==
  ASSUME NEW n \in Nat, NEW count \in Nat, NEW top \in Nat, n + count <= top, NEW m \in 0..count
  PROVE  LET more == SubSeq([i \in 1..count |-> n + i], 1, m)
         IN  /\ more \in Seq(1..top) /\ Len(more) = m
             /\ \A i \in 1..m : more[i] = n + i
<1> DEFINE numbers == [i \in 1..count |-> n + i]
           more == SubSeq(numbers, 1, m)
<1>1. numbers \in Seq(1..top) /\ Len(numbers) = count
  <2>1. \A i \in 1..count : n + i \in 1..top
    OBVIOUS
  <2>2. numbers \in [1..count -> 1..top]
    BY <2>1
  <2>3. QED
    BY <2>2
<1>2. \A i \in 1..m : numbers[i] = n + i
  OBVIOUS
<1> HIDE DEF numbers
<1>3. more \in Seq(1..top) /\ Len(more) = m /\ \A i \in 1..m : more[i] = numbers[i]
  <2>1. \A i \in 1..m : numbers[i] \in 1..top
    BY <1>1
  <2>2. more = [i \in 1..m |-> numbers[i]]
    BY <1>1
  <2> HIDE DEF more
  <2>3. more \in [1..m -> 1..top]
    BY <2>1, <2>2
  <2>4. QED
    BY <2>2, <2>3
<1>4. QED
  BY <1>2, <1>3 DEF numbers

(* A queue that goes on after g, and m more frames that go on after n. *)
LEMMA Appended ==
  ASSUME NEW S, NEW q \in Seq(S), NEW more \in Seq(S), NEW g \in Nat, NEW n \in Nat,
         Follow(q, g), Follow(more, n),
         n = g + Len(q) \/ Len(more) = 0
  PROVE  Follow(q \o more, g)
<1>1. PICK long \in Nat, m \in Nat : long = Len(q) /\ m = Len(more)
  OBVIOUS
<1>2. PICK all : all = q \o more
  OBVIOUS
<1>3. /\ Len(all) = long + m /\ \A i \in 1..long : all[i] = g + i
      /\ \A i \in 1..m : all[long + i] = n + i
  BY <1>1, <1>2, ConcatProperties DEF Follow
<1>4. ASSUME NEW i \in 1..long + m PROVE all[i] = g + i
  <2>1. CASE i <= long
    BY <1>3, <2>1
  <2>2. CASE i > long
    <3>1. i - long \in 1..m /\ i = long + (i - long) /\ m # 0
      BY <2>2
    <3>2. all[i] = n + (i - long) /\ n = g + long
      BY <1>1, <1>3, <3>1
    <3>3. QED
      BY <3>2
  <2>3. QED
    BY <2>1, <2>2
<1>5. QED
  BY <1>2, <1>3, <1>4 DEF Follow

LEMMA PushedIs ==
  ASSUME BridgeAssumption, NEW l \in Link, NEW p \in Poll, NEW kind \in Kinds,
         NEW count \in 1..MaxFrames, l.read[kind] + count <= MaxFrames,
         \A k \in Kinds : GoesOn(l, p, k),
         NEW r, r = Pushed(l, kind, count)
  PROVE  /\ r \in Link /\ \A k \in Kinds : GoesOn(r, p, k)
         /\ r.pump = l.pump /\ r.ended = l.ended /\ (l.severed => r.severed)
<1>1. PICK q : q = l.queues[kind]
  OBVIOUS
<1>2. PICK n : n = l.read[kind]
  OBVIOUS
<1>3. PICK g : g = p.got[kind]
  OBVIOUS
<1>4. PICK long : long = Len(q)
  OBVIOUS
<1>5. PICK room : room = Capacity - long
  OBVIOUS
<1>6. PICK m : m = Fitting(count, room)
  OBVIOUS
<1>7. PICK more : more = SubSeq([i \in 1..count |-> n + i], 1, m)
  OBVIOUS
<1>8. /\ MaxFrames \in Nat /\ Capacity \in Nat /\ count \in Nat
      /\ q \in Seq(1..MaxFrames) /\ long \in Nat /\ n \in Nat /\ g \in Nat
      /\ n + count <= MaxFrames
  BY <1>1, <1>2, <1>3, <1>4, LinkFields, Constants
<1>9. /\ Follow(q, g)
      /\ long <= Capacity /\ g + long <= n /\ p.last[kind] = g
      /\ n = g + long \/ (l.severed /\ long = Capacity)
  BY <1>1, <1>2, <1>3, <1>4 DEF GoesOn
<1>10. /\ m \in 0..count /\ long + m <= Capacity /\ g + (long + m) <= n + count
       /\ (count > room => long + m = Capacity)
       /\ (count <= room => m = count)
       /\ (long = Capacity => m = 0)
  <2>1. long <= Capacity /\ g + long <= n
    BY <1>9
  <2>2. room \in Nat /\ long + room = Capacity
    BY <1>5, <1>8, <2>1
  <2>3. QED
    BY <1>6, <1>8, <2>1, <2>2 DEF Fitting
<1>11. more \in Seq(1..MaxFrames) /\ Len(more) = m /\ \A i \in 1..m : more[i] = n + i
  BY <1>7, <1>8, <1>10, FirstNumbers
<1>12. /\ q \o more \in Seq(1..MaxFrames) /\ Len(q \o more) = long + m
       /\ Follow(q \o more, g)
  <2>1. q \o more \in Seq(1..MaxFrames) /\ Len(q \o more) = long + m
    BY <1>4, <1>8, <1>11, ConcatProperties
  <2>2. n = g + Len(q) \/ Len(more) = 0
    BY <1>4, <1>9, <1>10, <1>11
  <2>3. Follow(more, n)
    BY <1>11 DEF Follow
  <2>4. Follow(q \o more, g)
    BY <1>8, <1>9, <1>11, <2>2, <2>3, Appended
  <2>5. QED
    BY <2>1, <2>4
<1>13. /\ r.queues = [l.queues EXCEPT ![kind] = q \o more]
       /\ r.read = [l.read EXCEPT ![kind] = n + count]
       /\ r.severed = (l.severed \/ count > room)
       /\ r.ended = l.ended /\ r.pump = l.pump /\ r.writer = l.writer
       /\ r = [l EXCEPT !.queues = r.queues, !.read = r.read, !.severed = r.severed]
  BY <1>1, <1>2, <1>4, <1>5, <1>6, <1>7 DEF Pushed, Fitting, Link
<1>14. r.severed \in BOOLEAN /\ (r.severed <=> l.severed \/ count > room)
  BY <1>13
<1>15. r \in Link
  <2>1. n + count \in 0..MaxFrames
    BY <1>8
  <2>2. [l.queues EXCEPT ![kind] = q \o more] \in [Kinds -> Seq(1..MaxFrames)]
    BY <1>12 DEF Link
  <2>3. [l.read EXCEPT ![kind] = n + count] \in [Kinds -> 0..MaxFrames]
    BY <2>1 DEF Link
  <2>4. QED
    BY <1>13, <1>14, <2>2, <2>3 DEF Link
<1>16. /\ r.queues[kind] = q \o more /\ r.read[kind] = n + count
       /\ \A k \in Kinds : k # kind => r.read[k] = l.read[k] /\ r.queues[k] = l.queues[k]
  BY <1>13 DEF Link
<1>17. GoesOn(r, p, kind)
  <2>1. n + count = g + (long + m) \/ (r.severed /\ long + m = Capacity)
    <3>1. CASE count > room
      BY <1>10, <1>14, <3>1
    <3>2. CASE count <= room
      <4>1. CASE n = g + long
        BY <1>8, <1>10, <3>2, <4>1
      <4>2. CASE l.severed /\ long = Capacity
        BY <1>8, <1>10, <1>14, <4>2
      <4>3. QED
        BY <1>9, <4>1, <4>2
    <3>3. QED
      BY <1>5, <1>8, <3>1, <3>2
  <2>2. /\ Follow(r.queues[kind], p.got[kind])
        /\ Len(r.queues[kind]) = long + m /\ p.got[kind] = g
        /\ p.last[kind] = p.got[kind] /\ r.read[kind] = n + count
    BY <1>3, <1>9, <1>12, <1>16
  <2>3. QED
    BY <1>10, <2>1, <2>2 DEF GoesOn
<1>18. ASSUME NEW k \in Kinds, k # kind PROVE GoesOn(r, p, k)
  <2>1. r.read[k] = l.read[k] /\ r.queues[k] = l.queues[k] /\ (l.severed => r.severed)
    BY <1>14, <1>16, <1>18
  <2>2. QED
    BY <2>1 DEF GoesOn
<1>19. QED
  BY <1>13, <1>14, <1>15, <1>17, <1>18

(* drain: what is answered is what followed the answers before. *)
Emptied(l) == [l EXCEPT !.queues = [k \in Kinds |-> <<>>]]
Taken(l, p) ==
  [p EXCEPT !.at = "none",
            !.got = [k \in Kinds |-> @[k] + Len(l.queues[k])],
            !.last = [k \in Kinds |-> IF l.queues[k] = <<>> THEN @[k]
                                      ELSE l.queues[k][Len(l.queues[k])]]]

LEMMA AnsweredIs ==
  ASSUME BridgeAssumption, NEW l \in Link, NEW p \in Poll, ~l.severed,
         \A k \in Kinds : GoesOn(l, p, k)
  PROVE  /\ Emptied(l) \in Link /\ Taken(l, p) \in Poll /\ Taken(l, p).at = "none"
         /\ \A k \in Kinds : GoesOn(Emptied(l), Taken(l, p), k)
<1>a. PICK r : r = Emptied(l)
  OBVIOUS
<1>b. PICK q : q = Taken(l, p)
  OBVIOUS
<1>1. ASSUME NEW k \in Kinds
      PROVE  /\ l.queues[k] \in Seq(1..MaxFrames) /\ Len(l.queues[k]) \in Nat
             /\ l.read[k] \in Nat /\ l.read[k] <= MaxFrames
             /\ p.got[k] \in Nat /\ p.last[k] = p.got[k]
             /\ l.read[k] = p.got[k] + Len(l.queues[k])
             /\ l.queues[k] # <<>> => l.queues[k][Len(l.queues[k])] = p.got[k] + Len(l.queues[k])
             /\ l.queues[k] = <<>> => Len(l.queues[k]) = 0
  <2>1. /\ l.queues[k] \in Seq(1..MaxFrames) /\ Len(l.queues[k]) \in Nat
        /\ l.read[k] \in Nat /\ l.read[k] <= MaxFrames /\ p.got[k] \in Nat
    BY LinkFields
  <2>2. l.queues[k] # <<>> => Len(l.queues[k]) \in 1..Len(l.queues[k])
    BY <2>1
  <2>3. QED
    BY <2>1, <2>2 DEF GoesOn, Follow
<1>2. /\ r.queues = [k \in Kinds |-> <<>>] /\ r.read = l.read /\ r.severed = l.severed
      /\ r \in Link
  <2>1. [k \in Kinds |-> <<>>] \in [Kinds -> Seq(1..MaxFrames)]
    OBVIOUS
  <2>2. QED
    BY <1>a, <2>1 DEF Emptied, Link
<1>3. ASSUME NEW k \in Kinds
      PROVE  /\ (IF l.queues[k] = <<>> THEN p.last[k] ELSE l.queues[k][Len(l.queues[k])])
                  = p.got[k] + Len(l.queues[k])
             /\ p.got[k] + Len(l.queues[k]) \in 0..MaxFrames
  BY <1>1, Constants
<1>4. q = [p EXCEPT !.at = "none",
                    !.got = [k \in Kinds |-> p.got[k] + Len(l.queues[k])],
                    !.last = [k \in Kinds |-> p.got[k] + Len(l.queues[k])]]
  BY <1>b, <1>3 DEF Taken
<1>5. /\ q.got = [k \in Kinds |-> p.got[k] + Len(l.queues[k])] /\ q.last = q.got
  BY <1>4 DEF Poll
<1>6. q \in Poll
  <2>1. [k \in Kinds |-> p.got[k] + Len(l.queues[k])] \in [Kinds -> 0..MaxFrames]
    BY <1>3
  <2>2. QED
    BY <1>4, <2>1 DEF Poll
<1>7. ASSUME NEW k \in Kinds PROVE GoesOn(r, q, k)
  <2>1. r.queues[k] = <<>> /\ r.read[k] = p.got[k] + Len(l.queues[k])
        /\ q.got[k] = p.got[k] + Len(l.queues[k]) /\ q.last[k] = q.got[k]
    BY <1>1, <1>2, <1>5
  <2>2. Len(<<>>) = 0 /\ 1..0 = {} /\ q.got[k] \in Nat
    BY <1>1, <2>1
  <2>3. QED
    BY <2>1, <2>2, Constants DEF GoesOn, Follow
<1>8. q.at = "none"
  BY <1>4 DEF Poll
<1>9. QED
  BY <1>a, <1>b, <1>2, <1>6, <1>7, <1>8

-----------------------------------------------------------------------------
(* The invariant is one of each connection. *)

LEMMA SameFrames ==
  ASSUME NEW l, NEW p, NEW l2, NEW p2, \A k \in Kinds : GoesOn(l, p, k),
         l2.queues = l.queues, l2.read = l.read, l.severed => l2.severed,
         p2.got = p.got, p2.last = p.last
  PROVE  \A k \in Kinds : GoesOn(l2, p2, k)
BY DEF GoesOn

LEMMA Unmoved ==
  ASSUME NEW S, NEW f \in [IDs -> S], NEW c \in IDs
  PROVE  f = [f EXCEPT ![c] = f[c]]
OBVIOUS

LEMMA OneChanges ==
  ASSUME Inv, NEW c \in IDs, NEW l \in Link, NEW p \in Poll, NEW at \in Closes,
         link' = [link EXCEPT ![c] = l], poll' = [poll EXCEPT ![c] = p],
         close' = [close EXCEPT ![c] = at],
         opened' = opened, held' \subseteq held, Fine(l, p, at)
  PROVE  Inv'
<1>1. TypeOK'
  BY DEF Inv, TypeOK
<1>2. ASSUME NEW d \in IDs PROVE Fine(link'[d], poll'[d], close'[d])
  <2>1. CASE d = c
    <3>1. link'[d] = l /\ poll'[d] = p /\ close'[d] = at
      BY <2>1 DEF Inv, TypeOK
    <3>2. QED
      BY <3>1
  <2>2. CASE d # c
    <3>1. link'[d] = link[d] /\ poll'[d] = poll[d] /\ close'[d] = close[d]
      BY <2>2 DEF Inv, TypeOK
    <3>2. QED
      BY <3>1 DEF Inv
  <2>3. QED
    BY <2>1, <2>2
<1>3. QED
  BY <1>1, <1>2 DEF Inv

LEMMA Facts ==
  ASSUME Inv, NEW c \in IDs
  PROVE  /\ link[c] \in Link /\ poll[c] \in Poll /\ close[c] \in Closes
         /\ link = [link EXCEPT ![c] = link[c]] /\ poll = [poll EXCEPT ![c] = poll[c]]
         /\ close = [close EXCEPT ![c] = close[c]]
         /\ \A k \in Kinds : GoesOn(link[c], poll[c], k)
         /\ Announced(link[c], poll[c], close[c])
BY Unmoved DEF Inv, TypeOK, Fine

(* A step of the poll that answers nothing, and does not send it to sleep. *)
LEMMA PollMoves ==
  ASSUME Inv, NEW c \in IDs, NEW p \in Poll, p.got = poll[c].got, p.last = poll[c].last,
         ~Sleeps(p) \/ Quiet(link[c]),
         poll' = [poll EXCEPT ![c] = p], UNCHANGED <<link, opened, close>>, held' \subseteq held
  PROVE  Inv'
<1>1. Fine(link[c], p, close[c])
  <2>1. \A k \in Kinds : GoesOn(link[c], p, k)
    BY Facts, SameFrames
  <2>2. Announced(link[c], p, close[c])
    BY DEF Announced
  <2>3. QED
    BY <2>1, <2>2 DEF Fine
<1>2. QED
  BY <1>1, Facts, OneChanges

-----------------------------------------------------------------------------
(* Every step preserves it. *)

LEMMA ConnectKeeps ==
  ASSUME BridgeAssumption, Inv, Connect
  PROVE  Inv'
<1> DEFINE stale == {c \in held : Cardinality({d \in held : d >= c}) >= MaxHeld}
<1>1. /\ opened < MaxID /\ opened' = opened + 1 /\ held' = (held \ stale) \cup {opened'}
      /\ link' = [c \in IDs |-> IF c \in stale THEN [link[c] EXCEPT !.ended = TRUE] ELSE link[c]]
      /\ poll' = [c \in IDs |-> IF c \in stale THEN Told(poll[c]) ELSE poll[c]]
      /\ close' = close
  BY DEF Connect
<1> HIDE DEF stale
<1>2. \A c \in IDs : link[c] \in Link /\ poll[c] \in Poll
  BY DEF Inv, TypeOK
<1>3. ASSUME NEW c \in IDs
      PROVE  link'[c] \in Link /\ poll'[c] \in Poll /\ Fine(link'[c], poll'[c], close'[c])
  <2>1. CASE c \in stale
    <3>1. link'[c] = [link[c] EXCEPT !.ended = TRUE] /\ poll'[c] = Told(poll[c])
      BY <1>1, <2>1
    <3>2. /\ link'[c] \in Link /\ link'[c].queues = link[c].queues
          /\ link'[c].read = link[c].read /\ link'[c].severed = link[c].severed
      BY <1>2, <3>1 DEF Link
    <3>3. /\ poll'[c] \in Poll /\ poll'[c].got = poll[c].got /\ poll'[c].last = poll[c].last
          /\ ~Sleeps(poll'[c])
      BY <1>2, <3>1, ToldIs
    <3>4. \A k \in Kinds : GoesOn(link'[c], poll'[c], k)
      BY <3>2, <3>3, Facts, SameFrames, SMTT(30)
    <3>5. QED
      BY <3>2, <3>3, <3>4 DEF Fine, Announced
  <2>2. CASE c \notin stale
    BY <1>1, <1>2, <2>2 DEF Inv
  <2>3. QED
    BY <2>1, <2>2
<1>4. TypeOK'
  <2>1. opened' \in 0..MaxID /\ held' \subseteq 1..opened'
    BY <1>1, Constants DEF Inv, TypeOK
  <2>2. link' \in [IDs -> Link] /\ poll' \in [IDs -> Poll] /\ close' \in [IDs -> Closes]
    BY <1>1, <1>3 DEF Inv, TypeOK
  <2>3. QED
    BY <2>1, <2>2 DEF TypeOK
<1>5. QED
  BY <1>3, <1>4 DEF Inv

LEMMA PumpReadsKeeps ==
  ASSUME BridgeAssumption, Inv, NEW c \in IDs, NEW kind \in Kinds, NEW count \in 1..MaxFrames,
         PumpReads(c, kind, count)
  PROVE  Inv'
<1>1. PICK r : r = Pushed(link[c], kind, count)
  OBVIOUS
<1>2. /\ link[c].read[kind] + count <= MaxFrames
      /\ link' = [link EXCEPT ![c] = [r EXCEPT !.pump = "notify"]]
      /\ UNCHANGED <<held, opened, poll, close>>
  BY <1>1, Facts DEF PumpReads
<1>3. r \in Link /\ \A k \in Kinds : GoesOn(r, poll[c], k)
  BY <1>1, <1>2, Facts, PushedIs
<1>4. PICK l : l = [r EXCEPT !.pump = "notify"]
  OBVIOUS
<1>5. /\ l \in Link /\ l.queues = r.queues /\ l.read = r.read /\ l.severed = r.severed
      /\ l.pump = "notify"
  BY <1>3, <1>4 DEF Link
<1>6. Fine(l, poll[c], close[c])
  <2>1. \A k \in Kinds : GoesOn(l, poll[c], k)
    BY <1>3, <1>5, SameFrames
  <2>2. QED
    BY <1>5, <2>1 DEF Fine, Announced
<1>7. link' = [link EXCEPT ![c] = l]
  BY <1>2, <1>4
<1>8. QED
  BY <1>2, <1>5, <1>6, <1>7, Facts, OneChanges

(* A step of the connection that reads nothing. *)
LEMMA LinkMoves ==
  ASSUME Inv, NEW c \in IDs, NEW l \in Link, NEW p \in Poll, NEW at \in Closes,
         l.queues = link[c].queues, l.read = link[c].read, link[c].severed => l.severed,
         p.got = poll[c].got, p.last = poll[c].last, Announced(l, p, at),
         link' = [link EXCEPT ![c] = l], poll' = [poll EXCEPT ![c] = p],
         close' = [close EXCEPT ![c] = at], opened' = opened, held' \subseteq held
  PROVE  Inv'
<1>1. \A k \in Kinds : GoesOn(l, p, k)
  BY Facts, SameFrames
<1>2. QED
  BY <1>1, OneChanges DEF Fine

LEMMA PumpEndsKeeps ==
  ASSUME Inv, NEW c \in IDs, PumpEnds(c)
  PROVE  Inv'
<1>1. ASSUME NEW l, link' = [link EXCEPT ![c] = l], l \in Link, l.queues = link[c].queues,
             l.read = link[c].read, link[c].severed => l.severed, l.pump = "last"
      PROVE  Inv'
  <2>1. Announced(l, poll[c], close[c])
    BY <1>1 DEF Announced
  <2>2. opened' = opened /\ held' = held /\ poll' = poll /\ close' = close
    BY DEF PumpEnds
  <2>3. QED
    <3>1. /\ poll[c] \in Poll /\ close[c] \in Closes
          /\ poll' = [poll EXCEPT ![c] = poll[c]] /\ close' = [close EXCEPT ![c] = close[c]]
      BY <2>2, Facts
    <3>2. QED
      BY <1>1, <2>1, <2>2, <3>1, LinkMoves, ZenonT(40)
<1>2. CASE link' = [link EXCEPT ![c].ended = TRUE, ![c].pump = "last"]
  <2>1. PICK l : l = [link[c] EXCEPT !.ended = TRUE, !.pump = "last"]
    OBVIOUS
  <2>2. link' = [link EXCEPT ![c] = l]
    BY <1>2, <2>1, Facts DEF Inv, TypeOK
  <2>3. /\ l \in Link /\ l.queues = link[c].queues /\ l.read = link[c].read
        /\ l.severed = link[c].severed /\ l.pump = "last"
    BY <2>1, Facts DEF Link
  <2>4. QED
    BY <1>1, <2>2, <2>3
<1>3. CASE link' = [link EXCEPT ![c].severed = TRUE, ![c].pump = "last"]
  <2>1. PICK l : l = [link[c] EXCEPT !.severed = TRUE, !.pump = "last"]
    OBVIOUS
  <2>2. link' = [link EXCEPT ![c] = l]
    BY <1>3, <2>1, Facts DEF Inv, TypeOK
  <2>3. /\ l \in Link /\ l.queues = link[c].queues /\ l.read = link[c].read
        /\ l.severed /\ l.pump = "last"
    BY <2>1, Facts DEF Link
  <2>4. QED
    BY <1>1, <2>2, <2>3
<1>4. QED
  BY <1>2, <1>3 DEF PumpEnds

LEMMA PumpNotifiesKeeps ==
  ASSUME Inv, NEW c \in IDs, PumpNotifies(c)
  PROVE  Inv'
<1>1. PICK l : /\ \E next \in {"read", "done"} : l = [link[c] EXCEPT !.pump = next]
               /\ link' = [link EXCEPT ![c] = l]
  BY Facts DEF PumpNotifies
<1>2. /\ l \in Link /\ l.queues = link[c].queues /\ l.read = link[c].read
      /\ l.severed = link[c].severed
  BY <1>1, Facts DEF Link
<1>3. PICK p : p = Told(poll[c])
  OBVIOUS
<1>4. p \in Poll /\ p.got = poll[c].got /\ p.last = poll[c].last /\ ~Sleeps(p)
  BY <1>3, Facts, ToldIs
<1>5. Announced(l, p, close[c])
  BY <1>4 DEF Announced
<1>6. poll' = [poll EXCEPT ![c] = p] /\ UNCHANGED <<held, opened, close>>
  BY <1>3, Facts DEF PumpNotifies
<1>7. QED
  BY <1>1, <1>2, <1>4, <1>5, <1>6, Facts, LinkMoves

LEMMA ReceiveKeeps ==
  ASSUME Inv, NEW c \in IDs, Receive(c) \/ Registers(c) \/ Wakes(c)
  PROVE  Inv'
<1>1. PICK p : /\ poll' = [poll EXCEPT ![c] = p]
               /\ \/ \E at \in {"register", "over"} : p = [poll[c] EXCEPT !.at = at]
                  \/ p = [poll[c] EXCEPT !.at = "check", !.told = FALSE]
  BY DEF Receive, Registers, Wakes, PollStep
<1>2. p \in Poll /\ p.got = poll[c].got /\ p.last = poll[c].last /\ p.at # "wait"
  BY <1>1, Facts DEF Poll
<1>3. UNCHANGED <<link, opened, close>> /\ held' = held
  BY DEF Receive, Registers, Wakes, PollStep
<1>4. QED
  BY <1>1, <1>2, <1>3, PollMoves DEF Sleeps

LEMMA ChecksKeeps ==
  ASSUME BridgeAssumption, Inv, NEW c \in IDs, Checks(c)
  PROVE  Inv'
<1>1. opened' = opened /\ held' = held /\ close' = close
  BY DEF Checks, Answered, PollStep
<1>2. CASE ~link[c].severed /\ Answered(c)
  <2>1. PICK r : r = Emptied(link[c])
    OBVIOUS
  <2>2. PICK q : q = Taken(link[c], poll[c])
    OBVIOUS
  <2>3. r \in Link /\ q \in Poll /\ q.at = "none" /\ \A k \in Kinds : GoesOn(r, q, k)
    BY <1>2, <2>1, <2>2, Facts, AnsweredIs
  <2>4. Fine(r, q, close[c])
    BY <2>3 DEF Fine, Announced, Sleeps
  <2>5. link' = [link EXCEPT ![c] = r]
    BY <1>2, <2>1, Facts DEF Answered, Emptied, Inv, TypeOK
  <2>6. poll' = [poll EXCEPT ![c] = q]
    BY <1>2, <2>2 DEF Answered, PollStep, Taken
  <2>7. QED
    BY <1>1, <2>3, <2>4, <2>5, <2>6, Facts, OneChanges
<1>3. CASE ~(~link[c].severed /\ Answered(c))
  <2>1. PICK at \in {"sever", "forget", "wait"} :
          /\ poll' = [poll EXCEPT ![c] = [poll[c] EXCEPT !.at = at]] /\ link' = link
          /\ at = "wait" => Quiet(link[c])
    BY <1>3 DEF Checks, PollStep, Quiet
  <2>2. PICK p : p = [poll[c] EXCEPT !.at = at]
    OBVIOUS
  <2>3. p \in Poll /\ p.got = poll[c].got /\ p.last = poll[c].last /\ p.at = at
    BY <2>2, Facts DEF Poll
  <2>4. ~Sleeps(p) \/ Quiet(link[c])
    BY <2>1, <2>3 DEF Sleeps
  <2>5. QED
    BY <1>1, <2>1, <2>2, <2>3, <2>4, PollMoves
<1>4. QED
  BY <1>2, <1>3

LEMMA ForgetsKeeps ==
  ASSUME Inv, NEW c \in IDs, Forgets(c)
  PROVE  Inv'
<1>1. PICK p : /\ poll' = [poll EXCEPT ![c] = p]
               /\ \E at \in {"shut", "over"} : p = [poll[c] EXCEPT !.at = at]
  BY DEF Forgets, PollStep
<1>2. p \in Poll /\ p.got = poll[c].got /\ p.last = poll[c].last /\ p.at # "wait"
  BY <1>1, Facts DEF Poll
<1>3. UNCHANGED <<link, opened, close>> /\ held' \subseteq held
  BY DEF Forgets, PollStep
<1>4. QED
  BY <1>1, <1>2, <1>3, PollMoves DEF Sleeps

(* Shutting the writer down. *)
LEMMA WriterShut ==
  ASSUME Inv, NEW c \in IDs, NEW l, l = [link[c] EXCEPT !.writer = "shut"]
  PROVE  /\ l \in Link /\ l.queues = link[c].queues /\ l.read = link[c].read
         /\ l.severed = link[c].severed /\ l.ended = link[c].ended /\ l.pump = link[c].pump
BY Facts DEF Link

LEMMA ShutsKeeps ==
  ASSUME Inv, NEW c \in IDs, Shuts(c)
  PROVE  Inv'
<1>1. PICK l : l = [link[c] EXCEPT !.writer = "shut"]
  OBVIOUS
<1>2. PICK p : p = [poll[c] EXCEPT !.at = "over"]
  OBVIOUS
<1>3. p \in Poll /\ p.got = poll[c].got /\ p.last = poll[c].last /\ p.at = "over"
  BY <1>2, Facts DEF Poll
<1>4. /\ link' = [link EXCEPT ![c] = l] /\ poll' = [poll EXCEPT ![c] = p]
      /\ opened' = opened /\ held' = held /\ close' = close
  BY <1>1, <1>2 DEF Shuts, PollStep
<1>5. Announced(l, p, close[c])
  BY <1>3 DEF Announced, Sleeps
<1>6. /\ l \in Link /\ l.queues = link[c].queues /\ l.read = link[c].read
      /\ l.severed = link[c].severed
  BY <1>1, WriterShut
<1>7. close[c] \in Closes /\ close' = [close EXCEPT ![c] = close[c]]
  BY <1>4, Facts
<1>8. QED
  BY <1>3, <1>4, <1>5, <1>6, <1>7, LinkMoves

LEMMA CloseKeeps ==
  ASSUME Inv, NEW c \in IDs, Close(c)
  PROVE  Inv'
<1>1. PICK at \in {"end", "done"} : close' = [close EXCEPT ![c] = at]
  BY DEF Close
<1>2. close[c] = "no" /\ held' \subseteq held /\ opened' = opened /\ link' = link /\ poll' = poll
  BY DEF Close
<1>3. Announced(link[c], poll[c], at)
  BY <1>2, Facts DEF Announced
<1>4. at \in Closes
  BY DEF Closes
<1>5. QED
  BY <1>1, <1>2, <1>3, <1>4, Facts, LinkMoves

LEMMA CloseEndsKeeps ==
  ASSUME Inv, NEW c \in IDs, CloseEnds(c)
  PROVE  Inv'
<1>1. PICK l : l = [link[c] EXCEPT !.ended = TRUE]
  OBVIOUS
<1>2. l \in Link /\ l.queues = link[c].queues /\ l.read = link[c].read /\ l.severed = link[c].severed
  BY <1>1, Facts DEF Link
<1>3. /\ link' = [link EXCEPT ![c] = l] /\ close' = [close EXCEPT ![c] = "notify"]
      /\ opened' = opened /\ held' = held /\ poll' = poll
  BY <1>1 DEF CloseEnds
<1>4. Announced(l, poll[c], "notify") /\ "notify" \in Closes
  BY DEF Announced, Closes
<1>5. QED
  BY <1>2, <1>3, <1>4, Facts, LinkMoves

LEMMA CloseNotifiesKeeps ==
  ASSUME Inv, NEW c \in IDs, CloseNotifies(c)
  PROVE  Inv'
<1>1. PICK p : p = Told(poll[c])
  OBVIOUS
<1>2. p \in Poll /\ p.got = poll[c].got /\ p.last = poll[c].last /\ ~Sleeps(p)
  BY <1>1, Facts, ToldIs
<1>3. /\ poll' = [poll EXCEPT ![c] = p] /\ close' = [close EXCEPT ![c] = "shut"]
      /\ link' = link /\ opened' = opened /\ held' = held
  BY <1>1 DEF CloseNotifies
<1>4. Announced(link[c], p, "shut") /\ "shut" \in Closes
  BY <1>2 DEF Announced, Closes
<1>5. QED
  BY <1>2, <1>3, <1>4, Facts, LinkMoves

LEMMA CloseShutsKeeps ==
  ASSUME Inv, NEW c \in IDs, CloseShuts(c)
  PROVE  Inv'
<1>1. PICK l : l = [link[c] EXCEPT !.writer = "shut"]
  OBVIOUS
<1>2. /\ l \in Link /\ l.queues = link[c].queues /\ l.read = link[c].read
      /\ l.severed = link[c].severed /\ l.ended = link[c].ended /\ l.pump = link[c].pump
  BY <1>1, WriterShut
<1>3. /\ close[c] = "shut" /\ link' = [link EXCEPT ![c] = l]
      /\ close' = [close EXCEPT ![c] = "done"] /\ opened' = opened /\ held' = held /\ poll' = poll
  BY <1>1 DEF CloseShuts
<1>4. Announced(l, poll[c], "done") /\ "done" \in Closes
  BY <1>2, <1>3, Facts DEF Announced, Quiet, Owes, Closes
<1>5. QED
  BY <1>2, <1>3, <1>4, Facts, LinkMoves

-----------------------------------------------------------------------------
LEMMA InitInv ==
  ASSUME BridgeAssumption, Init
  PROVE  Inv
<1>1. NewLink \in Link /\ NoPoll \in Poll
  BY Constants DEF NewLink, Link, NoPoll, Poll
<1>2. Fine(NewLink, NoPoll, "no")
  <2>1. ASSUME NEW k \in Kinds PROVE GoesOn(NewLink, NoPoll, k)
    <3>1. /\ NewLink.queues[k] = <<>> /\ NewLink.read[k] = 0
          /\ NoPoll.got[k] = 0 /\ NoPoll.last[k] = 0
      BY DEF NewLink, NoPoll
    <3>2. Len(<<>>) = 0
      OBVIOUS
    <3>3. QED
      BY <3>1, <3>2, Constants DEF GoesOn, Follow
  <2>2. NoPoll.at = "none"
    BY DEF NoPoll
  <2>3. QED
    BY <2>1, <2>2 DEF Fine, Announced, Sleeps
<1>3. TypeOK
  BY <1>1, Constants DEF Init, TypeOK, Closes
<1>4. QED
  BY <1>2, <1>3 DEF Init, Inv

LEMMA NextInv ==
  ASSUME BridgeAssumption, Inv, [Next]_vars
  PROVE  Inv'
<1>1. CASE Connect
  BY <1>1, ConnectKeeps
<1>2. ASSUME NEW c \in IDs, NEW k \in Kinds, NEW n \in 1..MaxFrames, PumpReads(c, k, n)
      PROVE  Inv'
  BY <1>2, PumpReadsKeeps
<1>3. ASSUME NEW c \in IDs,
             PumpEnds(c) \/ PumpNotifies(c) \/ Receive(c) \/ Registers(c) \/ Checks(c)
               \/ Wakes(c) \/ Forgets(c) \/ Shuts(c)
      PROVE  Inv'
  BY <1>3, PumpEndsKeeps, PumpNotifiesKeeps, ReceiveKeeps, ChecksKeeps, ForgetsKeeps, ShutsKeeps
<1>4. ASSUME NEW c \in IDs,
             Close(c) \/ CloseEnds(c) \/ CloseNotifies(c) \/ CloseShuts(c)
      PROVE  Inv'
  BY <1>4, CloseKeeps, CloseEndsKeeps, CloseNotifiesKeeps, CloseShutsKeeps
<1>5. CASE UNCHANGED vars
  BY <1>5 DEF vars, Inv, TypeOK, Fine, GoesOn, Announced, Quiet, Owes
<1>6. QED
  BY <1>1, <1>2, <1>3, <1>4, <1>5 DEF Next

LEMMA Invariance ==
  BridgeAssumption => (Spec => []Inv)
<1>1. SUFFICES ASSUME BridgeAssumption PROVE Spec => []Inv
  OBVIOUS
<1>2. Init => Inv
  BY <1>1, InitInv
<1>3. Inv /\ [Next]_vars => Inv'
  BY <1>1, NextInv
<1>4. QED
  BY <1>2, <1>3, PTL DEF Spec

(* Every variable of the bridge keeps its type, and every connection it holds *)
(* is one that was opened.                                                    *)
THEOREM TypeCorrect == BridgeAssumption => (Spec => []TypeOK)
<1>1. Inv => TypeOK
  BY DEF Inv
<1>2. QED
  BY <1>1, Invariance, PTL

(* What the WebView has been answered of a kind is what the daemon sent, from *)
(* the first frame on and without a gap, and its poll never sleeps on what    *)
(* nobody is about to tell it of (bridge.rs, Queues::push and drain).         *)
THEOREM WithholdsNothing == BridgeAssumption => (Spec => []NothingIsWithheld)
<1>1. Inv => NothingIsWithheld
  <2> SUFFICES ASSUME Inv, NEW c \in IDs
               PROVE  /\ poll[c].got = poll[c].last
                      /\ poll[c].at = "wait" /\ ~poll[c].told =>
                           Quiet(link[c]) \/ link[c].pump \in {"notify", "last"} \/ close[c] = "notify"
    BY DEF NothingIsWithheld
  <2>1. poll[c].got = poll[c].last
    <3>1. \A k \in Kinds : poll[c].got[k] = poll[c].last[k]
      BY Facts DEF GoesOn
    <3>2. poll[c].got \in [Kinds -> 0..MaxFrames] /\ poll[c].last \in [Kinds -> 0..MaxFrames]
      BY Facts DEF Poll
    <3>3. QED
      BY <3>1, <3>2
  <2>2. QED
    BY <2>1, Facts DEF Announced, Sleeps
<1>2. QED
  BY <1>1, Invariance, PTL
=============================================================================
