------------------------- MODULE DaemonLink_proofs --------------------------
(***************************************************************************)
(* What holds of a client and its daemon for any number of transports and  *)
(* of requests: the types; no request waits without a transport; a fresh   *)
(* mirror is of the current transport; every other transport is closed; a  *)
(* refusal is final; and what was acknowledged is shown.                   *)
(*                                                                         *)
(* The invariant has two layers.  Inv says what the loop, its transports   *)
(* and its promises have to do with each other, and is proved first; the   *)
(* order of the frames, which is what an acknowledgement is about, comes   *)
(* on top of it (Ordered).                                                 *)
(***************************************************************************)
EXTENDS DaemonLink, TLAPS, SequenceTheorems

(* What a transport carries to the daemon depends on how far the daemon is. *)
UpShape(l) ==
  /\ l.phase = "unused" => l = Unused
  /\ l.phase \in {"backlog", "handshake"} =>
       \/ l.up = <<>> /\ (l.shut \/ l.lost)
       \/ l.up # <<>> /\ Tail(l.up) \in Seq(Request)
  /\ l.phase \in {"greeted", "serving", "closed"} => l.up \in Seq(Request)

Sound(l) == l \in Link /\ UpShape(l)

(* Where the loop is, and what it holds there. *)
LoopInv(c) ==
  /\ c \in Client
  /\ c.loop \in {"greeting", "pumping"} <=> c.mine # None
  /\ c.current # None => c.current = c.mine
  /\ c.control = "none" <=> c.loop = "none"
  /\ c.status = "refused" => c.loop \in {"ended", "none"}

TransportsInv(c, lk) ==
  /\ lk \in [Gens -> Link]
  /\ \A g \in Gens : Sound(lk[g])
  /\ c.mine # None => lk[c.mine].phase # "unused"
  /\ \A g \in Gens : lk[g].phase # "unused" /\ ~lk[g].shut => g = c.current

PromisesInv ==
  /\ promised = client.pending
  /\ promised # {} => client.current # None
  /\ failing \subseteq IDs
  /\ done \subseteq promised

MirrorInv ==
  /\ mirror \in [stale : BOOLEAN, of : Gens \cup {None}, shows : SUBSET promised]
  /\ ~mirror.stale => client.current # None /\ mirror.of = client.current

Inv ==
  /\ LoopInv(client)
  /\ TransportsInv(client, link)
  /\ PromisesInv
  /\ MirrorInv
  /\ daemon \in Tempers \cup {"down"}

LEMMA InvImpliesProperties ==
  Inv => /\ TypeOK
         /\ NothingWaitsWithoutATransport
         /\ FreshMirrorIsOfTheCurrentTransport
         /\ OneTransportOpen
BY DEF Inv, LoopInv, TransportsInv, PromisesInv, MirrorInv, Client, TypeOK,
       NothingWaitsWithoutATransport, FreshMirrorIsOfTheCurrentTransport,
       OneTransportOpen

-----------------------------------------------------------------------------
(* Frames, and the operators on one transport. *)

LEMMA UnusedSound == Sound(Unused) /\ Unused.phase = "unused"
<1>1. Unused \in Link
  BY EmptySeq DEF Unused, Link
<1>2. QED
  BY <1>1 DEF Sound, UpShape, Unused

LEMMA FrameTypes ==
  /\ [type |-> "refused"] \in DownFrame
  /\ [type |-> "hello"] \in DownFrame
  /\ [type |-> "foreignHello"] \in DownFrame
  /\ [type |-> "junk"] \in DownFrame
  /\ \A type \in {"acknowledged", "failed"}, id \in IDs : Reply(type, id) \in DownFrame
  /\ \A type \in {"full", "partial"}, shows \in SUBSET IDs : State(type, shows) \in DownFrame
BY DEF DownFrame, Reply, State

LEMMA SequencesOfOneOrTwo ==
  ASSUME NEW S, NEW f \in S, NEW h \in S
  PROVE  <<f>> \in Seq(S) /\ <<f, h>> \in Seq(S)
OBVIOUS

LEMMA RequestsAreFrames == Request \subseteq UpFrame /\ Seq(Request) \subseteq Seq(UpFrame)
<1>1. Request \subseteq UpFrame
  BY DEF UpFrame
<1>2. QED
  BY <1>1, SeqMonotonic

(* A transport that is told something, read from, or closed keeps its shape. *)
LEMMA DownSound ==
  ASSUME NEW l, Sound(l), l.phase # "unused", NEW down \in Seq(DownFrame)
  PROVE  /\ Sound([l EXCEPT !.down = down])
         /\ [l EXCEPT !.down = down].phase = l.phase
         /\ [l EXCEPT !.down = down].shut = l.shut
<1>1. [l EXCEPT !.down = down] \in Link
  BY DEF Sound, Link
<1>2. QED
  BY <1>1 DEF Sound, UpShape, Link

LEMMA ClosedEndSound ==
  ASSUME NEW l, Sound(l)
  PROVE  /\ Sound(ClosedEnd(l))
         /\ ClosedEnd(l).phase = "closed"
         /\ ClosedEnd(l).shut = l.shut
<1>1. ClosedEnd(l) \in Link
  BY EmptySeq DEF Sound, Link, ClosedEnd
<1>2. QED
  BY <1>1, EmptySeq DEF Sound, UpShape, Link, ClosedEnd

LEMMA ShutSound ==
  ASSUME NEW l, Sound(l), l.phase # "unused"
  PROVE  /\ Sound([l EXCEPT !.shut = TRUE])
         /\ [l EXCEPT !.shut = TRUE].phase = l.phase
         /\ [l EXCEPT !.shut = TRUE].shut
<1>1. [l EXCEPT !.shut = TRUE] \in Link
  BY DEF Sound, Link
<1>2. QED
  BY <1>1 DEF Sound, UpShape, Link

-----------------------------------------------------------------------------
(* The operators on all transports.  A step of the daemon, or of the network, *)
(* neither opens nor shuts a transport; it may give names back, but never     *)
(* that of the transport the loop is on.                                      *)

Evolved(c, lk, lk2) ==
  /\ lk2 \in [Gens -> Link]
  /\ \A g \in Gens :
       /\ Sound(lk2[g])
       /\ lk2[g].shut = lk[g].shut \/ lk2[g].phase = "unused"
       /\ lk2[g].phase = "unused" => lk[g].phase = "unused" \/ g # c.mine
       /\ lk[g].phase = "unused" => lk2[g].phase = "unused"

LEMMA EvolvedKeepsTransports ==
  ASSUME NEW c, NEW lk, NEW lk2, c \in Client, TransportsInv(c, lk), Evolved(c, lk, lk2)
  PROVE  TransportsInv(c, lk2)
BY DEF TransportsInv, Evolved, Client

LEMMA EvolvedTwice ==
  ASSUME NEW c, NEW lk, NEW lk2, NEW lk3, Evolved(c, lk, lk2), Evolved(c, lk2, lk3)
  PROVE  Evolved(c, lk, lk3)
<1>1. ASSUME NEW g \in Gens
      PROVE  /\ Sound(lk3[g])
             /\ lk3[g].shut = lk[g].shut \/ lk3[g].phase = "unused"
             /\ lk3[g].phase = "unused" => lk[g].phase = "unused" \/ g # c.mine
             /\ lk[g].phase = "unused" => lk3[g].phase = "unused"
  <2>1. lk2[g].phase = "unused" => lk3[g].phase = "unused"
    BY <1>1 DEF Evolved
  <2>2. QED
    BY <1>1, <2>1 DEF Evolved
<1>2. QED
  BY <1>1 DEF Evolved

LEMMA SweptSound ==
  ASSUME NEW lk \in [Gens -> Link], \A g \in Gens : Sound(lk[g]), NEW c
  PROVE  /\ Swept(lk, c) \in [Gens -> Link]
         /\ \A g \in Gens :
              /\ Sound(Swept(lk, c)[g])
              /\ Swept(lk, c)[g].shut = lk[g].shut \/ Swept(lk, c)[g].phase = "unused"
              /\ Swept(lk, c)[g].phase # "unused" => Swept(lk, c)[g].phase = lk[g].phase
              /\ lk[g].phase = "unused" => Swept(lk, c)[g].phase = "unused"
              /\ g = c.mine => Swept(lk, c)[g] = lk[g]
<1> DEFINE sw == Swept(lk, c)
<1>1. ASSUME NEW g \in Gens
      PROVE  /\ Sound(sw[g])
             /\ sw[g].shut = lk[g].shut \/ sw[g].phase = "unused"
             /\ sw[g].phase # "unused" => sw[g].phase = lk[g].phase
             /\ lk[g].phase = "unused" => sw[g].phase = "unused"
             /\ g = c.mine => sw[g] = lk[g]
  <2> DEFINE quiet == [lk[g] EXCEPT !.down = <<>>]
  <2>1. \/ sw[g] = Unused /\ g # c.mine
        \/ sw[g] = quiet /\ g # c.mine
        \/ sw[g] = lk[g] /\ g = c.mine
    BY <1>1 DEF Swept
  <2>2. Sound(lk[g])
    BY <1>1
  <2>3. CASE lk[g].phase = "unused"
    <3>1. lk[g] = Unused
      BY <2>2, <2>3 DEF Sound, UpShape
    <3>2. quiet = Unused
      BY <3>1 DEF Unused
    <3>3. QED
      BY <2>1, <3>1, <3>2, UnusedSound
  <2>4. CASE lk[g].phase # "unused"
    <3>1. /\ Sound(quiet)
          /\ quiet.phase = lk[g].phase
          /\ quiet.shut = lk[g].shut
      BY <2>2, <2>4, DownSound, EmptySeq
    <3> HIDE DEF quiet, sw
    <3>2. QED
      BY <2>1, <2>2, <2>4, <3>1, UnusedSound
  <2>5. QED
    BY <2>3, <2>4
<1>2. sw \in [Gens -> Link]
  <2>1. sw = [g \in Gens |-> sw[g]]
    BY DEF Swept
  <2>2. \A g \in Gens : sw[g] \in Link
    BY <1>1 DEF Sound
  <2> HIDE DEF sw
  <2>3. QED
    BY <2>1, <2>2
<1>3. QED
  BY <1>1, <1>2

LEMMA SweptEvolved ==
  ASSUME NEW lk \in [Gens -> Link], \A g \in Gens : Sound(lk[g]), NEW c
  PROVE  Evolved(c, lk, Swept(lk, c))
<1>1. ASSUME NEW g \in Gens, Swept(lk, c)[g].phase = "unused"
      PROVE  lk[g].phase = "unused" \/ g # c.mine
  BY <1>1, SweptSound
<1>2. QED
  BY <1>1, SweptSound DEF Evolved

LEMMA OneEvolved ==
  ASSUME NEW c, NEW lk \in [Gens -> Link], \A h \in Gens : Sound(lk[h]),
         NEW g \in Gens, NEW l, Sound(l), l.shut = lk[g].shut,
         lk[g].phase # "unused", l.phase # "unused"
  PROVE  Evolved(c, lk, [lk EXCEPT ![g] = l])
BY DEF Evolved, Sound

LEMMA NothingEvolved ==
  ASSUME NEW c, NEW lk \in [Gens -> Link], \A h \in Gens : Sound(lk[h])
  PROVE  Evolved(c, lk, lk)
BY DEF Evolved

LEMMA SaysEvolved ==
  ASSUME NEW c, NEW lk \in [Gens -> Link], \A h \in Gens : Sound(lk[h]),
         NEW g \in Gens, lk[g].phase # "unused", NEW frames \in Seq(DownFrame)
  PROVE  /\ Evolved(c, lk, Says(lk, g, frames))
         /\ Says(lk, g, frames)[g].phase = lk[g].phase
<1>1. CASE lk[g].lost \/ lk[g].shut
  BY <1>1, NothingEvolved DEF Says
<1>2. CASE ~(lk[g].lost \/ lk[g].shut)
  <2> DEFINE l == [lk[g] EXCEPT !.down = lk[g].down \o frames]
  <2>1. lk[g].down \o frames \in Seq(DownFrame)
    BY ConcatProperties DEF Link
  <2>2. Sound(l) /\ l.phase = lk[g].phase /\ l.shut = lk[g].shut
    BY <2>1, DownSound
  <2>3. Says(lk, g, frames) = [lk EXCEPT ![g] = l]
    BY <1>2 DEF Says
  <2> HIDE DEF l
  <2>4. Evolved(c, lk, [lk EXCEPT ![g] = l])
    BY <2>2, OneEvolved
  <2>5. [lk EXCEPT ![g] = l][g] = l
    OBVIOUS
  <2>6. QED
    BY <2>2, <2>3, <2>4, <2>5
<1>3. QED
  BY <1>1, <1>2

LEMMA ClosesEvolved ==
  ASSUME NEW c, NEW lk \in [Gens -> Link], \A h \in Gens : Sound(lk[h]),
         NEW g \in Gens, lk[g].phase # "unused", c = client
  PROVE  Evolved(c, lk, Closes(lk, g))
<1> DEFINE lk2 == [lk EXCEPT ![g] = ClosedEnd(lk[g])]
<1>1. Evolved(c, lk, lk2)
  BY ClosedEndSound, OneEvolved
<1> HIDE DEF lk2
<1>2. Evolved(c, lk2, Swept(lk2, c))
  <2>1. lk2 \in [Gens -> Link] /\ \A h \in Gens : Sound(lk2[h])
    BY <1>1 DEF Evolved
  <2>2. QED
    BY <2>1, SweptEvolved
<1>3. Closes(lk, g) = Swept(lk2, c)
  BY DEF Closes, lk2
<1>4. QED
  BY <1>1, <1>2, <1>3, EvolvedTwice
-----------------------------------------------------------------------------
(* What a step of the client does to its loop, its promises and its mirror. *)

(* A step that leaves the client alone. *)
LEMMA EvolutionKeeps ==
  ASSUME Inv, Evolved(client, link, link'), done' \subseteq promised,
         daemon' \in Tempers \cup {"down"},
         UNCHANGED <<client, promised, mirror, failing>>
  PROVE  Inv'
<1>1. TransportsInv(client, link')
  BY EvolvedKeepsTransports DEF Inv, LoopInv
<1>2. QED
  BY <1>1 DEF Inv, LoopInv, TransportsInv, PromisesInv, MirrorInv

LEMMA ShutEvolves ==
  ASSUME NEW c, NEW lk, c \in Client, TransportsInv(c, lk),
         NEW g \in Gens \cup {None}, g # None => lk[g].phase # "unused"
  PROVE  /\ Shut(lk, g) \in [Gens -> Link]
         /\ \A h \in Gens :
              /\ Sound(Shut(lk, g)[h])
              /\ Shut(lk, g)[h].phase = lk[h].phase
              /\ lk[h].shut => Shut(lk, g)[h].shut
              /\ h = g => Shut(lk, g)[h].shut
              /\ h # g => Shut(lk, g)[h] = lk[h]
<1>1. CASE g = None
  BY <1>1, DaemonLinkAssumption DEF Shut, TransportsInv
<1>2. CASE g # None
  <2>1. g \in Gens
    BY <1>2
  <2> DEFINE l == [lk[g] EXCEPT !.shut = TRUE]
  <2>2. Sound(l) /\ l.phase = lk[g].phase /\ l.shut
    BY <1>2, <2>1, ShutSound DEF TransportsInv
  <2>3. Shut(lk, g) = [lk EXCEPT ![g] = l]
    BY <1>2 DEF Shut
  <2>4. l \in Link
    BY <2>2 DEF Sound
  <2> HIDE DEF l
  <2>5. QED
    BY <2>1, <2>2, <2>3, <2>4 DEF TransportsInv
<1>3. QED
  BY <1>1, <1>2

(* A transport the client shuts is still its own. *)
LEMMA ShutKeepsTransports ==
  ASSUME NEW c, NEW lk, c \in Client, TransportsInv(c, lk),
         NEW g \in Gens \cup {None}, g # None => lk[g].phase # "unused"
  PROVE  TransportsInv(c, Shut(lk, g))
BY ShutEvolves DEF TransportsInv, Client

LEMMA TeardownTransports ==
  ASSUME NEW c, NEW lk, NEW d, LoopInv(c), d \in Client, TransportsInv(c, lk),
         d.current = c.current, d.mine \in {c.mine, None}
  PROVE  TransportsInv(Dropped(d), Swept(Shut(lk, d.current), d))
<1> DEFINE sh == Shut(lk, d.current)
           sw == Swept(sh, d)
<1>1. c \in Client /\ d.current \in Gens \cup {None}
  BY DEF LoopInv, Client
<1>2. d.current # None => lk[d.current].phase # "unused"
  BY DEF LoopInv, TransportsInv
<1>3. /\ sh \in [Gens -> Link]
      /\ \A h \in Gens :
           /\ Sound(sh[h])
           /\ sh[h].phase = lk[h].phase
           /\ lk[h].shut => sh[h].shut
           /\ h = d.current => sh[h].shut
  BY <1>1, <1>2, ShutEvolves
<1> HIDE DEF sh
<1>4. /\ sw \in [Gens -> Link]
      /\ \A g \in Gens :
           /\ Sound(sw[g])
           /\ sw[g].shut = sh[g].shut \/ sw[g].phase = "unused"
           /\ sw[g].phase # "unused" => sw[g].phase = sh[g].phase
           /\ g = d.mine => sw[g] = sh[g]
  BY <1>3, SweptSound
<1> HIDE DEF sw
<1>5. /\ Dropped(d).mine = d.mine
      /\ Dropped(d).current = None
  BY DEF Dropped, Client
<1>6. ASSUME NEW g \in Gens, sw[g].phase # "unused"
      PROVE  sw[g].shut
  BY <1>3, <1>4, <1>6 DEF TransportsInv
<1>7. d.mine # None => sw[d.mine].phase # "unused"
  BY <1>1, <1>3, <1>4 DEF TransportsInv, Client
<1>8. QED
  BY <1>4, <1>5, <1>6, <1>7 DEF TransportsInv, sw, sh

LEMMA TearsDownKeeps ==
  ASSUME Inv, NEW d, NEW lk, d \in Client, TransportsInv(client, lk),
         d.current = client.current, d.mine \in {client.mine, None},
         d.pending = client.pending, LoopInv(Dropped(d)),
         TearsDown(d, lk), UNCHANGED <<failing, daemon>>
  PROVE  Inv'
<1>1. /\ client' = Dropped(d)
      /\ promised' = {}
      /\ done' = done \ client.pending
      /\ mirror' = Stale
      /\ link' = Swept(Shut(lk, d.current), d)
  BY DEF TearsDown, Settled, Inv, PromisesInv
<1>2. TransportsInv(client', link')
  BY <1>1, TeardownTransports DEF Inv
<1>3. client'.pending = {} /\ client'.current = None
  BY <1>1 DEF Dropped, Client
<1>4. done' = {}
  BY <1>1 DEF Inv, PromisesInv
<1>5. PromisesInv'
  BY <1>1, <1>3, <1>4 DEF Inv, PromisesInv
<1>6. MirrorInv'
  BY <1>1 DEF MirrorInv, Stale
<1>7. QED
  BY <1>1, <1>2, <1>5, <1>6 DEF Inv

(* An attempt that is over leaves its loop without a transport. *)
LEMMA AfterLoop ==
  ASSUME NEW c, c \in Client, c.loop \in {"opening", "greeting", "pumping"},
         c.control # "none", NEW result \in {"failed", "lost", "refused"},
         c.status = "refused" => result = "refused"
  PROVE  /\ After(c, result) \in Client
         /\ After(c, result).mine = None
         /\ After(c, result).current = c.current
         /\ After(c, result).pending = c.pending
         /\ LoopInv(Dropped(After(c, result)))
         /\ c.current = None => LoopInv(After(c, result))
BY DEF After, Client, LoopInv, Dropped

LEMMA EndsKeeps ==
  ASSUME Inv, NEW c, NEW lk, NEW result \in {"failed", "lost", "refused"},
         c \in Client, c.loop \in {"greeting", "pumping"}, c.control # "none",
         c.status = "refused" => result = "refused",
         TransportsInv(client, lk), c.current = client.current, c.pending = client.pending,
         Ends(c, lk, result), UNCHANGED <<failing, daemon>>
  PROVE  Inv'
<1> DEFINE d == After(c, result)
<1>1. /\ d \in Client /\ d.mine = None /\ d.current = c.current
      /\ d.pending = c.pending /\ LoopInv(Dropped(d))
  BY AfterLoop
<1>2. TearsDown(d, lk)
  BY DEF Ends
<1> HIDE DEF d
<1>3. QED
  BY <1>1, <1>2, TearsDownKeeps

(* What the loop reads is taken from its transport. *)
LEMMA ConsumedEvolves ==
  ASSUME Inv, NEW g \in Gens, link[g].phase # "unused", Received(g)
  PROVE  /\ Evolved(client, link, Consumed(link, g))
         /\ TransportsInv(client, Consumed(link, g))
         /\ Consumed(link, g)[g].phase = link[g].phase
         /\ Head(link[g].down) \in DownFrame
<1>1. /\ link \in [Gens -> Link] /\ \A h \in Gens : Sound(link[h])
      /\ client \in Client /\ TransportsInv(client, link)
  BY DEF Inv, TransportsInv, LoopInv
<1>2. link[g].down \in Seq(DownFrame) /\ link[g].down # <<>>
  BY <1>1 DEF Received, Link
<1>3. Tail(link[g].down) \in Seq(DownFrame) /\ Head(link[g].down) \in DownFrame
  BY <1>2, HeadTailProperties
<1> DEFINE l == [link[g] EXCEPT !.down = Tail(link[g].down)]
<1>4. Sound(l) /\ l.phase = link[g].phase /\ l.shut = link[g].shut
  BY <1>1, <1>3, DownSound
<1>5. Consumed(link, g) = [link EXCEPT ![g] = l]
  BY DEF Consumed
<1> HIDE DEF l
<1>6. Evolved(client, link, [link EXCEPT ![g] = l])
  BY <1>1, <1>4, OneEvolved
<1>7. QED
  BY <1>1, <1>3, <1>4, <1>5, <1>6, EvolvedKeepsTransports

LEMMA AskedSound ==
  ASSUME NEW l, Sound(l), l.phase # "unused", ~l.shut, ~l.lost, NEW r \in Request
  PROVE  /\ Sound([l EXCEPT !.up = Append(l.up, r)])
         /\ [l EXCEPT !.up = Append(l.up, r)].phase = l.phase
         /\ [l EXCEPT !.up = Append(l.up, r)].shut = l.shut
<1> DEFINE up == Append(l.up, r)
           asked == [l EXCEPT !.up = up]
<1>1. l.up \in Seq(UpFrame) /\ r \in UpFrame
  BY RequestsAreFrames DEF Sound, Link
<1>2. up \in Seq(UpFrame) /\ up # <<>>
  BY <1>1, AppendProperties
<1>3. asked \in Link
  BY <1>2 DEF Sound, Link
<1>4. /\ asked.phase = l.phase /\ asked.shut = l.shut
      /\ asked.up = up
  BY DEF Sound, Link
<1> HIDE DEF up, asked
<1>5. Sound(asked)
  <2>1. CASE l.phase \in {"backlog", "handshake"}
    <3>1. l.up # <<>> /\ Tail(l.up) \in Seq(Request)
      BY <2>1 DEF Sound, UpShape
    <3>2. Tail(up) = Append(Tail(l.up), r)
      BY <1>1, <3>1, HeadTailAppend DEF up
    <3>3. Tail(up) \in Seq(Request)
      BY <3>1, <3>2, AppendProperties
    <3>4. QED
      BY <1>2, <1>3, <1>4, <2>1, <3>3 DEF Sound, UpShape
  <2>2. CASE l.phase \in {"greeted", "serving", "closed"}
    <3>1. up \in Seq(Request)
      BY <2>2, AppendProperties DEF Sound, UpShape, up
    <3>2. QED
      BY <1>3, <1>4, <2>2, <3>1 DEF Sound, UpShape
  <2>3. QED
    BY <2>1, <2>2 DEF Sound, Link
<1>6. QED
  BY <1>4, <1>5 DEF up, asked

LEMMA AsksKeeps ==
  ASSUME Inv, NEW c, NEW lk, NEW type \in {"subscribe", "mutate"},
         LoopInv(c), c.current = client.current, c.current # None,
         c.mine = client.mine, c.pending = client.pending,
         TransportsInv(client, lk), Asks(c, lk, type),
         UNCHANGED <<mirror, daemon, done>>
  PROVE  Inv'
<1> DEFINE g == c.current
<1>1. PICK id \in IDs \ InFlight :
        /\ client' = [c EXCEPT !.pending = @ \cup {id}]
        /\ promised' = promised \cup {id}
        /\ \/ /\ ~Dead(lk, g)
              /\ link' = [lk EXCEPT ![g].up = Append(@, [type |-> type, id |-> id])]
              /\ UNCHANGED failing
           \/ /\ link' = lk
              /\ failing' = failing \cup {id}
  BY DEF Asks
<1>2. /\ c \in Client /\ g \in Gens /\ g = c.mine
      /\ lk[g].phase # "unused" /\ client \in Client
  BY DEF LoopInv, Client, TransportsInv, Inv
<1>3. /\ client'.current = c.current /\ client'.mine = c.mine
      /\ client'.pending = c.pending \cup {id}
      /\ LoopInv(client')
  BY <1>1, <1>2 DEF Client, LoopInv
<1>4. TransportsInv(client, link')
  <2>1. CASE link' = lk
    BY <2>1
  <2>2. CASE ~Dead(lk, g) /\ link' = [lk EXCEPT ![g].up = Append(@, [type |-> type, id |-> id])]
    <3> DEFINE r == [type |-> type, id |-> id]
               l == [lk[g] EXCEPT !.up = Append(lk[g].up, r)]
    <3>1. r \in Request
      BY DEF Request
    <3>2. Sound(l) /\ l.phase = lk[g].phase /\ l.shut = lk[g].shut
      BY <1>2, <2>2, <3>1, AskedSound DEF Dead, TransportsInv
    <3>3. link' = [lk EXCEPT ![g] = l]
      BY <2>2
    <3> HIDE DEF l, g
    <3>4. Evolved(client, lk, link')
      BY <1>2, <3>2, <3>3, OneEvolved DEF TransportsInv
    <3>5. QED
      BY <1>2, <3>4, EvolvedKeepsTransports
  <2>3. QED
    BY <1>1, <2>1, <2>2
<1>5. TransportsInv(client', link')
  BY <1>3, <1>4 DEF TransportsInv
<1>6. PromisesInv' /\ MirrorInv'
  BY <1>1, <1>3 DEF Inv, PromisesInv, MirrorInv
<1>7. QED
  BY <1>3, <1>5, <1>6 DEF Inv

-----------------------------------------------------------------------------
(* The steps. *)

LEMMA InvInit == Init => Inv
<1> SUFFICES ASSUME Init PROVE Inv
  OBVIOUS
<1>1. LoopInv(client)
  BY DEF Init, LoopInv, Client
<1>2. TransportsInv(client, link)
  BY UnusedSound DEF Init, TransportsInv, Sound
<1>3. PromisesInv /\ MirrorInv
  BY DEF Init, PromisesInv, MirrorInv, Stale
<1>4. QED
  BY <1>1, <1>2, <1>3 DEF Init, Inv

LEMMA OwnerKeeps ==
  ASSUME Inv, Connect \/ Disconnect \/ Disconnected \/ Requests
  PROVE  Inv'
<1>1. CASE Connect
  <2>1. LoopInv(client')
    BY <1>1 DEF Connect, Inv, LoopInv, Client
  <2>2. client'.current = client.current /\ client'.mine = client.mine
        /\ client'.pending = client.pending
    BY <1>1 DEF Connect, Inv, LoopInv, Client
  <2>3. QED
    BY <1>1, <2>1, <2>2 DEF Connect, Inv, TransportsInv, PromisesInv, MirrorInv
<1>2. CASE Disconnected
  <2>1. LoopInv(client')
    BY <1>2 DEF Disconnected, Inv, LoopInv, Client
  <2>2. client'.current = client.current /\ client'.mine = client.mine
        /\ client'.pending = client.pending
    BY <1>2 DEF Disconnected, Inv, LoopInv, Client
  <2>3. QED
    BY <1>2, <2>1, <2>2 DEF Disconnected, Inv, TransportsInv, PromisesInv, MirrorInv
<1>3. CASE Disconnect
  <2> DEFINE d == [client EXCEPT !.control = "aborted", !.status = "idle", !.waiting = FALSE]
  <2>1. /\ d \in Client /\ d.current = client.current /\ d.mine = client.mine
        /\ d.pending = client.pending /\ LoopInv(Dropped(d))
    BY <1>3 DEF Disconnect, Inv, LoopInv, Client, Dropped
  <2>2. TearsDown(d, link) /\ UNCHANGED <<failing, daemon>>
    BY <1>3 DEF Disconnect
  <2> HIDE DEF d
  <2>3. QED
    BY <2>1, <2>2, TearsDownKeeps DEF Inv
<1>4. CASE Requests
  BY <1>4, AsksKeeps DEF Requests, Inv
<1>5. QED
  BY <1>1, <1>2, <1>3, <1>4

LEMMA SendFailsKeeps ==
  ASSUME Inv, NEW id \in IDs, SendFails(id)
  PROVE  Inv'
<1>1. /\ client' = [client EXCEPT !.pending = client.pending \ {id}]
      /\ promised' = promised \ {id} /\ done' = done \ {id}
      /\ failing' = failing \ {id}
      /\ mirror' = [mirror EXCEPT !.shows = mirror.shows \ {id}]
      /\ link' = Shut(link, client.current)
      /\ daemon' = daemon
  BY DEF SendFails, Settled
<1>2. /\ LoopInv(client')
      /\ client'.current = client.current /\ client'.mine = client.mine
      /\ client'.pending = client.pending \ {id}
  BY <1>1 DEF Inv, LoopInv, Client
<1>3. TransportsInv(client, link')
  <2>1. client.current \in Gens \cup {None} /\ client \in Client
        /\ (client.current # None => link[client.current].phase # "unused")
    BY DEF Inv, LoopInv, Client, TransportsInv
  <2>2. QED
    BY <1>1, <2>1, ShutKeepsTransports DEF Inv
<1>4. TransportsInv(client', link')
  BY <1>2, <1>3 DEF TransportsInv
<1>5. PromisesInv'
  BY <1>1, <1>2 DEF Inv, PromisesInv
<1>6. MirrorInv'
  BY <1>1, <1>2 DEF Inv, MirrorInv
<1>7. QED
  BY <1>1, <1>2, <1>4, <1>5, <1>6 DEF Inv

LEMMA OpeningKeeps ==
  ASSUME Inv, OpenFails \/ OpensTooLate \/ Opens \/ Delays
  PROVE  Inv'
<1>1. client \in Client /\ link \in [Gens -> Link] /\ \A g \in Gens : Sound(link[g])
  BY DEF Inv, LoopInv, TransportsInv
<1>2. ASSUME NEW d, d \in Client, LoopInv(d), d.current = None, client.current = None,
             d.mine = None, d.pending = client.pending, client' = d, TransportsInv(d, link'),
             UNCHANGED <<promised, mirror, failing, daemon, done>>
      PROVE  Inv'
  BY <1>2 DEF Inv, PromisesInv, MirrorInv
<1>3. ASSUME client.loop \in {"opening", "delaying"}
      PROVE  /\ client.mine = None /\ client.current = None /\ client.control # "none"
             /\ client.status # "refused"
  BY <1>1, <1>3 DEF Inv, LoopInv
<1>4. ASSUME client.loop = "opening"
      PROVE  LET d == After(client, "failed") IN
             /\ d \in Client /\ LoopInv(d) /\ d.current = None /\ d.mine = None
             /\ d.pending = client.pending
  BY <1>1, <1>3, <1>4, AfterLoop
<1>5. CASE OpenFails
  <2>1. TransportsInv(After(client, "failed"), link)
    BY <1>3, <1>4, <1>5 DEF OpenFails, Inv, TransportsInv
  <2>2. QED
    BY <1>2, <1>3, <1>4, <1>5, <2>1 DEF OpenFails
<1>6. CASE OpensTooLate
  <2>1. PICK g \in Gens :
          /\ link[g].phase = "unused"
          /\ link' = Swept([link EXCEPT ![g].phase = "backlog", ![g].shut = TRUE], client)
    BY <1>6 DEF OpensTooLate
  <2> DEFINE l == [Unused EXCEPT !.phase = "backlog", !.shut = TRUE]
             lk == [link EXCEPT ![g] = l]
  <2>2. link[g] = Unused
    BY <1>1, <2>1 DEF Sound, UpShape
  <2>3. Sound(l) /\ l.phase # "unused" /\ l.shut
    BY EmptySeq DEF Sound, UpShape, Link, Unused
  <2>4. link' = Swept(lk, client)
    BY <1>1, <2>1, <2>2
  <2>5. /\ lk \in [Gens -> Link] /\ \A h \in Gens : Sound(lk[h])
        /\ lk[g] = l
        /\ \A h \in Gens : h # g => lk[h] = link[h]
    BY <1>1, <2>3 DEF Sound
  <2> HIDE DEF l, lk
  <2>6. /\ link' \in [Gens -> Link]
        /\ \A h \in Gens :
             /\ Sound(link'[h])
             /\ link'[h].shut = lk[h].shut \/ link'[h].phase = "unused"
             /\ link'[h].phase # "unused" => link'[h].phase = lk[h].phase
    BY <2>4, <2>5, SweptSound
  <2>7. ASSUME NEW h \in Gens, link'[h].phase # "unused"
        PROVE  link'[h].shut
    <3>1. CASE h = g
      BY <2>3, <2>5, <2>6, <2>7, <3>1
    <3>2. CASE h # g
      <4>1. link[h].phase # "unused" => link[h].shut
        BY <1>1, <1>3, <1>6, DaemonLinkAssumption DEF OpensTooLate, Inv, TransportsInv
      <4>2. QED
        BY <2>5, <2>6, <2>7, <3>2, <4>1
    <3>3. QED
      BY <3>1, <3>2
  <2>8. TransportsInv(After(client, "failed"), link')
    BY <1>4, <1>6, <2>6, <2>7 DEF OpensTooLate, TransportsInv
  <2>9. QED
    BY <1>2, <1>3, <1>4, <1>6, <2>8 DEF OpensTooLate
<1>7. CASE Opens
  <2>1. PICK g \in Gens :
          /\ link[g].phase = "unused"
          /\ client' = [client EXCEPT !.current = g, !.mine = g, !.loop = "greeting"]
          /\ link' = [link EXCEPT ![g].phase = "backlog", ![g].up = <<[type |-> "hello"]>>]
    BY <1>7 DEF Opens
  <2> DEFINE hello == [type |-> "hello"]
             l == [Unused EXCEPT !.phase = "backlog", !.up = <<hello>>]
  <2>2. link[g] = Unused
    BY <1>1, <2>1 DEF Sound, UpShape
  <2>3. Sound(l) /\ l.phase # "unused"
    <3>1. hello \in UpFrame
      BY DEF UpFrame
    <3>2. /\ <<hello>> \in Seq(UpFrame) /\ <<hello>> # <<>>
          /\ Tail(<<hello>>) = <<>>
      BY <3>1, SequencesOfOneOrTwo
    <3>3. /\ l \in Link /\ l.phase = "backlog" /\ l.up = <<hello>>
      BY <3>2, EmptySeq DEF Link, Unused
    <3> HIDE DEF l, hello
    <3>4. QED
      BY <3>2, <3>3, EmptySeq DEF Sound, UpShape
  <2>4. link' = [link EXCEPT ![g] = l]
    BY <1>1, <2>1, <2>2
  <2> HIDE DEF l
  <2>5. /\ link' \in [Gens -> Link]
        /\ \A h \in Gens : Sound(link'[h]) /\ (h # g => link'[h] = link[h])
        /\ link'[g].phase # "unused"
    BY <1>1, <2>3, <2>4 DEF Sound
  <2>6. /\ LoopInv(client') /\ client'.current = g /\ client'.mine = g
        /\ client'.pending = client.pending
    BY <1>1, <1>3, <1>7, <2>1, DaemonLinkAssumption DEF Opens, Inv, LoopInv, Client
  <2>7. TransportsInv(client', link')
    <3>1. ASSUME NEW h \in Gens, link'[h].phase # "unused", ~link'[h].shut, h # g
          PROVE  FALSE
      <4>1. client.current = None
        BY <1>3, <1>7 DEF Opens
      <4>2. link[h].phase # "unused" /\ ~link[h].shut
        BY <2>5, <3>1
      <4>3. QED
        BY <4>1, <4>2, DaemonLinkAssumption DEF Inv, TransportsInv
    <3>2. QED
      BY <2>5, <2>6, <3>1 DEF TransportsInv
  <2>8. PromisesInv' /\ MirrorInv'
    BY <1>3, <1>7, <2>6, DaemonLinkAssumption DEF Opens, Inv, PromisesInv, MirrorInv
  <2>9. QED
    BY <1>7, <2>6, <2>7, <2>8 DEF Opens, Inv
<1>8. CASE Delays
  <2> DEFINE d == [client EXCEPT !.loop =
                     IF client.control = "aborted" THEN "ended" ELSE "opening"]
  <2>1. /\ d \in Client /\ LoopInv(d) /\ d.current = None /\ d.mine = None
        /\ d.pending = client.pending
    BY <1>1, <1>3, <1>8 DEF Delays, Inv, LoopInv, Client
  <2>2. client' = d
    BY <1>8 DEF Delays
  <2> HIDE DEF d
  <2>3. TransportsInv(d, link')
    BY <1>3, <1>8, <2>1 DEF Delays, Inv, TransportsInv
  <2>4. QED
    BY <1>2, <1>3, <1>8, <2>1, <2>2, <2>3 DEF Delays
<1>9. QED
  BY <1>5, <1>6, <1>7, <1>8

(* While the loop is on a transport, that transport exists. *)
LEMMA OnATransport ==
  ASSUME Inv, client.loop \in {"greeting", "pumping"}
  PROVE  /\ client.mine \in Gens /\ link[client.mine].phase # "unused"
         /\ client.control # "none" /\ client.status # "refused"
         /\ client \in Client /\ TransportsInv(client, link)
BY DEF Inv, LoopInv, TransportsInv, Client

LEMMA GreetingKeeps ==
  ASSUME Inv, \/ HandshakeExpires \/ GreetingFails \/ Greeted \/ Refused
              \/ GreetedWrongly \/ Loses \/ RefusedLate \/ LosesOnFrame
  PROVE  Inv'
<1>1. CASE HandshakeExpires
  <2>1. /\ client.mine \in Gens /\ link[client.mine].phase # "unused"
        /\ client \in Client /\ TransportsInv(client, link)
    BY <1>1, OnATransport DEF HandshakeExpires
  <2>2. TransportsInv(client, link')
    BY <1>1, <2>1, ShutKeepsTransports DEF HandshakeExpires
  <2>3. QED
    BY <1>1, <2>2 DEF HandshakeExpires, Inv, LoopInv, TransportsInv, PromisesInv, MirrorInv
<1>2. CASE GreetingFails
  BY <1>2, OnATransport, EndsKeeps DEF GreetingFails
<1>3. CASE Loses
  BY <1>3, OnATransport, EndsKeeps DEF Loses
<1>4. CASE GreetedWrongly \/ LosesOnFrame
  BY <1>4, OnATransport, ConsumedEvolves, EndsKeeps DEF GreetedWrongly, LosesOnFrame, Throws
<1>5. CASE Refused \/ RefusedLate
  <2> DEFINE c == [client EXCEPT !.status = "refused"]
             lk == Consumed(link, client.mine)
  <2>1. /\ c \in Client /\ c.loop \in {"greeting", "pumping"} /\ c.control # "none"
        /\ c.current = client.current /\ c.pending = client.pending
    BY <1>5, OnATransport DEF Refused, RefusedLate, Throws, Client
  <2>2. TransportsInv(client, lk)
    BY <1>5, OnATransport, ConsumedEvolves DEF Refused, RefusedLate, Throws
  <2>3. Ends(c, lk, "refused") /\ UNCHANGED <<failing, daemon>>
    BY <1>5 DEF Refused, RefusedLate
  <2> HIDE DEF c, lk
  <2>4. QED
    BY <2>1, <2>2, <2>3, EndsKeeps
<1>6. CASE Greeted
  <2> DEFINE c == [client EXCEPT !.retrying = FALSE, !.status = "connected",
                                 !.waiting = FALSE, !.loop = "pumping"]
             lk == Consumed(link, c.mine)
  <2>1. /\ LoopInv(c) /\ c.current = client.current /\ c.mine = client.mine
        /\ c.pending = client.pending
    BY <1>6, OnATransport DEF Greeted, Client, LoopInv, Inv
  <2>2. TransportsInv(client, lk)
    BY <1>6, <2>1, OnATransport, ConsumedEvolves DEF Greeted
  <2>3. CASE c.current = None
    <3>1. client' = c /\ link' = lk /\ UNCHANGED <<promised, failing>>
      BY <1>6, <2>3 DEF Greeted
    <3> HIDE DEF c, lk
    <3>2. TransportsInv(client', link')
      BY <2>1, <2>2, <3>1 DEF TransportsInv
    <3>3. QED
      BY <1>6, <2>1, <3>1, <3>2 DEF Greeted, Inv, PromisesInv, MirrorInv
  <2>4. CASE c.current # None
    <3>1. Asks(c, lk, "subscribe") /\ UNCHANGED <<mirror, daemon, done>>
      BY <1>6, <2>4 DEF Greeted
    <3> HIDE DEF c, lk
    <3>2. QED
      BY <2>1, <2>2, <2>4, <3>1, AsksKeeps
  <2>5. QED
    BY <2>3, <2>4
<1>7. QED
  BY <1>1, <1>2, <1>3, <1>4, <1>5, <1>6

LEMMA PumpsKeeps ==
  ASSUME Inv, Pumps
  PROVE  Inv'
<1> DEFINE g == client.mine
           frame == Head(link[g].down)
<1>1. /\ g \in Gens /\ link[g].phase # "unused" /\ client \in Client
      /\ Received(g) /\ Handles(frame) /\ link' = Consumed(link, g)
      /\ UNCHANGED <<failing, daemon>>
  BY OnATransport DEF Pumps
<1>2. Evolved(client, link, link') /\ frame \in DownFrame
  BY <1>1, ConsumedEvolves
<1>3. TransportsInv(client, link')
  BY <1>1, <1>2, EvolvedKeepsTransports DEF Inv
<1> HIDE DEF frame
<1>4. CASE client.current # g
  BY <1>1, <1>2, <1>4, EvolutionKeeps DEF Handles, Inv, PromisesInv
<1>5. CASE client.current = g /\ frame.type \in {"full", "partial"} /\ UNCHANGED <<client, promised, done>>
  <2>1. MirrorInv'
    <3>1. CASE /\ frame.type = "full"
               /\ mirror' = [stale |-> FALSE, of |-> g, shows |-> frame.shows \cap promised]
      BY <1>1, <1>5, <3>1, DaemonLinkAssumption DEF MirrorInv
    <3>2. CASE mirror' = IF mirror.stale THEN mirror ELSE [mirror EXCEPT !.of = g]
      BY <1>1, <1>5, <3>2, DaemonLinkAssumption DEF Inv, MirrorInv
    <3>3. QED
      BY <1>1, <1>5, <3>1, <3>2 DEF Handles, HandlesAny
  <2>2. QED
    BY <1>1, <1>3, <1>5, <2>1 DEF Inv, PromisesInv, LoopInv, TransportsInv
<1>6. CASE /\ client.current = g
           /\ client' = [client EXCEPT !.pending = @ \ {frame.id}]
           /\ Settled(client.pending \cap {frame.id})
           /\ mirror' = [mirror EXCEPT !.shows = @ \ (client.pending \cap {frame.id})]
  <2>1. /\ LoopInv(client') /\ client'.current = client.current /\ client'.mine = client.mine
        /\ client'.pending = client.pending \ {frame.id}
    BY <1>1, <1>6 DEF Inv, LoopInv, Client
  <2>2. TransportsInv(client', link')
    BY <1>3, <2>1 DEF TransportsInv
  <2>3. PromisesInv'
    BY <1>1, <1>6, <2>1 DEF Settled, Inv, PromisesInv
  <2>4. MirrorInv'
    BY <1>6, <2>1 DEF Settled, Inv, PromisesInv, MirrorInv
  <2>5. QED
    BY <1>1, <2>1, <2>2, <2>3, <2>4 DEF Inv
<1>7. QED
  BY <1>1, <1>4, <1>5, <1>6 DEF Handles, HandlesAny

-----------------------------------------------------------------------------
(* The steps of the daemon and of the network evolve the transports. *)

LEMMA InvTransports ==
  ASSUME Inv
  PROVE  /\ link \in [Gens -> Link]
         /\ \A g \in Gens : Sound(link[g])
         /\ Evolved(client, link, link)
         /\ done \subseteq promised /\ promised \subseteq IDs /\ done \subseteq IDs
         /\ daemon \in Tempers \cup {"down"}
BY NothingEvolved DEF Inv, TransportsInv, PromisesInv, LoopInv, Client

LEMMA DaemonStepKeeps ==
  ASSUME Inv, NEW g \in Gens, DaemonStep(g) \/ Severs(g) \/ Revokes(g)
  PROVE  Inv'
<1>1. /\ link \in [Gens -> Link] /\ \A h \in Gens : Sound(link[h])
      /\ Evolved(client, link, link) /\ done \subseteq promised
      /\ daemon \in Tempers \cup {"down"}
  BY InvTransports
<1>2. SUFFICES ASSUME UNCHANGED <<client, promised, mirror, failing, daemon, done>>
               PROVE  Evolved(client, link, link')
  BY <1>1, EvolutionKeeps DEF DaemonStep, Severs, Revokes, Accepts, Greets, Refuses, Registers,
                              Reads, PeerLeft
<1>3. ASSUME NEW lk, Evolved(client, link, lk), lk[g].phase # "unused"
      PROVE  Evolved(client, link, Closes(lk, g))
  <2>1. lk \in [Gens -> Link] /\ \A h \in Gens : Sound(lk[h])
    BY <1>3 DEF Evolved
  <2>2. Evolved(client, lk, Closes(lk, g))
    BY <1>3, <2>1, ClosesEvolved
  <2>3. QED
    BY <1>3, <2>2, EvolvedTwice
<1>4. ASSUME link[g].phase # "unused", NEW f \in DownFrame
      PROVE  /\ Evolved(client, link, Says(link, g, <<f>>))
             /\ Says(link, g, <<f>>)[g].phase # "unused"
  BY <1>1, <1>4, SaysEvolved, SequencesOfOneOrTwo
<1>5. CASE Accepts(g)
  <2>1. CASE link' = Closes(Says(link, g, <<[type |-> "refused"]>>), g)
    BY <1>3, <1>4, <1>5, <2>1, FrameTypes DEF Accepts
  <2>2. CASE link' = [link EXCEPT ![g].phase = "handshake"]
    <3> DEFINE l == [link[g] EXCEPT !.phase = "handshake"]
    <3>1. Sound(l) /\ l.shut = link[g].shut /\ l.phase # "unused"
      BY <1>1, <1>5 DEF Accepts, Sound, UpShape, Link
    <3>2. link' = [link EXCEPT ![g] = l]
      BY <2>2
    <3> HIDE DEF l
    <3>3. link[g].phase # "unused"
      BY <1>5 DEF Accepts
    <3>4. QED
      BY <1>1, <3>1, <3>2, <3>3, OneEvolved
  <2>3. QED
    BY <1>5, <2>1, <2>2 DEF Accepts
<1>6. CASE Greets(g)
  <2> DEFINE l == [link[g] EXCEPT !.phase = "greeted", !.up = Tail(@)]
             lk == [link EXCEPT ![g] = l]
  <2>1. PICK f \in DownFrame : link' = Says(lk, g, <<f>>)
    <3>1. link' = Says(lk, g, <<[type |-> IF daemon = "same" THEN "hello" ELSE "foreignHello"]>>)
      BY <1>6 DEF Greets
    <3> HIDE DEF lk
    <3>2. QED
      BY <3>1, FrameTypes
  <2>2. Sound(l) /\ l.shut = link[g].shut /\ l.phase = "greeted"
    <3>1. Tail(link[g].up) \in Seq(Request)
      BY <1>1, <1>6 DEF Greets, Sound, UpShape
    <3>2. l \in Link
      BY <1>1, <3>1, RequestsAreFrames DEF Link
    <3>3. QED
      BY <1>1, <3>1, <3>2 DEF Sound, UpShape, Link
  <2> HIDE DEF l
  <2>3. Evolved(client, link, lk) /\ lk[g] = l
    BY <1>1, <1>6, <2>2, OneEvolved DEF Greets
  <2> HIDE DEF lk
  <2>4. Evolved(client, lk, link')
    <3>1. lk \in [Gens -> Link] /\ \A h \in Gens : Sound(lk[h])
      BY <2>3 DEF Evolved
    <3>2. lk[g].phase # "unused"
      BY <2>2, <2>3
    <3>3. QED
      BY <2>1, <3>1, <3>2, SaysEvolved, SequencesOfOneOrTwo
  <2>5. QED
    BY <2>3, <2>4, EvolvedTwice
<1>7. CASE Refuses(g) \/ Revokes(g)
  BY <1>3, <1>4, <1>7, FrameTypes DEF Refuses, Revokes
<1>8. CASE Registers(g)
  <2> DEFINE l == [link[g] EXCEPT !.phase = "serving"]
  <2>1. Sound(l) /\ l.shut = link[g].shut /\ l.phase # "unused"
    BY <1>1, <1>8 DEF Registers, Sound, UpShape, Link
  <2>2. link' = [link EXCEPT ![g] = l]
    BY <1>8 DEF Registers
  <2> HIDE DEF l
  <2>3. link[g].phase # "unused"
    BY <1>8 DEF Registers
  <2>4. QED
    BY <1>1, <2>1, <2>2, <2>3, OneEvolved
<1>9. CASE Reads(g)
  <2> DEFINE l == [link[g] EXCEPT !.up = Tail(@), !.working = @ \cup {Head(link[g].up)}]
  <2>1. link[g].up \in Seq(Request) /\ link[g].up # <<>>
    BY <1>1, <1>9 DEF Reads, Sound, UpShape
  <2>2. Tail(link[g].up) \in Seq(Request) /\ Head(link[g].up) \in Request
    BY <2>1, HeadTailProperties
  <2>3. Sound(l) /\ l.shut = link[g].shut /\ l.phase = "serving"
    <3>1. l \in Link
      BY <1>1, <2>2, RequestsAreFrames DEF Link
    <3>2. QED
      BY <1>1, <1>9, <2>2, <3>1 DEF Reads, Sound, UpShape, Link
  <2>4. link' = [link EXCEPT ![g] = l]
    BY <1>9 DEF Reads
  <2> HIDE DEF l
  <2>5. link[g].phase # "unused" /\ l.phase # "unused"
    BY <1>9, <2>3 DEF Reads
  <2>6. QED
    BY <1>1, <2>3, <2>4, <2>5, OneEvolved
<1>10. CASE PeerLeft(g)
  BY <1>1, <1>3, <1>10 DEF PeerLeft, Held
<1>11. CASE Severs(g)
  BY <1>1, <1>3, <1>11 DEF Severs, Held
<1>12. QED
  BY <1>5, <1>6, <1>7, <1>8, <1>9, <1>10, <1>11 DEF DaemonStep

LEMMA AnswersEvolved ==
  ASSUME NEW c, NEW lk \in [Gens -> Link], \A h \in Gens : Sound(lk[h]),
         NEW g \in Gens, NEW frames \in Seq(DownFrame)
  PROVE  Evolved(c, lk, Answers(lk, g, frames))
BY SaysEvolved, NothingEvolved DEF Answers

LEMMA ToldEvolved ==
  ASSUME NEW c, NEW lk \in [Gens -> Link], \A h \in Gens : Sound(lk[h]),
         NEW frame \in DownFrame
  PROVE  Evolved(c, lk, Told(lk, frame))
<1>1. <<frame>> \in Seq(DownFrame)
  BY SequencesOfOneOrTwo
<1>2. ASSUME NEW h \in Gens
      PROVE  Evolved(c, lk, Answers(lk, h, <<frame>>))
  BY <1>1, AnswersEvolved
<1>3. Evolved(c, lk, lk)
  BY NothingEvolved
<1> DEFINE told == Told(lk, frame)
<1>4. \A h \in Gens : told[h] = IF lk[h].scoped THEN Answers(lk, h, <<frame>>)[h] ELSE lk[h]
  BY DEF Told
<1>5. \A h \in Gens : told[h] \in Link
  BY <1>2, <1>4 DEF Evolved
<1>6. told \in [Gens -> Link]
  <2>1. told = [h \in Gens |-> told[h]]
    BY DEF Told
  <2> HIDE DEF told
  <2>2. QED
    BY <1>5, <2>1
<1> HIDE DEF told
<1>7. Evolved(c, lk, told)
  BY <1>2, <1>3, <1>4, <1>6 DEF Evolved
<1>8. QED
  BY <1>7 DEF told

LEMMA SweptAfter ==
  ASSUME NEW c, NEW lk, NEW lk2, Evolved(c, lk, lk2)
  PROVE  Evolved(c, lk, Swept(lk2, c))
BY SweptEvolved, EvolvedTwice, ZenonT(40) DEF Evolved

LEMMA WorksEvolved ==
  ASSUME NEW lk \in [Gens -> Link], \A h \in Gens : Sound(lk[h]),
         NEW g \in Gens, lk[g].phase # "unused",
         NEW request \in Request, Works(lk, g, request),
         done \subseteq promised, promised \subseteq IDs
  PROVE  Evolved(client, lk, link') /\ done' \subseteq promised
<1>1. request.id \in IDs /\ request.type \in {"subscribe", "mutate"}
  BY DEF Request
<1>2. done' \subseteq promised
  BY DEF Works
<1>3. \A type \in {"acknowledged", "failed"} : <<Reply(type, request.id)>> \in Seq(DownFrame)
  BY <1>1, FrameTypes, SequencesOfOneOrTwo
<1>4. CASE request.type = "subscribe"
  <2> DEFINE l == [lk[g] EXCEPT !.scoped = (lk[g].phase = "serving")]
             lk2 == [lk EXCEPT ![g] = l]
             frames == <<State("full", done), Reply("acknowledged", request.id)>>
  <2>1. link' = Swept(Answers(lk2, g, frames), client)
    BY <1>1, <1>4 DEF Works
  <2>2. Sound(l) /\ l.shut = lk[g].shut /\ l.phase # "unused"
    BY DEF Sound, UpShape, Link
  <2> HIDE DEF l
  <2>3. Evolved(client, lk, lk2)
    BY <2>2, OneEvolved
  <2>4. frames \in Seq(DownFrame)
    BY <1>1, FrameTypes, SequencesOfOneOrTwo
  <2> HIDE DEF lk2, frames
  <2>5. Evolved(client, lk2, Answers(lk2, g, frames))
    BY <2>3, <2>4, AnswersEvolved DEF Evolved
  <2>6. QED
    BY <1>2, <2>1, <2>3, <2>5, EvolvedTwice, SweptAfter
<1>5. CASE link' = Swept(Answers(lk, g, <<Reply("failed", request.id)>>), client)
  BY <1>2, <1>3, <1>5, AnswersEvolved, SweptAfter
<1>6. CASE link' = Swept(Answers(Told(lk, State("full", done')), g,
                                 <<Reply("acknowledged", request.id)>>), client)
  <2> DEFINE lk2 == Told(lk, State("full", done'))
  <2>1. Evolved(client, lk, lk2)
    <3>1. State("full", done') \in DownFrame
      BY <1>2, FrameTypes
    <3>2. QED
      BY <3>1, ToldEvolved
  <2> DEFINE lk3 == Answers(lk2, g, <<Reply("acknowledged", request.id)>>)
  <2>2. link' = Swept(lk3, client)
    BY <1>6
  <2> HIDE DEF lk2
  <2>3. Evolved(client, lk2, lk3)
    BY <1>3, <2>1, AnswersEvolved DEF Evolved
  <2> HIDE DEF lk3
  <2>4. QED
    BY <1>2, <2>1, <2>2, <2>3, EvolvedTwice, SweptAfter
<1>7. QED
  BY <1>1, <1>4, <1>5, <1>6 DEF Works

LEMMA DispatchesKeeps ==
  ASSUME Inv, NEW g \in Gens, NEW id \in IDs, Finishes(g, id)
  PROVE  Inv'
<1>1. PICK request \in link[g].working : Dispatches(g, request)
  BY DEF Finishes
<1>2. /\ link \in [Gens -> Link] /\ \A h \in Gens : Sound(link[h])
      /\ done \subseteq promised /\ promised \subseteq IDs
      /\ daemon \in Tempers \cup {"down"}
  BY InvTransports
<1>3. request \in Request /\ link[g].phase # "unused"
  BY <1>2 DEF Link, Sound, UpShape, Unused
<1> DEFINE l == [link[g] EXCEPT !.working = @ \ {request}]
           lk == [link EXCEPT ![g] = l]
<1>4. Works(lk, g, request) /\ UNCHANGED <<client, promised, mirror, failing, daemon>>
  BY <1>1 DEF Dispatches
<1>5. Sound(l) /\ l.shut = link[g].shut /\ l.phase # "unused"
  BY <1>2, <1>3 DEF Sound, UpShape, Link
<1> HIDE DEF l
<1>6. Evolved(client, link, lk) /\ lk[g].phase # "unused"
  BY <1>2, <1>3, <1>5, OneEvolved
<1> HIDE DEF lk
<1>7. Evolved(client, lk, link') /\ done' \subseteq promised
  BY <1>2, <1>3, <1>4, <1>6, WorksEvolved DEF Evolved
<1>8. QED
  BY <1>2, <1>4, <1>6, <1>7, EvolvedTwice, EvolutionKeeps

LEMMA EnvironmentKeeps ==
  ASSUME Inv, \/ Relays \/ DaemonDies \/ DaemonStarts
              \/ \E g \in Gens : LinkBreaks(g) \/ Strays(g) \/ SquatterTalks(g)
  PROVE  Inv'
<1>1. /\ link \in [Gens -> Link] /\ \A h \in Gens : Sound(link[h])
      /\ Evolved(client, link, link) /\ done \subseteq promised
      /\ daemon \in Tempers \cup {"down"}
  BY InvTransports
<1>2. CASE Relays
  <2>1. State("partial", {}) \in DownFrame
    BY FrameTypes
  <2>2. QED
    BY <1>1, <1>2, <2>1, ToldEvolved, EvolutionKeeps DEF Relays
<1>3. CASE DaemonDies
  <2> DEFINE lk == [g \in Gens |-> IF link[g].phase = "unused" THEN Unused
                                   ELSE [ClosedEnd(link[g]) EXCEPT !.working = {}]]
  <2>1. ASSUME NEW g \in Gens, link[g].phase # "unused"
        PROVE  /\ Sound(lk[g]) /\ lk[g].shut = link[g].shut
               /\ lk[g].phase # "unused"
    <3> DEFINE l == ClosedEnd(link[g])
    <3>1. Sound(l) /\ l.phase = "closed" /\ l.shut = link[g].shut
      BY <1>1, ClosedEndSound
    <3>2. lk[g] = [l EXCEPT !.working = {}]
      BY <2>1
    <3> HIDE DEF l, lk
    <3>3. [l EXCEPT !.working = {}] \in Link
      BY <3>1 DEF Sound, Link
    <3>4. QED
      BY <3>1, <3>2, <3>3 DEF Sound, UpShape, Link
  <2>2. ASSUME NEW g \in Gens, link[g].phase = "unused"
        PROVE  Sound(lk[g]) /\ lk[g].phase = "unused"
    BY <2>2, UnusedSound
  <2>3. link' = Swept(lk, client)
    BY <1>3 DEF DaemonDies
  <2>4. lk \in [Gens -> Link]
    <3>1. \A g \in Gens : lk[g] \in Link
      BY <2>1, <2>2 DEF Sound
    <3>2. lk = [g \in Gens |-> lk[g]]
      OBVIOUS
    <3> HIDE DEF lk
    <3>3. QED
      BY <3>1, <3>2
  <2> HIDE DEF lk
  <2>5. Evolved(client, link, lk)
    BY <2>1, <2>2, <2>4 DEF Evolved
  <2>6. QED
    BY <1>1, <1>3, <2>3, <2>5, SweptAfter, EvolutionKeeps DEF DaemonDies
<1>4. CASE DaemonStarts
  BY <1>1, <1>4, EvolutionKeeps DEF DaemonStarts
<1>5. ASSUME NEW g \in Gens, LinkBreaks(g)
      PROVE  Inv'
  <2> DEFINE l == [link[g] EXCEPT !.lost = TRUE, !.up = <<>>, !.down = <<>>]
  <2>1. Sound(l) /\ l.shut = link[g].shut /\ l.phase # "unused"
    <3>1. l \in Link
      BY <1>1, EmptySeq DEF Link
    <3>2. QED
      BY <1>1, <1>5, <3>1, EmptySeq DEF LinkBreaks, Sound, UpShape, Link
  <2>2. link' = [link EXCEPT ![g] = l]
    BY <1>5 DEF LinkBreaks
  <2> HIDE DEF l
  <2>3. Evolved(client, link, link')
    <3>1. link[g].phase # "unused"
      BY <1>5 DEF LinkBreaks
    <3>2. QED
      BY <1>1, <2>1, <2>2, <3>1, OneEvolved
  <2>4. QED
    BY <1>1, <1>5, <2>3, EvolutionKeeps DEF LinkBreaks
<1>6. ASSUME NEW g \in Gens, Strays(g) \/ SquatterTalks(g)
      PROVE  Inv'
  <2>1. link[g].phase # "unused" /\ link' = Says(link, g, <<[type |-> "junk"]>>)
    BY <1>6 DEF Strays, SquatterTalks
  <2>2. Evolved(client, link, link')
    BY <1>1, <2>1, SaysEvolved, FrameTypes, SequencesOfOneOrTwo
  <2>3. QED
    BY <1>1, <1>6, <2>2, EvolutionKeeps DEF Strays, SquatterTalks
<1>7. QED
  BY <1>2, <1>3, <1>4, <1>5, <1>6

-----------------------------------------------------------------------------

LEMMA InvInductive == Inv /\ [Next]_vars => Inv'
<1>1. ASSUME Inv, UNCHANGED vars
      PROVE  Inv'
  BY <1>1 DEF vars, Inv, LoopInv, TransportsInv, PromisesInv, MirrorInv
<1>2. ASSUME Inv, Next
      PROVE  Inv'
  BY <1>2, OwnerKeeps, SendFailsKeeps, OpeningKeeps, GreetingKeeps, PumpsKeeps,
     DaemonStepKeeps, DispatchesKeeps, EnvironmentKeeps
     DEF Next, ClientStep, Opening, Environment
<1>3. QED
  BY <1>1, <1>2

LEMMA InvHolds == Spec => []Inv
BY InvInit, InvInductive, PTL DEF Spec

(* For any transports and any requests, every variable keeps its type: among *)
(* them, that what the daemon works on is a request and never a greeting.    *)
THEOREM TypeCorrect == Spec => []TypeOK
BY InvHolds, InvImpliesProperties, PTL

(* A promise that has not settled is one the loop has a transport for: the  *)
(* teardown of connection.ts rejects whatever it cannot be answered.        *)
THEOREM NobodyWaitsForNoReply == Spec => []NothingWaitsWithoutATransport
BY InvHolds, InvImpliesProperties, PTL

(* However transports come and go, a mirror that is not stale was filled    *)
(* over the one that is current.                                            *)
THEOREM MirrorsAreFresh == Spec => []FreshMirrorIsOfTheCurrentTransport
BY InvHolds, InvImpliesProperties, PTL

(* Attempts that are lost, refused, abandoned or superseded leave no        *)
(* transport open behind them.                                              *)
THEOREM AttemptsLeakNothing == Spec => []OneTransportOpen
BY InvHolds, InvImpliesProperties, PTL

(* What RefusalIsFinal says of a step: of a client that was refused, and of *)
(* one that reads a refusal.                                               *)
StaysRefused ==
  client.status = "refused" /\ client.control = "running"
    => client'.current = None /\ client'.status \in {"refused", "idle"}

LEMMA RefusedStep == Inv /\ [Next]_vars => StaysRefused
<1> SUFFICES ASSUME Inv, [Next]_vars, client.status = "refused", client.control = "running"
             PROVE  client'.current = None /\ client'.status \in {"refused", "idle"}
  BY DEF StaysRefused
<1>1. /\ client \in Client /\ client.loop = "ended" /\ client.mine = None
      /\ client.current = None
  BY DEF Inv, LoopInv
<1>2. CASE UNCHANGED client
  BY <1>1, <1>2
<1>3. ASSUME NEW id \in IDs, SendFails(id)
      PROVE  client'.current = None /\ client'.status = "refused"
  BY <1>1, <1>3 DEF SendFails, Client
<1>4. CASE Disconnect
  BY <1>1, <1>4 DEF Disconnect, TearsDown, Dropped, Client
<1>5. ~ClientStep /\ ~Opening /\ ~HandshakeExpires /\ ~Connect /\ ~Requests
  BY <1>1 DEF ClientStep, Opening, Disconnected, OpenFails, OpensTooLate, Opens,
       GreetingFails, Greeted, Refused, GreetedWrongly, Pumps, Loses, RefusedLate,
       LosesOnFrame, Throws, Delays, HandshakeExpires, Connect, Requests
<1>6. ASSUME NEW g \in Gens, DaemonStep(g)
      PROVE  UNCHANGED client
  BY <1>6 DEF DaemonStep, Accepts, Greets, Refuses, Registers, Reads, PeerLeft
<1>7. ASSUME NEW g \in Gens, NEW id \in IDs, Finishes(g, id)
      PROVE  UNCHANGED client
  BY <1>7 DEF Finishes, Dispatches
<1>8. ASSUME NEW g \in Gens, Severs(g) \/ Revokes(g) \/ LinkBreaks(g) \/ Strays(g) \/ SquatterTalks(g)
      PROVE  UNCHANGED client
  BY <1>8 DEF Severs, Revokes, LinkBreaks, Strays, SquatterTalks
<1>9. ASSUME Relays \/ DaemonDies \/ DaemonStarts
      PROVE  UNCHANGED client
  BY <1>9 DEF Relays, DaemonDies, DaemonStarts
<1>10. CASE UNCHANGED vars
  BY <1>2, <1>10 DEF vars
<1>11. CASE Next
  BY <1>2, <1>3, <1>4, <1>5, <1>6, <1>7, <1>8, <1>9, <1>11 DEF Next, Environment
<1>12. QED
  BY <1>10, <1>11

ReadAsRefusal ==
  RefusalIsNext /\ client'.loop # client.loop
    => client'.loop = "ended" /\ client'.status = "refused"

(* With a refusal to be read next, only reading it moves the loop. *)
LEMMA RefusalStep == Inv /\ [Next]_vars => ReadAsRefusal
<1> SUFFICES ASSUME Inv, [Next]_vars, RefusalIsNext, client'.loop # client.loop
             PROVE  client'.loop = "ended" /\ client'.status = "refused"
  BY DEF ReadAsRefusal
<1>1. /\ client \in Client /\ client.loop \in {"greeting", "pumping"}
      /\ client.control # "none" /\ ~EndOfStream(client.mine)
      /\ client.current = client.mine
      /\ Head(link[client.mine].down).type = "refused"
  BY OnATransport DEF RefusalIsNext
<1>2. CASE Refused \/ RefusedLate
  BY <1>1, <1>2 DEF Refused, RefusedLate, Throws, Ends, TearsDown, Dropped, After, Client
<1>3. ASSUME NEW id \in IDs
      PROVE  ~SendFails(id)
  BY <1>1 DEF SendFails, Client
<1>4. ~Disconnect /\ ~Requests
  BY <1>1 DEF Disconnect, TearsDown, Dropped, Requests, Asks, Client
<1>5. /\ ~Disconnected /\ ~Opening /\ ~GreetingFails /\ ~Greeted /\ ~GreetedWrongly
      /\ ~Loses /\ ~LosesOnFrame /\ ~Delays /\ ~HandshakeExpires /\ ~Connect
  BY <1>1 DEF Opening, Disconnected, OpenFails, OpensTooLate, Opens, GreetingFails, Greeted,
       GreetedWrongly, Loses, LosesOnFrame, Throws, Delays, HandshakeExpires, Connect
<1>6. ~Pumps
  BY <1>1 DEF Pumps, Handles, HandlesAny
<1>7. UNCHANGED client \/ Refused \/ RefusedLate
  <2>1. ASSUME NEW g \in Gens, DaemonStep(g)
        PROVE  UNCHANGED client
    BY <2>1 DEF DaemonStep, Accepts, Greets, Refuses, Registers, Reads, PeerLeft
  <2>2. ASSUME NEW g \in Gens, NEW id \in IDs, Finishes(g, id)
        PROVE  UNCHANGED client
    BY <2>2 DEF Finishes, Dispatches
  <2>3. ASSUME NEW g \in Gens,
               Severs(g) \/ Revokes(g) \/ LinkBreaks(g) \/ Strays(g) \/ SquatterTalks(g)
        PROVE  UNCHANGED client
    BY <2>3 DEF Severs, Revokes, LinkBreaks, Strays, SquatterTalks
  <2>4. ASSUME Relays \/ DaemonDies \/ DaemonStarts
        PROVE  UNCHANGED client
    BY <2>4 DEF Relays, DaemonDies, DaemonStarts
  <2>5. CASE UNCHANGED vars
    BY <2>5 DEF vars
  <2>6. CASE Next
    BY <1>3, <1>4, <1>5, <1>6, <2>1, <2>2, <2>3, <2>4, <2>6 DEF Next, ClientStep, Environment
  <2>7. QED
    BY <2>5, <2>6
<1>8. QED
  BY <1>2, <1>7

(* A refusal ends the loop that reads it, in the greeting or later, and no  *)
(* transport is opened then until the owner asks for it.                    *)
THEOREM RefusalsAreFinal == Spec => RefusalIsFinal
<1>1. Inv /\ [Next]_vars => [ReadAsRefusal /\ StaysRefused]_vars
  BY RefusedStep, RefusalStep
<1>2. Spec => [][ReadAsRefusal /\ StaysRefused]_vars
  BY <1>1, InvHolds, PTL DEF Spec
<1>3. QED
  BY <1>2, PTL DEF RefusalIsFinal, StaysRefused, ReadAsRefusal

-----------------------------------------------------------------------------
(* The order of frames.  Which requests a sequence of frames names, in either *)
(* direction, and where the full snapshots are among the acknowledgements.    *)

Numbered(f) == f.type \in {"subscribe", "mutate", "acknowledged", "failed"}
Ids(s) == {s[k].id : k \in {j \in 1..Len(s) : Numbered(s[j])}}
NoTwins(s) ==
  \A k, j \in 1..Len(s) :
    Numbered(s[k]) /\ Numbered(s[j]) /\ s[k].id = s[j].id => k = j

Full(f) == f.type = "full"
HasFull(s) == \E k \in 1..Len(s) : Full(s[k])

(* For a client with the mirror m: an acknowledged change of D comes after a *)
(* snapshot that shows it, or the mirror does, or a snapshot is still owed.  *)
Shown(s, D, m) ==
  \A k \in 1..Len(s) : s[k].type = "acknowledged" /\ s[k].id \in D =>
    /\ (\A j \in 1..k - 1 : ~Full(s[j])) => m.stale \/ s[k].id \in m.shows
    /\ \A j \in 1..k - 1 :
         Full(s[j]) /\ (\A i \in j + 1..k - 1 : ~Full(s[i])) => s[k].id \in s[j].shows

LEMMA NoFrames ==
  ASSUME NEW D, NEW m
  PROVE  Ids(<<>>) = {} /\ NoTwins(<<>>) /\ ~HasFull(<<>>) /\ Shown(<<>>, D, m)
BY DEF Ids, NoTwins, HasFull, Shown

LEMMA OneMore ==
  ASSUME NEW S, NEW s \in Seq(S), NEW f \in S
  PROVE  /\ s \o <<f>> \in Seq(S)
         /\ Len(s \o <<f>>) = Len(s) + 1
         /\ \A k \in 1..Len(s) : (s \o <<f>>)[k] = s[k]
         /\ (s \o <<f>>)[Len(s) + 1] = f
         /\ Len(s) \in Nat
BY SequencesOfOneOrTwo, ConcatProperties, LenProperties

LEMMA IdsOfOneMore ==
  ASSUME NEW S, NEW s \in Seq(S), NEW f \in S
  PROVE  /\ Numbered(f) => Ids(s \o <<f>>) = Ids(s) \cup {f.id}
         /\ ~Numbered(f) => Ids(s \o <<f>>) = Ids(s)
         /\ NoTwins(s) /\ (Numbered(f) => f.id \notin Ids(s)) => NoTwins(s \o <<f>>)
         /\ HasFull(s \o <<f>>) <=> HasFull(s) \/ Full(f)
<1> DEFINE t == s \o <<f>>
           n == Len(s)
<1>1. /\ t \in Seq(S) /\ Len(t) = n + 1 /\ t[n + 1] = f /\ n \in Nat
      /\ \A k \in 1..n : t[k] = s[k]
  BY OneMore
<1> HIDE DEF t, n
<1>2. \A k \in 1..n + 1 : k \in 1..n \/ k = n + 1
  BY <1>1
<1>3. 1..n \subseteq 1..n + 1 /\ n + 1 \in 1..n + 1
  BY <1>1
<1>4. ASSUME NEW x \in Ids(t)
      PROVE  x \in Ids(s) \/ (Numbered(f) /\ x = f.id)
  BY <1>1, <1>2, <1>4 DEF Ids, n
<1>5. Ids(s) \subseteq Ids(t) /\ (Numbered(f) => f.id \in Ids(t))
  BY <1>1, <1>3 DEF Ids, n
<1>6. ASSUME NoTwins(s), Numbered(f) => f.id \notin Ids(s)
      PROVE  NoTwins(t)
  <2> SUFFICES ASSUME NEW k \in 1..n + 1, NEW j \in 1..n + 1,
                      Numbered(t[k]), Numbered(t[j]), t[k].id = t[j].id
               PROVE  k = j
    BY <1>1 DEF NoTwins
  <2>1. \A i \in 1..n : Numbered(s[i]) => s[i].id \in Ids(s)
    BY DEF Ids, n
  <2>2. CASE k \in 1..n /\ j \in 1..n
    BY <1>1, <1>6, <2>2 DEF NoTwins, n
  <2>3. CASE k = n + 1 /\ j \in 1..n
    BY <1>1, <1>6, <2>1, <2>3
  <2>4. CASE k \in 1..n /\ j = n + 1
    BY <1>1, <1>6, <2>1, <2>4
  <2>5. QED
    BY <1>2, <2>2, <2>3, <2>4
<1>7. HasFull(t) <=> HasFull(s) \/ Full(f)
  BY <1>1, <1>2, <1>3 DEF HasFull, n
<1>8. QED
  BY <1>4, <1>5, <1>6, <1>7 DEF t

LEMMA IdsOfTail ==
  ASSUME NEW S, NEW s \in Seq(S), s # <<>>
  PROVE  /\ Numbered(Head(s)) => Ids(s) = Ids(Tail(s)) \cup {Head(s).id}
         /\ ~Numbered(Head(s)) => Ids(s) = Ids(Tail(s))
         /\ NoTwins(s) => NoTwins(Tail(s))
         /\ NoTwins(s) /\ Numbered(Head(s)) => Head(s).id \notin Ids(Tail(s))
         /\ HasFull(s) <=> HasFull(Tail(s)) \/ Full(Head(s))
<1> DEFINE t == Tail(s)
           n == Len(t)
<1>1. /\ t \in Seq(S) /\ n \in Nat /\ Len(s) = n + 1 /\ s[1] = Head(s)
      /\ \A k \in 1..n : t[k] = s[k + 1]
  BY HeadTailProperties, LenProperties
<1> HIDE DEF t, n
<1>2. \A k \in 1..n + 1 : k = 1 \/ (k - 1 \in 1..n /\ s[k] = t[k - 1])
  <2> SUFFICES ASSUME NEW k \in 1..n + 1, k # 1
               PROVE  k - 1 \in 1..n /\ s[k] = t[k - 1]
    OBVIOUS
  <2>1. k - 1 \in 1..n /\ (k - 1) + 1 = k
    BY <1>1
  <2>2. QED
    BY <1>1, <2>1
<1>3. 1 \in 1..n + 1 /\ \A k \in 1..n : k + 1 \in 1..n + 1
  BY <1>1
<1>4. ASSUME NEW x \in Ids(s)
      PROVE  x \in Ids(t) \/ (Numbered(Head(s)) /\ x = Head(s).id)
  BY <1>1, <1>2, <1>4 DEF Ids, n
<1>5. Ids(t) \subseteq Ids(s) /\ (Numbered(Head(s)) => Head(s).id \in Ids(s))
  BY <1>1, <1>3 DEF Ids, n
<1>6. ASSUME NoTwins(s)
      PROVE  NoTwins(t)
  <2> SUFFICES ASSUME NEW k \in 1..n, NEW j \in 1..n,
                      Numbered(t[k]), Numbered(t[j]), t[k].id = t[j].id
               PROVE  k = j
    BY DEF NoTwins, n
  <2>1. k + 1 = j + 1
    BY <1>1, <1>3, <1>6 DEF NoTwins
  <2>2. QED
    BY <1>1, <2>1
<1>7. ASSUME NoTwins(s), Numbered(Head(s)), Head(s).id \in Ids(t)
      PROVE  FALSE
  <2>1. PICK k \in 1..n : Numbered(t[k]) /\ t[k].id = Head(s).id
    BY <1>7 DEF Ids, n
  <2>2. k + 1 = 1
    BY <1>1, <1>3, <1>7, <2>1 DEF NoTwins
  <2>3. QED
    BY <1>1, <2>2
<1>8. HasFull(s) <=> HasFull(t) \/ Full(Head(s))
  BY <1>1, <1>2, <1>3 DEF HasFull, n
<1>9. QED
  BY <1>4, <1>5, <1>6, <1>7, <1>8 DEF t

(* Reading the first frame: a snapshot makes the mirror show what it shows,  *)
(* and any other frame leaves it at least what it showed.                    *)
LEMMA ShownTail ==
  ASSUME NEW S, NEW s \in Seq(S), s # <<>>, NEW D, NEW m, NEW D2, NEW m2,
         Shown(s, D, m), D2 \subseteq D,
         Full(Head(s)) => \A x \in D2 \cap Head(s).shows : x \in m2.shows,
         ~Full(Head(s)) => \A x \in D2 : m.stale \/ x \in m.shows => m2.stale \/ x \in m2.shows
  PROVE  Shown(Tail(s), D2, m2)
<1> DEFINE t == Tail(s)
           n == Len(t)
<1>1. /\ n \in Nat /\ Len(s) = n + 1 /\ s[1] = Head(s)
      /\ \A k \in 1..n : t[k] = s[k + 1]
  BY HeadTailProperties, LenProperties
<1> HIDE DEF t, n
<1> SUFFICES ASSUME NEW k \in 1..n, t[k].type = "acknowledged", t[k].id \in D2
             PROVE  /\ (\A j \in 1..k - 1 : ~Full(t[j])) => m2.stale \/ t[k].id \in m2.shows
                    /\ \A j \in 1..k - 1 :
                         Full(t[j]) /\ (\A i \in j + 1..k - 1 : ~Full(t[i]))
                           => t[k].id \in t[j].shows
  BY DEF Shown, t, n
<1>2. k + 1 \in 1..n + 1 /\ s[k + 1] = t[k] /\ t[k].id \in D
  BY <1>1
<1>3. /\ (\A j \in 1..(k + 1) - 1 : ~Full(s[j])) => m.stale \/ t[k].id \in m.shows
      /\ \A j \in 1..(k + 1) - 1 :
           Full(s[j]) /\ (\A i \in j + 1..(k + 1) - 1 : ~Full(s[i])) => t[k].id \in s[j].shows
  BY <1>1, <1>2 DEF Shown
<1>4. (k + 1) - 1 = k /\ k \in Nat
  BY <1>1
<1>5. \A j \in 2..k : j - 1 \in 1..k - 1 /\ j - 1 \in 1..n /\ (j - 1) + 1 = j
  BY <1>1
<1>6. \A j \in 2..k : s[j] = t[j - 1]
  BY <1>1, <1>5
<1>7. ASSUME \A j \in 1..k - 1 : ~Full(t[j])
      PROVE  m2.stale \/ t[k].id \in m2.shows
  <2>1. \A j \in 2..k : ~Full(s[j])
    BY <1>5, <1>6, <1>7
  <2>2. CASE Full(Head(s))
    <3>1. 1 \in 1..k /\ 1 + 1..k = 2..k
      BY <1>1
    <3>2. t[k].id \in Head(s).shows
      BY <1>1, <1>3, <1>4, <2>1, <2>2, <3>1
    <3>3. QED
      BY <2>2, <3>2
  <2>3. CASE ~Full(Head(s))
    <3>1. \A j \in 1..k : j = 1 \/ j \in 2..k
      BY <1>1
    <3>2. \A j \in 1..k : ~Full(s[j])
      BY <1>1, <2>1, <2>3, <3>1
    <3>3. QED
      BY <1>3, <1>4, <2>3, <3>2
  <2>4. QED
    BY <2>2, <2>3
<1>8. ASSUME NEW j \in 1..k - 1, Full(t[j]), \A i \in j + 1..k - 1 : ~Full(t[i])
      PROVE  t[k].id \in t[j].shows
  <2>1. j + 1 \in 1..k /\ s[j + 1] = t[j]
    BY <1>1
  <2>2. \A i \in (j + 1) + 1..k : i \in 2..k /\ i - 1 \in j + 1..k - 1
    BY <1>1
  <2>3. \A i \in (j + 1) + 1..k : ~Full(s[i])
    BY <1>6, <1>8, <2>2
  <2>4. QED
    BY <1>3, <1>4, <1>8, <2>1, <2>3
<1>9. QED
  BY <1>7, <1>8

(* One frame more: an acknowledgement of D comes to a mirror that is stale   *)
(* and has no snapshot on its way, or right behind a snapshot that shows it. *)
LEMMA ShownOneMore ==
  ASSUME NEW S, NEW s \in Seq(S), NEW f \in S, NEW D, NEW m, Shown(s, D, m),
         f.type = "acknowledged" /\ f.id \in D =>
           \/ ~HasFull(s) /\ m.stale
           \/ s # <<>> /\ Full(s[Len(s)]) /\ f.id \in s[Len(s)].shows
  PROVE  Shown(s \o <<f>>, D, m)
<1> DEFINE t == s \o <<f>>
           n == Len(s)
<1>1. /\ Len(t) = n + 1 /\ t[n + 1] = f /\ n \in Nat
      /\ \A k \in 1..n : t[k] = s[k]
  BY OneMore
<1>2. s # <<>> => n \in 1..n
  BY <1>1, EmptySeq
<1> HIDE DEF t, n
<1> SUFFICES ASSUME NEW k \in 1..n + 1, t[k].type = "acknowledged", t[k].id \in D
             PROVE  /\ (\A j \in 1..k - 1 : ~Full(t[j])) => m.stale \/ t[k].id \in m.shows
                    /\ \A j \in 1..k - 1 :
                         Full(t[j]) /\ (\A i \in j + 1..k - 1 : ~Full(t[i]))
                           => t[k].id \in t[j].shows
  BY <1>1 DEF Shown, t
<1>3. CASE k \in 1..n
  <2>1. /\ \A j \in 1..k - 1 : j \in 1..n /\ t[j] = s[j]
        /\ \A j \in 1..k - 1 : \A i \in j + 1..k - 1 : i \in 1..n /\ t[i] = s[i]
    BY <1>1, <1>3
  <2>2. t[k] = s[k]
    BY <1>1, <1>3
  <2>3. /\ (\A j \in 1..k - 1 : ~Full(s[j])) => m.stale \/ s[k].id \in m.shows
        /\ \A j \in 1..k - 1 :
             Full(s[j]) /\ (\A i \in j + 1..k - 1 : ~Full(s[i])) => s[k].id \in s[j].shows
    BY <1>3, <2>2 DEF Shown, n
  <2>4. QED
    BY <2>1, <2>2, <2>3
<1>4. CASE k = n + 1
  <2>1. t[k] = f /\ k - 1 = n
    BY <1>1, <1>4
  <2>2. CASE ~HasFull(s) /\ m.stale
    BY <1>1, <2>1, <2>2 DEF HasFull, n
  <2>3. CASE s # <<>> /\ Full(s[n]) /\ f.id \in s[n].shows
    <3>1. n \in 1..n /\ Full(t[n]) /\ t[n] = s[n]
      BY <1>1, <1>2, <2>3
    <3>2. \A j \in 1..n : j = n \/ n \in j + 1..n
      BY <1>1
    <3>3. QED
      BY <2>1, <2>3, <3>1, <3>2
  <2>4. QED
    BY <2>1, <2>2, <2>3 DEF n
<1>5. QED
  BY <1>1, <1>3, <1>4

(* A change that has no acknowledgement on its way may be held or forgotten. *)
LEMMA ShownOfOthers ==
  ASSUME NEW s, NEW D, NEW m, NEW D2, NEW m2, Shown(s, D, m), m2.stale = m.stale,
         \A x \in D2 \cap Ids(s) : x \in D /\ (x \in m.shows => x \in m2.shows)
  PROVE  Shown(s, D2, m2)
<1> SUFFICES ASSUME NEW k \in 1..Len(s), s[k].type = "acknowledged", s[k].id \in D2
             PROVE  /\ s[k].id \in D
                    /\ s[k].id \in m.shows => s[k].id \in m2.shows
  BY DEF Shown
<1>1. s[k].id \in Ids(s)
  BY DEF Ids, Numbered
<1>2. QED
  BY <1>1

-----------------------------------------------------------------------------
(***************************************************************************)
(* The second layer.  Every request the transport carries, and every reply *)
(* on its way back, is of a promise that waits for it, and no two are of   *)
(* the same; a snapshot is on its way, or the mirror fresh, only when the  *)
(* daemon also sends what comes after it.                                  *)
(***************************************************************************)

Working(l) == {r.id : r \in l.working}
Asking(l) == Ids(l.up) \cup Working(l)

Once(l, P) ==
  /\ Asking(l) \cup Ids(l.down) \subseteq P
  /\ NoTwins(l.up) /\ NoTwins(l.down)
  /\ \A r, q \in l.working : r.id = q.id => r = q
  /\ Ids(l.up) \cap Working(l) = {}
  /\ Asking(l) \cap Ids(l.down) = {}

Lively(l) == l.scoped \/ l.phase = "closed"

Scope(l) ==
  /\ l.scoped => l.phase = "serving"
  /\ HasFull(l.down) => Lively(l)

(* The transport l of a client that promised P, and a mirror m, when the    *)
(* daemon's state holds the changes D.                                      *)
Orderly(l, P, D, m) ==
  /\ Once(l, P)
  /\ Shown(l.down, D, m)
  /\ ~m.stale => Lively(l)

Ordered ==
  /\ \A g \in Gens : Scope(link[g])
  /\ \A g \in Gens : g # client.current => Asking(link[g]) \cap promised = {}
  /\ client.current # None =>
       Orderly(link[client.current], promised \ failing, done, mirror)

(* A step that leaves l2 of l, and the promises and the mirror alone. *)
Kept(l, l2, P, D, m) ==
  /\ Scope(l) => Scope(l2)
  /\ Asking(l2) \subseteq Asking(l)
  /\ Scope(l) /\ Orderly(l, P, D, m) => Orderly(l2, P, D, m)

LEMMA KeptTwice ==
  ASSUME NEW l, NEW l2, NEW l3, NEW P, NEW D, NEW m,
         Kept(l, l2, P, D, m), Kept(l2, l3, P, D, m)
  PROVE  Kept(l, l3, P, D, m)
BY DEF Kept

LEMMA KeptSame ==
  ASSUME NEW l, NEW P, NEW D, NEW m
  PROVE  Kept(l, l, P, D, m)
BY DEF Kept

(* The transport's ends move on, and nothing is added to what it carries. *)
LEMMA LessToDo ==
  ASSUME NEW l \in Link, NEW l2, NEW P, NEW D, NEW m,
         l2.down \in {l.down, <<>>},
         l2.up \in {l.up, <<>>} \/ (l.up # <<>> /\ l2.up = Tail(l.up)),
         l2.working \subseteq l.working,
         l2.scoped => l.scoped /\ l2.phase = "serving",
         Lively(l) => Lively(l2)
  PROVE  Kept(l, l2, P, D, m)
<1>1. /\ Ids(l2.up) \subseteq Ids(l.up) /\ (NoTwins(l.up) => NoTwins(l2.up))
  <2>1. l.up \in Seq(UpFrame)
    BY DEF Link
  <2>2. CASE l.up # <<>> /\ l2.up = Tail(l.up)
    <3>1. /\ Numbered(Head(l.up)) => Ids(l.up) = Ids(Tail(l.up)) \cup {Head(l.up).id}
          /\ ~Numbered(Head(l.up)) => Ids(l.up) = Ids(Tail(l.up))
          /\ NoTwins(l.up) => NoTwins(Tail(l.up))
      BY <2>1, <2>2, IdsOfTail
    <3>2. QED
      BY <2>2, <3>1
  <2>3. CASE l2.up \in {l.up, <<>>}
    BY <2>3, NoFrames
  <2>4. QED
    BY <2>2, <2>3
<1>2. /\ Ids(l2.down) \subseteq Ids(l.down) /\ (NoTwins(l.down) => NoTwins(l2.down))
      /\ HasFull(l2.down) => HasFull(l.down)
      /\ Shown(l.down, D, m) => Shown(l2.down, D, m)
  BY NoFrames
<1>3. Working(l2) \subseteq Working(l)
  BY DEF Working
<1>4. Scope(l) => Scope(l2)
  BY <1>2 DEF Scope
<1>5. Asking(l2) \subseteq Asking(l)
  BY <1>1, <1>3 DEF Asking
<1>6. Once(l, P) => Once(l2, P)
  BY <1>1, <1>2, <1>3, <1>5 DEF Once
<1>7. QED
  BY <1>2, <1>4, <1>5, <1>6 DEF Kept, Orderly

(* The daemon says what is neither a reply nor a snapshot. *)
LEMMA HearsPlain ==
  ASSUME NEW l \in Link, NEW P, NEW D, NEW m, NEW f \in DownFrame,
         ~Numbered(f), ~Full(f), NEW l2,
         l2.down = l.down \o <<f>>, l2.up = l.up, l2.working = l.working,
         l2.scoped = l.scoped, l2.phase = l.phase
  PROVE  Kept(l, l2, P, D, m)
<1>1. l.down \in Seq(DownFrame)
  BY DEF Link
<1>2. /\ Ids(l2.down) = Ids(l.down) /\ (NoTwins(l.down) => NoTwins(l2.down))
      /\ HasFull(l2.down) <=> HasFull(l.down)
  BY <1>1, IdsOfOneMore
<1>3. Shown(l.down, D, m) => Shown(l2.down, D, m)
  <2>1. f.type # "acknowledged"
    BY DEF Numbered
  <2>2. QED
    BY <1>1, <2>1, ShownOneMore
<1>4. Working(l2) = Working(l) /\ Asking(l2) = Asking(l) /\ (Lively(l2) <=> Lively(l))
  BY DEF Working, Asking, Lively
<1>5. QED
  BY <1>2, <1>3, <1>4 DEF Kept, Scope, Orderly, Once

(* The daemon sends a snapshot of D to a connection that has asked for the  *)
(* state.                                                                   *)
LEMMA HearsFull ==
  ASSUME NEW l \in Link, NEW P, NEW D, NEW m, NEW f \in DownFrame, Full(f), l.scoped,
         NEW l2,
         l2.down = l.down \o <<f>>, l2.up = l.up, l2.working = l.working,
         l2.scoped = l.scoped, l2.phase = l.phase
  PROVE  Kept(l, l2, P, D, m)
<1>1. l.down \in Seq(DownFrame)
  BY DEF Link
<1>2. ~Numbered(f) /\ f.type # "acknowledged"
  BY DEF Numbered, Full
<1>3. /\ Ids(l2.down) = Ids(l.down) /\ (NoTwins(l.down) => NoTwins(l2.down))
  BY <1>1, <1>2, IdsOfOneMore
<1>4. Shown(l.down, D, m) => Shown(l2.down, D, m)
  BY <1>1, <1>2, ShownOneMore
<1>5. Working(l2) = Working(l) /\ Asking(l2) = Asking(l) /\ (Lively(l2) <=> Lively(l))
      /\ Lively(l)
  BY DEF Working, Asking, Lively
<1>6. QED
  BY <1>3, <1>4, <1>5 DEF Kept, Scope, Orderly, Once

(* The next request is taken from the wire and worked on. *)
LEMMA TakesUp ==
  ASSUME NEW l \in Link, NEW P, NEW D, NEW m, NEW l2, l.up # <<>>, Head(l.up) \in Request,
         l2.up = Tail(l.up), l2.working = l.working \cup {Head(l.up)},
         l2.down = l.down, l2.scoped = l.scoped, l2.phase = l.phase
  PROVE  Kept(l, l2, P, D, m)
<1> DEFINE r == Head(l.up)
<1>1. l.up \in Seq(UpFrame)
  BY DEF Link
<1>2. Numbered(r)
  BY DEF Numbered, Request
<1>3. /\ Ids(l.up) = Ids(l2.up) \cup {r.id}
      /\ NoTwins(l.up) => NoTwins(l2.up) /\ r.id \notin Ids(l2.up)
  <2>1. /\ Numbered(r) => Ids(l.up) = Ids(Tail(l.up)) \cup {r.id}
        /\ NoTwins(l.up) => NoTwins(Tail(l.up))
        /\ NoTwins(l.up) /\ Numbered(r) => r.id \notin Ids(Tail(l.up))
    BY <1>1, IdsOfTail
  <2>2. QED
    BY <1>2, <2>1
<1>4. Working(l2) = Working(l) \cup {r.id}
  BY DEF Working
<1>5. Asking(l2) = Asking(l)
  BY <1>3, <1>4 DEF Asking
<1>6. Scope(l) => Scope(l2)
  BY DEF Scope, Lively
<1>7. ASSUME Once(l, P)
      PROVE  Once(l2, P)
  <2>1. ASSUME NEW p \in l2.working, NEW q \in l2.working, p.id = q.id
        PROVE  p = q
    <3>1. \A w \in l.working : w.id # r.id
      BY <1>3, <1>7 DEF Once, Working
    <3>2. QED
      BY <1>7, <2>1, <3>1 DEF Once
  <2>2. Ids(l2.up) \cap Working(l2) = {}
    BY <1>3, <1>4, <1>7 DEF Once
  <2>3. QED
    BY <1>3, <1>5, <1>7, <2>1, <2>2 DEF Once
<1>8. Orderly(l, P, D, m) => Orderly(l2, P, D, m)
  BY <1>7 DEF Orderly, Lively
<1>9. QED
  BY <1>5, <1>6, <1>8 DEF Kept

(* The same for all transports; what the loop has left need not be orderly. *)
AllKept(lk, lk2, P, D, m) ==
  \A g \in Gens :
    /\ Scope(lk[g]) => Scope(lk2[g])
    /\ Asking(lk2[g]) \subseteq Asking(lk[g])
    /\ g = client.mine /\ Scope(lk[g]) /\ Orderly(lk[g], P, D, m) => Orderly(lk2[g], P, D, m)

LEMMA AllKeptTwice ==
  ASSUME NEW lk, NEW lk2, NEW lk3, NEW P, NEW D, NEW m,
         AllKept(lk, lk2, P, D, m), AllKept(lk2, lk3, P, D, m)
  PROVE  AllKept(lk, lk3, P, D, m)
BY DEF AllKept

LEMMA OneKept ==
  ASSUME NEW lk \in [Gens -> Link], NEW g \in Gens, NEW l, NEW P, NEW D, NEW m,
         Kept(lk[g], l, P, D, m)
  PROVE  AllKept(lk, [lk EXCEPT ![g] = l], P, D, m)
<1>1. ASSUME NEW h \in Gens
      PROVE  Kept(lk[h], [lk EXCEPT ![g] = l][h], P, D, m)
  BY KeptSame
<1>2. QED
  BY <1>1 DEF AllKept, Kept

LEMMA UnusedOrder == Scope(Unused) /\ Asking(Unused) = {}
BY NoFrames DEF Unused, Scope, Asking, Working

LEMMA SweptKept ==
  ASSUME NEW lk \in [Gens -> Link], NEW P, NEW D, NEW m
  PROVE  AllKept(lk, Swept(lk, client), P, D, m)
<1> SUFFICES ASSUME NEW g \in Gens
             PROVE  LET l == lk[g]
                        l2 == Swept(lk, client)[g]
                    IN  /\ Scope(l) => Scope(l2)
                        /\ Asking(l2) \subseteq Asking(l)
                        /\ g = client.mine => l2 = l
  BY DEF AllKept
<1> DEFINE l == lk[g]
           l2 == Swept(lk, client)[g]
           quiet == [l EXCEPT !.down = <<>>]
<1>1. \/ l2 = Unused /\ g # client.mine
      \/ l2 = quiet /\ g # client.mine
      \/ l2 = l /\ g = client.mine
  BY DEF Swept
<1>2. CASE l2 = quiet
  <2>1. Kept(l, quiet, P, D, m)
    <3>1. /\ quiet.down = <<>> /\ quiet.up = l.up /\ quiet.working = l.working
          /\ quiet.scoped = l.scoped /\ quiet.phase = l.phase
      BY DEF Link
    <3> HIDE DEF quiet
    <3>2. Scope(l) => Scope(quiet)
      BY <3>1, NoFrames DEF Scope
    <3>3. Ids(quiet.down) = {} /\ NoTwins(quiet.down) /\ Shown(quiet.down, D, m)
      BY <3>1, NoFrames
    <3>4. Asking(quiet) = Asking(l) /\ Working(quiet) = Working(l) /\ (Lively(quiet) <=> Lively(l))
      BY <3>1 DEF Asking, Working, Lively
    <3>5. Orderly(l, P, D, m) => Orderly(quiet, P, D, m)
      BY <3>1, <3>3, <3>4 DEF Orderly, Once
    <3>6. QED
      BY <3>2, <3>4, <3>5 DEF Kept
  <2> HIDE DEF l, l2, quiet
  <2>2. QED
    BY <1>1, <1>2, <2>1 DEF Kept, l, l2
<1> HIDE DEF l2, quiet
<1>3. QED
  BY <1>1, <1>2, UnusedOrder DEF l2

(* What a transport that is open to the daemon hears. *)
Open(l) == l.phase = "serving" /\ ~l.lost /\ ~l.shut
Heard(l, frames) == IF Open(l) THEN [l EXCEPT !.down = l.down \o frames] ELSE l

LEMMA HeardFields ==
  ASSUME NEW l \in Link, NEW frames \in Seq(DownFrame)
  PROVE  /\ Heard(l, frames) \in Link
         /\ Heard(l, frames).up = l.up /\ Heard(l, frames).working = l.working
         /\ Heard(l, frames).scoped = l.scoped /\ Heard(l, frames).phase = l.phase
         /\ Open(Heard(l, frames)) <=> Open(l)
         /\ Open(l) => Heard(l, frames).down = l.down \o frames
         /\ ~Open(l) => Heard(l, frames) = l
<1>1. l.down \in Seq(DownFrame)
  BY DEF Link
<1>2. l.down \o frames \in Seq(DownFrame)
  BY <1>1, ConcatProperties
<1>3. [l EXCEPT !.down = l.down \o frames] \in Link
  BY <1>2 DEF Link
<1>4. QED
  BY <1>3 DEF Heard, Open, Link

LEMMA AnswersAt ==
  ASSUME NEW lk \in [Gens -> Link], NEW g \in Gens, NEW frames
  PROVE  /\ Answers(lk, g, frames)[g] = Heard(lk[g], frames)
         /\ \A h \in Gens : h # g => Answers(lk, g, frames)[h] = lk[h]
BY DEF Answers, Says, Heard, Open

LEMMA ToldAt ==
  ASSUME NEW lk \in [Gens -> Link], NEW f
  PROVE  \A h \in Gens :
           Told(lk, f)[h] = IF lk[h].scoped THEN Heard(lk[h], <<f>>) ELSE lk[h]
BY AnswersAt DEF Told

LEMMA SaysAt ==
  ASSUME NEW lk \in [Gens -> Link], NEW g \in Gens, NEW frames
  PROVE  \/ Says(lk, g, frames) = lk
         \/ Says(lk, g, frames) = [lk EXCEPT ![g] = [lk[g] EXCEPT !.down = lk[g].down \o frames]]
BY DEF Says

LEMMA SaysKept ==
  ASSUME NEW lk \in [Gens -> Link], NEW g \in Gens, NEW f \in DownFrame,
         ~Numbered(f), ~Full(f), NEW P, NEW D, NEW m
  PROVE  /\ AllKept(lk, Says(lk, g, <<f>>), P, D, m)
         /\ Says(lk, g, <<f>>) \in [Gens -> Link]
         /\ Says(lk, g, <<f>>)[g].phase = lk[g].phase
         /\ Says(lk, g, <<f>>)[g].scoped = lk[g].scoped
<1> DEFINE l == [lk[g] EXCEPT !.down = lk[g].down \o <<f>>]
           said == Says(lk, g, <<f>>)
<1>1. said = lk \/ said = [lk EXCEPT ![g] = l]
  BY SaysAt, ZenonT(40)
<1>2. /\ l.down = lk[g].down \o <<f>> /\ l.up = lk[g].up /\ l.working = lk[g].working
      /\ l.scoped = lk[g].scoped /\ l.phase = lk[g].phase /\ l \in Link
  <2>1. lk[g].down \in Seq(DownFrame) /\ lk[g] \in Link
    BY DEF Link
  <2>2. lk[g].down \o <<f>> \in Seq(DownFrame)
    BY <2>1, OneMore
  <2>3. QED
    BY <2>1, <2>2 DEF Link
<1> HIDE DEF l, said
<1>3. Kept(lk[g], l, P, D, m)
  BY <1>2, HearsPlain
<1>4. AllKept(lk, [lk EXCEPT ![g] = l], P, D, m)
  BY <1>3, OneKept
<1>5. AllKept(lk, lk, P, D, m)
  BY DEF AllKept
<1>6. QED
  BY <1>1, <1>2, <1>4, <1>5 DEF said

LEMMA ClosesKept ==
  ASSUME NEW lk \in [Gens -> Link], NEW g \in Gens, NEW P, NEW D, NEW m
  PROVE  AllKept(lk, Closes(lk, g), P, D, m)
<1> DEFINE l == ClosedEnd(lk[g])
           lk2 == [lk EXCEPT ![g] = l]
<1>1. /\ l \in Link /\ l.phase = "closed" /\ ~l.scoped /\ l.up = <<>>
      /\ l.down = lk[g].down /\ l.working = lk[g].working
  BY EmptySeq DEF ClosedEnd, Link
<1> HIDE DEF l
<1>2. Kept(lk[g], l, P, D, m)
  BY <1>1, LessToDo DEF Lively
<1>3. AllKept(lk, lk2, P, D, m)
  BY <1>2, OneKept
<1>4. lk2 \in [Gens -> Link]
  BY <1>1
<1>5. Closes(lk, g) = Swept(lk2, client)
  BY DEF Closes, l
<1> HIDE DEF lk2
<1>6. QED
  BY <1>3, <1>4, <1>5, SweptKept, AllKeptTwice

LEMMA KeptOrdered ==
  ASSUME Inv, Ordered, AllKept(link, link', promised \ failing, done, mirror),
         UNCHANGED <<client, promised, mirror, failing, done>>
  PROVE  Ordered'
<1>1. client.current # None => client.current = client.mine /\ client.current \in Gens
  BY DEF Inv, LoopInv, Client
<1>2. \A g \in Gens : Scope(link'[g]) /\ Asking(link'[g]) \subseteq Asking(link[g])
  BY DEF Ordered, AllKept
<1>3. client.current # None =>
        Orderly(link'[client.current], promised \ failing, done, mirror)
  BY <1>1 DEF Ordered, AllKept
<1>4. QED
  BY <1>2, <1>3 DEF Ordered

LEMMA DaemonStepOrdered ==
  ASSUME Inv, Ordered, NEW g \in Gens, DaemonStep(g) \/ Severs(g) \/ Revokes(g)
  PROVE  Ordered'
<1> DEFINE P == promised \ failing
<1>1. link \in [Gens -> Link] /\ \A h \in Gens : Sound(link[h]) /\ link[h] \in Link
  BY InvTransports DEF Sound
<1>2. SUFFICES ASSUME UNCHANGED <<client, promised, mirror, failing, done>>
               PROVE  AllKept(link, link', P, done, mirror)
  BY KeptOrdered DEF DaemonStep, Severs, Revokes, Accepts, Greets, Refuses, Registers, Reads, PeerLeft
<1> HIDE DEF P
<1>3. Scope(link[g])
  BY DEF Ordered
<1>4. ASSUME link' = Closes(Says(link, g, <<[type |-> "refused"]>>), g)
      PROVE  AllKept(link, link', P, done, mirror)
  <2> DEFINE f == [type |-> "refused"]
             lk == Says(link, g, <<f>>)
  <2>1. f \in DownFrame /\ ~Numbered(f) /\ ~Full(f)
    BY FrameTypes DEF Numbered, Full
  <2> HIDE DEF f
  <2>2. AllKept(link, lk, P, done, mirror) /\ lk \in [Gens -> Link]
    BY <1>1, <2>1, SaysKept
  <2>3. link' = Closes(lk, g)
    BY <1>4 DEF f
  <2> HIDE DEF lk
  <2>4. QED
    BY <2>2, <2>3, ClosesKept, AllKeptTwice
<1>5. CASE Accepts(g)
  <2>1. CASE link' = [link EXCEPT ![g].phase = "handshake"]
    <3> DEFINE l == [link[g] EXCEPT !.phase = "handshake"]
    <3>1. /\ l.down = link[g].down /\ l.up = link[g].up /\ l.working = link[g].working
          /\ l.scoped = link[g].scoped /\ l.phase = "handshake"
      BY <1>1 DEF Link
    <3>2. ~link[g].scoped /\ ~Lively(link[g])
      BY <1>1, <1>3, <1>5 DEF Accepts, Scope, Lively
    <3>3. link' = [link EXCEPT ![g] = l]
      BY <2>1
    <3> HIDE DEF l
    <3>4. Kept(link[g], l, P, done, mirror)
      BY <1>1, <3>1, <3>2, LessToDo
    <3>5. QED
      BY <1>1, <3>3, <3>4, OneKept
  <2>2. QED
    BY <1>4, <1>5, <2>1 DEF Accepts
<1>6. CASE Greets(g)
  <2> DEFINE l == [link[g] EXCEPT !.phase = "greeted", !.up = Tail(@)]
             lk == [link EXCEPT ![g] = l]
  <2>1. /\ l.down = link[g].down /\ l.up = Tail(link[g].up) /\ l.working = link[g].working
        /\ l.scoped = link[g].scoped /\ l.phase = "greeted" /\ l \in Link
    <3>1. Tail(link[g].up) \in Seq(UpFrame)
      <4>1. Tail(link[g].up) \in Seq(Request)
        BY <1>1, <1>6 DEF Greets, Sound, UpShape
      <4>2. QED
        BY <4>1, RequestsAreFrames
    <3>2. QED
      BY <1>1, <3>1 DEF Link
  <2>2. ~link[g].scoped /\ ~Lively(link[g]) /\ link[g].up # <<>>
    BY <1>1, <1>3, <1>6 DEF Greets, Scope, Lively
  <2>3. PICK f \in DownFrame : ~Numbered(f) /\ ~Full(f) /\ link' = Says(lk, g, <<f>>)
    <3>1. link' = Says(lk, g, <<[type |-> IF daemon = "same" THEN "hello" ELSE "foreignHello"]>>)
      BY <1>6 DEF Greets
    <3>2. /\ ~Numbered([type |-> "hello"]) /\ ~Full([type |-> "hello"])
          /\ ~Numbered([type |-> "foreignHello"]) /\ ~Full([type |-> "foreignHello"])
      BY DEF Numbered, Full
    <3> HIDE DEF lk
    <3>3. QED
      BY <3>1, <3>2, FrameTypes
  <2> HIDE DEF l
  <2>4. Kept(link[g], l, P, done, mirror)
    BY <1>1, <2>1, <2>2, LessToDo
  <2>5. AllKept(link, lk, P, done, mirror) /\ lk \in [Gens -> Link]
    BY <1>1, <2>1, <2>4, OneKept
  <2> HIDE DEF lk
  <2>6. AllKept(lk, link', P, done, mirror)
    BY <2>3, <2>5, SaysKept
  <2>7. QED
    BY <2>5, <2>6, AllKeptTwice
<1>7. CASE Refuses(g) \/ Revokes(g)
  BY <1>4, <1>7 DEF Refuses, Revokes
<1>8. CASE Registers(g)
  <2> DEFINE l == [link[g] EXCEPT !.phase = "serving"]
  <2>1. /\ l.down = link[g].down /\ l.up = link[g].up /\ l.working = link[g].working
        /\ l.scoped = link[g].scoped /\ l.phase = "serving"
    BY <1>1 DEF Link
  <2>2. ~link[g].scoped /\ ~Lively(link[g])
    BY <1>1, <1>3, <1>8 DEF Registers, Scope, Lively
  <2>3. link' = [link EXCEPT ![g] = l]
    BY <1>8 DEF Registers
  <2> HIDE DEF l
  <2>4. Kept(link[g], l, P, done, mirror)
    BY <1>1, <2>1, <2>2, LessToDo
  <2>5. QED
    BY <1>1, <2>3, <2>4, OneKept
<1>9. CASE Reads(g)
  <2> DEFINE l == [link[g] EXCEPT !.up = Tail(@), !.working = @ \cup {Head(link[g].up)}]
  <2>1. /\ l.down = link[g].down /\ l.up = Tail(link[g].up)
        /\ l.working = link[g].working \cup {Head(link[g].up)}
        /\ l.scoped = link[g].scoped /\ l.phase = link[g].phase
    BY <1>1 DEF Link
  <2>2. link[g].up # <<>> /\ Head(link[g].up) \in Request
    <3>1. link[g].up \in Seq(Request) /\ link[g].up # <<>>
      BY <1>1, <1>9 DEF Reads, Sound, UpShape
    <3>2. QED
      BY <3>1, HeadTailProperties
  <2>3. link' = [link EXCEPT ![g] = l]
    BY <1>9 DEF Reads
  <2> HIDE DEF l
  <2>4. Kept(link[g], l, P, done, mirror)
    BY <1>1, <2>1, <2>2, TakesUp
  <2>5. QED
    BY <1>1, <2>3, <2>4, OneKept
<1>10. CASE PeerLeft(g) \/ Severs(g)
  <2>1. link' = Closes(link, g)
    BY <1>10 DEF PeerLeft, Severs
  <2>2. QED
    BY <1>1, <2>1, ClosesKept
<1>11. QED
  BY <1>5, <1>6, <1>7, <1>8, <1>9, <1>10 DEF DaemonStep

LEMMA EnvironmentOrdered ==
  ASSUME Inv, Ordered, \/ Relays \/ DaemonDies \/ DaemonStarts
                       \/ \E g \in Gens : LinkBreaks(g) \/ Strays(g) \/ SquatterTalks(g)
  PROVE  Ordered'
<1> DEFINE P == promised \ failing
<1>1. link \in [Gens -> Link] /\ \A h \in Gens : Sound(link[h]) /\ link[h] \in Link
  BY InvTransports DEF Sound
<1>2. SUFFICES ASSUME UNCHANGED <<client, promised, mirror, failing, done>>
               PROVE  AllKept(link, link', P, done, mirror)
  BY KeptOrdered DEF Relays, DaemonDies, DaemonStarts, LinkBreaks, Strays, SquatterTalks
<1> HIDE DEF P
<1>3. CASE Relays
  <2> DEFINE f == State("partial", {})
  <2>1. f \in DownFrame /\ ~Numbered(f) /\ ~Full(f)
    <3>1. f.type = "partial"
      BY DEF State
    <3>2. QED
      BY <3>1, FrameTypes DEF Numbered, Full
  <2>2. link' = Told(link, f)
    BY <1>3 DEF Relays
  <2> HIDE DEF f
  <2>3. ASSUME NEW h \in Gens
        PROVE  Kept(link[h], link'[h], P, done, mirror)
    <3>1. link'[h] \in {Heard(link[h], <<f>>), link[h]}
      BY <1>1, <2>2, ToldAt
    <3>2. Kept(link[h], Heard(link[h], <<f>>), P, done, mirror)
      <4>1. <<f>> \in Seq(DownFrame)
        BY <2>1, SequencesOfOneOrTwo
      <4> DEFINE l == Heard(link[h], <<f>>)
      <4>2. /\ l.up = link[h].up /\ l.working = link[h].working
            /\ l.scoped = link[h].scoped /\ l.phase = link[h].phase
            /\ l.down = link[h].down \o <<f>> \/ l = link[h]
        BY <1>1, <4>1, HeardFields
      <4> HIDE DEF l
      <4>3. Kept(link[h], l, P, done, mirror)
        BY <1>1, <2>1, <4>2, HearsPlain, KeptSame
      <4>4. QED
        BY <4>3 DEF l
    <3>3. QED
      BY <3>1, <3>2, KeptSame
  <2>4. QED
    BY <2>3 DEF AllKept, Kept
<1>4. CASE DaemonDies
  <2> DEFINE lk == [g \in Gens |-> IF link[g].phase = "unused" THEN Unused
                                   ELSE [ClosedEnd(link[g]) EXCEPT !.working = {}]]
  <2>1. link' = Swept(lk, client)
    BY <1>4 DEF DaemonDies
  <2>2. ASSUME NEW h \in Gens
        PROVE  lk[h] \in Link /\ Kept(link[h], lk[h], P, done, mirror)
    <3>1. CASE link[h].phase = "unused"
      <4>1. link[h] = Unused /\ lk[h] = Unused
        BY <1>1, <3>1 DEF Sound, UpShape
      <4>2. QED
        BY <4>1, KeptSame, UnusedSound DEF Sound
    <3>2. CASE link[h].phase # "unused"
      <4>1. lk[h] = [ClosedEnd(link[h]) EXCEPT !.working = {}]
        BY <3>2
      <4>2. /\ ClosedEnd(link[h]) \in Link /\ ClosedEnd(link[h]).phase = "closed"
            /\ ~ClosedEnd(link[h]).scoped /\ ClosedEnd(link[h]).up = <<>>
            /\ ClosedEnd(link[h]).down = link[h].down
        BY <1>1, EmptySeq DEF ClosedEnd, Link
      <4> HIDE DEF lk
      <4>3. /\ lk[h] \in Link /\ lk[h].phase = "closed" /\ ~lk[h].scoped /\ lk[h].up = <<>>
            /\ lk[h].down = link[h].down /\ lk[h].working = {}
        BY <4>1, <4>2 DEF Link
      <4>4. QED
        BY <1>1, <4>3, LessToDo DEF Lively
    <3>3. QED
      BY <3>1, <3>2
  <2>3. lk \in [Gens -> Link]
    <3>1. lk = [h \in Gens |-> lk[h]]
      OBVIOUS
    <3> HIDE DEF lk
    <3>2. QED
      BY <2>2, <3>1
  <2> HIDE DEF lk
  <2>4. AllKept(link, lk, P, done, mirror)
    BY <2>2 DEF AllKept, Kept
  <2>5. QED
    BY <2>1, <2>3, <2>4, SweptKept, AllKeptTwice
<1>5. CASE DaemonStarts
  BY <1>5 DEF DaemonStarts, AllKept
<1>6. ASSUME NEW g \in Gens, LinkBreaks(g)
      PROVE  AllKept(link, link', P, done, mirror)
  <2> DEFINE l == [link[g] EXCEPT !.lost = TRUE, !.up = <<>>, !.down = <<>>]
  <2>1. /\ l.down = <<>> /\ l.up = <<>> /\ l.working = link[g].working
        /\ l.scoped = link[g].scoped /\ l.phase = link[g].phase
    BY <1>1 DEF Link
  <2>2. link' = [link EXCEPT ![g] = l]
    BY <1>6 DEF LinkBreaks
  <2> HIDE DEF l
  <2>3. l.scoped => l.phase = "serving"
    BY <2>1 DEF Ordered, Scope
  <2>4. Kept(link[g], l, P, done, mirror)
    BY <1>1, <2>1, <2>3, LessToDo DEF Lively
  <2>5. QED
    BY <1>1, <2>2, <2>4, OneKept
<1>7. ASSUME NEW g \in Gens, Strays(g) \/ SquatterTalks(g)
      PROVE  AllKept(link, link', P, done, mirror)
  <2>1. [type |-> "junk"] \in DownFrame /\ ~Numbered([type |-> "junk"]) /\ ~Full([type |-> "junk"])
    BY FrameTypes DEF Numbered, Full
  <2>2. link' = Says(link, g, <<[type |-> "junk"]>>)
    BY <1>7 DEF Strays, SquatterTalks
  <2>3. QED
    BY <1>1, <2>1, <2>2, SaysKept
<1>8. QED
  BY <1>3, <1>4, <1>5, <1>6, <1>7

-----------------------------------------------------------------------------
(* The daemon finishes a request: its reply goes out, behind a snapshot if   *)
(* its connection has asked for the state.                                   *)

(* The request leaves the work at hand; its change may be made meanwhile. *)
LEMMA Finished ==
  ASSUME NEW l \in Link, NEW request \in l.working, NEW l2, NEW P, NEW D, NEW D2, NEW m,
         l2.up = l.up, l2.down = l.down, l2.working = l.working \ {request},
         l2.scoped = l.scoped, l2.phase = l.phase,
         D \subseteq D2, D2 \subseteq D \cup {request.id}
  PROVE  /\ Scope(l) => Scope(l2)
         /\ Asking(l2) \subseteq Asking(l)
         /\ Orderly(l, P, D, m) =>
              /\ Orderly(l2, P, D2, m)
              /\ request.id \in P /\ request.id \notin Asking(l2) \cup Ids(l2.down)
              /\ request.id \notin Ids(l.down)
<1>1. request.id \in Working(l) /\ Working(l2) \subseteq Working(l)
  BY DEF Working
<1>2. Asking(l2) \subseteq Asking(l) /\ request.id \in Asking(l)
  BY <1>1 DEF Asking
<1>3. Scope(l) => Scope(l2)
  BY DEF Scope, Lively
<1>4. ASSUME Orderly(l, P, D, m)
      PROVE  /\ Orderly(l2, P, D2, m)
             /\ request.id \in P /\ request.id \notin Asking(l2) \cup Ids(l2.down)
             /\ request.id \notin Ids(l.down)
  <2>1. Once(l, P) /\ Shown(l.down, D, m) /\ (~m.stale => Lively(l))
    BY <1>4 DEF Orderly
  <2>2. request.id \in P /\ request.id \notin Ids(l.down) /\ request.id \notin Ids(l.up)
    BY <1>1, <1>2, <2>1 DEF Once
  <2>3. request.id \notin Working(l2)
    BY <2>1 DEF Once, Working
  <2>4. Shown(l2.down, D2, m)
    BY <2>1, <2>2, ShownOfOthers
  <2>5. Once(l2, P)
    BY <1>1, <1>2, <2>1 DEF Once
  <2>6. QED
    BY <2>1, <2>2, <2>3, <2>4, <2>5 DEF Orderly, Lively, Asking
<1>5. QED
  BY <1>2, <1>3, <1>4

LEMMA HearsReply ==
  ASSUME NEW l \in Link, NEW P, NEW D, NEW m, NEW type \in {"acknowledged", "failed"},
         NEW id \in IDs, NEW l2,
         l2.down = l.down \o <<Reply(type, id)>>, l2.up = l.up, l2.working = l.working,
         l2.scoped = l.scoped, l2.phase = l.phase
  PROVE  /\ Scope(l) => Scope(l2)
         /\ Asking(l2) = Asking(l)
         /\ /\ Orderly(l, P, D, m)
            /\ id \in P /\ id \notin Asking(l) \cup Ids(l.down)
            /\ type = "acknowledged" /\ id \in D =>
                 \/ ~HasFull(l.down) /\ m.stale
                 \/ /\ l.down # <<>> /\ Full(l.down[Len(l.down)])
                    /\ id \in l.down[Len(l.down)].shows
            => Orderly(l2, P, D, m)
<1> DEFINE f == Reply(type, id)
<1>1. l.down \in Seq(DownFrame)
  BY DEF Link
<1>2. f \in DownFrame /\ Numbered(f) /\ ~Full(f) /\ f.type = type /\ f.id = id
  BY FrameTypes DEF Reply, Numbered, Full
<1>3. l2.down = l.down \o <<f>>
  OBVIOUS
<1> HIDE DEF f
<1>4. /\ Ids(l2.down) = Ids(l.down) \cup {id}
      /\ NoTwins(l.down) /\ id \notin Ids(l.down) => NoTwins(l2.down)
      /\ HasFull(l2.down) <=> HasFull(l.down)
  BY <1>1, <1>2, <1>3, IdsOfOneMore
<1>5. Working(l2) = Working(l) /\ Asking(l2) = Asking(l) /\ (Lively(l2) <=> Lively(l))
  BY DEF Working, Asking, Lively
<1>6. Scope(l) => Scope(l2)
  BY <1>4, <1>5 DEF Scope
<1>7. ASSUME Orderly(l, P, D, m), id \in P, id \notin Asking(l) \cup Ids(l.down),
             type = "acknowledged" /\ id \in D =>
               \/ ~HasFull(l.down) /\ m.stale
               \/ /\ l.down # <<>> /\ Full(l.down[Len(l.down)])
                  /\ id \in l.down[Len(l.down)].shows
      PROVE  Orderly(l2, P, D, m)
  <2>1. Shown(l2.down, D, m)
    BY <1>1, <1>2, <1>3, <1>7, ShownOneMore DEF Orderly
  <2>2. Once(l2, P)
    BY <1>4, <1>5, <1>7 DEF Orderly, Once
  <2>3. QED
    BY <1>5, <1>7, <2>1, <2>2 DEF Orderly
<1>8. QED
  BY <1>5, <1>6, <1>7

(* What Heard does, when one frame is heard. *)
LEMMA HeardOne ==
  ASSUME NEW l \in Link, NEW f \in DownFrame
  PROVE  /\ Heard(l, <<f>>) \in Link
         /\ Heard(l, <<f>>).up = l.up /\ Heard(l, <<f>>).working = l.working
         /\ Heard(l, <<f>>).scoped = l.scoped /\ Heard(l, <<f>>).phase = l.phase
         /\ Open(Heard(l, <<f>>)) <=> Open(l)
         /\ Open(l) => /\ Heard(l, <<f>>).down = l.down \o <<f>>
                       /\ Heard(l, <<f>>).down # <<>>
                       /\ Heard(l, <<f>>).down[Len(Heard(l, <<f>>).down)] = f
         /\ ~Open(l) => Heard(l, <<f>>) = l
<1>1. l.down \in Seq(DownFrame) /\ <<f>> \in Seq(DownFrame)
  BY SequencesOfOneOrTwo DEF Link
<1>2. /\ l.down \o <<f>> # <<>>
      /\ (l.down \o <<f>>)[Len(l.down \o <<f>>)] = f
  BY <1>1, OneMore
<1> DEFINE h == Heard(l, <<f>>)
<1>3. /\ h \in Link
      /\ h.up = l.up /\ h.working = l.working
      /\ h.scoped = l.scoped /\ h.phase = l.phase
      /\ Open(h) <=> Open(l)
      /\ Open(l) => h.down = l.down \o <<f>>
      /\ ~Open(l) => h = l
  BY <1>1, HeardFields
<1> HIDE DEF h
<1>4. QED
  BY <1>2, <1>3 DEF h

LEMMA HeardTwice ==
  ASSUME NEW l \in Link, NEW f \in DownFrame, NEW r \in DownFrame
  PROVE  Heard(Heard(l, <<f>>), <<r>>) = Heard(l, <<f, r>>)
<1>1. l.down \in Seq(DownFrame)
  BY DEF Link
<1>2. (l.down \o <<f>>) \o <<r>> = l.down \o <<f, r>>
  <2> DEFINE s == l.down
             a == <<f>>
             b == <<r>>
  <2>1. s \in Seq(DownFrame) /\ a \in Seq(DownFrame) /\ b \in Seq(DownFrame)
    BY <1>1, SequencesOfOneOrTwo
  <2>2. a \o b = <<f, r>>
    <3>1. /\ a \o b \in Seq(DownFrame) /\ Len(a \o b) = 2
          /\ (a \o b)[1] = f /\ (a \o b)[2] = r
      BY <2>1
    <3>2. /\ <<f, r>> \in Seq(DownFrame) /\ Len(<<f, r>>) = 2
          /\ <<f, r>>[1] = f /\ <<f, r>>[2] = r
      OBVIOUS
    <3>3. \A k \in 1..2 : k = 1 \/ k = 2
      OBVIOUS
    <3> HIDE DEF a, b
    <3>4. QED
      BY <3>1, <3>2, <3>3, SeqEqual
  <2> HIDE DEF s, a, b
  <2>3. (s \o a) \o b = s \o (a \o b)
    BY <2>1, ConcatAssociative
  <2>4. QED
    BY <2>2, <2>3 DEF s, a, b
<1>3. CASE ~Open(l)
  BY <1>3 DEF Heard
<1>4. CASE Open(l)
  <2> DEFINE l2 == [l EXCEPT !.down = l.down \o <<f>>]
  <2>1. Heard(l, <<f>>) = l2
    BY <1>4 DEF Heard
  <2>2. Open(l2) /\ l2.down = l.down \o <<f>>
    BY <1>4 DEF Open, Link
  <2>3. Heard(l2, <<r>>) = [l EXCEPT !.down = l.down \o <<f, r>>]
    BY <1>2, <2>2 DEF Heard, Link
  <2>4. QED
    BY <1>4, <2>1, <2>3 DEF Heard
<1>5. QED
  BY <1>3, <1>4

(* A connection that is told of the state D, and then of its own request. *)
ToldOf(l, D) == IF l.scoped THEN Heard(l, <<State("full", D)>>) ELSE l

LEMMA ToldFields ==
  ASSUME NEW l \in Link, NEW D, D \subseteq IDs
  PROVE  /\ ToldOf(l, D) \in Link
         /\ ToldOf(l, D).up = l.up /\ ToldOf(l, D).working = l.working
         /\ ToldOf(l, D).scoped = l.scoped /\ ToldOf(l, D).phase = l.phase
         /\ Open(ToldOf(l, D)) <=> Open(l)
         /\ ~(l.scoped /\ Open(l)) => ToldOf(l, D) = l
         /\ l.scoped /\ Open(l) =>
              /\ ToldOf(l, D).down = l.down \o <<State("full", D)>>
              /\ ToldOf(l, D).down # <<>>
              /\ ToldOf(l, D).down[Len(ToldOf(l, D).down)] = State("full", D)
<1> DEFINE f == State("full", D)
<1>1. f \in DownFrame
  BY FrameTypes
<1> HIDE DEF f
<1>2. ToldOf(l, D) = IF l.scoped THEN Heard(l, <<f>>) ELSE l
  BY DEF ToldOf, f
<1>3. CASE l.scoped
  <2> DEFINE h == Heard(l, <<f>>)
  <2>1. /\ h \in Link
        /\ h.up = l.up /\ h.working = l.working
        /\ h.scoped = l.scoped /\ h.phase = l.phase
        /\ Open(h) <=> Open(l)
        /\ Open(l) => h.down = l.down \o <<f>> /\ h.down # <<>> /\ h.down[Len(h.down)] = f
        /\ ~Open(l) => h = l
    BY <1>1, HeardOne
  <2>2. ToldOf(l, D) = h
    BY <1>2, <1>3
  <2> HIDE DEF h
  <2>3. QED
    BY <1>3, <2>1, <2>2 DEF f
<1>4. CASE ~l.scoped
  BY <1>2, <1>4
<1>5. QED
  BY <1>3, <1>4

LEMMA ToldKept ==
  ASSUME NEW l \in Link, NEW P, NEW D, NEW m, D \subseteq IDs
  PROVE  /\ Kept(l, ToldOf(l, D), P, D, m)
         /\ Asking(ToldOf(l, D)) = Asking(l)
         /\ Ids(ToldOf(l, D).down) = Ids(l.down)
<1> DEFINE f == State("full", D)
           t == ToldOf(l, D)
<1>1. Full(f) /\ ~Numbered(f) /\ f \in DownFrame
  BY FrameTypes DEF Full, State, Numbered
<1>2. /\ t.up = l.up /\ t.working = l.working
      /\ t.scoped = l.scoped /\ t.phase = l.phase
      /\ t = l \/ (l.scoped /\ t.down = l.down \o <<f>>)
  BY ToldFields
<1> HIDE DEF f, t
<1>3. Kept(l, t, P, D, m)
  BY <1>1, <1>2, HearsFull, KeptSame
<1>4. Asking(t) = Asking(l)
  BY <1>2 DEF Asking, Working
<1>5. Ids(t.down) = Ids(l.down)
  <2>1. l.down \in Seq(DownFrame)
    BY DEF Link
  <2>2. Ids(l.down \o <<f>>) = Ids(l.down)
    BY <1>1, <2>1, IdsOfOneMore
  <2>3. QED
    BY <1>2, <2>2
<1>6. QED
  BY <1>3, <1>4, <1>5 DEF t

LEMMA ToldThenReply ==
  ASSUME NEW l \in Link, NEW P, NEW D, NEW m, NEW id \in IDs,
         Scope(l), D \subseteq IDs, NEW type \in {"acknowledged", "failed"}
  PROVE  /\ Scope(Heard(ToldOf(l, D), <<Reply(type, id)>>))
         /\ Asking(Heard(ToldOf(l, D), <<Reply(type, id)>>)) = Asking(l)
         /\ /\ Orderly(l, P, D, m)
            /\ id \in P /\ id \notin Asking(l) \cup Ids(l.down)
            => Orderly(Heard(ToldOf(l, D), <<Reply(type, id)>>), P, D, m)
<1> DEFINE f == State("full", D)
           r == Reply(type, id)
           told == ToldOf(l, D)
           l2 == Heard(told, <<r>>)
<1>1. Full(f) /\ f.shows = D
  BY DEF Full, State
<1>2. r \in DownFrame
  BY FrameTypes
<1>3. /\ told \in Link
      /\ told.scoped = l.scoped /\ told.phase = l.phase
      /\ Open(told) <=> Open(l)
      /\ l.scoped /\ Open(l) => told.down # <<>> /\ told.down[Len(told.down)] = f
      /\ ~(l.scoped /\ Open(l)) => told = l
  BY ToldFields
<1>4. Kept(l, told, P, D, m) /\ Asking(told) = Asking(l) /\ Ids(told.down) = Ids(l.down)
  BY ToldKept
<1>5. Scope(told)
  BY <1>4 DEF Kept
<1> HIDE DEF r, told, f
<1>6. /\ l2.up = told.up /\ l2.working = told.working
      /\ l2.scoped = told.scoped /\ l2.phase = told.phase
      /\ Open(told) => l2.down = told.down \o <<r>>
      /\ ~Open(told) => l2 = told
  BY <1>2, <1>3, HeardOne
<1> HIDE DEF l2
<1>7. CASE ~Open(told)
  BY <1>4, <1>5, <1>6, <1>7 DEF Kept, l2, told, r
<1>8. CASE Open(told)
  <2>1. l2.down = told.down \o <<Reply(type, id)>>
    BY <1>6, <1>8 DEF r
  <2>2. /\ Scope(told) => Scope(l2)
        /\ Asking(l2) = Asking(told)
        /\ /\ Orderly(told, P, D, m)
           /\ id \in P /\ id \notin Asking(told) \cup Ids(told.down)
           /\ type = "acknowledged" /\ id \in D =>
                \/ ~HasFull(told.down) /\ m.stale
                \/ /\ told.down # <<>> /\ Full(told.down[Len(told.down)])
                   /\ id \in told.down[Len(told.down)].shows
           => Orderly(l2, P, D, m)
    BY <1>3, <1>6, <2>1, HearsReply
  <2>3. ASSUME Orderly(l, P, D, m), id \in P, id \notin Asking(l) \cup Ids(l.down)
        PROVE  Orderly(l2, P, D, m)
    <3>1. Orderly(told, P, D, m)
      BY <1>4, <2>3 DEF Kept
    <3>2. id \in D =>
            \/ ~HasFull(told.down) /\ m.stale
            \/ /\ told.down # <<>> /\ Full(told.down[Len(told.down)])
               /\ id \in told.down[Len(told.down)].shows
      <4>1. CASE l.scoped
        BY <1>1, <1>3, <1>8, <4>1
      <4>2. CASE ~l.scoped
        <5>1. told = l /\ l.phase = "serving"
          BY <1>3, <1>8, <4>2 DEF Open
        <5>2. ~Lively(l)
          BY <4>2, <5>1 DEF Lively
        <5>3. QED
          BY <2>3, <5>1, <5>2 DEF Orderly, Scope
      <4>3. QED
        BY <4>1, <4>2
    <3>3. QED
      BY <1>4, <2>2, <2>3, <3>1, <3>2
  <2>4. QED
    BY <1>4, <1>5, <2>2, <2>3 DEF l2, told, r
<1>9. QED
  BY <1>7, <1>8

(* A connection that asks for the state is told all of it from now on. *)
LEMMA Subscribes ==
  ASSUME NEW l \in Link, NEW l2, Scope(l), NEW P, NEW D, NEW m,
         l2.up = l.up, l2.down = l.down, l2.working = l.working,
         l2.scoped = (l.phase = "serving"), l2.phase = l.phase
  PROVE  /\ Scope(l2) /\ Asking(l2) = Asking(l)
         /\ Orderly(l, P, D, m) => Orderly(l2, P, D, m)
<1>1. Working(l2) = Working(l) /\ Asking(l2) = Asking(l)
  BY DEF Asking, Working
<1>2. Lively(l) => Lively(l2)
  BY DEF Scope, Lively
<1>3. QED
  BY <1>1, <1>2 DEF Scope, Orderly, Once

LEMMA WorksOrdered ==
  ASSUME Inv, Ordered, NEW g \in Gens, NEW request \in link[g].working, request \in Request,
         NEW l1 \in Link, NEW lk, lk = [link EXCEPT ![g] = l1], Works(lk, g, request),
         l1.up = link[g].up, l1.down = link[g].down,
         l1.working = link[g].working \ {request},
         l1.scoped = link[g].scoped, l1.phase = link[g].phase
  PROVE  \E lk2 \in [Gens -> Link] :
           /\ link' = Swept(lk2, client)
           /\ \A h \in Gens : Scope(lk2[h]) /\ Asking(lk2[h]) \subseteq Asking(link[h])
           /\ client.current # None =>
                Orderly(lk2[client.current], promised \ failing, done', mirror)
<1> DEFINE P == promised \ failing
           cur == client.current
           D2 == done'
           id == request.id
           Good(lk2) == /\ \A h \in Gens : Scope(lk2[h]) /\ Asking(lk2[h]) \subseteq Asking(link[h])
                        /\ cur # None => Orderly(lk2[cur], P, D2, mirror)
<1>1. /\ link \in [Gens -> Link] /\ lk \in [Gens -> Link] /\ lk[g] = l1
      /\ \A h \in Gens : h # g => lk[h] = link[h]
      /\ done \subseteq promised /\ promised \subseteq IDs
  BY InvTransports
<1>2. cur # None => cur \in Gens
  BY DEF Inv, LoopInv, Client
<1>3. id \in IDs /\ request.type \in {"subscribe", "mutate"}
  BY DEF Request
<1>4. /\ done \subseteq D2 /\ D2 \subseteq done \cup {id} /\ D2 \subseteq promised
      /\ D2 \subseteq IDs
  BY <1>1 DEF Works
<1>5. g # cur => D2 = done
  <2>1. id \in Asking(link[g])
    BY DEF Asking, Working
  <2>2. CASE g # cur
    BY <1>4, <2>1, <2>2 DEF Ordered
  <2>3. QED
    BY <2>2
<1>6. /\ Scope(l1) /\ Asking(l1) \subseteq Asking(link[g])
      /\ g = cur => /\ Orderly(l1, P, D2, mirror)
                    /\ id \in P /\ id \notin Asking(l1) \cup Ids(l1.down)
  <2>1. Scope(link[g])
    BY DEF Ordered
  <2>2. g = cur => Orderly(link[g], P, done, mirror)
    BY <1>1, <1>2, DaemonLinkAssumption DEF Ordered
  <2> HIDE DEF P, D2, id
  <2>3. /\ Scope(link[g]) => Scope(l1)
        /\ Asking(l1) \subseteq Asking(link[g])
        /\ Orderly(link[g], P, done, mirror) =>
             /\ Orderly(l1, P, D2, mirror)
             /\ id \in P /\ id \notin Asking(l1) \cup Ids(l1.down)
    BY <1>1, <1>4, Finished DEF id
  <2>4. QED
    BY <2>1, <2>2, <2>3
<1>7. ASSUME NEW h \in Gens, h # g
      PROVE  /\ Scope(link[h]) /\ lk[h] = link[h]
             /\ h = cur => Orderly(link[h], P, D2, mirror)
  BY <1>1, <1>2, <1>5, <1>7, DaemonLinkAssumption DEF Ordered
<1>8. SUFFICES \E lk2 \in [Gens -> Link] : link' = Swept(lk2, client) /\ Good(lk2)
  OBVIOUS
<1>9. ASSUME NEW lk2 \in [Gens -> Link], NEW l2, lk2[g] = l2,
             \A h \in Gens : h # g => lk2[h] = link[h],
             Scope(l2), Asking(l2) \subseteq Asking(l1),
             g = cur => Orderly(l2, P, D2, mirror)
      PROVE  Good(lk2)
  BY <1>2, <1>6, <1>7, <1>9
<1> HIDE DEF P, D2, id
<1>10. CASE request.type = "subscribe"
  <2> DEFINE ls == [l1 EXCEPT !.scoped = (l1.phase = "serving")]
             f == State("full", done)
             r == Reply("acknowledged", id)
             lks == [lk EXCEPT ![g] = ls]
             lk2 == Answers(lks, g, <<f, r>>)
             told == Heard(ls, <<f>>)
  <2>1. link' = Swept(lk2, client) /\ D2 = done
    <3>1. link' = Swept(Answers([lk EXCEPT ![g].scoped = (lk[g].phase = "serving")], g,
                                <<f, r>>), client) /\ done' = done
      BY <1>10 DEF Works, id
    <3>2. [lk EXCEPT ![g].scoped = (lk[g].phase = "serving")] = lks
      BY <1>1
    <3>3. QED
      BY <3>1, <3>2 DEF D2
  <2>2. /\ ls.up = l1.up /\ ls.down = l1.down /\ ls.working = l1.working
        /\ ls.scoped = (l1.phase = "serving") /\ ls.phase = l1.phase /\ ls \in Link
    BY DEF Link
  <2> HIDE DEF ls
  <2>3. /\ Scope(ls) /\ Asking(ls) = Asking(l1)
        /\ Orderly(l1, P, D2, mirror) => Orderly(ls, P, D2, mirror)
    BY <1>6, <2>2, Subscribes
  <2>4. f \in DownFrame /\ r \in DownFrame
    BY <1>1, <1>3, FrameTypes
  <2>5. told \in Link /\ (~Open(ls) => told = ls)
    BY <2>2, <2>4, HeardOne
  <2>6. Open(ls) => ls.scoped
    BY <2>2 DEF Open
  <2>7. told = IF ls.scoped THEN Heard(ls, <<f>>) ELSE ls
    BY <2>5, <2>6
  <2>8. /\ Scope(Heard(told, <<r>>)) /\ Asking(Heard(told, <<r>>)) = Asking(ls)
        /\ /\ Orderly(ls, P, D2, mirror)
           /\ id \in P /\ id \notin Asking(ls) \cup Ids(ls.down)
           => Orderly(Heard(told, <<r>>), P, D2, mirror)
    <3>1. told = ToldOf(ls, D2)
      BY <2>1, <2>7 DEF ToldOf
    <3> HIDE DEF told
    <3>2. /\ Scope(Heard(ToldOf(ls, D2), <<Reply("acknowledged", id)>>))
          /\ Asking(Heard(ToldOf(ls, D2), <<Reply("acknowledged", id)>>)) = Asking(ls)
          /\ /\ Orderly(ls, P, D2, mirror)
             /\ id \in P /\ id \notin Asking(ls) \cup Ids(ls.down)
             => Orderly(Heard(ToldOf(ls, D2), <<Reply("acknowledged", id)>>), P, D2, mirror)
      BY <1>3, <1>4, <2>2, <2>3, ToldThenReply
    <3>3. QED
      BY <3>1, <3>2
  <2>9. Heard(told, <<r>>) = Heard(ls, <<f, r>>)
    BY <2>2, <2>4, HeardTwice
  <2>10. lks \in [Gens -> Link] /\ lks[g] = ls /\ \A h \in Gens : h # g => lks[h] = link[h]
    BY <1>1, <2>2
  <2> HIDE DEF lks
  <2>11. /\ lk2[g] = Heard(ls, <<f, r>>)
         /\ \A h \in Gens : h # g => lk2[h] = link[h]
    BY <2>10, AnswersAt
  <2>12. lk2 \in [Gens -> Link]
    <3>1. <<f, r>> \in Seq(DownFrame)
      BY <2>4, SequencesOfOneOrTwo
    <3>2. Heard(ls, <<f, r>>) \in Link
      BY <2>2, <3>1, HeardFields
    <3>3. lk2 = lks \/ lk2 = [lks EXCEPT ![g] = [lks[g] EXCEPT !.down = lks[g].down \o <<f, r>>]]
      BY <2>10 DEF Answers, Says
    <3> HIDE DEF lk2
    <3>4. lk2[g] \in Link
      BY <2>11, <3>2
    <3>5. QED
      BY <2>10, <3>3, <3>4
  <2> HIDE DEF lk2, f, r, told, Good
  <2>13. Good(lk2)
    BY <1>6, <1>9, <2>2, <2>3, <2>8, <2>9, <2>11, <2>12
  <2>14. QED
    BY <2>1, <2>12, <2>13
<1>11. ASSUME NEW lkt \in [Gens -> Link], NEW type \in {"acknowledged", "failed"},
              NEW lk2, lk2 = Answers(lkt, g, <<Reply(type, id)>>)
       PROVE  /\ lk2 \in [Gens -> Link]
              /\ lk2[g] = Heard(lkt[g], <<Reply(type, id)>>)
              /\ \A h \in Gens : h # g => lk2[h] = lkt[h]
  <2> DEFINE r == Reply(type, id)
  <2>1. r \in DownFrame
    BY <1>3, FrameTypes
  <2> HIDE DEF r
  <2>2. /\ lk2[g] = Heard(lkt[g], <<r>>)
        /\ \A h \in Gens : h # g => lk2[h] = lkt[h]
    BY <1>11, AnswersAt DEF r
  <2>3. lk2 = lkt \/ lk2 = [lkt EXCEPT ![g] = [lkt[g] EXCEPT !.down = lkt[g].down \o <<r>>]]
    BY <1>11 DEF Answers, Says, r
  <2>4. lk2[g] \in Link
    BY <2>1, <2>2, HeardOne
  <2>5. lk2 \in [Gens -> Link]
    BY <2>3, <2>4
  <2>6. QED
    BY <2>2, <2>5 DEF r
<1>12. CASE link' = Swept(Answers(lk, g, <<Reply("failed", id)>>), client) /\ done' = done
  <2> DEFINE lk2 == Answers(lk, g, <<Reply("failed", id)>>)
             l2 == Heard(l1, <<Reply("failed", id)>>)
  <2>1. /\ lk2 \in [Gens -> Link] /\ lk2[g] = l2
        /\ \A h \in Gens : h # g => lk2[h] = link[h]
    BY <1>1, <1>11, ZenonT(40)
  <2>2. /\ l2.up = l1.up /\ l2.working = l1.working
        /\ l2.scoped = l1.scoped /\ l2.phase = l1.phase
        /\ l2.down = l1.down \o <<Reply("failed", id)>> \/ l2 = l1
    <3>1. Reply("failed", id) \in DownFrame
      BY <1>3, FrameTypes
    <3>2. QED
      BY <3>1, HeardOne
  <2> HIDE DEF l2
  <2>3. Scope(l2) /\ Asking(l2) = Asking(l1) /\ (g = cur => Orderly(l2, P, D2, mirror))
    BY <1>3, <1>6, <2>2, HearsReply
  <2> HIDE DEF lk2, Good
  <2>4. Good(lk2)
    BY <1>9, <2>1, <2>3
  <2>5. QED
    BY <1>12, <2>1, <2>4 DEF lk2
<1>13. CASE link' = Swept(Answers(Told(lk, State("full", done')), g,
                                  <<Reply("acknowledged", id)>>), client)
  <2> DEFINE f == State("full", D2)
             lkt == Told(lk, f)
             lk2 == Answers(lkt, g, <<Reply("acknowledged", id)>>)
  <2>1. f \in DownFrame
    BY <1>4, FrameTypes
  <2>2. \A h \in Gens : lkt[h] = IF lk[h].scoped THEN Heard(lk[h], <<f>>) ELSE lk[h]
    BY <1>1, ToldAt
  <2>3. \A h \in Gens : lkt[h] \in Link
    <3> HIDE DEF lkt, f
    <3>1. \A h \in Gens : lk[h] \in Link /\ Heard(lk[h], <<f>>) \in Link
      BY <1>1, <2>1, HeardOne
    <3>2. QED
      BY <2>2, <3>1
  <2>4. lkt \in [Gens -> Link]
    <3>1. lkt = [h \in Gens |-> lkt[h]]
      BY DEF Told
    <3> HIDE DEF lkt
    <3>2. QED
      BY <2>3, <3>1
  <2> HIDE DEF lkt
  <2>5. /\ lk2 \in [Gens -> Link]
        /\ lk2[g] = Heard(lkt[g], <<Reply("acknowledged", id)>>)
        /\ \A h \in Gens : h # g => lk2[h] = lkt[h]
    BY <1>11, <2>4
  <2> HIDE DEF lk2
  <2>6. /\ Scope(lk2[g]) /\ Asking(lk2[g]) \subseteq Asking(link[g])
        /\ g = cur => Orderly(lk2[g], P, D2, mirror)
    <3>1. lkt[g] = ToldOf(l1, D2)
      BY <1>1, <2>2 DEF ToldOf
    <3> DEFINE l2 == Heard(ToldOf(l1, D2), <<Reply("acknowledged", id)>>)
    <3>2. /\ Scope(l2) /\ Asking(l2) = Asking(l1)
          /\ /\ Orderly(l1, P, D2, mirror)
             /\ id \in P /\ id \notin Asking(l1) \cup Ids(l1.down)
             => Orderly(l2, P, D2, mirror)
      BY <1>3, <1>4, <1>6, ToldThenReply
    <3>3. lk2[g] = l2
      BY <2>5, <3>1
    <3> HIDE DEF l2
    <3>4. QED
      BY <1>6, <3>2, <3>3
  <2>7. ASSUME NEW h \in Gens, h # g
        PROVE  /\ Scope(lk2[h]) /\ Asking(lk2[h]) \subseteq Asking(link[h])
               /\ h = cur => Orderly(lk2[h], P, D2, mirror)
    <3> DEFINE l == link[h]
    <3>1. l \in Link /\ Scope(l) /\ lk[h] = l /\ (h = cur => Orderly(l, P, D2, mirror))
      BY <1>1, <1>7, <2>7
    <3>2. lk2[h] = ToldOf(l, D2)
      BY <2>2, <2>5, <2>7, <3>1 DEF ToldOf
    <3> HIDE DEF l
    <3>3. Kept(l, ToldOf(l, D2), P, D2, mirror) /\ Asking(ToldOf(l, D2)) = Asking(l)
      BY <1>4, <3>1, ToldKept
    <3>4. QED
      BY <3>1, <3>2, <3>3 DEF l, Kept
  <2>8. Good(lk2)
    BY <1>2, <2>6, <2>7
  <2>9. link' = Swept(lk2, client)
    BY <1>13 DEF lk2, lkt, D2
  <2> HIDE DEF Good
  <2>10. QED
    BY <2>5, <2>8, <2>9
<1>14. QED
  BY <1>3, <1>10, <1>12, <1>13 DEF Works, id

LEMMA FinishesOrdered ==
  ASSUME Inv, Ordered, NEW g \in Gens, NEW n \in IDs, Finishes(g, n)
  PROVE  Ordered'
<1>1. PICK request \in link[g].working : Dispatches(g, request)
  BY DEF Finishes
<1>2. link \in [Gens -> Link]
  BY InvTransports
<1>3. request \in Request
  BY <1>2 DEF Link
<1> DEFINE l1 == [link[g] EXCEPT !.working = @ \ {request}]
           lk == [link EXCEPT ![g] = l1]
<1>4. Works(lk, g, request) /\ UNCHANGED <<client, promised, mirror, failing>>
  BY <1>1 DEF Dispatches
<1>5. /\ l1 \in Link /\ l1.up = link[g].up /\ l1.down = link[g].down
      /\ l1.working = link[g].working \ {request}
      /\ l1.scoped = link[g].scoped /\ l1.phase = link[g].phase
  BY <1>2 DEF Link
<1>6. lk = [link EXCEPT ![g] = l1]
  OBVIOUS
<1> HIDE DEF l1, lk
<1>7. PICK lk2 \in [Gens -> Link] :
         /\ link' = Swept(lk2, client)
         /\ \A h \in Gens : Scope(lk2[h]) /\ Asking(lk2[h]) \subseteq Asking(link[h])
         /\ client.current # None =>
              Orderly(lk2[client.current], promised \ failing, done', mirror)
  BY <1>3, <1>4, <1>5, <1>6, WorksOrdered
<1>8. AllKept(lk2, link', promised \ failing, done', mirror)
  BY <1>7, SweptKept
<1>9. client.current # None => client.current = client.mine /\ client.current \in Gens
  BY DEF Inv, LoopInv, Client
<1>10. \A h \in Gens : Scope(link'[h]) /\ Asking(link'[h]) \subseteq Asking(link[h])
  BY <1>7, <1>8 DEF AllKept
<1>11. client.current # None =>
         Orderly(link'[client.current], promised \ failing, done', mirror)
  BY <1>7, <1>8, <1>9 DEF AllKept
<1>12. QED
  BY <1>4, <1>10, <1>11 DEF Ordered

-----------------------------------------------------------------------------
(* The steps of the client. *)

LEMMA SweptScope ==
  ASSUME NEW lk \in [Gens -> Link], NEW c, \A h \in Gens : Scope(lk[h])
  PROVE  \A h \in Gens : /\ Scope(Swept(lk, c)[h])
                         /\ Asking(Swept(lk, c)[h]) \subseteq Asking(lk[h])
<1> TAKE h \in Gens
<1> DEFINE l == lk[h]
           quiet == [l EXCEPT !.down = <<>>]
<1>1. Swept(lk, c)[h] \in {Unused, quiet, l}
  BY DEF Swept
<1>2. /\ quiet.down = <<>> /\ quiet.up = l.up /\ quiet.working = l.working
      /\ quiet.scoped = l.scoped /\ quiet.phase = l.phase
  BY DEF Link
<1> HIDE DEF quiet
<1>3. Scope(quiet) /\ Asking(quiet) = Asking(l)
  BY <1>2, NoFrames DEF Scope, Asking, Working
<1>4. QED
  BY <1>1, <1>3, UnusedOrder

LEMMA ShutKept ==
  ASSUME NEW lk \in [Gens -> Link], NEW g \in Gens \cup {None}, NEW P, NEW D, NEW m,
         \A h \in Gens : Scope(lk[h])
  PROVE  /\ Shut(lk, g) \in [Gens -> Link]
         /\ \A h \in Gens : Kept(lk[h], Shut(lk, g)[h], P, D, m)
<1>1. CASE g = None
  BY <1>1, KeptSame DEF Shut
<1>2. CASE g # None
  <2> DEFINE l == [lk[g] EXCEPT !.shut = TRUE]
  <2>1. /\ l \in Link /\ l.down = lk[g].down /\ l.up = lk[g].up
        /\ l.working = lk[g].working /\ l.scoped = lk[g].scoped /\ l.phase = lk[g].phase
    BY <1>2 DEF Link
  <2>2. Shut(lk, g) = [lk EXCEPT ![g] = l]
    BY <1>2 DEF Shut
  <2> HIDE DEF l
  <2>3. Kept(lk[g], l, P, D, m)
    BY <1>2, <2>1, LessToDo DEF Lively, Scope
  <2>4. QED
    BY <1>2, <2>1, <2>2, <2>3, KeptSame
<1>3. QED
  BY <1>1, <1>2

LEMMA ConsumedOrder ==
  ASSUME NEW g \in Gens, link \in [Gens -> Link], Received(g), \A h \in Gens : Scope(link[h])
  PROVE  /\ Consumed(link, g) \in [Gens -> Link]
         /\ \A h \in Gens : Scope(Consumed(link, g)[h])
         /\ \A h \in Gens : Asking(Consumed(link, g)[h]) = Asking(link[h])
         /\ \A h \in Gens : h # g => Consumed(link, g)[h] = link[h]
         /\ Consumed(link, g)[g].down = Tail(link[g].down)
         /\ Consumed(link, g)[g].up = link[g].up
         /\ Consumed(link, g)[g].working = link[g].working
         /\ Consumed(link, g)[g].scoped = link[g].scoped
         /\ Consumed(link, g)[g].phase = link[g].phase
         /\ link[g].down \in Seq(DownFrame) /\ link[g].down # <<>>
<1> DEFINE l == [link[g] EXCEPT !.down = Tail(link[g].down)]
<1>1. link[g].down \in Seq(DownFrame) /\ link[g].down # <<>>
  BY DEF Received, Link
<1>2. Tail(link[g].down) \in Seq(DownFrame)
  BY <1>1, HeadTailProperties
<1>3. /\ l \in Link /\ l.down = Tail(link[g].down) /\ l.up = link[g].up
      /\ l.working = link[g].working /\ l.scoped = link[g].scoped /\ l.phase = link[g].phase
  BY <1>2 DEF Link
<1>4. Consumed(link, g) = [link EXCEPT ![g] = l]
  BY DEF Consumed
<1> HIDE DEF l
<1>5. HasFull(l.down) => HasFull(link[g].down)
  BY <1>1, <1>3, IdsOfTail
<1>6. Scope(l) /\ Asking(l) = Asking(link[g])
  BY <1>3, <1>5 DEF Scope, Lively, Asking, Working
<1>7. QED
  BY <1>1, <1>3, <1>4, <1>6

LEMMA TearsDownOrdered ==
  ASSUME NEW d \in Client, NEW lk \in [Gens -> Link], \A h \in Gens : Scope(lk[h]),
         Inv, d.pending = client.pending, TearsDown(d, lk)
  PROVE  Ordered'
<1>1. /\ client'.current = None
      /\ promised' = {}
      /\ link' = Swept(Shut(lk, d.current), d)
  BY DEF TearsDown, Dropped, Settled, Client, Inv, PromisesInv
<1>2. d.current \in Gens \cup {None}
  BY DEF Client
<1>3. /\ Shut(lk, d.current) \in [Gens -> Link]
      /\ \A h \in Gens : Scope(Shut(lk, d.current)[h])
  BY <1>2, ShutKept DEF Kept
<1>4. \A h \in Gens : Scope(link'[h])
  BY <1>1, <1>3, SweptScope
<1>5. QED
  BY <1>1, <1>4 DEF Ordered

LEMMA AskingIsInFlight ==
  ASSUME NEW g \in Gens, link \in [Gens -> Link]
  PROVE  Asking(link[g]) \subseteq InFlight
<1> DEFINE l == link[g]
           frames == {l.up[k] : k \in DOMAIN l.up}
           named == l.working \cup {f \in frames : f.type # "hello"}
<1>1. {r.id : r \in named} \subseteq InFlight
  BY DEF InFlight
<1>2. Working(l) \subseteq {r.id : r \in named}
  BY DEF Working
<1>3. ASSUME NEW x \in Ids(l.up)
      PROVE  x \in {r.id : r \in named}
  <2>1. PICK k \in 1..Len(l.up) : Numbered(l.up[k]) /\ x = l.up[k].id
    BY <1>3 DEF Ids
  <2>2. l.up \in Seq(UpFrame)
    BY DEF Link
  <2>3. k \in DOMAIN l.up
    BY <2>1, <2>2
  <2>4. l.up[k] \in named
    BY <2>1, <2>3 DEF Numbered
  <2>5. QED
    BY <2>1, <2>4
<1>4. QED
  BY <1>1, <1>2, <1>3 DEF Asking

LEMMA AsksOne ==
  ASSUME NEW l \in Link, NEW r \in Request, NEW l2, NEW P, NEW D, NEW m, Scope(l),
         l2.up = Append(l.up, r), l2.down = l.down, l2.working = l.working,
         l2.scoped = l.scoped, l2.phase = l.phase
  PROVE  /\ Scope(l2) /\ Asking(l2) = Asking(l) \cup {r.id}
         /\ Orderly(l, P, D, m) /\ r.id \notin P => Orderly(l2, P \cup {r.id}, D, m)
<1>1. l.up \in Seq(UpFrame) /\ r \in UpFrame /\ Numbered(r)
  BY RequestsAreFrames DEF Link, Request, Numbered
<1>2. l2.up = l.up \o <<r>>
  BY <1>1, AppendIsConcat
<1>3. /\ Ids(l2.up) = Ids(l.up) \cup {r.id}
      /\ NoTwins(l.up) /\ r.id \notin Ids(l.up) => NoTwins(l2.up)
  BY <1>1, <1>2, IdsOfOneMore
<1>4. Working(l2) = Working(l) /\ Asking(l2) = Asking(l) \cup {r.id} /\ (Lively(l2) <=> Lively(l))
  BY <1>3 DEF Working, Asking, Lively
<1>5. Scope(l2)
  BY <1>4 DEF Scope
<1>6. ASSUME Orderly(l, P, D, m), r.id \notin P
      PROVE  Orderly(l2, P \cup {r.id}, D, m)
  <2>1. r.id \notin Asking(l) /\ r.id \notin Ids(l.down)
        /\ r.id \notin Ids(l.up) /\ r.id \notin Working(l)
    BY <1>6 DEF Orderly, Once, Asking
  <2>2. Once(l2, P \cup {r.id})
    BY <1>3, <1>4, <1>6, <2>1 DEF Orderly, Once
  <2>3. QED
    BY <1>4, <1>6, <2>2 DEF Orderly
<1>7. QED
  BY <1>4, <1>5, <1>6

LEMMA AsksOrdered ==
  ASSUME Inv, Ordered, NEW c \in Client, NEW lk \in [Gens -> Link],
         NEW type \in {"subscribe", "mutate"}, Asks(c, lk, type),
         c.current = client.current, client.current # None,
         \A h \in Gens : Scope(lk[h]) /\ Asking(lk[h]) = Asking(link[h]),
         Orderly(lk[client.current], promised \ failing, done, mirror),
         UNCHANGED <<mirror, done>>
  PROVE  Ordered'
<1> DEFINE g == c.current
           P == promised \ failing
<1>1. PICK id \in IDs \ InFlight :
        /\ client' = [c EXCEPT !.pending = @ \cup {id}]
        /\ promised' = promised \cup {id}
        /\ \/ /\ ~Dead(lk, g)
              /\ link' = [lk EXCEPT ![g].up = Append(@, [type |-> type, id |-> id])]
              /\ failing' = failing
           \/ /\ link' = lk
              /\ failing' = failing \cup {id}
  BY DEF Asks
<1>2. g \in Gens /\ client'.current = g
  BY <1>1 DEF Client
<1>3. link \in [Gens -> Link]
  BY InvTransports
<1>4. /\ id \notin promised /\ id \notin failing
      /\ \A h \in Gens : id \notin Asking(link[h])
  BY <1>1, <1>3, AskingIsInFlight DEF InFlight
<1>5. ASSUME NEW h \in Gens, h # g
      PROVE  Asking(link[h]) \cap promised' = {}
  BY <1>1, <1>4, <1>5 DEF Ordered
<1>6. CASE link' = lk /\ failing' = failing \cup {id}
  <2>1. promised' \ failing' = P
    BY <1>1, <1>4, <1>6
  <2>2. QED
    BY <1>2, <1>5, <1>6, <2>1 DEF Ordered
<1>7. CASE /\ link' = [lk EXCEPT ![g].up = Append(@, [type |-> type, id |-> id])]
           /\ failing' = failing
  <2> DEFINE r == [type |-> type, id |-> id]
             l == [lk[g] EXCEPT !.up = Append(lk[g].up, r)]
  <2>1. r \in Request /\ r.id = id
    BY DEF Request
  <2>2. link' = [lk EXCEPT ![g] = l]
    BY <1>7
  <2> HIDE DEF r
  <2>3. /\ l.up = Append(lk[g].up, r) /\ l.down = lk[g].down /\ l.working = lk[g].working
        /\ l.scoped = lk[g].scoped /\ l.phase = lk[g].phase
    BY <1>2 DEF Link
  <2> HIDE DEF l
  <2>4. /\ Scope(l)
        /\ Orderly(lk[g], P, done, mirror) /\ id \notin P => Orderly(l, P \cup {id}, done, mirror)
    BY <1>2, <2>1, <2>3, AsksOne
  <2>5. promised' \ failing' = P \cup {id} /\ id \notin P
    BY <1>1, <1>4, <1>7
  <2>6. Orderly(l, promised' \ failing', done, mirror)
    BY <2>4, <2>5
  <2>7. link'[g] = l /\ \A h \in Gens : h # g => link'[h] = lk[h]
    BY <1>2, <2>2
  <2> HIDE DEF g, P
  <2>8. \A h \in Gens : Scope(link'[h])
    BY <2>4, <2>7
  <2>9. \A h \in Gens : h # client'.current => Asking(link'[h]) \cap promised' = {}
    BY <1>2, <1>5, <2>7
  <2>10. QED
    BY <1>2, <2>6, <2>7, <2>8, <2>9 DEF Ordered
<1>8. QED
  BY <1>1, <1>6, <1>7

LEMMA OrderedInit == Init => Ordered
<1> SUFFICES ASSUME Init PROVE Ordered
  OBVIOUS
<1>1. client.current = None /\ promised = {} /\ \A g \in Gens : link[g] = Unused
  BY DEF Init
<1>2. QED
  BY <1>1, UnusedOrder DEF Ordered

LEMMA EndsOrdered ==
  ASSUME Inv, NEW c, NEW lk \in [Gens -> Link], \A h \in Gens : Scope(lk[h]),
         NEW result \in {"failed", "lost", "refused"},
         c \in Client, c.loop \in {"greeting", "pumping"}, c.control # "none",
         c.status = "refused" => result = "refused",
         c.pending = client.pending, Ends(c, lk, result)
  PROVE  Ordered'
<1> DEFINE d == After(c, result)
<1>1. d \in Client /\ d.pending = client.pending
  BY AfterLoop
<1>2. TearsDown(d, lk)
  BY DEF Ends
<1> HIDE DEF d
<1>3. QED
  BY <1>1, <1>2, TearsDownOrdered

(* A step that touches neither transports nor promises. *)
LEMMA StillOrdered ==
  ASSUME Ordered, client'.current = client.current,
         UNCHANGED <<promised, mirror, failing, link, done>>
  PROVE  Ordered'
BY DEF Ordered

LEMMA OwnerOrdered ==
  ASSUME Inv, Ordered, Connect \/ Disconnect \/ Disconnected \/ Requests
  PROVE  Ordered'
<1>1. client \in Client /\ link \in [Gens -> Link]
  BY InvTransports DEF Inv, LoopInv
<1>2. CASE Connect \/ Disconnected
  <2>1. client'.current = client.current
    BY <1>1, <1>2 DEF Connect, Disconnected, Client
  <2>2. QED
    BY <1>2, <2>1, StillOrdered DEF Connect, Disconnected
<1>3. CASE Disconnect
  <2> DEFINE d == [client EXCEPT !.control = "aborted", !.status = "idle", !.waiting = FALSE]
  <2>1. d \in Client /\ d.pending = client.pending /\ TearsDown(d, link)
    BY <1>1, <1>3 DEF Disconnect, Client
  <2> HIDE DEF d
  <2>2. QED
    BY <1>1, <2>1, TearsDownOrdered DEF Ordered
<1>4. CASE Requests
  <2>1. /\ client.current # None /\ Asks(client, link, "mutate") /\ UNCHANGED <<mirror, done>>
    BY <1>4 DEF Requests
  <2>2. Orderly(link[client.current], promised \ failing, done, mirror)
    BY <2>1 DEF Ordered
  <2>3. \A h \in Gens : Scope(link[h])
    BY DEF Ordered
  <2>4. QED
    BY <1>1, <2>1, <2>2, <2>3, AsksOrdered
<1>5. QED
  BY <1>2, <1>3, <1>4

LEMMA SendFailsOrdered ==
  ASSUME Inv, Ordered, NEW id \in IDs, SendFails(id)
  PROVE  Ordered'
<1> DEFINE P == promised \ failing
           lk == Shut(link, client.current)
<1>1. /\ id \in failing
      /\ client' = [client EXCEPT !.pending = client.pending \ {id}]
      /\ promised' = promised \ {id} /\ done' = done \ {id}
      /\ failing' = failing \ {id}
      /\ mirror' = [mirror EXCEPT !.shows = mirror.shows \ {id}]
      /\ link' = lk
  BY DEF SendFails, Settled
<1>2. /\ client \in Client /\ link \in [Gens -> Link]
      /\ client.current \in Gens \cup {None}
      /\ \A h \in Gens : Scope(link[h])
  BY InvTransports DEF Inv, LoopInv, Client, Ordered
<1>3. client'.current = client.current
  BY <1>1, <1>2 DEF Client
<1>4. mirror'.stale = mirror.stale /\ mirror'.shows = mirror.shows \ {id}
  BY <1>1 DEF Inv, MirrorInv
<1>5. promised' \ failing' = P
  BY <1>1
<1>6. \A h \in Gens : Kept(link[h], lk[h], P, done, mirror)
  BY <1>2, ShutKept
<1>7. \A h \in Gens : Scope(lk[h]) /\ Asking(lk[h]) \subseteq Asking(link[h])
  BY <1>2, <1>6 DEF Kept
<1> HIDE DEF lk
<1>8. ASSUME client.current # None
      PROVE  Orderly(lk[client.current], P, done', mirror')
  <2> DEFINE l == lk[client.current]
  <2>1. Orderly(l, P, done, mirror)
    BY <1>2, <1>6, <1>8 DEF Kept, Ordered
  <2> HIDE DEF l
  <2>2. id \notin Ids(l.down)
    BY <1>1, <2>1 DEF Orderly, Once
  <2>3. Shown(l.down, done', mirror')
    <3>1. Shown(l.down, done, mirror)
      BY <2>1 DEF Orderly
    <3>2. \A x \in done' \cap Ids(l.down) :
            x \in done /\ (x \in mirror.shows => x \in mirror'.shows)
      BY <1>1, <1>4, <2>2
    <3>3. QED
      BY <1>4, <3>1, <3>2, ShownOfOthers
  <2>4. QED
    BY <1>4, <2>1, <2>3 DEF Orderly, l
<1>9. QED
  BY <1>1, <1>3, <1>5, <1>7, <1>8 DEF Ordered

LEMMA OpeningOrdered ==
  ASSUME Inv, Ordered, OpenFails \/ OpensTooLate \/ Opens \/ Delays
  PROVE  Ordered'
<1>1. /\ client \in Client /\ link \in [Gens -> Link] /\ \A g \in Gens : Sound(link[g])
      /\ \A h \in Gens : Scope(link[h])
  BY InvTransports DEF Inv, LoopInv, Ordered
<1>2. client.current = None /\ promised = {} /\ mirror.stale /\ client.control # "none"
      /\ client.loop \in {"opening", "delaying"}
  BY DEF OpenFails, OpensTooLate, Opens, Delays, Inv, LoopInv, PromisesInv, MirrorInv
<1>3. CASE OpenFails \/ Delays
  <2>1. client'.current = client.current
    BY <1>1, <1>3 DEF OpenFails, Delays, After, Client
  <2>2. QED
    BY <1>3, <2>1, StillOrdered DEF OpenFails, Delays
<1>4. CASE OpensTooLate
  <2>1. PICK g \in Gens :
          /\ link[g].phase = "unused"
          /\ link' = Swept([link EXCEPT ![g].phase = "backlog", ![g].shut = TRUE], client)
    BY <1>4 DEF OpensTooLate
  <2> DEFINE l == [Unused EXCEPT !.phase = "backlog", !.shut = TRUE]
             lk == [link EXCEPT ![g] = l]
  <2>2. link[g] = Unused
    BY <1>1, <2>1 DEF Sound, UpShape
  <2>3. l \in Link /\ l.down = <<>> /\ ~l.scoped
    BY EmptySeq DEF Link, Unused
  <2>4. link' = Swept(lk, client)
    BY <1>1, <2>1, <2>2
  <2> HIDE DEF l
  <2>5. Scope(l)
    BY <2>3, NoFrames DEF Scope
  <2>6. lk \in [Gens -> Link] /\ \A h \in Gens : Scope(lk[h])
    BY <1>1, <2>3, <2>5
  <2> HIDE DEF lk
  <2>7. \A h \in Gens : Scope(link'[h])
    BY <2>4, <2>6, SweptScope
  <2>8. client'.current = None /\ promised' = {}
    BY <1>1, <1>2, <1>4 DEF OpensTooLate, After, Client
  <2>9. QED
    BY <2>7, <2>8 DEF Ordered
<1>5. CASE Opens
  <2> DEFINE hello == [type |-> "hello"]
             l == [Unused EXCEPT !.phase = "backlog", !.up = <<hello>>]
  <2>1. PICK g \in Gens :
          /\ link[g].phase = "unused"
          /\ client' = [client EXCEPT !.current = g, !.mine = g, !.loop = "greeting"]
          /\ link' = [link EXCEPT ![g].phase = "backlog", ![g].up = <<hello>>]
    BY <1>5 DEF Opens
  <2>2. link[g] = Unused
    BY <1>1, <2>1 DEF Sound, UpShape
  <2>3. link' = [link EXCEPT ![g] = l]
    BY <1>1, <2>1, <2>2
  <2>4. l.up = <<hello>> /\ l.down = <<>> /\ l.working = {} /\ ~l.scoped
    BY DEF Unused
  <2>5. Ids(<<hello>>) = {} /\ NoTwins(<<hello>>)
    BY DEF Ids, NoTwins, Numbered
  <2> HIDE DEF l, hello
  <2>6. Scope(l) /\ Asking(l) = {} /\ Working(l) = {}
    BY <2>4, <2>5, NoFrames DEF Scope, Asking, Working
  <2>7. Once(l, promised \ failing)
    BY <2>4, <2>5, <2>6, NoFrames DEF Once
  <2>8. Orderly(l, promised \ failing, done, mirror)
    BY <1>2, <2>4, <2>7, NoFrames DEF Orderly
  <2>9. /\ client'.current = g /\ link'[g] = l
        /\ \A h \in Gens : h # g => link'[h] = link[h]
    BY <1>1, <2>1, <2>3 DEF Client
  <2>10. UNCHANGED <<promised, failing, done, mirror>>
    BY <1>5 DEF Opens
  <2>11. QED
    BY <1>1, <1>2, <2>6, <2>8, <2>9, <2>10 DEF Ordered
<1>6. QED
  BY <1>3, <1>4, <1>5

LEMMA GreetingOrdered ==
  ASSUME Inv, Ordered, \/ HandshakeExpires \/ GreetingFails \/ Greeted \/ Refused
                       \/ GreetedWrongly \/ Loses \/ RefusedLate \/ LosesOnFrame
  PROVE  Ordered'
<1>1. /\ client \in Client /\ link \in [Gens -> Link] /\ \A h \in Gens : Scope(link[h])
      /\ client.mine \in Gens /\ client.control # "none" /\ client.status # "refused"
      /\ client.current # None => client.current = client.mine
      /\ client.loop \in {"greeting", "pumping"}
  BY InvTransports, OnATransport
     DEF Inv, LoopInv, Ordered, HandshakeExpires, GreetingFails, Greeted, Refused,
         GreetedWrongly, Loses, RefusedLate, LosesOnFrame, Throws
<1> DEFINE g == client.mine
           lk == Consumed(link, g)
<1>2. CASE HandshakeExpires
  <2>1. link' = Shut(link, g) /\ UNCHANGED <<client, promised, mirror, failing, done>>
    BY <1>2 DEF HandshakeExpires
  <2>2. \A h \in Gens : Kept(link[h], link'[h], promised \ failing, done, mirror)
    BY <1>1, <2>1, ShutKept
  <2>3. QED
    BY <2>1, <2>2, KeptOrdered DEF AllKept, Kept
<1>3. CASE GreetingFails \/ Loses
  <2>1. Ends(client, link, "failed") \/ Ends(client, link, "lost")
    BY <1>3 DEF GreetingFails, Loses
  <2>2. QED
    BY <1>1, <2>1, EndsOrdered
<1>4. ASSUME Received(g)
      PROVE  /\ lk \in [Gens -> Link] /\ \A h \in Gens : Scope(lk[h])
             /\ \A h \in Gens : Asking(lk[h]) = Asking(link[h])
             /\ \A h \in Gens : h # g => lk[h] = link[h]
             /\ lk[g].down = Tail(link[g].down) /\ lk[g].up = link[g].up
             /\ lk[g].working = link[g].working /\ lk[g].scoped = link[g].scoped
             /\ lk[g].phase = link[g].phase
             /\ link[g].down \in Seq(DownFrame) /\ link[g].down # <<>>
  BY <1>1, <1>4, ConsumedOrder
<1> HIDE DEF lk
<1>5. CASE GreetedWrongly \/ LosesOnFrame
  <2>1. Received(g) /\ (Ends(client, lk, "failed") \/ Ends(client, lk, "lost"))
    BY <1>5 DEF GreetedWrongly, LosesOnFrame, Throws, lk
  <2>2. QED
    BY <1>1, <1>4, <2>1, EndsOrdered
<1>6. CASE Refused \/ RefusedLate
  <2> DEFINE c == [client EXCEPT !.status = "refused"]
  <2>1. Received(g) /\ Ends(c, lk, "refused")
    BY <1>6 DEF Refused, RefusedLate, Throws, lk
  <2>2. /\ c \in Client /\ c.loop \in {"greeting", "pumping"} /\ c.control # "none"
        /\ c.pending = client.pending
    BY <1>1 DEF Client
  <2> HIDE DEF c
  <2>3. QED
    BY <1>4, <2>1, <2>2, EndsOrdered
<1>7. CASE Greeted
  <2> DEFINE c == [client EXCEPT !.retrying = FALSE, !.status = "connected",
                                 !.waiting = FALSE, !.loop = "pumping"]
  <2>1. c \in Client /\ c.current = client.current /\ c.mine = g
    BY <1>1 DEF Client
  <2>2. /\ Received(g) /\ Head(link[g].down).type = "hello"
        /\ IF c.current = None
             THEN client' = c /\ link' = lk /\ UNCHANGED <<promised, failing>>
             ELSE Asks(c, lk, "subscribe")
        /\ UNCHANGED <<mirror, done>>
    BY <1>7, <2>1 DEF Greeted, lk
  <2> HIDE DEF c
  <2>3. CASE c.current = None
    BY <1>4, <2>1, <2>2, <2>3 DEF Ordered
  <2>4. CASE c.current # None
    <3>1. Orderly(link[g], promised \ failing, done, mirror) /\ client.current = g
      BY <1>1, <2>1, <2>4 DEF Ordered
    <3> DEFINE s == link[g].down
    <3>2. ~Full(Head(s)) /\ ~Numbered(Head(s)) /\ s \in Seq(DownFrame) /\ s # <<>>
      BY <1>4, <2>2 DEF Full, Numbered
    <3> HIDE DEF s
    <3>3. /\ Ids(Tail(s)) = Ids(s) /\ (NoTwins(s) => NoTwins(Tail(s)))
      BY <3>2, IdsOfTail
    <3>4. Shown(s, done, mirror) => Shown(Tail(s), done, mirror)
      BY <3>2, ShownTail
    <3>5. /\ lk[g].down = Tail(s) /\ link[g].down = s /\ lk[g].up = link[g].up
          /\ lk[g].working = link[g].working
          /\ Asking(lk[g]) = Asking(link[g]) /\ Working(lk[g]) = Working(link[g])
          /\ (Lively(lk[g]) <=> Lively(link[g]))
      BY <1>1, <1>4, <2>2 DEF Working, Lively, s
    <3>6. Orderly(lk[g], promised \ failing, done, mirror)
      BY <3>1, <3>3, <3>4, <3>5 DEF Orderly, Once
    <3>7. QED
      BY <1>4, <2>1, <2>2, <2>4, <3>1, <3>6, AsksOrdered
  <2>5. QED
    BY <2>3, <2>4
<1>8. QED
  BY <1>2, <1>3, <1>5, <1>6, <1>7

LEMMA PumpsOrdered ==
  ASSUME Inv, Ordered, Pumps
  PROVE  Ordered'
<1> DEFINE g == client.mine
           s == link[g].down
           frame == Head(s)
           l2 == link'[g]
           P == promised \ failing
<1>1. /\ g \in Gens /\ client \in Client /\ link \in [Gens -> Link] /\ Received(g)
      /\ Handles(frame) /\ link' = Consumed(link, g) /\ failing' = failing
      /\ client.current # None => client.current = g
      /\ \A h \in Gens : Scope(link[h])
      /\ done \subseteq promised
  BY InvTransports, OnATransport DEF Pumps, Inv, LoopInv, Ordered, PromisesInv
<1>2. /\ \A h \in Gens : Scope(link'[h])
      /\ \A h \in Gens : Asking(link'[h]) = Asking(link[h])
      /\ l2.down = Tail(s) /\ l2.up = link[g].up
      /\ l2.working = link[g].working /\ l2.scoped = link[g].scoped
      /\ l2.phase = link[g].phase
      /\ s \in Seq(DownFrame) /\ s # <<>>
  BY <1>1, ConsumedOrder
<1> HIDE DEF s, frame, l2
<1>3. frame = Head(s)
  BY DEF frame
<1>4. CASE client.current # g
  BY <1>1, <1>2, <1>4 DEF Handles, Ordered
<1>5. SUFFICES ASSUME client.current = g
               PROVE  /\ client'.current = g
                      /\ promised' \subseteq promised
                      /\ Orderly(l2, promised' \ failing, done', mirror')
  BY <1>1, <1>2, <1>4, <1>5, DaemonLinkAssumption DEF Ordered, l2
<1>6. HandlesAny(frame)
  BY <1>1, <1>5 DEF Handles
<1>7. /\ Once(link[g], P) /\ Shown(s, done, mirror) /\ (~mirror.stale => Lively(link[g]))
  BY <1>1, <1>5, DaemonLinkAssumption DEF Ordered, Orderly, s
<1>8. /\ Working(l2) = Working(link[g]) /\ Asking(l2) = Asking(link[g])
      /\ Lively(l2) <=> Lively(link[g])
  BY <1>1, <1>2 DEF Working, Lively, Asking
<1>9. /\ Ids(Tail(s)) \subseteq Ids(s) /\ (NoTwins(s) => NoTwins(Tail(s)))
      /\ Numbered(frame) => frame.id \in Ids(s)
      /\ NoTwins(s) /\ Numbered(frame) => frame.id \notin Ids(Tail(s))
      /\ Full(frame) => HasFull(s)
  <2>1. /\ Numbered(frame) => Ids(s) = Ids(Tail(s)) \cup {frame.id}
        /\ ~Numbered(frame) => Ids(s) = Ids(Tail(s))
        /\ NoTwins(s) => NoTwins(Tail(s))
        /\ NoTwins(s) /\ Numbered(frame) => frame.id \notin Ids(Tail(s))
        /\ HasFull(s) <=> HasFull(Tail(s)) \/ Full(frame)
    BY <1>2, <1>3, IdsOfTail
  <2>2. QED
    BY <2>1
<1>10. ASSUME NEW Q, Asking(link[g]) \cup Ids(Tail(s)) \subseteq Q
       PROVE  Once(l2, Q)
  BY <1>2, <1>7, <1>8, <1>9, <1>10 DEF Once, s
<1>11. mirror.stale \in BOOLEAN /\ MirrorInv
  BY DEF Inv, MirrorInv
<1>12. CASE /\ frame.type = "full"
            /\ mirror' = [stale |-> FALSE, of |-> g, shows |-> frame.shows \cap promised]
            /\ UNCHANGED <<client, promised, done>>
  <2>1. Full(frame)
    BY <1>12 DEF Full
  <2>2. mirror'.shows = frame.shows \cap promised /\ ~mirror'.stale
    BY <1>12
  <2>3. Shown(Tail(s), done, mirror')
    <3>1. \A x \in done \cap Head(s).shows : x \in mirror'.shows
      BY <1>1, <1>3, <2>2
    <3>2. QED
      BY <1>2, <1>3, <1>7, <2>1, <3>1, ShownTail
  <2>4. Lively(l2)
    BY <1>1, <1>8, <1>9, <2>1 DEF Scope, s
  <2>5. Once(l2, P)
    BY <1>7, <1>9, <1>10 DEF Once, s
  <2>6. QED
    BY <1>2, <1>5, <1>12, <2>3, <2>4, <2>5 DEF Orderly
<1>13. CASE /\ frame.type = "partial"
            /\ mirror' = IF mirror.stale THEN mirror ELSE [mirror EXCEPT !.of = g]
            /\ UNCHANGED <<client, promised, done>>
  <2>1. ~Full(frame)
    BY <1>13 DEF Full
  <2>2. mirror'.shows = mirror.shows /\ mirror'.stale = mirror.stale
    BY <1>13, <1>11 DEF MirrorInv
  <2>3. Shown(Tail(s), done, mirror')
    BY <1>2, <1>3, <1>7, <2>1, <2>2, ShownTail
  <2>4. Once(l2, P)
    BY <1>7, <1>9, <1>10 DEF Once, s
  <2>5. QED
    BY <1>2, <1>5, <1>7, <1>8, <1>13, <2>2, <2>3, <2>4 DEF Orderly
<1>14. CASE /\ frame.type \in {"acknowledged", "failed"}
            /\ client' = [client EXCEPT !.pending = @ \ {frame.id}]
            /\ Settled(client.pending \cap {frame.id})
            /\ mirror' = [mirror EXCEPT !.shows = @ \ (client.pending \cap {frame.id})]
  <2> DEFINE gone == client.pending \cap {frame.id}
  <2>1. ~Full(frame) /\ Numbered(frame)
    BY <1>14 DEF Full, Numbered
  <2>2. /\ client'.current = g /\ promised' = promised \ gone /\ done' = done \ gone
        /\ mirror'.stale = mirror.stale /\ mirror'.shows = mirror.shows \ gone
    BY <1>1, <1>5, <1>11, <1>14 DEF Client, Settled, MirrorInv
  <2>3. Shown(Tail(s), done', mirror')
    <3>1. /\ done' \subseteq done
          /\ \A x \in done' : mirror.stale \/ x \in mirror.shows
               => mirror'.stale \/ x \in mirror'.shows
      BY <2>2
    <3>2. QED
      BY <1>2, <1>3, <1>7, <2>1, <3>1, ShownTail
  <2>4. Once(l2, promised' \ failing)
    <3>1. Asking(link[g]) \cup Ids(s) \subseteq P
      BY <1>7 DEF Once, s
    <3>2. frame.id \notin Asking(link[g]) /\ frame.id \notin Ids(Tail(s))
      BY <1>7, <1>9, <2>1 DEF Once, s
    <3>3. QED
      BY <1>9, <1>10, <2>2, <3>1, <3>2
  <2>5. QED
    BY <1>2, <1>7, <1>8, <2>2, <2>3, <2>4 DEF Orderly
<1>15. QED
  BY <1>6, <1>12, <1>13, <1>14 DEF HandlesAny

LEMMA OrderedInductive == Inv /\ Ordered /\ [Next]_vars => Ordered'
<1>1. ASSUME Ordered, UNCHANGED vars
      PROVE  Ordered'
  BY <1>1, StillOrdered DEF vars
<1>2. ASSUME Inv, Ordered, Next
      PROVE  Ordered'
  BY <1>2, OwnerOrdered, SendFailsOrdered, OpeningOrdered, GreetingOrdered, PumpsOrdered,
     DaemonStepOrdered, FinishesOrdered, EnvironmentOrdered
     DEF Next, ClientStep, Opening, Environment
<1>3. QED
  BY <1>1, <1>2

LEMMA OrderedHolds == Spec => []Ordered
BY OrderedInit, InvHolds, OrderedInductive, PTL DEF Spec

LEMMA OrderedIsShown == Inv /\ Ordered => AcknowledgedIsShown
<1> DEFINE g == client.mine
           s == link[g].down
<1> SUFFICES ASSUME Inv, Ordered, g # None, g = client.current, ~mirror.stale, Received(g),
                    Head(s).type = "acknowledged", Head(s).id \in done
             PROVE  Head(s).id \in mirror.shows
  BY DEF AcknowledgedIsShown
<1>1. g \in Gens /\ Shown(s, done, mirror)
  BY DEF Inv, LoopInv, Client, Ordered, Orderly
<1>2. s \in Seq(DownFrame) /\ s # <<>>
  BY <1>1, InvTransports DEF Received, Link
<1> HIDE DEF s
<1>3. 1 \in 1..Len(s) /\ s[1] = Head(s) /\ 1..1 - 1 = {}
  BY <1>2, LenProperties
<1>4. QED
  BY <1>1, <1>3 DEF Shown

(* Read your writes, for any number of requests in flight, transports and    *)
(* restarts of the daemon: a client whose mirror is fresh has been shown a   *)
(* change when its acknowledgement comes.                                    *)
THEOREM ClientsReadTheirWrites == Spec => []AcknowledgedIsShown
BY InvHolds, OrderedHolds, OrderedIsShown, PTL
=============================================================================
