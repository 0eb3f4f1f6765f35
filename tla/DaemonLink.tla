----------------------------- MODULE DaemonLink -----------------------------
(***************************************************************************)
(* One client's connection to the daemon over its whole life: connect,     *)
(* the handshake with its two deadlines, requests and their replies, loss, *)
(* backoff and reconnection, refusal, and disconnect                       *)
(* (packages/client/src/connection.ts), over the transports it opens one   *)
(* after the other, against the daemon that accepts, greets, serves and    *)
(* closes them (packages/daemon/src/listener.ts and server.ts) and that    *)
(* may die and be started again.                                           *)
(*                                                                         *)
(* Both ends are single threads: a step is what runs between two awaits.   *)
(* The content of the state is left to TerminalServer; here a state frame  *)
(* is a full snapshot or a partial update, and the mirror remembers which  *)
(* connection fed it.                                                      *)
(***************************************************************************)
EXTENDS Naturals, Sequences, FiniteSets

CONSTANTS Gens,       \* names for the transports that exist at one time
          IDs,        \* names for the requests in flight at one time
          Tempers     \* what may be listening at the socket's path

None == 0

ASSUME DaemonLinkAssumption ==
  /\ None \notin Gens
  /\ Tempers \subseteq {"same", "other", "foreign", "squatter"}
  /\ Tempers # {}

(***************************************************************************)
(* The code numbers transports and requests with counters that only grow.  *)
(* Only that two of them differ is ever looked at, so here a name is given *)
(* back when neither end holds it any more, and runs need no bound.        *)
(***************************************************************************)
VARIABLES
  client,    \* createConnection's variables, and where its loop is
  promised,  \* the requests whose promise has not settled
  mirror,    \* [stale, of: the transport a fresh one was last fed by,
             \*  shows: the promised changes it shows]
  failing,   \* sends that failed and whose rejection is still to be handled
  link,      \* [Gens -> the transport of each generation, and its two ends]
  daemon,    \* who listens: "down" or a temper
  done       \* history: the promised changes the daemon's state holds

vars == <<client, promised, mirror, failing, link, daemon, done>>

Client ==
  [status : {"idle", "connecting", "connected", "reconnecting", "refused"},
   control : {"none", "running", "aborted"},   \* the AbortController
   loop : {"none", "opening", "greeting", "pumping", "delaying", "ended"},
   mine : Gens \cup {None},                    \* the transport attemptOnce works on
   current : Gens \cup {None},
   retrying : BOOLEAN,                         \* attempt > 0
   waiting : BOOLEAN,                          \* firstAttempt is set
   pending : SUBSET IDs]

Request == [type : {"subscribe", "mutate"}, id : IDs]
UpFrame == [type : {"hello"}] \cup Request
DownFrame == [type : {"hello", "foreignHello", "refused", "junk"}]
               \cup [type : {"full", "partial"}, shows : SUBSET IDs]
               \cup [type : {"acknowledged", "failed"}, id : IDs]

Link ==
  [phase : {"unused", "backlog", "handshake", "greeted", "serving", "closed"},
   up : Seq(UpFrame), down : Seq(DownFrame),
   shut : BOOLEAN,      \* the client called close()
   ended : BOOLEAN,     \* the daemon's end is closed: the client reads EOF
   lost : BOOLEAN,      \* the socket failed
   scoped : BOOLEAN,    \* hasStateScope
   working : SUBSET Request]

TypeOK ==
  /\ client \in Client
  /\ client.pending \subseteq promised
  /\ promised \subseteq IDs /\ failing \subseteq IDs /\ done \subseteq promised
  /\ mirror \in [stale : BOOLEAN, of : Gens \cup {None}, shows : SUBSET promised]
  /\ link \in [Gens -> Link]
  /\ daemon \in Tempers \cup {"down"}

Stale == [stale |-> TRUE, of |-> None, shows |-> {}]
Unused == [phase |-> "unused", up |-> <<>>, down |-> <<>>, shut |-> FALSE,
           ended |-> FALSE, lost |-> FALSE, scoped |-> FALSE, working |-> {}]

Init ==
  /\ client = [status |-> "idle", control |-> "none", loop |-> "none", mine |-> None,
               current |-> None, retrying |-> FALSE, waiting |-> FALSE, pending |-> {}]
  /\ promised = {} /\ failing = {} /\ done = {}
  /\ mirror = Stale
  /\ link = [g \in Gens |-> Unused]
  /\ daemon \in Tempers \cup {"down"}

-----------------------------------------------------------------------------
(***************************************************************************)
(* The transport.  A send on a transport that has ended fails, and one on  *)
(* a transport whose peer has closed may.  After close() the transport may *)
(* drop what it has received or still deliver it, and ends (README,        *)
(* Bounds).                                                                *)
(***************************************************************************)

Shut(lk, g) == IF g = None THEN lk ELSE [lk EXCEPT ![g].shut = TRUE]
Dead(lk, g) == lk[g].shut \/ lk[g].lost

EndOfStream(g) ==
  \/ link[g].lost
  \/ link[g].ended /\ link[g].down = <<>>
  \/ link[g].shut

Received(g) == ~link[g].lost /\ link[g].down # <<>>
Consumed(lk, g) == [lk EXCEPT ![g].down = Tail(@)]

(* What the daemon sends, as far as it arrives. *)
Says(lk, g, frames) ==
  IF lk[g].lost \/ lk[g].shut THEN lk ELSE [lk EXCEPT ![g].down = @ \o frames]

(* The names given back.  What a transport still delivers once its loop has *)
(* left it is read by no one; a squatter keeps nothing.                     *)
Swept(lk, c) ==
  [g \in Gens |->
     IF /\ g # c.mine /\ lk[g].shut /\ lk[g].working = {}
        /\ lk[g].phase = "closed" \/ (daemon = "squatter" /\ lk[g].phase = "backlog")
       THEN Unused
       ELSE IF g # c.mine THEN [lk[g] EXCEPT !.down = <<>>] ELSE lk[g]]

InFlight ==
  promised \cup failing \cup
    UNION {{r.id : r \in link[g].working \cup
                      {f \in {link[g].up[k] : k \in DOMAIN link[g].up} : f.type # "hello"}} :
             g \in Gens}

(***************************************************************************)
(* teardown: the transport is closed, every waiting request is rejected    *)
(* and the mirror is stale.  settle forgets what it settles.               *)
(***************************************************************************)

(* The promises in ids are settled: history keeps only what is promised. *)
Settled(ids) ==
  /\ promised' = promised \ ids
  /\ done' = done \ ids

(* Mutation: what was rejected is still waited for. *)
DroppedKeepsPending(c) == [c EXCEPT !.current = None]

Dropped(c) == [c EXCEPT !.current = None, !.pending = {}]

(* Mutation: a teardown forgets the waiting requests and rejects none. *)
TearsDownSilently(c, lk) ==
  /\ client' = Dropped(c)
  /\ Settled({})
  /\ mirror' = Stale
  /\ link' = Swept(Shut(lk, c.current), c)

(* Mutation: it does not close the transport. *)
TearsDownOpen(c, lk) ==
  /\ client' = Dropped(c)
  /\ Settled(c.pending)
  /\ mirror' = Stale
  /\ link' = Swept(lk, c)

TearsDown(c, lk) ==
  /\ client' = Dropped(c)
  /\ Settled(c.pending)
  /\ mirror' = Stale
  /\ link' = Swept(Shut(lk, c.current), c)

(* run(), after attemptOnce: the loop stops when it was told to or refused. *)
After(c, result) ==
  LET settled == [c EXCEPT !.waiting = FALSE, !.mine = None] IN
  IF c.control = "aborted" \/ result = "refused"
    THEN [settled EXCEPT !.loop = "ended"]
    ELSE [settled EXCEPT !.loop = "delaying", !.retrying = TRUE, !.status = "reconnecting"]

(* An attempt that ends in a teardown. *)
Ends(c, lk, result) == TearsDown(After(c, result), lk)

-----------------------------------------------------------------------------
(***************************************************************************)
(* The calls of the client's owner.                                        *)
(***************************************************************************)

(* While a controller is held connect() resolves at once and does nothing. *)
Connect ==
  /\ client.control = "none"
  /\ client' = [client EXCEPT !.control = "running", !.loop = "opening",
                              !.retrying = FALSE, !.waiting = TRUE,
                              !.status = "connecting"]
  /\ UNCHANGED <<promised, mirror, failing, link, daemon, done>>

Disconnect ==
  /\ client.control # "none"
  /\ TearsDown([client EXCEPT !.control = "aborted", !.status = "idle", !.waiting = FALSE], link)
  /\ UNCHANGED <<failing, daemon>>

(* disconnect() awaits the loop, then forgets it and its controller. *)
Disconnected ==
  /\ client.control = "aborted" /\ client.loop = "ended"
  /\ client' = [client EXCEPT !.control = "none", !.loop = "none"]
  /\ UNCHANGED <<promised, mirror, failing, link, daemon, done>>

(* request(): a fresh id, the promise, and the send, for a client that has  *)
(* become c over transports that have become lk.                            *)
Asks(c, lk, type) ==
  \E id \in IDs \ InFlight :
    /\ \A j \in IDs \ InFlight : id <= j
    /\ client' = [c EXCEPT !.pending = @ \cup {id}]
    /\ promised' = promised \cup {id}
    /\ \/ /\ ~Dead(lk, c.current)
          /\ link' = [lk EXCEPT ![c.current].up = Append(@, [type |-> type, id |-> id])]
          /\ UNCHANGED failing
       \/ /\ Dead(lk, c.current) \/ lk[c.current].ended
          /\ link' = lk
          /\ failing' = failing \cup {id}

Requests ==
  /\ client.current # None /\ client.status = "connected"
  /\ Asks(client, link, "mutate")
  /\ UNCHANGED <<mirror, daemon, done>>

(* The rejection of a send: failSend closes whatever is current by then. *)
SendFails(id) ==
  /\ id \in failing
  /\ failing' = failing \ {id}
  /\ client' = [client EXCEPT !.pending = @ \ {id}]
  /\ Settled({id})
  /\ mirror' = [mirror EXCEPT !.shows = @ \ {id}]
  /\ link' = Shut(link, client.current)
  /\ UNCHANGED daemon

-----------------------------------------------------------------------------
(***************************************************************************)
(* The loop: attemptOnce, from opening a transport to losing it.           *)
(***************************************************************************)

OpenFails ==
  /\ client.loop = "opening"
  /\ daemon = "down"
  /\ client' = After(client, "failed")
  /\ UNCHANGED <<promised, mirror, failing, link, daemon, done>>

(* Mutation: a transport opened too late is left open. *)
OpensTooLateAndStays ==
  /\ client.loop = "opening" /\ client.control = "aborted" /\ daemon # "down"
  /\ \E g \in Gens :
       /\ link[g].phase = "unused"
       /\ link' = [link EXCEPT ![g].phase = "backlog"]
  /\ client' = After(client, "failed")
  /\ UNCHANGED <<promised, mirror, failing, daemon, done>>

(* A transport opened for a loop that was told to stop is closed at once. *)
OpensTooLate ==
  /\ client.loop = "opening" /\ client.control = "aborted" /\ daemon # "down"
  /\ \E g \in Gens :
       /\ link[g].phase = "unused"
       /\ link' = Swept([link EXCEPT ![g].phase = "backlog", ![g].shut = TRUE], client)
  /\ client' = After(client, "failed")
  /\ UNCHANGED <<promised, mirror, failing, daemon, done>>

Opens ==
  /\ client.loop = "opening" /\ client.control = "running" /\ daemon # "down"
  /\ \E g \in Gens :
       /\ link[g].phase = "unused"
       /\ client' = [client EXCEPT !.current = g, !.mine = g, !.loop = "greeting"]
       /\ link' = [link EXCEPT ![g].phase = "backlog", ![g].up = <<[type |-> "hello"]>>]
  /\ UNCHANGED <<promised, mirror, failing, daemon, done>>

(* Mutation: there is no deadline. *)
NeverExpires == FALSE /\ UNCHANGED vars

(* The handshake's deadline closes the transport; the read then ends it. *)
HandshakeExpires ==
  /\ client.loop = "greeting" /\ ~link[client.mine].shut
  /\ link' = Shut(link, client.mine)
  /\ UNCHANGED <<client, promised, mirror, failing, daemon, done>>

GreetingFails ==
  /\ client.loop = "greeting"
  /\ EndOfStream(client.mine)
  /\ Ends(client, link, "failed")
  /\ UNCHANGED <<failing, daemon>>

(* The daemon's hello: connected, whatever has been asked for meanwhile, *)
(* and the subscription is the connection's first request.               *)
Greeted ==
  /\ client.loop = "greeting"
  /\ Received(client.mine)
  /\ Head(link[client.mine].down).type = "hello"
  /\ LET c == [client EXCEPT !.retrying = FALSE, !.status = "connected",
                             !.waiting = FALSE, !.loop = "pumping"]
         lk == Consumed(link, c.mine)
     IN  IF c.current = None
           THEN client' = c /\ link' = lk /\ UNCHANGED <<promised, failing>>
           ELSE Asks(c, lk, "subscribe")
  /\ UNCHANGED <<mirror, daemon, done>>

(* "refused", or a hello of a version this client cannot speak to. *)
Refused ==
  /\ client.loop = "greeting"
  /\ Received(client.mine)
  /\ Head(link[client.mine].down).type \in {"refused", "foreignHello"}
  /\ Ends([client EXCEPT !.status = "refused"], Consumed(link, client.mine), "refused")
  /\ UNCHANGED <<failing, daemon>>

GreetedWrongly ==
  /\ client.loop = "greeting"
  /\ Received(client.mine)
  /\ Head(link[client.mine].down).type = "junk"
  /\ Ends(client, Consumed(link, client.mine), "failed")
  /\ UNCHANGED <<failing, daemon>>

(* handleFrame, for the frames it does not throw at (Throws).  A reply       *)
(* settles the promise that waits for it, if one does; a full snapshot is    *)
(* what makes the mirror fresh again.                                        *)
HandlesAny(frame) ==
  \/ /\ frame.type = "full"
     /\ mirror' = [stale |-> FALSE, of |-> client.mine, shows |-> frame.shows \cap promised]
     /\ UNCHANGED <<client, promised, done>>
  \/ /\ frame.type = "partial"
     /\ mirror' = IF mirror.stale THEN mirror
                  ELSE [mirror EXCEPT !.of = client.mine]
     /\ UNCHANGED <<client, promised, done>>
  \/ /\ frame.type \in {"acknowledged", "failed"}
     /\ client' = [client EXCEPT !.pending = @ \ {frame.id}]
     /\ Settled(client.pending \cap {frame.id})
     /\ mirror' = [mirror EXCEPT !.shows = @ \ (client.pending \cap {frame.id})]

(* A frame of a transport that is no longer current is not looked at. *)
Handles(frame) ==
  IF client.current # client.mine
    THEN UNCHANGED <<client, promised, mirror, done>>
    ELSE HandlesAny(frame)

Pumps ==
  /\ client.loop = "pumping"
  /\ Received(client.mine)
  /\ Handles(Head(link[client.mine].down))
  /\ link' = Consumed(link, client.mine)
  /\ UNCHANGED <<failing, daemon>>

(* The stream ends. *)
Loses ==
  /\ client.loop = "pumping"
  /\ EndOfStream(client.mine)
  /\ Ends(client, link, "lost")
  /\ UNCHANGED <<failing, daemon>>

(* A frame of the current transport that handleFrame throws at. *)
Throws(types) ==
  /\ client.loop = "pumping" /\ client.current = client.mine
  /\ Received(client.mine)
  /\ Head(link[client.mine].down).type \in types

(* Mutation: a refusal after the greeting is a loss like any other. *)
RefusedLateIsLost ==
  /\ Throws({"refused"})
  /\ Ends(client, Consumed(link, client.mine), "lost")
  /\ UNCHANGED <<failing, daemon>>

(* RefusedAfterHandshake: a refusal is as final as one in the greeting. *)
RefusedLate ==
  /\ Throws({"refused"})
  /\ Ends([client EXCEPT !.status = "refused"], Consumed(link, client.mine), "refused")
  /\ UNCHANGED <<failing, daemon>>

(* A second hello, or a frame the client cannot read or place. *)
LosesOnFrame ==
  /\ Throws({"hello", "foreignHello", "junk"})
  /\ Ends(client, Consumed(link, client.mine), "lost")
  /\ UNCHANGED <<failing, daemon>>

(* The backoff's delay, which an abort cuts short. *)
Delays ==
  /\ client.loop = "delaying"
  /\ client' = [client EXCEPT !.loop = IF client.control = "aborted" THEN "ended" ELSE "opening"]
  /\ UNCHANGED <<promised, mirror, failing, link, daemon, done>>

-----------------------------------------------------------------------------
(***************************************************************************)
(* The daemon's end of a transport.                                        *)
(***************************************************************************)

ClosedEnd(l) == [l EXCEPT !.phase = "closed", !.ended = TRUE, !.up = <<>>, !.scoped = FALSE]
Closes(lk, g) == Swept([lk EXCEPT ![g] = ClosedEnd(@)], client)

(* A frame queued for a connection is sent while it is open. *)
Answers(lk, g, frames) ==
  IF lk[g].phase = "serving" THEN Says(lk, g, frames) ELSE lk

(* The accept loop: a peer of another user is told so and dropped. *)
Accepts(g) ==
  /\ link[g].phase = "backlog" /\ daemon \in {"same", "other", "foreign"}
  /\ link' = IF daemon = "foreign"
               THEN Closes(Says(link, g, <<[type |-> "refused"]>>), g)
               ELSE [link EXCEPT ![g].phase = "handshake"]
  /\ UNCHANGED <<client, promised, mirror, failing, daemon, done>>

(* performHandshake, up to sending the hello.  A daemon of another version *)
(* refuses, or greets a client that will not have it.                      *)
Greets(g) ==
  /\ link[g].phase = "handshake" /\ link[g].up # <<>>
  /\ LET hello == [type |-> IF daemon = "same" THEN "hello" ELSE "foreignHello"] IN
     link' = Says([link EXCEPT ![g].phase = "greeted", ![g].up = Tail(@)], g, <<hello>>)
  /\ UNCHANGED <<client, promised, mirror, failing, daemon, done>>

Refuses(g) ==
  /\ link[g].phase = "handshake" /\ link[g].up # <<>>
  /\ daemon = "other"
  /\ link' = Closes(Says(link, g, <<[type |-> "refused"]>>), g)
  /\ UNCHANGED <<client, promised, mirror, failing, daemon, done>>

(* The hello was sent: the connection is registered, unless it was closed *)
(* while the send was awaited.                                            *)
Registers(g) ==
  /\ link[g].phase = "greeted"
  /\ link' = [link EXCEPT ![g].phase = "serving"]
  /\ UNCHANGED <<client, promised, mirror, failing, daemon, done>>

(* readLoop: each request runs on its own from here on. *)
Reads(g) ==
  /\ link[g].phase = "serving" /\ link[g].up # <<>>
  /\ link' = [link EXCEPT ![g].up = Tail(@), ![g].working = @ \cup {Head(link[g].up)}]
  /\ UNCHANGED <<client, promised, mirror, failing, daemon, done>>

Reply(type, id) == [type |-> type, id |-> id]
State(type, shows) == [type |-> type, shows |-> shows]
Told(lk, frame) ==
  [h \in Gens |-> IF lk[h].scoped THEN Answers(lk, h, <<frame>>)[h] ELSE lk[h]]

(* Mutation: a change is acknowledged before the scoped connections are told. *)
WorksLater(lk, g, request) ==
  \/ /\ request.type = "subscribe"
     /\ link' = Swept(Answers([lk EXCEPT ![g].scoped = (lk[g].phase = "serving")], g,
                              <<State("full", done), Reply("acknowledged", request.id)>>), client)
     /\ UNCHANGED done
  \/ /\ request.type = "mutate"
     /\ done' = done \cup ({request.id} \cap promised)
     /\ link' = Swept(Told(Answers(lk, g, <<Reply("acknowledged", request.id)>>),
                           State("full", done')), client)

(* dispatch: a subscription is answered with the full state before it is    *)
(* acknowledged; a change is published, in full, to the scoped connections  *)
(* and then acknowledged, or it fails.  The work goes on when its           *)
(* connection has closed.                                                   *)
Works(lk, g, request) ==
  \/ /\ request.type = "subscribe"
     /\ link' = Swept(Answers([lk EXCEPT ![g].scoped = (lk[g].phase = "serving")], g,
                              <<State("full", done), Reply("acknowledged", request.id)>>), client)
     /\ UNCHANGED done
  \/ /\ request.type = "mutate"
     /\ done' = done \cup ({request.id} \cap promised)
     /\ link' = Swept(Answers(Told(lk, State("full", done')), g,
                              <<Reply("acknowledged", request.id)>>), client)
  \/ /\ request.type = "mutate"
     /\ link' = Swept(Answers(lk, g, <<Reply("failed", request.id)>>), client)
     /\ UNCHANGED done

Dispatches(g, request) ==
  /\ Works([link EXCEPT ![g].working = @ \ {request}], g, request)
  /\ UNCHANGED <<client, promised, mirror, failing, daemon>>

(* Bound: of the frames nobody asked for, one is on its way at a time. *)
NoneUnasked ==
  \A g \in Gens : \A k \in DOMAIN link[g].down : link[g].down[k].type \notin {"partial", "junk", "refused"}

(* terminal-events.ts relays what became of a terminal, as a partial update. *)
Relays ==
  LET partial == State("partial", {}) IN
  /\ NoneUnasked
  /\ \E g \in Gens : link[g].scoped
  /\ link' = Told(link, partial)
  /\ UNCHANGED <<client, promised, mirror, failing, daemon, done>>

Held == {"handshake", "greeted", "serving"}

(* The peer is gone: during the handshake or at the end of the read loop. *)
PeerLeft(g) ==
  /\ link[g].phase \in Held
  /\ link[g].lost \/ (link[g].shut /\ link[g].up = <<>>)
  /\ link' = Closes(link, g)
  /\ UNCHANGED <<client, promised, mirror, failing, daemon, done>>

(* closeConnection for the reasons no frame announces: the handshake's      *)
(* deadline, a client that stalled, a send that failed.                     *)
Severs(g) ==
  /\ link[g].phase \in Held
  /\ link' = Closes(link, g)
  /\ UNCHANGED <<client, promised, mirror, failing, daemon, done>>

(* readLoop refuses a connection it serves, for a second hello.  This       *)
(* client never says two, so when that happens is left open.  (The refusal  *)
(* is not queued: what it overtakes is read before it here, and then undone *)
(* by the teardown, as if it had not been.)                                 *)
Revokes(g) ==
  /\ link[g].phase = "serving"
  /\ NoneUnasked
  /\ link' = Closes(Says(link, g, <<[type |-> "refused"]>>), g)
  /\ UNCHANGED <<client, promised, mirror, failing, daemon, done>>

(* The daemon sends what the client throws at: output of a terminal it does *)
(* not know, a message of another version.                                 *)
Strays(g) ==
  /\ link[g].phase = "serving"
  /\ NoneUnasked
  /\ link' = Says(link, g, <<[type |-> "junk"]>>)
  /\ UNCHANGED <<client, promised, mirror, failing, daemon, done>>

-----------------------------------------------------------------------------
(***************************************************************************)
(* What neither end decides.                                               *)
(***************************************************************************)

LinkBreaks(g) ==
  /\ link[g].phase \notin {"unused", "closed"} /\ ~link[g].lost
  /\ link' = [link EXCEPT ![g].lost = TRUE, ![g].up = <<>>, ![g].down = <<>>]
  /\ UNCHANGED <<client, promised, mirror, failing, daemon, done>>

(* The process ends, by a signal, the idle monitor or a crash: its sockets *)
(* close and what it was working on is not finished.                       *)
DaemonDies ==
  /\ daemon # "down"
  /\ daemon' = "down"
  /\ link' = Swept([g \in Gens |-> IF link[g].phase = "unused" THEN Unused
                                   ELSE [ClosedEnd(link[g]) EXCEPT !.working = {}]], client)
  /\ UNCHANGED <<client, promised, mirror, failing, done>>

DaemonStarts ==
  /\ daemon = "down"
  /\ daemon' \in Tempers
  /\ UNCHANGED <<client, promised, mirror, failing, link, done>>

(* Whatever else listens there may say something that is not a hello. *)
SquatterTalks(g) ==
  /\ daemon = "squatter" /\ link[g].phase = "backlog" /\ client.mine = g
  /\ link[g].down = <<>>
  /\ link' = Says(link, g, <<[type |-> "junk"]>>)
  /\ UNCHANGED <<client, promised, mirror, failing, daemon, done>>

-----------------------------------------------------------------------------

(* The await of openTransport returns. *)
Opening == OpenFails \/ OpensTooLate \/ Opens

ClientStep ==
  \/ Disconnected \/ GreetingFails \/ Greeted \/ Refused \/ GreetedWrongly
  \/ Pumps \/ Loses \/ RefusedLate \/ LosesOnFrame \/ Delays

Finishes(g, id) == \E request \in link[g].working : request.id = id /\ Dispatches(g, request)
DaemonStep(g) == Accepts(g) \/ Greets(g) \/ Refuses(g) \/ Registers(g) \/ Reads(g) \/ PeerLeft(g)

Environment ==
  \/ Connect \/ Disconnect \/ Requests
  \/ Relays \/ DaemonDies \/ DaemonStarts
  \/ \E g \in Gens : Severs(g) \/ Revokes(g) \/ Strays(g) \/ LinkBreaks(g) \/ SquatterTalks(g)

Next ==
  \/ ClientStep
  \/ Opening
  \/ HandshakeExpires
  \/ \E id \in IDs : SendFails(id)
  \/ \E g \in Gens : DaemonStep(g) \/ \E id \in IDs : Finishes(g, id)
  \/ Environment

(* The loop goes on, the client's deadline is a timer, a rejection is       *)
(* handled, and the daemon serves what it has accepted and finishes what it *)
(* works on.  Nothing is assumed of the owner, of the network, of who       *)
(* starts the daemon, of a squatter, or of opening a transport: it is       *)
(* awaited with no deadline and no abort, and a WebSocket that neither      *)
(* opens nor closes keeps the loop there.                                   *)
Fairness ==
  /\ WF_vars(ClientStep)
  /\ WF_vars(HandshakeExpires)
  /\ \A id \in IDs : WF_vars(SendFails(id))
  /\ \A g \in Gens :
       /\ WF_vars(DaemonStep(g))
       /\ \A id \in IDs : WF_vars(Finishes(g, id))

Spec == Init /\ [][Next]_vars
FairSpec == Spec /\ Fairness

-----------------------------------------------------------------------------
(***************************************************************************)
(* Properties.                                                             *)
(***************************************************************************)

(* No request waits for a reply that cannot come: what is promised is       *)
(* pending, and only while a transport is current (teardown rejects the     *)
(* rest; docs/packages/client.md: nothing is queued while disconnected).    *)
NothingWaitsWithoutATransport ==
  /\ promised = client.pending
  /\ promised # {} => client.current # None

(* Read your writes: when the daemon's acknowledgement of a change is what  *)
(* the client reads next, its fresh mirror shows the change already.        *)
AcknowledgedIsShown ==
  LET g == client.mine IN
  g # None /\ g = client.current /\ ~mirror.stale /\ Received(g) =>
    LET frame == Head(link[g].down) IN
    frame.type = "acknowledged" /\ frame.id \in done => frame.id \in mirror.shows

(* A fresh mirror was filled over the transport that is current: nothing   *)
(* an earlier transport still delivers reaches it, before or after the new *)
(* one's snapshot (the generation tag).                                    *)
FreshMirrorIsOfTheCurrentTransport ==
  ~mirror.stale => client.current # None /\ mirror.of = client.current

(* Every transport but the current one has been closed by the client: a     *)
(* lost, refused or abandoned attempt leaks no socket.                      *)
OneTransportOpen ==
  \A g \in Gens : link[g].phase # "unused" /\ ~link[g].shut => g = client.current

(* What the loop reads next of its current transport is a refusal. *)
RefusalIsNext ==
  /\ client.loop \in {"greeting", "pumping"} /\ client.current = client.mine
  /\ Received(client.mine) /\ ~EndOfStream(client.mine)
  /\ Head(link[client.mine].down).type = "refused"

(* A refusal is final, in the greeting or after it: the attempt that reads  *)
(* one ends the loop with that status, whatever the client was doing, and   *)
(* no transport is opened until the user disconnects and connects again (an *)
(* automatic restart would kill live terminals).                            *)
RefusalIsFinal ==
  [][/\ RefusalIsNext /\ client'.loop # client.loop =>
          client'.loop = "ended" /\ client'.status = "refused"
     /\ client.status = "refused" /\ client.control = "running" =>
          client'.current = None /\ client'.status \in {"refused", "idle"}]_vars

(* After disconnect() has returned, the connection is idle (the test       *)
(* "closes the transport, stops retrying, and can be reconnected").        *)
DisconnectedIsIdle == client.control = "none" => client.status = "idle"

(* No opening of a transport hangs for ever: the two promises of the loop   *)
(* are only kept while the transport's own opening returns.                 *)
OpeningsReturn == []<>(client.loop # "opening")

(* connect() resolves, if openings return: the first attempt is settled by *)
(* a failed opening, a greeting, a refusal, a loss, a disconnect or, once   *)
(* the transport is open and however silent who listens is, the deadline.   *)
ConnectResolves == OpeningsReturn => (client.waiting ~> ~client.waiting)

(* disconnect() resolves, if openings return, wherever the loop was. *)
DisconnectResolves == OpeningsReturn => (client.control = "aborted" ~> client.control = "none")

(* No request waits for ever. *)
RequestsSettle == \A id \in IDs : id \in promised ~> id \notin promised
=============================================================================
