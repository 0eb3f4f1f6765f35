--------------------------- MODULE TerminalServer ---------------------------
(***************************************************************************)
(* The daemon and the clients it has greeted: the connections and the two  *)
(* queues of each (packages/daemon/src/server.ts), the requests that touch *)
(* a terminal (dispatch.ts), the frame loop that drains processes and      *)
(* paints clients (frame-loop.ts), the relay that tells clients what a     *)
(* terminal's state became (terminal-events.ts), the live terminals        *)
(* themselves (LiveTerminal), and the mirror each client keeps             *)
(* (packages/client/src/connection.ts and stores.ts).                      *)
(*                                                                         *)
(* The daemon is one thread, so a handler is one step.  The one handler    *)
(* with loops in it, the frame loop's tick, is a run of steps during which *)
(* tick.phase is not "idle"; no other daemon step can happen meanwhile.    *)
(* What the code awaits is a step boundary: between reading a request and  *)
(* dispatching it, between starting a process and announcing it, between   *)
(* queueing a frame and the client handling it.                            *)
(***************************************************************************)
EXTENDS LiveTerminal, Sequences

CONSTANTS Terminals,        \* the terminals of the daemon's sessions
          Subscribers,      \* the clients that subscribe to state, and do so first:
                            \* every client of packages/client does
          Events,           \* what a process may make its emulator, or the drain, do
          Operations,       \* the other requests clients make
          ControlCapacity,  \* CONTROL_QUEUE_CAPACITY, 64 in the code
          OutputCapacity    \* OUTPUT_QUEUE_CAPACITY, 32 in the code

ASSUME TerminalServerAssumption ==
  /\ None \notin Terminals
  /\ Subscribers \subseteq Clients
  /\ Events \subseteq {"bell", "promptFinished", "throws", "readFails"}
  /\ Operations \subseteq {"attach", "detach", "resize", "mark", "rename",
                           "start", "restart", "stop", "remove"}
  /\ ControlCapacity \in Nat \ {0}
  /\ OutputCapacity \in Nat \ {0}

VARIABLES
  live,         \* [Terminals -> Terminal]: each PtyLiveTerminal
  registry,     \* the terminals the registry holds
  listed,       \* the terminals some session lists
  published,    \* terminal-events.ts: the signature last broadcast
  attachments,  \* frame-loop.ts: who is painted, per terminal
  full,         \* frame-loop.ts: who of those is owed a full repaint
  timer,        \* frame-loop.ts: whether the interval is set
  tick,         \* where in a tick the loop is, and what is left of it
  conn,         \* [Clients -> Connection]
  pending,      \* requests past an await: launches resolving, and changes
                \* of the sessions that are being saved, to be published
  view,         \* [Clients -> View]: what the client at the other end holds
  drift,        \* history: who was told what of which terminal, past the relay
  painted       \* history: the run and grid of the last whole screen sent

vars == <<live, registry, listed, published, attachments, full, timer, tick,
          conn, pending, view, drift, painted>>

NoState == [kind |-> "absent", activity |-> None, progress |-> None]
MaybeState == States \cup {NoState}

(* An attention signal carries no state; the field records the one behind it. *)
Messages ==
  [type : {"state", "attention", "exited"}, terminal : Terminals, state : States]
    \cup [type : {"snapshot"}, states : [Terminals -> MaybeState], listed : SUBSET Terminals]
    \cup [type : {"reply"}]

(* arg: a viewport (0: none), or for "mark" whether the session is unread; *)
(* a session has one terminal.                                              *)
Requests ==
  {r \in [op : Operations \cup {"subscribe"}, terminal : Terminals, arg : 0..MaxSize] :
     CASE r.op = "attach" -> TRUE
       [] r.op = "resize" -> r.arg # 0
       [] r.op = "mark" -> r.arg \in 0..1
       [] OTHER -> r.arg = 0}
NoRequest == [op |-> None]
Awaited == [client : Clients, terminal : Terminals, step : {"launch", "publish"}]

Connection ==
  [phase : {"open", "closed"},
   scoped : BOOLEAN,
   attached : SUBSET Terminals,
   rendering : SUBSET Terminals,
   request : Requests \cup {NoRequest},
   control : Seq(Messages),
   output : Seq(Terminals)]

View == [states : [Terminals -> MaybeState], known : SUBSET Terminals, watching : SUBSET Terminals]

(* A tick drains the terminals in feed, one at a time (fed is the one whose *)
(* bytes the emulator is reading), then visits the attachments in paint.    *)
Tick == [phase : {"idle", "feed", "paint"}, live : BOOLEAN,
         feed : SUBSET Terminals, fed : Terminals \cup {None},
         failed : SUBSET Terminals, paint : SUBSET (Terminals \X Clients)]
Idle == [phase |-> "idle", live |-> FALSE, feed |-> {}, fed |-> None,
         failed |-> {}, paint |-> {}]

Unpainted == [run |-> 0, size |-> 0]

Init ==
  /\ live = [t \in Terminals |-> NewTerminal]
  /\ registry = {}
  /\ listed = Terminals
  /\ published = [t \in Terminals |-> NoState]
  /\ attachments = [t \in Terminals |-> {}]
  /\ full = [t \in Terminals |-> {}]
  /\ timer = TRUE
  /\ tick = Idle
  /\ conn = [c \in Clients |->
               [phase |-> "open", scoped |-> FALSE, attached |-> {}, rendering |-> {},
                request |-> NoRequest, control |-> <<>>, output |-> <<>>]]
  /\ pending = {}
  /\ view = [c \in Clients |->
               [states |-> [t \in Terminals |-> NoState], known |-> {}, watching |-> {}]]
  /\ drift = [c \in Clients |-> {}]
  /\ painted = [c \in Clients |-> [t \in Terminals |-> Unpainted]]

-----------------------------------------------------------------------------
(***************************************************************************)
(* Sending, and the connections a step closes.                             *)
(***************************************************************************)

About(type, t, lt) == [type |-> type, terminal |-> t, state |-> StateOf(lt)]
Reply == [type |-> "reply"]

Snapshot(lv, reg, lst) ==
  [type |-> "snapshot", listed |-> lst,
   states |-> [t \in Terminals |-> IF t \in reg THEN StateOf(lv[t]) ELSE NoState]]

(* A message to one connection, and a broadcast to the subscribed ones. *)
To(c, ms) == [d \in Clients |-> IF d = c THEN ms ELSE <<>>]
Broadcast(ms) == [d \in Clients |-> IF conn[d].scoped THEN ms ELSE <<>>]
Both(p, q) == [d \in Clients |-> p[d] \o q[d]]

(* Mutation: one frame too many is let in. *)
StallsLate(k, ms) == k.phase = "open" /\ Len(k.control) + Len(ms) > ControlCapacity + 1

(* enqueueControl: a full control queue means the client stopped reading. *)
Stalls(k, ms) == k.phase = "open" /\ Len(k.control) + Len(ms) > ControlCapacity
Sent(k, ms) == IF k.phase = "open" THEN [k EXCEPT !.control = @ \o ms] ELSE k

(* closeConnection keeps the rendering set, as the code does. *)
Closed(k) == [k EXCEPT !.phase = "closed", !.attached = {}, !.control = <<>>, !.output = <<>>]

(* Mutation: closing forgets to negotiate again. *)
WithoutNegotiation(lt, gone) ==
  [lt EXCEPT !.views = [c \in Clients |-> IF c \in gone THEN 0 ELSE lt.views[c]],
             !.owes = @ \ gone]

(* Viewports leave one by one; who leaves first only decides which size a  *)
(* grid keeps when all of them leave in one step.                          *)
Without(lt, gone) ==
  LET left == [lt EXCEPT !.views = [c \in Clients |-> IF c \in gone THEN 0 ELSE lt.views[c]],
                         !.owes = @ \ gone]
  IN  IF gone \cap Viewers(lt) = {} \/ Viewers(left) = {}
      THEN left ELSE Resized(left, NegotiatedSize(left.views))

(***************************************************************************)
(* The end of every handler: given the terminals, connections, attachments *)
(* and debts it leaves and the messages it queues, send those, and close   *)
(* each connection in gone and each one that would overflow.               *)
(***************************************************************************)
Finish(lv, cn, at, fu, q, gone) ==
  LET shut == gone \cup {c \in Clients : Stalls(cn[c], q[c])} IN
  /\ live' = [t \in Terminals |-> Without(lv[t], {c \in shut : t \in cn[c].attached})]
  /\ conn' = [c \in Clients |-> IF c \in shut THEN Closed(cn[c]) ELSE Sent(cn[c], q[c])]
  /\ attachments' = [t \in Terminals |-> at[t] \ shut]
  /\ full' = [t \in Terminals |-> fu[t] \ shut]

(* Mutation: the signature leaves out the activity and the progress. *)
ReconciledByKind(t, lt) ==
  IF published[t].kind = StateOf(lt).kind THEN <<>> ELSE <<About("state", t, lt)>>

(* reconcile: a state frame only if the signature moved. *)
Reconciled(t, lt) ==
  IF published[t] = StateOf(lt) THEN <<>> ELSE <<About("state", t, lt)>>

Quiet == [c \in Clients |-> <<>>]

(* A handler that changes terminal t to lt, reconciles it, and then sends. *)
Relay(t, lt, cn, fu, more) ==
  /\ published' = [published EXCEPT ![t] = StateOf(lt)]
  /\ Finish([live EXCEPT ![t] = lt], cn, attachments, fu,
            Both(Broadcast(Reconciled(t, lt)), more), {})

NotInTick == tick.phase = "idle"

-----------------------------------------------------------------------------
(***************************************************************************)
(* Connections.                                                            *)
(***************************************************************************)

(* The peer left, a send failed, or a frame could not be decoded. *)
Close(c) ==
  /\ NotInTick
  /\ conn[c].phase = "open"
  /\ Finish(live, conn, attachments, full, Quiet, {c})
  /\ UNCHANGED <<registry, listed, published, timer, tick, pending, view, painted>>

(* readLoop hands a request to a microtask.  A client subscribes first, and *)
(* watches a terminal from before it attaches until before it detaches (the *)
(* other end of a connection is modelled for subscribers), one it knows.    *)
(* Bounds: a connection has one request read and not dispatched, and one    *)
(* awaited for a terminal.                                                  *)
ReadRequest(c, r) ==
  /\ NotInTick
  /\ conn[c].phase = "open" /\ conn[c].request = NoRequest
  /\ \A p \in pending : p.client = c => p.terminal # r.terminal
  /\ (r.op = "attach" /\ c \in Subscribers) => r.terminal \in view[c].known
  /\ (r.op = "subscribe") = (c \in Subscribers /\ ~conn[c].scoped)
  /\ conn' = [conn EXCEPT ![c].request = r]
  /\ view' = [view EXCEPT ![c].watching =
                 CASE c \notin Subscribers -> @
                   [] r.op = "attach" /\ r.arg # 0 -> @ \cup {r.terminal}
                   [] r.op = "detach" -> @ \ {r.terminal}
                   [] OTHER -> @]
  /\ UNCHANGED <<live, registry, listed, published, attachments, full, timer, tick,
                 pending, painted>>

(* Input is handled as it is read.  A write the child no longer takes       *)
(* throws, and is logged; reconcile runs either way.                        *)
ReadInput(c, t) ==
  /\ NotInTick
  /\ conn[c].phase = "open" /\ (c \in Subscribers => conn[c].scoped)
  /\ IF t \notin registry
     THEN /\ Finish(live, conn, attachments, full, Quiet, {c})
          /\ UNCHANGED published
     ELSE \E taken \in {TRUE, FALSE} :
            /\ taken => t \in conn[c].attached /\ live[t].pty = "open"
            /\ Relay(t, IF taken THEN Typed(live[t]) ELSE live[t], conn, full, Quiet)
  /\ UNCHANGED <<registry, listed, timer, tick, pending, view, painted>>

(***************************************************************************)
(* The transport took the next frame, and the client handles it.           *)
(***************************************************************************)

(* mirror.apply; a signal reaches notification code that is not modelled. *)
Applied(v, m) ==
  CASE m.type \in {"state", "exited"} -> [v EXCEPT !.states[m.terminal] = m.state]
    [] m.type = "snapshot" -> [v EXCEPT !.states = m.states, !.known = m.listed]
    [] OTHER -> v

PumpControl(c) ==
  /\ NotInTick
  /\ conn[c].control # <<>>
  /\ conn' = [conn EXCEPT ![c].control = Tail(@)]
  /\ view' = [view EXCEPT ![c] = Applied(@, Head(conn[c].control))]
  /\ UNCHANGED <<live, registry, listed, published, attachments, full, timer, tick,
                 pending, painted>>

(* Output nobody watches is ignored for a terminal of some session, and     *)
(* ends the connection for any other.                                       *)
PumpOutput(c) ==
  /\ NotInTick
  /\ conn[c].output # <<>>
  /\ LET t == Head(conn[c].output)
         popped == [conn EXCEPT ![c].output = Tail(@)]
         lost == c \in Subscribers /\ t \notin view[c].watching \cup view[c].known
     IN  Finish(live, popped, attachments, full, Quiet, IF lost THEN {c} ELSE {})
  /\ UNCHANGED <<registry, listed, published, timer, tick, pending, view, painted>>

-----------------------------------------------------------------------------
(***************************************************************************)
(* Requests.  dispatch.request runs in a microtask of its own, which does  *)
(* not look whether the connection was closed since the frame was read; a  *)
(* reply to a closed connection goes nowhere.  cn is conn with the request *)
(* taken.  A request that is answered wakes the frame loop.                *)
(***************************************************************************)
Answered(c, cn) ==
  /\ Finish(live, cn, attachments, full, To(c, <<Reply>>), {})
  /\ timer' = TRUE
  /\ UNCHANGED <<registry, listed, published, pending, painted>>

Later(c, t, step) == [client |-> c, terminal |-> t, step |-> step]

Subscribe(c, cn) ==
  /\ Finish(live, [cn EXCEPT ![c].scoped = TRUE], attachments, full,
            To(c, <<Snapshot(live, registry, listed), Reply>>), {})
  /\ timer' = TRUE
  /\ UNCHANGED <<registry, listed, published, pending, painted>>

(* Without a viewport a client may type and is never painted. *)
AttachInput(c, t, cn) ==
  /\ t \in registry
  /\ Answered(c, [cn EXCEPT ![c].attached = @ \cup {t}])

(* History: a client that attaches waits for a whole screen; one that was   *)
(* attached already, for one of the process it attached to.                 *)
Anew(t, c) ==
  IF live[t].views[c] = 0 THEN Unpainted ELSE [run |-> live[t].run, size |-> 0]

(* Mutation: the connection forgets to note what it renders. *)
AttachUnnoted(c, t, v, cn) ==
  /\ t \in registry
  /\ Finish([live EXCEPT ![t] = Attached(@, c, v)], [cn EXCEPT ![c].attached = @ \cup {t}],
            [attachments EXCEPT ![t] = @ \cup {c}], [full EXCEPT ![t] = @ \cup {c}],
            To(c, <<Reply>>), {})
  /\ painted' = [painted EXCEPT ![c][t] = Anew(t, c)]
  /\ timer' = TRUE
  /\ UNCHANGED <<registry, listed, published, pending>>

AttachViewport(c, t, v, cn) ==
  /\ t \in registry
  /\ Finish([live EXCEPT ![t] = Attached(@, c, v)],
            [cn EXCEPT ![c].attached = @ \cup {t}, ![c].rendering = @ \cup {t}],
            [attachments EXCEPT ![t] = @ \cup {c}], [full EXCEPT ![t] = @ \cup {c}],
            To(c, <<Reply>>), {})
  /\ painted' = [painted EXCEPT ![c][t] = Anew(t, c)]
  /\ timer' = TRUE
  /\ UNCHANGED <<registry, listed, published, pending>>

(* Mutation: the frame loop is not told. *)
DetachSilently(c, t, cn) ==
  /\ Finish(IF t \in registry THEN [live EXCEPT ![t] = Detached(@, c)] ELSE live,
            [cn EXCEPT ![c].attached = @ \ {t}, ![c].rendering = @ \ {t}],
            attachments, full, To(c, <<Reply>>), {})
  /\ timer' = TRUE
  /\ UNCHANGED <<registry, listed, published, pending, painted>>

Detach(c, t, cn) ==
  /\ Finish(IF t \in registry THEN [live EXCEPT ![t] = Detached(@, c)] ELSE live,
            [cn EXCEPT ![c].attached = @ \ {t}, ![c].rendering = @ \ {t}],
            [attachments EXCEPT ![t] = @ \ {c}], [full EXCEPT ![t] = @ \ {c}],
            To(c, <<Reply>>), {})
  /\ timer' = TRUE
  /\ UNCHANGED <<registry, listed, published, pending, painted>>

(* Ignored unless the client attached with a viewport; never answered. *)
Resize(c, t, v, cn) ==
  /\ Finish(IF t \in registry /\ t \in conn[c].rendering
            THEN [live EXCEPT ![t] = Attached(@, c, v)] ELSE live,
            cn, attachments, full, Quiet, {})
  /\ timer' = TRUE
  /\ UNCHANGED <<registry, listed, published, pending, painted>>

Mark(c, t, unread, cn) ==
  /\ t \in registry
  /\ Relay(t, Marked(live[t], unread), cn, full, To(c, <<Reply>>))
  /\ timer' = TRUE
  /\ UNCHANGED <<registry, listed, pending, painted>>

Stop(c, t, cn) ==
  /\ t \in registry
  /\ Finish([live EXCEPT ![t] = Stopped(@)], cn, attachments, full, To(c, <<Reply>>), {})
  /\ timer' = TRUE
  /\ UNCHANGED <<registry, listed, published, pending, painted>>

(* live.start() on lt: nothing to do, a process, or a spawn that fails. *)
(* MaxRuns bounds the processes: past it every spawn fails.             *)
Starts(lt) ==
  IF lt.pty # None THEN {lt}
  ELSE {SpawnFailed(lt)} \cup (IF lt.run < MaxRuns THEN {Spawned(lt)} ELSE {})

(* A start that worked is published once the session is saved; one that    *)
(* failed is answered, and publishes nothing.                              *)
Started(c, t, before, cn, awaited) ==
  \E lt \in Starts(before) :
    LET worked == lt.end # "failed" IN
    /\ Finish([live EXCEPT ![t] = lt], cn, attachments, full,
              IF worked THEN Quiet ELSE To(c, <<Reply>>), {})
    /\ pending' = IF worked THEN awaited \cup {Later(c, t, "publish")} ELSE awaited
    /\ timer' = (timer \/ ~worked)

Start(c, t, before, cn) ==
  /\ t \in listed /\ t \in registry
  /\ Started(c, t, before, cn, pending)
  /\ UNCHANGED <<registry, listed, published, painted>>

(* A change that is saved, or a launch that is resolved, before it goes on. *)
Await(c, t, step, cn) ==
  /\ conn' = cn
  /\ pending' = pending \cup {Later(c, t, step)}
  /\ UNCHANGED <<live, attachments, full, timer, painted>>

ResolveLaunch(c, t, cn) ==
  /\ t \in listed /\ t \notin registry
  /\ Await(c, t, "launch", cn)
  /\ UNCHANGED <<registry, listed, published>>

Rename(c, t, cn) ==
  /\ Await(c, t, "publish", cn)
  /\ UNCHANGED <<registry, listed, published>>

(* The process is hung up and forgotten in one go: nobody drains it again. *)
Remove(c, t, cn) ==
  /\ t \in listed
  /\ live' = IF t \in registry THEN [live EXCEPT ![t] = Stopped(@)] ELSE live
  /\ registry' = registry \ {t}
  /\ listed' = listed \ {t}
  /\ published' = [published EXCEPT ![t] = IF t \in registry THEN NoState ELSE @]
  /\ conn' = cn
  /\ pending' = pending \cup {Later(c, t, "publish")}
  /\ UNCHANGED <<attachments, full, timer, painted>>

(* A request about a terminal the registry, or the sessions, do not have;  *)
(* marking a session whose terminal never started changes nothing either.  *)
Unknown(op, t) ==
  \/ op \in {"attach", "mark", "stop"} /\ t \notin registry
  \/ op \in {"start", "restart", "remove"} /\ t \notin listed

Dispatch(c) ==
  LET r  == conn[c].request
      t  == r.terminal
      cn == [conn EXCEPT ![c].request = NoRequest]
  IN
  /\ NotInTick
  /\ r # NoRequest
  /\ \/ r.op = "subscribe" /\ Subscribe(c, cn)
     \/ r.op = "attach" /\ r.arg = 0 /\ AttachInput(c, t, cn)
     \/ r.op = "attach" /\ r.arg # 0 /\ AttachViewport(c, t, r.arg, cn)
     \/ r.op = "detach" /\ Detach(c, t, cn)
     \/ r.op = "resize" /\ Resize(c, t, r.arg, cn)
     \/ r.op = "mark" /\ Mark(c, t, r.arg = 1, cn)
     \/ r.op = "stop" /\ Stop(c, t, cn)
     \/ r.op = "start" /\ Start(c, t, live[t], cn)
     \/ r.op = "restart" /\ Start(c, t, [live[t] EXCEPT !.pty = None], cn)
     \/ r.op \in {"start", "restart"} /\ ResolveLaunch(c, t, cn)
     \/ r.op = "rename" /\ Rename(c, t, cn)
     \/ r.op = "remove" /\ Remove(c, t, cn)
     \/ Unknown(r.op, t) /\ Answered(c, cn)
  /\ UNCHANGED <<tick, view>>

(* The launch is resolved: register, unless somebody else has, and start.  *)
(* Whether the session still lists the terminal is not asked again.        *)
Launch(p) ==
  LET t == p.terminal IN
  /\ NotInTick
  /\ p.step = "launch"
  /\ IF t \in registry
     THEN /\ Finish(live, conn, attachments, full, To(p.client, <<Reply>>), {})
          /\ pending' = pending \ {p}
          /\ timer' = TRUE
          /\ UNCHANGED registry
     ELSE /\ Started(p.client, t, [NewTerminal EXCEPT !.run = live[t].run], conn, pending \ {p})
          /\ registry' = registry \cup {t}
  /\ UNCHANGED <<listed, published, tick, view, painted>>

(* Mutation: the frame loop is not woken. *)
PublishAsleep(p) ==
  /\ NotInTick
  /\ p.step = "publish"
  /\ Finish(live, conn, attachments, full, To(p.client, <<Reply>>), {})
  /\ pending' = pending \ {p}
  /\ UNCHANGED <<registry, listed, published, timer, tick, view, painted>>

(* The sessions were saved and are published, or saving failed. *)
Publish(p) ==
  LET news == Broadcast(<<Snapshot(live, registry, listed)>>) IN
  /\ NotInTick
  /\ p.step = "publish"
  /\ \E saved \in BOOLEAN :
       Finish(live, conn, attachments, full,
              Both(IF saved THEN news ELSE Quiet, To(p.client, <<Reply>>)), {})
  /\ pending' = pending \ {p}
  /\ timer' = TRUE
  /\ UNCHANGED <<registry, listed, published, tick, view, painted>>

-----------------------------------------------------------------------------
(***************************************************************************)
(* The frame loop's tick: drain every live terminal, then paint.           *)
(***************************************************************************)
(* A timer callback waits for the microtasks, read requests among them. *)
TickStart ==
  /\ NotInTick
  /\ timer
  /\ \A c \in Clients : conn[c].request = NoRequest
  /\ LET running == {t \in registry : IsLive(live[t])} IN
       tick' = [Idle EXCEPT !.phase = "feed", !.live = (running # {}), !.feed = running]
  /\ UNCHANGED <<live, registry, listed, published, attachments, full, timer, conn,
                 pending, view, painted>>

(* drain() may still be asked of t, and has not reached the emulator. *)
Undrained(t) == tick.phase = "feed" /\ tick.fed = None /\ t \in tick.feed

(* Bytes came, and the emulator reports what they say, one event a step. *)
Feeding(t) == (tick.fed = t \/ Undrained(t)) /\ live[t].pty = "open"

Reports(t, lt, signalled) ==
  /\ Feeding(t)
  /\ Relay(t, lt, conn, full,
           IF signalled THEN Broadcast(<<About("attention", t, lt)>>) ELSE Quiet)
  /\ tick' = [tick EXCEPT !.feed = @ \ {t}, !.fed = t]
  /\ UNCHANGED <<registry, listed, timer, pending, view, painted>>

(* A bell or a notification; a finished prompt, which is signalled and     *)
(* changes no state; a progress report; an activity of an agent.           *)
Bell(t) == "bell" \in Events /\ Reports(t, Belled(live[t]), TRUE)
PromptFinished(t) == "promptFinished" \in Events /\ Reports(t, live[t], TRUE)
Progress(t, p) == Reports(t, Progressed(live[t], p), FALSE)
Activity(t, a) == Reports(t, Reported(live[t], a), a # "working")

Drained(t) ==
  /\ Feeding(t)
  /\ tick' = [tick EXCEPT !.feed = @ \ {t}, !.fed = None]
  /\ UNCHANGED <<live, registry, listed, published, attachments, full, timer, conn,
                 pending, view, painted>>

(* The emulator threw: nobody is painted this tick, everybody is in full later. *)
DrainThrows(t) ==
  /\ "throws" \in Events
  /\ Feeding(t)
  /\ full' = [full EXCEPT ![t] = attachments[t]]
  /\ tick' = [tick EXCEPT !.feed = @ \ {t}, !.fed = None, !.failed = @ \cup {t}]
  /\ UNCHANGED <<live, registry, listed, published, attachments, timer, conn,
                 pending, view, painted>>

(* The stream is over: a read that failed; an exit; an exit not known yet. *)
StreamEnds(t, end) ==
  /\ Undrained(t)
  /\ end = "failed" => "readFails" \in Events /\ live[t].pty = "open"
  /\ LET lt == Ended(live[t], end) IN
       Relay(t, lt, conn, full,
             IF end = "exited" THEN Broadcast(<<About("exited", t, lt)>>) ELSE Quiet)
  /\ tick' = [tick EXCEPT !.feed = @ \ {t}]
  /\ UNCHANGED <<registry, listed, timer, pending, view, painted>>

ExitUnknown(t) ==
  /\ Undrained(t)
  /\ live' = [live EXCEPT ![t].pty = "ended"]
  /\ tick' = [tick EXCEPT !.feed = @ \ {t}]
  /\ UNCHANGED <<registry, listed, published, attachments, full, timer, conn,
                 pending, view, painted>>

(* Attachments of a terminal the registry dropped go; the rest are visited. *)
PaintStart ==
  /\ tick.phase = "feed" /\ tick.fed = None /\ tick.feed = {}
  /\ attachments' = [t \in Terminals |-> IF t \in registry THEN attachments[t] ELSE {}]
  /\ full' = [t \in Terminals |-> IF t \in registry THEN full[t] ELSE {}]
  /\ tick' = [tick EXCEPT !.phase = "paint",
                          !.paint = {v \in (registry \ tick.failed) \X Clients :
                                       v[2] \in attachments[v[1]]}]
  /\ UNCHANGED <<live, registry, listed, published, timer, conn, pending, view, painted>>

(* Mutation: the last slot of the queue is never used. *)
HasMoreRoom(c) == conn[c].phase = "open" /\ Len(conn[c].output) + 1 < OutputCapacity

HasRoom(c) == conn[c].phase = "open" /\ Len(conn[c].output) < OutputCapacity

Visits(t, c) ==
  /\ tick.phase = "paint" /\ <<t, c>> \in tick.paint
  /\ tick' = [tick EXCEPT !.paint = @ \ {<<t, c>>}]

(* An attachment that went since the loop began, or whose client is slow. *)
SkipPaint(t, c) ==
  /\ Visits(t, c)
  /\ c \in attachments[t] => ~HasRoom(c)
  /\ full' = [full EXCEPT ![t] = IF c \in attachments[t] THEN @ \cup {c} ELSE @]
  /\ UNCHANGED <<live, registry, listed, published, attachments, timer, conn,
                 pending, view, painted>>

(* A client the terminal does not know makes it throw, and the loop gives  *)
(* up the terminal's attachments, all of them.                             *)
PaintThrows(t, c) ==
  /\ tick.phase = "paint" /\ <<t, c>> \in tick.paint
  /\ c \in attachments[t] /\ HasRoom(c) /\ live[t].views[c] = 0
  /\ attachments' = [attachments EXCEPT ![t] = {}]
  /\ full' = [full EXCEPT ![t] = {}]
  /\ tick' = [tick EXCEPT !.paint = {p \in tick.paint : p[1] # t}]
  /\ UNCHANGED <<live, registry, listed, published, timer, conn, pending, view, painted>>

Painting(t, c) ==
  /\ Visits(t, c)
  /\ c \in attachments[t] /\ HasRoom(c) /\ live[t].views[c] # 0

Delivered(t, c) == [conn EXCEPT ![c].output = Append(@, t)]

Screen(t) == [run |-> live[t].run, size |-> live[t].size]

(* The attachment is owed a full repaint: looking lowers the flag, and     *)
(* settled reconciles.  Without an emulator nothing is sent or owed.       *)
PaintFull(t, c) ==
  /\ Painting(t, c)
  /\ c \in full[t]
  /\ Relay(t, FullyRepainted(live[t], c), IF live[t].emulator THEN Delivered(t, c) ELSE conn,
           [full EXCEPT ![t] = @ \ {c}], Quiet)
  /\ painted' = IF live[t].emulator THEN [painted EXCEPT ![c][t] = Screen(t)] ELSE painted
  /\ UNCHANGED <<registry, listed, timer, pending, view>>

(* The terminal owes one: the same repaint, and settled is not called. *)
PaintOwed(t, c) ==
  /\ Painting(t, c)
  /\ c \notin full[t] /\ live[t].emulator /\ c \in live[t].owes
  /\ Finish([live EXCEPT ![t] = FullyRepainted(@, c)], Delivered(t, c), attachments, full,
            Quiet, {})
  /\ painted' = [painted EXCEPT ![c][t] = Screen(t)]
  /\ UNCHANGED <<registry, listed, published, timer, pending, view>>

(* A delta, empty or not; EMPTY when there is no emulator. *)
PaintDelta(t, c) ==
  /\ Painting(t, c)
  /\ c \notin full[t] /\ (live[t].emulator => c \notin live[t].owes)
  /\ conn' \in {conn} \cup (IF live[t].emulator THEN {Delivered(t, c)} ELSE {})
  /\ UNCHANGED <<live, registry, listed, published, attachments, full, timer,
                 pending, view, painted>>

(* Mutation: the loop stops once nobody watches. *)
TickEndUnwatched ==
  /\ tick.phase = "paint" /\ tick.paint = {}
  /\ tick' = Idle
  /\ timer' = (\E t \in Terminals : attachments[t] # {})
  /\ UNCHANGED <<live, registry, listed, published, attachments, full, conn,
                 pending, view, painted>>

(* With nothing running and nobody watching, the loop stops. *)
TickEnd ==
  /\ tick.phase = "paint" /\ tick.paint = {}
  /\ tick' = Idle
  /\ timer' = (tick.live \/ \E t \in Terminals : attachments[t] # {})
  /\ UNCHANGED <<live, registry, listed, published, attachments, full, conn,
                 pending, view, painted>>

-----------------------------------------------------------------------------
ClientSteps(c) ==
  \/ Close(c)
  \/ \E r \in Requests : ReadRequest(c, r)
  \/ \E t \in Terminals : ReadInput(c, t)
  \/ PumpControl(c)
  \/ PumpOutput(c)
  \/ Dispatch(c)

FeedSteps(t) ==
  \/ Bell(t)
  \/ PromptFinished(t)
  \/ \E p \in Progresses \cup {None} : Progress(t, p)
  \/ \E a \in Activities : Activity(t, a)
  \/ Drained(t)
  \/ DrainThrows(t)
  \/ \E end \in {"exited", "failed"} : StreamEnds(t, end)
  \/ ExitUnknown(t)

PaintSteps(t, c) ==
  \/ SkipPaint(t, c)
  \/ PaintThrows(t, c)
  \/ PaintFull(t, c)
  \/ PaintOwed(t, c)
  \/ PaintDelta(t, c)

Step ==
  \/ \E c \in Clients : ClientSteps(c)
  \/ \E p \in pending : Launch(p) \/ Publish(p)
  \/ TickStart
  \/ \E t \in Terminals : FeedSteps(t)
  \/ PaintStart
  \/ \E t \in Terminals, c \in Clients : PaintSteps(t, c)
  \/ TickEnd

(* The snapshots a step queues for a client. *)
SnapshotsTo(c) ==
  {i \in DOMAIN conn'[c].control : /\ i > Len(conn[c].control)
                                   /\ conn'[c].control[i].type = "snapshot"}

(* A client drifts from the relay on a terminal when a snapshot says another *)
(* state than the relay last published: reconcile compares with what was     *)
(* published, not with what clients were told since.  A snapshot that says   *)
(* the same, and the next publication, end it.                               *)
Drifts ==
  drift' = [c \in Clients |->
              {t \in Terminals :
                 \/ \E i \in SnapshotsTo(c) : conn'[c].control[i].states[t] # published'[t]
                 \/ SnapshotsTo(c) = {} /\ t \in drift[c] /\ published'[t] = published[t]}]

Next == Step /\ Drifts

Spec == Init /\ [][Next]_vars

(* The microtasks of a turn of the event loop run out, and a timer that is  *)
(* set fires between the turns; a tick ends, whatever a process writes and  *)
(* whatever is known of its exit; what is awaited resolves.  Fairness is    *)
(* strong where a tick comes in between.  Nothing is assumed of clients,    *)
(* nor that an exit status is ever known.                                   *)
LookEnds(t) ==
  Drained(t) \/ ExitUnknown(t) \/ \E end \in {"exited", "failed"} : StreamEnds(t, end)

Fairness ==
  /\ []<>(\A c \in Clients : conn[c].request = NoRequest)
  /\ SF_vars(TickStart /\ Drifts)
  /\ WF_vars((PaintStart \/ TickEnd) /\ Drifts)
  /\ \A t \in Terminals : WF_vars(LookEnds(t) /\ Drifts)
  /\ \A t \in Terminals, c \in Clients : WF_vars(PaintSteps(t, c) /\ Drifts)
  /\ \A c \in Clients : SF_vars(Dispatch(c) /\ Drifts)
  /\ \A p \in Awaited : SF_vars(p \in pending /\ (Launch(p) \/ Publish(p)) /\ Drifts)

FairSpec == Spec /\ Fairness

(* The same, when in addition every client reads what it is sent. *)
ReadingSpec == FairSpec /\ \A c \in Clients : SF_vars(PumpOutput(c) /\ Drifts)

-----------------------------------------------------------------------------
(***************************************************************************)
(* Properties.                                                             *)
(***************************************************************************)

(* Every variable has its type, and no queue holds more than its capacity. *)
TypeOK ==
  /\ live \in [Terminals -> Terminal]
  /\ registry \subseteq Terminals
  /\ listed \subseteq Terminals
  /\ published \in [Terminals -> MaybeState]
  /\ attachments \in [Terminals -> SUBSET Clients]
  /\ full \in [Terminals -> SUBSET Clients]
  /\ timer \in BOOLEAN
  /\ tick \in Tick
  /\ conn \in [Clients -> Connection]
  /\ \A c \in Clients : /\ Len(conn[c].control) <= ControlCapacity
                        /\ Len(conn[c].output) <= OutputCapacity
  /\ pending \subseteq Awaited
  /\ view \in [Clients -> View]
  /\ drift \in [Clients -> SUBSET Terminals]
  /\ painted \in [Clients -> [Terminals -> [run : 0..MaxRuns, size : 0..MaxSize]]]

(* What client c will believe of t once it has handled what is queued: what *)
(* the last message that says something of t says, or what it believes now. *)
Tells(m, t) == m.type = "snapshot" \/ (m.type \in {"state", "exited"} /\ m.terminal = t)
Told(m, t) == IF m.type = "snapshot" THEN m.states[t] ELSE m.state
Believes(c, t, state) ==
  LET queue  == conn[c].control
      news   == {i \in 1..Len(queue) : Tells(queue[i], t)}
      latest == {i \in news : \A j \in news : j <= i}
  IN  /\ news = {} => view[c].states[t] = state
      /\ \A i \in latest : Told(queue[i], t) = state

Following(c) == conn[c].phase = "open" /\ conn[c].scoped

(* What the relay last published of a terminal, every subscribed client     *)
(* believes once it has read what is queued for it, unless a snapshot told  *)
(* it another state since: partial updates and exits that overlap, and      *)
(* subscriptions made in between, never leave a mirror behind.  Where a     *)
(* snapshot did (a restart is announced by one only), reporting the state   *)
(* that was published before it is silent, and the mirror stays behind.     *)
MirrorsFollowRelay ==
  \A c \in Clients, t \in Terminals :
    Following(c) /\ published[t] # NoState /\ t \notin drift[c]
      => Believes(c, t, published[t])

(* A viewport a terminal keeps, and an attachment the frame loop keeps, for *)
(* a connection that is open are ones its closing will release: the set     *)
(* closeConnection walks has the terminal.                                  *)
ViewportsAreReleasable ==
  \A c \in Clients, t \in Terminals :
    conn[c].phase = "open" =>
      /\ (t \in registry /\ live[t].views[c] # 0) => t \in conn[c].rendering
      /\ c \in attachments[t] => t \in conn[c].rendering
      /\ t \in conn[c].rendering => t \in conn[c].attached

(* An open client that rendered a terminal its session still lists is one   *)
(* the terminal negotiates with and the frame loop paints, and nobody else  *)
(* is: attach, resize, detach, a launch and closing keep the three records  *)
(* of it in step.                                                           *)
RenderingClientsArePainted ==
  \A c \in Clients, t \in registry \cap listed :
    conn[c].phase = "open" =>
      /\ t \in conn[c].rendering <=> live[t].views[c] # 0
      /\ t \in conn[c].rendering <=> c \in attachments[t]

(* While anybody is attached, the emulator's grid is the smallest of the    *)
(* viewports attached, whoever came, left, resized or restarted last.       *)
GridIsNegotiated == \A t \in Terminals : Negotiated(live[t])

(* A client about to get a delta has had a whole screen since it came; and, *)
(* if that screen or its attaching anew is of the process that runs now, a  *)
(* whole screen of the grid the terminal has now, whoever came, left or     *)
(* resized since.                                                           *)
AboutToGetDelta(t, c) ==
  /\ t \in registry /\ c \in attachments[t] \ full[t]
  /\ live[t].emulator /\ live[t].views[c] # 0 /\ c \notin live[t].owes
WholeScreenFirst ==
  \A t \in Terminals, c \in Clients :
    AboutToGetDelta(t, c) =>
      /\ painted[c][t].run # 0
      /\ painted[c][t].run = live[t].run => painted[c][t].size = live[t].size

(* With the timer off, nobody is attached, and a live terminal is one whose *)
(* start is about to be published: no process is left undrained.            *)
SleepsOnlyWhenIdle ==
  ~timer =>
    /\ \A t \in Terminals : attachments[t] = {}
    /\ \A t \in registry :
         IsLive(live[t]) => \E p \in pending : p.terminal = t /\ p.step = "publish"

(* A stopped terminal that is not removed is seen to have ended, though     *)
(* nothing but the timer looks; or it is asked for its exit status for      *)
(* ever, and the status is never known (a reader that sleeps through the    *)
(* hang-up: PseudoTerminal).                                                *)
StoppedIsReaped ==
  \A t \in Terminals :
    \/ (t \in registry /\ live[t].pty = "ended") ~> (t \notin registry \/ live[t].pty # "ended")
    \/ []<><<ExitUnknown(t)>>_vars

(* The full repaint a client is owed it gets, if it keeps reading: lagging  *)
(* output, a resize, a restart and other clients postpone it.  Only a       *)
(* client that is no longer attached, and a terminal that has no screen to  *)
(* send, let the frame loop forget it.                                      *)
OwedIsPainted ==
  /\ \A t \in Terminals, c \in Clients :
       (c \in full[t]) ~> (c \notin full[t] \/ conn[c].phase = "closed")
  /\ [][\A t \in Terminals, c \in Clients :
          c \in full[t] \ full'[t] =>
            \/ painted'[c][t] = Screen(t) /\ Len(conn'[c].output) > Len(conn[c].output)
            \/ c \notin attachments'[t] \/ ~live[t].emulator]_vars

-----------------------------------------------------------------------------
(***************************************************************************)
(* What the documents say and the code does not do (README, Findings).     *)
(***************************************************************************)

(* The rows a delta leaves alone are rows this process's screen has in      *)
(* common with what the client was last sent in whole.                      *)
DeltaIsOfSameProcess ==
  \A t \in Terminals, c \in Clients :
    AboutToGetDelta(t, c) => painted[c][t].run = live[t].run

(* A terminal negotiates its size with clients that remain.                 *)
ClosedClientsHaveNoViewport ==
  \A c \in Clients, t \in registry :
    conn[c].phase = "closed" => live[t].views[c] = 0
=============================================================================
