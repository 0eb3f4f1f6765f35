# Janela in TLA+

Janela keeps terminals alive in a daemon (`janelad`) and shows them in clients
that come and go. This directory models the parts of it where state is shared and
things happen in an order nobody chose: the terminals, the loop that paints them
and the relay that reports them, the connections and both ends of the link to a
client, the sessions and what the database keeps of them, the thread that reads a
pseudo-terminal, and the queues, trees and decoders all of it goes through. TLC
checks the models on small instances, and TLAPS proves the theorems of the
`*_proofs` modules for all values of the constants. `PROJECT.json` has the exact
correspondence (`map`: definition to source lines), the runs, the mutants that
show each property can fail, the hazards, the findings and the theorems.

Paths below are relative to `src/`.

## Inventory

| Part | Source | State | Operations | What makes it correct |
| --- | --- | --- | --- | --- |
| Live terminal | `packages/terminal/src/live-terminal.ts` | process, emulator, exit, failure, attention, activity, progress, attached clients (viewport, revision, `owesSize`) | start, stop, restart, send, markAttention, attach, detach, drain, two repaints | the grid is the smallest viewport; a resize makes every client owe a full repaint; the state derived from the fields is the one reported |
| Registry | `packages/terminal/src/registry.ts` | id to live terminal, one observer | register, remove, get, hangUpAll | a removed terminal is forgotten everywhere |
| Headless emulator | `packages/terminal/src/headless-emulator.ts` | the library's screen, shadow, row revisions, scroll ring, floor, cursor and mode revisions | feed, resize, repaintSince, fullRepaint | a delta from revision *n* turns the screen at *n* into the screen now |
| Frame loop | `packages/daemon/src/frame-loop.ts` | attachments with a `full` flag, timer | tick, attach, detach, detachAll, wake | everybody who looks is painted, whole screen first; the loop sleeps only when idle |
| State relay | `packages/daemon/src/terminal-events.ts` | last published signature per terminal | reconcile, raise, registered, removed | no client is left believing an old state |
| Server | `packages/daemon/src/server.ts`, `dispatch.ts` | connections: control and output queue, scopes, `attached`, `rendering`, closed | greet, read loop, requests, broadcast, close | limits hold, closing releases everything |
| Sessions | `packages/session/src/session-service.ts` | sessions, their terminals and layouts | create, rename, start, restart, stop, remove, worktree operations | a published session list agrees with the registry |
| Bounded queue | `packages/support/src/bounded.ts` | ring, blocked producers, parked consumer | push, next, return, finish | first in first out, nobody waits in vain |
| Client connection | `packages/client/src/connection.ts` | status, generation, current transport, pending requests, the loop | connect, disconnect, request, handle frame, tear down, back off | each request settles once, a stale transport has no effect, no call hangs |
| Client mirror | `packages/client/src/stores.ts` | projects, sessions, terminal states, selection | apply, markStale | equals what the daemon published |
| Attention policy | `packages/client/src/attention-policy.ts` | last signals | decide | one notification per event |
| Session naming | `packages/session/src/session-namer.ts` | histories, settings, agents asked | promptSubmitted, configure | agents are asked rarely, a late answer does not undo a change |
| Layout | `packages/core/src/session-layout.ts` | tabs of split trees, focus | split, close, move tab, move terminal, focus, repair | each terminal once, focus kept |
| Persistence | `packages/db/src/prisma-repositories.ts`, `adapter.ts` | rows, transaction lock | save, remove, touch | rows are the sessions listed |
| Desktop bridge | `apps/desktop/src-tauri/src/bridge.rs` | queue per connection, wake-up | connect, receive, close, pump | no frame withheld from a poll |
| Automations | `packages/session/src/automation-runner.ts` | a script's terminal | run, stop | exactly one outcome |
| Forge | `packages/forge/src/forge-service.ts` | cached calls | overview, refresh | a cache entry expires |
| Protocol | `packages/protocol/src/` | decoder buffer | encode, decode, handshake | chunking changes nothing |
| Pseudo-terminal | `packages/pty/` | ring between two threads, water marks, exit code | read, write, close | no byte lost, exit code before stop |
| Daemon process | `apps/daemon/src/` | idle since | idle exit, shutdown | never exits while in use |
| Gateway | `apps/gateway/src/relay.ts` | two sockets, back pressure | deliver, drained, close | each side closed once |
| Projects, git, integrations, command line, desktop, web, UI | the rest | files, database, views | | sequential or presentational |

How they interact. A client's loop opens a transport, shakes hands and subscribes;
its frames are read by its connection's read loop in the daemon. Input is handled
on the spot; a request is dispatched in a microtask of its own and may await git,
the login shell or the database. Dispatch calls the session service, the registry
and the live terminals, and replies through the control queue. The session
service changes its sessions in memory, saves them in transactions that wait for
each other, and publishes the whole list. The frame loop's timer drains each live
terminal (a ring the pseudo-terminal's reader thread fills), whose emulator calls
the relay back, which broadcasts into the control queues; then it paints each
attachment into an output queue, calling the relay again after a full repaint.
Each queue is pumped into the transport by a loop of its own. A full control
queue closes its connection from within whatever was broadcasting; a full output
queue only makes the frame loop owe that client a whole screen. Between the
daemon's socket and a view lie a frame decoder and, on the desktop, a bridge that
is polled. The client applies state frames to its mirror and hands output to
whoever watches the terminal.

What is hard here: callbacks that close connections in the middle of a broadcast;
requests that outlive their connection, their session or their terminal; the two
places that remember that a client is owed a whole screen (`full` in the frame
loop, `owesSize` in the terminal); three records of who looks at a terminal;
snapshots and partial updates that overlap; revisions that a restart starts over;
a timer that must be off when idle and on otherwise; a reconnecting loop that can
be told to stop at any of its awaits; saves whose columns are older than their
terminals; a crash between memory and disk; a condition variable two threads
meet at.

## Modules

- **`LiveTerminal`**: one terminal as a record, one operator per method of
  `PtyLiveTerminal`: `Attached` is `attach()` with the negotiation and
  `applySize()` it ends in, `Ended` is `observeStreamEnd()`, `FullyRepainted`
  what looking does to the flag and the debt, and so on. It has no behaviour of
  its own.
- **`TerminalServer`**: composes the live terminals with the registry, the frame
  loop, the relay, the connections, the terminal requests of dispatch and of the
  session service, and the clients' mirrors. JavaScript runs one handler at a
  time, so a handler is one action. The exception is the tick, which loops over
  terminals and clients in an order that depends on insertion: it is a run of
  actions (`TickStart`, the feed steps, `PaintStart`, the paint steps, `TickEnd`)
  during which `tick.phase` is not `"idle"` and every other daemon action is
  disabled. A step boundary stands wherever the code awaits: a request read and
  not yet dispatched (`conn[c].request`), a launch being resolved or a session
  being saved (`pending`). `Finish` is the common end of every handler: it
  queues the messages, closes each connection whose control queue was full, and
  releases what those connections held, as `enqueueControl` and
  `closeConnection` do. `drift` (whom a snapshot last told a state other than the
  published one) and `painted` are history variables.
- **`ScreenRepaint`**: the headless emulator and the screens its clients make of
  its repaints. `TrackDamage`, `TrackCursor`, `TrackModes` are the three parts of
  `trackDamage`; `Redraw` is a chunk that invalidates, or a resize; `Delta` and
  `BeyondDelta` are `repaintSince`.
- **`DaemonLink`**: one client's reconnecting loop (`connection.ts`) and the
  daemon's connections (`listener.ts`, `server.ts`), over transports that have
  one sequence of frames each way. `client` is the loop's locals and the
  closure's, `link[g]` a transport with both of its ends, `daemon` who listens at
  the path: this daemon, another version, a refusing one, or a stranger that
  never speaks or speaks nonsense. `loop` says at which await the client is;
  `Opens`, `Greeted`, `Refused`, `Pumps`, `Loses`, `Delays` are the stretches
  between them, and `Connect`, `Disconnect`, `Requests` may come at each. A frame
  the pump throws at is a step of its own: `RefusedLate` for a refusal (the
  daemon's side is `Revokes`), `LosesOnFrame` for a second hello or a frame that
  cannot be read or placed (`Strays`).
- **`SessionService`**: sessions and their project in memory, in the database and
  in the clients' last list. A request is a task (`tasks[o].at` is the await it
  is in); a save is queued (`QueueSave`) and takes its turn (`Saved`,
  `SaveFailed`). A delete is one statement, which may fail as well
  (`NotForgotten`, `NotRolledBack`, `ProjectRowKept`). `Restart` is a crash at any
  moment. The histories `unsaved`, `ghosts`, `untold`, `strays` record what went
  wrong where the code lets it.
- **`SessionLayout`**: a split tree is the function from the paths of its leaves
  to their terminals, so that `closeTerminal`, `splitPane`, `moveTerminal` and
  `repairLayout` are set expressions and no recursion.
- **`SessionNamer`**: prompts, agents that are asked, their answers, and a rest.
- **`PseudoTerminal`**: the reader thread of `lib.rs` step by step (gate, wait,
  poll, tail, read, commit, and its end: close, reap, store, publish, retire),
  against the draining side, whose `drain` and `notify` are apart as in the code,
  and the table of handles with its generations.
- **`FrameDecoder`**: the decoder of `frame.ts` fed with every division of a
  stream into chunks; **`Bridge`**: the desktop's bridge between a pump and a
  long poll (`bridge.rs`).
- **`BoundedQueue`**: `boundedQueue`, call by call, with the ring's indices;
  **`ClosableFifo`** says what it promises, a line that can be closed; the former
  implements the latter (`ServesInTurn`).
- **`MC*`**: instances for TLC. `MCTerminalScenarios`, `MCTerminalViewers` and
  `MCPseudoTerminal` divide a module into scenarios, see Runs.
- **`TerminalServer_proofs`** (with `LiveTerminal`), **`DaemonLink_proofs`**,
  **`SessionService_proofs`**, **`PseudoTerminal_proofs`**,
  **`ScreenRepaint_proofs`**, **`SessionLayout_proofs`**, **`Bridge_proofs`**:
  theorems about the module each extends. **`MCComponents_proofs`**: those about
  `BoundedQueue`, `SessionNamer` and `FrameDecoder`, and about the model that puts
  the small components side by side.

`TerminalServer` extends `LiveTerminal`. It keeps its queues as sequences; that
the real ring queue may be read as one is what `BoundedQueue`'s refinement shows.
It owes a full repaint after any frame a client does not get, which is why
`ScreenRepaint` may let a client handle each repaint as it is made. `DaemonLink`
takes from `TerminalServer` only that a subscribed connection is told of every
change, and gives it clients that connect once; `SessionService` takes from it
that a start, a stop and a removal of a terminal are a step each. The other
modules stand below these: `FrameDecoder` and `Bridge` make the sequences of
`DaemonLink`, `PseudoTerminal` the stream `LiveTerminal` drains, `SessionLayout`
and `SessionNamer` the layout and the name `SessionService` keeps.

### Choices a reader should know

- A grid has one dimension: columns and rows are negotiated by the same minimum,
  independently. A row of `ScreenRepaint` is one cell, because rows are compared,
  dated and sent whole.
- Exit codes, failure texts and progress values are one value each: two states
  that read alike are the case in which a signature could wrongly suppress.
- `await live.stop()` in `removeTerminal` resolves in the next microtask; removal
  up to the save is one step. A spawn that fails fails with a
  `PseudoTerminalFailure`, the only error the spawn raises.
- A terminal's sessions are abstracted to the set `listed`. Naming a session and
  marking it stand for the requests that publish without touching a terminal and
  that touch one without awaiting.
- Clients in `Subscribers` behave as `packages/client` does: they subscribe
  first, attach only to terminals of their mirror, and watch a terminal's output
  from before they attach until before they detach
  (`packages/ui/src/pages/main-window/model/terminal-attach.ts`). Other clients
  (the command line) send requests in any order.
- The terminal library's parser (`ScreensAfter`, external) may do to a screen
  whatever is consistent with the rows it reports dirty and the scrolling it
  reports. A feed that throws half-way is not modelled.
- The queue's consumer is a `for await` loop: it never asks twice at once.
- A change of state that a request makes is its identifier: a mirror `shows` the
  requests whose changes it has, which is what an acknowledgement promises.
- The row of a session has the columns of the call that saved it and the
  terminals its object has when the transaction reaches them
  (`prisma-repositories.ts:129-150`); a crash rolls a transaction back whole.
- A slot's generations keep their width: `NextGeneration` goes back to 1 after
  `MaxGeneration`, as `next_generation` does.
- A kernel buffer holds `KernelSize` bytes of a child; bytes are numbered in the
  order they were written, which is all a property needs of them.

## Runs

All runs are of a safety specification except `liveness`, `link` and `reaped`.
`CHECK_DEADLOCK FALSE` is set where the bounds really stop the model: a client
that closed does not come back, and revisions, processes, prompts, bytes and
items are counted up to a bound. `link` and `sessions` never stop.

| Run | Instance | Shows |
| --- | --- | --- |
| `viewers` | 2 clients, queues 1 and 1; either sizes 1 and 2, attach, detach, start, a process that runs on; or one size, a drain that throws, attach, start, stop, remove | `RenderingClientsArePainted`, `GridIsNegotiated`, `WholeScreenFirst`, `ViewportsAreReleasable`, `SleepsOnlyWhenIdle` |
| `liveness` | 1 client, sizes 1 and 2, 2 processes; attach, resize, start, stop, restart; `ReadingSpec` | `StoppedIsReaped`, `OwedIsPainted` |
| `relay` | either 1 subscribed client, 2 processes, bell, prompt, failing read, two activities, attach, mark, start, restart, control queue 3; or 2 subscribed clients, bell, an activity, a progress, mark, rename, start, control queue 2 | `TypeOK` (no queue exceeds its capacity), `MirrorsFollowRelay` |
| `link` | 2 transports, 2 requests at a time, every kind of listener; `FairSpec` | `TypeOK`, `NothingWaitsWithoutATransport`, `AcknowledgedIsShown`, `FreshMirrorIsOfTheCurrentTransport`, `OneTransportOpen`, `RefusalIsFinal`, `ConnectResolves`, `DisconnectResolves`, `RequestsSettle` |
| `sessions` | 1 session in a folder or a worktree, 2 terminals, 2 requests at a time, 2 names, saves and deletes that fail | `TypeOK`, `MemoryIsOnItsWayToDisk`, `RowsAreListed`, `ListIsAnnounced`, `UserNameWins`, `LiveTerminalsAreListed` |
| `ring` | 1 terminal of 7 bytes, or 2 of 2 bytes that share the table; water marks 4 and 1, reads and drains of 2, 2 slots | `OutputInOrder`, `SleepsOnlyWhenFull`, `EndIsWhole` |
| `components` | one of eight instances, below | the properties of the modules that work by themselves |
| `restart`, `closed`, `idle`, `removed`, `reaped` | see Findings | a violation each |

`components` puts small models that share nothing into one: `part` is chosen
initially and never changes, so a behaviour is a behaviour of one component and
the state space is the sum of theirs. The sizes are constants of `MCComponents`,
so that its theorems hold of all of them. Where a component has proofs, their
module is the one instantiated: `Rows!ScreenFollows` is then a theorem about the
screen the run checks. `relay` and `viewers` do the same with two
scenarios of one module, and `ring` bounds the bytes more tightly once a second
terminal has been spawned. The instances of `components`:

| Part | Instance | Properties |
| --- | --- | --- |
| `queue` | capacity 3, 10 pushes, both policies | `TypeOK`, `NobodyWaitsInVain`, `PendingAreBlocked`, `ServesInTurn` |
| `rows` | 1 client, 1 or 2 rows, a blank and two combined contents, ring of 2, 4 revisions | `ScreenIsMirrored` |
| `modes` | 2 cursor positions, a noticed and an unnoticed mode, ring of 2, 3 revisions | `CursorIsMirrored`, `NoticedModesAreMirrored` |
| `layout` | 4 terminals, panes 3 deep | `EachTerminalOnce`, `FocusStays`, `RepairMends` |
| `namer` | 2 sessions, 1 agent at a time, 2 attempts, 3 prompts | `AsksAreRare` |
| `decoder` | 3 frames, header of 2 bytes, payloads up to 3, every chunking | `DecodedIsSent` |
| `bridge1`, `bridge2` | 1 connection, both kinds, 4 frames, a queue of 2; 2 connections of 1 frame, one held | `NothingIsWithheld` |

### Bounds

One terminal suffices in the server runs: terminals share only a connection's two
queues and the timer, and a broadcast about another terminal has no effect on the
first beyond taking room, which the smallest capacities already exhaust. Two
clients make every interference between clients: one overruling the other's size,
one closed by a broadcast the other caused, one lagging while the other is
painted. Two sizes give a smaller and a larger viewport and every order of them.
Two processes give a restart (`liveness`, `relay`); the proofs of what `viewers`
checks are for any number of them. A control queue of 2 or 3 overflows within a few
broadcasts and still holds a partial update behind a snapshot.

In `link` two transports are the one in use and one whose end is still
under way; a transport both sides are done with is used again (`Swept`), so that
the number of reconnections is not bounded. Two requests are one that waits and
one that is made meanwhile, by the loop itself (subscribe) or by the user.
A client's transport ends for both sides when it is closed, as a web socket's
does; the command line's socket, which only half-closes and goes on being read,
is not this client's.

In `sessions` two requests interfere in every pair, at every await, and a third,
whose save was queued first, adds nothing to the order of the other two: saves
are served one by one, and what a request checks it checks when it takes its
step. One session suffices because no operation but the project's removal
touches two. A session in a project's own directory takes the steps of one in a
worktree without those of git, so the two kinds of the run cover it; the proofs
are for every kind. Identifiers are used again when nothing refers to them.

In `ScreenRepaint` a ring of 2 with 4 revisions wraps twice, and both sides of
the limit (`revision - r` 2 and 3) occur; two rows have one that scrolls away and
one that stays. In `queue`, ten pushes wrap a ring of three three times, with up
to three producers blocked. In `ring` seven bytes fill the ring past the high
mark, drain it below the low one and wrap it while it grows; two terminals of two
bytes use a slot again while the first one's handle is still asked for its code.
Four terminals give a
tab of three panes beside another one, and a depth of three is both reached and
refused. A header of two bytes can be cut in the middle, a payload of three in
two places, and three frames have one that is whole in a chunk, one before and
one after it.

### Fairness

`TerminalServer!FairSpec`: a timer that is set fires (`setInterval`), also between
the reads of frames, hence strongly; a tick, once begun, ends, because it is a
synchronous loop over finite maps, and looks at each terminal it drains whatever
it finds (`LookEnds`); the microtasks of a turn of the event loop run out, and an
await on the database or the shell resolves. That an exit code is ever known is
not assumed: by finding 5 the reader thread may never store it. Nothing is assumed
of clients; `ReadingSpec` adds that a client keeps reading output, which
`OwedIsPainted` needs and says so. `DaemonLink!FairSpec`: the client's loop goes on
when what it awaits is there, its handshake deadline expires, a rejected send is
noticed, and the daemon's side reads, dispatches and closes; nothing is assumed of
a stranger at the path, of a daemon's restart, of the user, or of opening a
transport. `attemptOnce` awaits that (`connection.ts:385`) before it sets the
deadline (`connection.ts:412`) and passes it no abort, and a web socket that
neither opens nor closes (`apps/web/src/adapters/transport.ts:45-149`) keeps the
loop there. `ConnectResolves` and `DisconnectResolves` are therefore conditional on
`OpeningsReturn`. `PseudoTerminal!FairSpec`: each thread takes its next step, but a
spurious wake-up and the child's behaviour are not assumed.

### What the properties mean

- `MirrorsFollowRelay`: what the relay last published of a terminal, every
  subscribed client believes once it has read its queue, unless the last snapshot
  it was sent says another state. The exception is the code's: a snapshot tells a
  state without publishing it, and `reconcile` compares with what was published
  (see Divergences). It ends with the next state that is published and with the
  next snapshot that agrees.
- `RenderingClientsArePainted`, `ViewportsAreReleasable`: the three records of
  who looks agree, for each terminal a session lists, and closing a connection
  finds everything to release.
- `GridIsNegotiated`, `WholeScreenFirst`: what is painted, and that a delta is
  only ever sent to a client that was sent a whole screen of the same grid since
  it last attached.
- `SleepsOnlyWhenIdle`, `StoppedIsReaped`: the timer's two halves. A stopped
  terminal is seen to have ended, or the timer goes on asking for a status that
  never becomes known.
- `OwedIsPainted`: the debt in the frame loop is paid or the connection closes;
  and what clears the debt is the painting itself, a client that is attached no
  longer, or a terminal without a screen (see Divergences).
- `AcknowledgedIsShown`: when a request of a client is acknowledged, its mirror
  shows the change; `FreshMirrorIsOfTheCurrentTransport`: a mirror that is not
  stale was filled by the transport in use.
- `NothingWaitsWithoutATransport`, `RequestsSettle`: a request is settled, and its
  promise is never forgotten by a teardown; `ConnectResolves`,
  `DisconnectResolves`: neither call hangs, whoever listens, as long as openings
  return.
- `OneTransportOpen`, `RefusalIsFinal`: an attempt that is lost, abandoned or
  refused leaks no transport; and whichever attempt reads a refusal, as its first
  message or among later ones, ends the loop and is not retried behind the user's
  back.
- `MemoryIsOnItsWayToDisk`, `RowsAreListed`, `ListIsAnnounced`: the sessions in
  memory, in the database and in the clients' list differ only by what a request
  is still doing, or has failed to do. A delete that fails leaves a row without a
  session (`ghosts`) and a change no list was sent of (`untold`), which the next
  publish of any request makes good.
- `UserNameWins`: across saves out of order, agents' late answers and crashes, and
  for a session whose row outlived it as well.
- `LiveTerminalsAreListed`: a process can be found by the requests that stop it.
- `EachTerminalOnce`, `FocusStays`, `RepairMends`: the layout shows each terminal
  of its session once; operations on other tabs leave the focus on its terminal;
  a damaged layout is made sound, and a sound one is left alone.
- `AsksAreRare`: agents are asked at most so often, whatever prompts come, for as
  long as a history is kept: changing the settings or starting the daemon anew
  begins another.
- `OutputInOrder`, `SleepsOnlyWhenFull`, `EndIsWhole`: no byte is lost, doubled or
  swapped between the threads; the reader sleeps only when it should; a terminal
  that ended by itself has delivered everything and has its own exit code.
- `DecodedIsSent`, `NothingIsWithheld`: the frames a client handles are the frames
  sent, at once, however the stream is cut and whenever it is polled.
- `ScreenIsMirrored`, `CursorIsMirrored`, `NoticedModesAreMirrored`: a client that
  was last painted at the current revision has the emulator's rows, cursor, and
  those modes for which the emulator has a handler.

## Findings

Each is the counterexample of a run.

1. **`restart`** `start()` dates every attached client at the new emulator's
   revision, which the client has not seen (`live-terminal.ts:328`); the next
   delta is drawn over the old process's screen.
2. **`closed`** A request dispatched after its connection closed can attach a
   viewport nobody will release (`server.ts:479`, `server.ts:308`).
3. **`idle`** `disconnect()` during the handshake, the hello already received:
   the loop does not look at the abort again and reports `connected`
   (`connection.ts:516-517`); the connection is stopped and says otherwise.
4. **`removed`** A save that waits or is made while its session is removed writes
   the row again (`session-service.ts:635`, `prisma-repositories.ts:129`): the
   session comes back with the daemon's next start.
5. **`reaped`** `hang_up` sets its flag and notifies without the ring's lock
   (`lib.rs:1171-1183`): a reader between its test and its wait misses both, and
   neither the thread nor the child is ever collected. Where slots are reused,
   the code of a terminal that was hung up can be lost as well.

The passing runs include these behaviours: their properties hold in spite of
them. `ViewportsAreReleasable` speaks of connections that are open,
`WholeScreenFirst` compares grids and not processes, `RowsAreListed` excepts the
rows finding 4 leaves (`ghosts`), and `StoppedIsReaped` the terminals of finding 5.

### Divergences without a run

- `docs/packages/daemon.md:517` sends a state frame "only when the state actually
  changed", "so a *real* change still goes out on the next report" (528-529). A
  restart is announced by a session snapshot, which leaves the relay's signature
  alone (`terminal-events.ts:46`). A terminal whose read failed, that was restarted
  and fails again in the same way, with nothing reported or repainted in full in
  between, has then the state last published: no state
  frame is sent, a failure has no exit frame, and clients go on believing
  `running`, from the snapshot, until the state moves on or another snapshot comes.
  `relay` has these steps, and `drift` the clients.
- The database may fail a delete after the session left the service's list
  (`session-service.ts:635-639`, also from the roll-back at 804-806; of a project,
  `project-service.ts:174-178`). Clients go on showing the session until the next
  publish, a second removal is refused with `UnknownSession`, and the row brings the
  session back at the next start.
- A full repaint owed because the grid moved lowers the attention flag inside
  `repaintFor` (`live-terminal.ts:428`) and the frame loop, which thinks it sent a
  delta, does not call `settled` (`frame-loop.ts:151`);
  `docs/packages/daemon.md:550-554` says the hook runs once per full repaint.
- `ESC =` and `ESC >` change the keypad's mode and have no handler
  (`headless-emulator.ts:574`), so that a delta leaves it out, although
  `docs/packages/terminal.md:361` says the mode line always carries both
  polarities. `ScreenRepaint` has the mode (`OtherModes`) and promises nothing
  of it.
- `docs/architecture.md:625`, "off means off": an agent's answer that comes after
  naming was switched off writes a history back (`session-namer.ts:202`).
- `docs/architecture.md:640-650` runs automations at a session's creation; the
  daemon's wiring (`apps/daemon/src/environment.ts:104`) gives the session
  service neither an automation runner nor the copying of included files.
- The command line's `close()` half-closes its socket (`socket-transport.ts`) and
  frames that arrive afterwards are still delivered; the client's other
  transports drop them.
- A terminal that is removed while its launch is being resolved is registered and
  runs without a session (`session-service.ts:569-570`); so does one started on a
  session whose worktree git then refuses. `strays` has them.
- `connect()` called while `disconnect()` awaits its loop does nothing.
- `start()` that fails in its spawn leaves the terminal without an emulator, and
  a frame loop that owes such a terminal's client a whole screen clears `full`
  although the repaint was empty (`frame-loop.ts:133`, `live-terminal.ts:450`): a
  later start sends the client a delta first. It is finding 1 by another way in.

## Proofs

The assumptions are those of the modules (`LiveTerminalAssumption`,
`TerminalServerAssumption`, `DaemonLinkAssumption`, `SessionServiceAssumption`,
`PseudoTerminalAssumption`, `BoundedQueueAssumption`, `BridgeAssumption`,
`ScreenRepaintAssumption`, `SessionNamerAssumption`, `FrameDecoderAssumption`,
`SessionLayoutAssumption`; the last five are hypotheses of the theorems, because `components` has instances of
their modules): sets are finite where something is counted, capacities are
positive, the low water mark is below the high one, the value that stands for
`undefined` is no terminal, session or transport, and the word the emulator packs
for a combined cell is not one it packs for another. TLC evaluates them in every run. One is more than a
condition on constants: `GenerationsAssumption` has no slot of the
pseudo-terminals' table run through its 2^19 - 1 generations. The code does not
prevent it. The generation would start over, and a handle kept since then would
name a newer terminal.

- **`TerminalServer_proofs`**, in three parts. About `LiveTerminal`: for each
  operator, that it preserves the type of a terminal and `Negotiated`, and what it
  does to the viewports; the minimum exists because the sizes attached are a finite
  non-empty set of naturals. About the server: `TypeCorrect`, `GridsAreNegotiated`
  and `ClosingReleases`, for any number of clients and terminals and any capacities.
  The inductive invariant `Inv` is equivalent to the conjunction of the three
  properties and is proved as one: negotiation chooses among viewports only if
  they have the right type, and a connection that closes inside a broadcast
  changes viewports, attachments and queues at once, so that each property has
  to survive what the others' variables do. `Finish`, the end of every handler,
  has a lemma of its own (`FinishKeeps`), and each action is reduced to it.
  About what clients see: `DeltasFollowScreens` (`WholeScreenFirst`) needs `Screens`: who is painted
  without `full` and without `owesSize` has been sent a whole screen of the
  present grid, also in the middle of a tick. `LookersArePainted`
  (`RenderingClientsArePainted`) needs that `rendering`, the frame loop's entries
  and the terminal's viewports are written together (`Records`).
  `NobodyIsLeftUndrained` (`SleepsOnlyWhenIdle`) needs `TickServes`: a tick that
  is under way still has before it every terminal that would keep the timer set.
  Each action wakes the timer, adds nothing to drain, or is the tick
  (`Wakes`, `Rests`, `Ticks`). `MirrorsAreNotLeftBehind` (`MirrorsFollowRelay`)
  is inductive on top of `Inv`: what a step queues for a client is true of what is
  published then, and mentions each terminal whose published state moved
  (`Honest`), whether it is a state frame, a snapshot or a reply; and the last
  message about a terminal decides what a client believes (`ComesMore`,
  `ComesNext`).
- **`DaemonLink_proofs`**: `TypeCorrect`, `NobodyWaitsForNoReply`
  (`NothingWaitsWithoutATransport`), `MirrorsAreFresh`, `AttemptsLeakNothing`
  (`OneTransportOpen`), `RefusalsAreFinal` and `ClientsReadTheirWrites`
  (`AcknowledgedIsShown`), for any number of transports, requests and changes. The
  invariant has two layers. `Inv` says where each transport may be for each await
  the loop is at; `Ordered`, on top of it, that among the frames on their way to a
  client the change a request made stands before its acknowledgement. That a
  refusal is final is a fact about each step, for refusals in the greeting and
  after it.
- **`SessionService_proofs`**: `TypeCorrect`, `TheUsersNameWins`,
  `NoChangeIsForgotten` (`MemoryIsOnItsWayToDisk`), `RowsHaveASession`,
  `ClientsAreToldOfSessions`, `LiveTerminalsCanBeStopped`. The invariant says what
  a task holds at each await (`TaskInv`), that the saves that wait are those of
  the tasks that wait for one (`QueueInv`), and four parts for names, rows, the
  announced list and processes. Every action queues a save, commits one, has one
  fail or leaves them alone (`Queues`, `Commits`, `Fails`, `Quiet`), and the parts
  are proved of these four.
- **`PseudoTerminal_proofs`**: `TypeCorrect`, `InOrder` (`OutputInOrder`),
  `SleepsOnlyFull` (`SleepsOnlyWhenFull`) and `EndsWhole` (`EndIsWhole`), for any
  number of terminals and slots, any water marks and any sizes of reads and
  drains. The invariant has four parts. `Ring`: the live cells hold the bytes
  between what was delivered and what was committed, and the stretch the reader
  writes to unlocked is none of them; positions are written with one wrap instead
  of a remainder (`Cell`), and `GrownRing` says what growing makes of them, for
  the least capacity that doubling reaches. `Thread`: what the reader knows at
  each place, above all that a stream which ended by itself has been read to its
  end. `Held`: the daemon's side, where a reader that is parked has a backlog or a
  notification that is on its way. `Table`: a handle names its own terminal's slot
  or the code kept of it, which needs the generations to be distinct, and they are
  counted by the terminals spawned (`Spawned`). `TypeOK` is in no run of its own;
  the theorem covers every instance.
- **`Bridge_proofs`**: `TypeCorrect` and `WithholdsNothing` (`NothingIsWithheld`),
  for any number of connections, kinds of frames and capacities. `GoesOn`: a
  queue holds the frames that follow the last one answered, and if a frame was
  read that is in neither, the connection is severed and its queue full, so that
  `drain` never answers past a gap. `Announced`: a poll that sleeps has nothing
  to answer, or somebody is about to notify it. Its assumption is a hypothesis of
  the theorems, because the instances `components` checks are parameters of it.
- **`ScreenRepaint_proofs`**: `TypeCorrect`, `ScreenFollows` (`ScreenIsMirrored`),
  `CursorFollowsScreen` (`CursorIsMirrored`) and `NoticedModesFollow`
  (`NoticedModesAreMirrored`), for screens of any height and content and a ring of
  any length. The invariant is about a client that still shows revision *n*, if a
  delta can lead it on from there. `RowsFollow`: a row that did not change since
  *n* is on the client's screen, as many rows higher as were scrolled since *n*.
  `CursorFollows`, `ModesFollow`: a cursor or a set of modes not dated after *n* is
  the one the client has. How much was scrolled is a sum over the ring, and what
  one more entry, or one that is overwritten, makes of it are lemmas about that sum.
- **`SessionLayout_proofs`**: `ShowsEachOnce` (`EachTerminalOnce`), `KeepsFocus`
  (`FocusKept`) and `RepairsMend` (`RepairMends`), for any terminals and any
  greatest depth. A tree is a function of paths, and a set of paths has the shape of
  a binary tree (`Shape`) if no leaf is below another and wherever a path to a leaf
  turns, some leaf lies the other way. `GraftShape` says that a leaf may give way to
  a tree, from which splitting and docking follow; `ShortShape` that when any leaves
  go, and each split left with one side becomes that side, the rest has that shape
  again (`Grown` is what every beginning of a path has come to), from which closing
  and repair do; `TopShape` that cutting a tree at a depth leaves one. The invariant
  `LayoutInv` adds to the property that the roots are such trees; they have finitely
  many leaves (`ShapeIsFinite`), so that the ring of panes `focusNeighbour` goes
  round exists (`EntriesAre`). Repair is proved of more than the damage the run
  tries: `RepairedGood` makes of any tabs whose trees have the shape of one, whatever
  they show and wherever the focus is, a good layout that shows what may be shown
  and, if none was too deep, all of it. Among the leaves of one terminal one is first
  (`FirstOfLeaves`), so each survives once; the *n*-th tab with survivors is one
  (`NthIs`), and the focus is put on one of them (`FocusAfterIs`).
- **`MCComponents_proofs`**. About `BoundedQueue`: `TypeCorrect`, `NoLostWakeup`,
  `PushesResolve`, and the refinement `RingServesInTurn`, for every capacity. The inductive
  invariant `IInv` adds to the properties that the slots the queue counts hold
  items (`RingHolds`; otherwise `next` could serve an empty slot) and that the
  blocked items are distinct and in the order of their pushes (`BlockedInOrder`;
  otherwise resolving one could leave its twin pending). The refinement rests on
  lemmas about arithmetic modulo the capacity that say what each index operation
  does to the line.
  About `SessionNamer`: `AsksStayRare` (`AsksAreRare`), for any number of sessions
  and any limits. `Counted`: of the namers started since a session rested all but
  the one that runs have failed, or the last of them found a name, and then no other
  starts; the history they are counted in outlives the agent.
  About `FrameDecoder`: `FramesAreKept` (`DecodedIsSent`), for any header
  length, any frames and any cuts. The invariant `DecoderInv`: what is held is a
  prefix of the next frame, in an array with room for all of it once its length is
  known, and what was returned last are the payloads before it. `WholeIs` says which
  frames a chunk holds whole; `ReturnsKeeps` and `ContinuesKeeps` follow the two
  halves of `push`. That a view still shows its frame is where `Replaced` matters:
  what is left of the chunk goes into an array the view is not of.
  About the components side by side: what `components` checks of its screens, its
  layout, its namer, its decoder and its bridges (`ScreensAreMirrored`,
  `CursorsAreMirrored`, `ModesAreMirrored`, `TerminalsAreShownOnce`, `FocusIsKept`, `LayoutsAreMended`,
  `AsksStayRare`, `FramesAreDecoded`,
  `BridgesWithholdNothing`), for all values of their constants. A behaviour stays
  with the component it began with (`RowsAlone` and its like), and is one of it.

A recursive definition is a function here, and is unfolded by its equation: that
such a function exists, and what it is at each argument, is shown from the least
argument at which it would be otherwise (`LeastNatural`), because the theorems that
do this for all functions cannot be used by the provers at hand.

Only model-checked: liveness (`StoppedIsReaped`, `OwedIsPainted`,
`ConnectResolves`, `DisconnectResolves`, `RequestsSettle`), which the prover does
not reach. Every other property of a passing run is a theorem.

## Not modelled

- Conversions without state: the message coder, the repaint encoder, the escape
  sequence parser, the decoding of the forges' JSON, agents' settings.
- One command or query behind a call: git, SQL, the forges' tools, the directory
  browser. Their outcome enters as a step that may fail.
- Synchronous decisions: the attention policy, the forge service's cache, the
  naming of branches. Nothing runs between their reads and their writes.
- Automations, which the deployed daemon does not have.
- The kernel: descriptor and process numbers that are used again, and with them
  `jpty_write`, `jpty_resize` and `jpty_signal` after the reader has closed.
- The daemon's own start-up and shutdown, the gateway's relay and the command
  line: to the modelled parts they are a daemon that dies and starts, a transport
  that may end anywhere, and a client without a subscription.
- Views and platform shells.

`PROJECT.json` gives the reason for each component.

## Plan

Done: every module above, and a proof of every property of a passing run that is
not a liveness property.
