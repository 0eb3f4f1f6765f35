------------------------ MODULE SessionService_proofs ------------------------
(***************************************************************************)
(* What holds of the session service for any number of sessions, terminals *)
(* and requests in flight: the types; what is in memory is on its way to   *)
(* the database; rows are of listed sessions; lists are announced; live    *)
(* terminals are listed; and the user's name wins.                         *)
(*                                                                         *)
(* A step of a request is one of three kinds: it changes a session and     *)
(* calls save (Queues), its save ends (Commits, Fails), or it leaves the   *)
(* objects and the queue of saves alone (Quiet).  The parts of the         *)
(* invariant are proved kind by kind where the kind is enough, and action  *)
(* by action where it is not.                                              *)
(***************************************************************************)
EXTENDS SessionService, TLAPS, SequenceTheorems

Task == [at : Stages \cup {"idle"}, session : Sessions \cup {None},
         terminal : Terminals \cup {None}]
Write == [task : Tasks, session : Sessions, value : Session]

(* Where a request has its save in the queue; where it is about no session; *)
(* where its session is not listed yet; where it is not listed any more;    *)
(* and where it owes the clients a list.                                    *)
Saving == {"recording", "binding", "renaming", "editing", "seeded"}
Apart == {"dropping", "dropped", "configuring"}
Making == {"resolving", "recording"}
Ending == {"unrecording", "forgetting"}
Owing == Ending \cup (Saving \ {"recording"})

Types ==
  /\ object \in [Sessions -> Session \cup {Unborn}]
  /\ rows \in [Sessions -> Session \cup {Unborn}]
  /\ known \subseteq Sessions
  /\ \A s \in known : Born(s)
  /\ \A s \in Sessions : rows[s] # Unborn => Born(s)
  /\ Announced \subseteq Sessions
  /\ \A s \in Announced : published[s] \in Session
  /\ project \in [known : BOOLEAN, row : BOOLEAN]
  /\ registered \in [Terminals -> Sessions \cup {None}]
  /\ writes \in Seq(Write)
  /\ tasks \in [Tasks -> Task]
  /\ removed \subseteq Sessions /\ claimed \subseteq Sessions
  /\ unsaved \subseteq Sessions /\ ghosts \subseteq Sessions
  /\ untold \subseteq Sessions /\ strays \subseteq Terminals

(* What a request is about, where it is. *)
TaskInv ==
  \A o \in Tasks :
    /\ tasks[o].at \in Stages \ Apart => Of(o) \in Sessions /\ Born(Of(o))
    /\ tasks[o].at \in Apart \cup {"idle"} => Of(o) = None
    /\ tasks[o].at = "launching" => tasks[o].terminal \in Terminals
    /\ tasks[o].at \in Making =>
         /\ Of(o) \notin known /\ rows[Of(o)] = Unborn
         /\ \A q \in Tasks : Of(q) = Of(o) => q = o
    /\ tasks[o].at \in Ending => Of(o) \notin known

(* Each save in the queue is of a request that waits for it, and the last   *)
(* one of a session carries the session as it is.                           *)
Last(i) == \A j \in 1..Len(writes) : j > i => writes[j].session # writes[i].session

QueueInv ==
  /\ \A i \in 1..Len(writes) :
       /\ Of(writes[i].task) = writes[i].session
       /\ tasks[writes[i].task].at \in Saving
       /\ writes[i].value.kind = object[writes[i].session].kind
       /\ Last(i) => writes[i].value = object[writes[i].session]
  /\ \A i, j \in 1..Len(writes) : writes[i].task = writes[j].task => i = j

(* A save with the user's name is followed by none with another's. *)
NameInv ==
  /\ \A i \in 1..Len(writes) :
       /\ At(writes[i].task, "renaming") => writes[i].value.origin = "user"
       /\ writes[i].session \in claimed => writes[i].value.origin = "user"
       /\ writes[i].value.origin = "user" =>
            /\ object[writes[i].session].origin = "user"
            /\ \A j \in 1..Len(writes) :
                 j > i /\ writes[j].session = writes[i].session
                   => writes[j].value.origin = "user"
  /\ \A s \in claimed : Born(s) => object[s].origin = "user"
  /\ \A s \in claimed : rows[s] # Unborn => rows[s].origin = "user"

(* A row is of the session's kind, and somebody answers for it. *)
Kept(s) ==
  \/ s \in known \/ s \in ghosts
  \/ \E o \in Tasks : tasks[o].at \in Ending /\ Of(o) = s
  \/ rows[s].kind # "folder" /\ \E o \in Tasks : At(o, "dropping")

RowInv ==
  \A s \in Sessions : rows[s] # Unborn => object[s].kind = rows[s].kind /\ Kept(s)

(* The clients were shown a session as it is, or a request will show it, or *)
(* one that failed has left it to the next list.                            *)
Shows(s) ==
  /\ s \in Announced <=> s \in known
  /\ s \in known => published[s] = object[s]

Owed(s) == \E o \in Tasks : Of(o) = s /\ tasks[o].at \in Owing

ListInv == \A s \in Sessions : Owed(s) \/ s \in untold \/ Shows(s)

(* A terminal is in one session's object or row, and runs for that one. *)
Holds(x, t) == x # Unborn /\ t \in x.terminals
Holder(s, t) == Holds(object[s], t) \/ Holds(rows[s], t)

HolderInv ==
  \A t \in Terminals, s \in Sessions : Holder(s, t) =>
    /\ \A r \in Sessions : Holder(r, t) => r = s
    /\ registered[t] \in {s, None}
    /\ \A o \in Tasks : tasks[o].terminal = t => Of(o) = s

Inv ==
  /\ Types /\ TaskInv /\ QueueInv /\ NameInv /\ RowInv /\ ListInv /\ HolderInv
  /\ MemoryIsOnItsWayToDisk /\ LiveTerminalsAreListed

LEMMA InvImpliesProperties ==
  Inv => /\ TypeOK /\ UserNameWins /\ MemoryIsOnItsWayToDisk
         /\ RowsAreListed /\ ListIsAnnounced /\ LiveTerminalsAreListed
<1> SUFFICES ASSUME Inv
             PROVE  /\ TypeOK /\ UserNameWins /\ MemoryIsOnItsWayToDisk
                    /\ RowsAreListed /\ ListIsAnnounced /\ LiveTerminalsAreListed
  OBVIOUS
<1>1. TypeOK
  <2>1. \A i \in 1..Len(writes) : writes[i] \in Write
    BY DEF Inv, Types
  <2>2. \A i \in 1..Len(writes) : /\ writes[i].task \in Tasks
                                  /\ writes[i].value \in Session
                                  /\ tasks[writes[i].task].session = writes[i].session
    BY <2>1 DEF Inv, QueueInv, Of, Write
  <2>3. \A o \in Tasks : /\ tasks[o].at \in Stages \cup {"idle"}
                         /\ tasks[o].session \in Sessions \cup {None}
                         /\ tasks[o].terminal \in Terminals \cup {None}
    BY DEF Inv, Types, Task
  <2>4. known \subseteq {s \in Sessions : Born(s)}
    BY DEF Inv, Types
  <2>5. (removed \cup claimed \cup unsaved \cup ghosts \cup untold) \subseteq Sessions
    BY DEF Inv, Types
  <2>6. QED
    BY <2>2, <2>3, <2>4, <2>5 DEF Inv, Types, TypeOK
<1>2. UserNameWins
  BY DEF Inv, NameInv, UserNameWins, Types
<1>3. RowsAreListed
  <2> SUFFICES ASSUME NEW s \in Sessions, rows[s] # Unborn
               PROVE  \/ s \in known \/ Busy(s) \/ s \in ghosts
                      \/ Member(s) /\ \E o \in Tasks : At(o, "dropping")
    BY DEF RowsAreListed
  <2>1. object[s].kind = rows[s].kind /\ Kept(s)
    BY DEF Inv, RowInv
  <2>2. rows[s].kind \in Kinds
    BY DEF Inv, Types, Session
  <2>3. QED
    BY <2>1, <2>2 DEF Kept, Busy, Of, Member
<1>4. ListIsAnnounced
  BY DEF Inv, ListInv, ListIsAnnounced, Owed, Shows, Busy, Of
<1>5. QED
  BY <1>1, <1>2, <1>3, <1>4 DEF Inv

-----------------------------------------------------------------------------
(* Sessions and rows. *)

LEMMA SessionFields ==
  ASSUME NEW x \in Session
  PROVE  /\ x # Unborn
         /\ x.kind \in Kinds /\ x.bound \in BOOLEAN /\ x.name \in Names
         /\ x.origin \in {"derived", "automatic", "user"}
         /\ x.terminals \in SUBSET Terminals
BY SessionServiceAssumption DEF Session, Unborn, None

LEMMA BornAreSessions ==
  ASSUME Types, NEW s \in Sessions
  PROVE  /\ Born(s) => object[s] \in Session
         /\ rows[s] # Unborn => rows[s] \in Session
BY DEF Types, Born

LEMMA NoneIsNoSession == None \notin Sessions /\ None \notin Terminals
BY SessionServiceAssumption

LEMMA SeqElements ==
  ASSUME Types, NEW i \in 1..Len(writes)
  PROVE  /\ writes[i] \in Write
         /\ writes[i].task \in Tasks /\ writes[i].session \in Sessions
         /\ writes[i].value \in Session
<1>1. writes[i] \in Write
  BY DEF Types
<1>2. QED
  BY <1>1 DEF Write

(* A committed row is the call's value, but for its terminals, which are    *)
(* those the object has by now and those of the row that the call named.    *)
LEMMA ReconciledRow ==
  ASSUME Types, NEW w \in Write, object[w.session] \in Session
  PROVE  /\ Reconciled(w) \in Session
         /\ Reconciled(w).kind = w.value.kind
         /\ Reconciled(w).origin = w.value.origin
         /\ \A t \in Reconciled(w).terminals :
              t \in object[w.session].terminals \/ Holds(rows[w.session], t)
         /\ w.value = object[w.session] => Reconciled(w) = w.value
<1> DEFINE T == (IF rows[w.session] = Unborn THEN {}
                  ELSE rows[w.session].terminals \cap w.value.terminals)
                   \cup object[w.session].terminals
<1>1. w.value \in Session /\ w.session \in Sessions
  BY DEF Write
<1>2. Reconciled(w) = [w.value EXCEPT !.terminals = T]
  BY DEF Reconciled
<1>3. T \in SUBSET Terminals
  BY <1>1, SessionFields
<1>4. \A t \in T : t \in object[w.session].terminals \/ Holds(rows[w.session], t)
  BY DEF Holds
<1>5. w.value = object[w.session] => T = w.value.terminals
  BY <1>1, SessionFields
<1> HIDE DEF T
<1>6. [w.value EXCEPT !.terminals = T] \in Session
  BY <1>1, <1>3 DEF Session
<1>7. /\ [w.value EXCEPT !.terminals = T].kind = w.value.kind
      /\ [w.value EXCEPT !.terminals = T].origin = w.value.origin
      /\ [w.value EXCEPT !.terminals = T].terminals = T
  BY <1>1 DEF Session
<1>8. T = w.value.terminals => [w.value EXCEPT !.terminals = T] = w.value
  BY <1>1 DEF Session
<1>9. QED
  BY <1>2, <1>4, <1>5, <1>6, <1>7, <1>8

LEMMA HeadAndTail ==
  ASSUME Types, writes # <<>>
  PROVE  /\ 1 \in 1..Len(writes) /\ Head(writes) = writes[1] /\ Head(writes) \in Write
         /\ Tail(writes) \in Seq(Write) /\ Len(Tail(writes)) = Len(writes) - 1
         /\ Len(writes) \in Nat
         /\ \A i \in 1..Len(Tail(writes)) :
              i + 1 \in 1..Len(writes) /\ Tail(writes)[i] = writes[i + 1]
<1>1. writes \in Seq(Write)
  BY DEF Types
<1>2. QED
  BY <1>1, HeadTailProperties, LenProperties

LEMMA Appended ==
  ASSUME Types, NEW w \in Write
  PROVE  /\ Append(writes, w) \in Seq(Write) /\ Len(Append(writes, w)) = Len(writes) + 1
         /\ Len(writes) \in Nat
         /\ \A i \in 1..Len(writes) : Append(writes, w)[i] = writes[i]
         /\ Append(writes, w)[Len(writes) + 1] = w
<1>1. writes \in Seq(Write)
  BY DEF Types
<1>2. QED
  BY <1>1, AppendProperties, LenProperties

-----------------------------------------------------------------------------
(* The kinds of steps. *)

Moves(o, x) == x \in Task /\ tasks' = [tasks EXCEPT ![o] = x]

Queues(o, s, v, x) ==
  /\ Moves(o, x)
  /\ tasks[o].at \in {"idle", "resolving", "adding", "seeding", "asking"}
  /\ x.at \in Saving /\ x.session = s /\ s \in Sessions /\ Born(s)
  /\ tasks[o].at = "resolving" <=> x.at = "recording"
  /\ tasks[o].at = "idle" => s \in known
  /\ tasks[o].at # "idle" => s = Of(o)
  /\ v \in Session /\ v.kind = object[s].kind
  /\ object[s].origin = "user" => v.origin = "user"
  /\ x.at = "renaming" => v.origin = "user"
  /\ x.at = "recording" => v = object[s]
  /\ \A t \in v.terminals : t \in object[s].terminals \/ FreshTerminal(t)
  /\ \A t \in object[s].terminals : t \in v.terminals \/ registered'[t] = None
  /\ registered' \in [Terminals -> Sessions \cup {None}]
  /\ \A t \in Terminals : registered'[t] \in {registered[t], None}
  /\ \/ x.terminal \in {None, tasks[o].terminal}
     \/ x.terminal \in v.terminals /\ FreshTerminal(x.terminal)
  /\ object' = [object EXCEPT ![s] = v]
  /\ writes' = Append(writes, [task |-> o, session |-> s, value |-> v])
  /\ UNCHANGED <<known, rows, project, published, histories>>

Commits(o, x) ==
  /\ Moves(o, x)
  /\ tasks[o].at \in Saving /\ x.at \in {"idle", "adding", "seeding"}
  /\ x.at = "idle" => x = Idle
  /\ x.at # "idle" => x.session = Of(o) /\ x.terminal = tasks[o].terminal
  /\ Saved(o)
  /\ object' = object
  /\ Publish
  /\ known' = IF At(o, "recording") THEN known \cup {Of(o)} ELSE known
  /\ claimed' = IF At(o, "renaming") THEN claimed \cup {Of(o)} ELSE claimed
  /\ UNCHANGED <<project, registered, removed, strays>>

Fails(o, x) ==
  /\ Moves(o, x)
  /\ tasks[o].at \in Saving /\ x.at \in {"idle", "unrecording"}
  /\ x.at = "idle" => x = Idle /\ known' = known /\ strays' = strays
  /\ x.at = "unrecording" =>
       /\ x.session = Of(o) /\ x.terminal = tasks[o].terminal
       /\ known' = known \ {Of(o)}
       /\ strays' = strays \cup LiveOf({Of(o)})
       /\ tasks[o].at = "binding"
  /\ SaveFailed(o)
  /\ untold' = IF x.at = "idle" /\ ~At(o, "recording") THEN untold \cup {Of(o)} ELSE untold
  /\ UNCHANGED <<object, rows, project, published, registered, removed, claimed, ghosts>>

Quiet(o, x) ==
  /\ Moves(o, x)
  /\ tasks[o].at \notin Saving /\ x.at \notin Saving
  /\ UNCHANGED <<object, writes, claimed>>
  /\ \A s \in Sessions : rows'[s] \in {rows[s], Unborn}

Queueing(o) ==
  \/ Resolved(o) \/ WorktreeAdded(o) \/ AddFirstTerminal(o)
  \/ \E s \in Sessions : CreateTerminal(o, s)
  \/ \E s \in Sessions, n \in Names : Rename(o, s, n)
  \/ \E n \in Names : NameAutomatically(o, n)
  \/ \E t \in Terminals : RemoveTerminal(o, t)

Committing(o) == Recorded(o) \/ WorktreeBound(o) \/ Edited(o)

Failing(o) ==
  \/ NotRecorded(o) \/ NotSaved(o)
  \/ At(o, "binding") /\ WorktreeRefused(o)

Quietly(o) ==
  \/ NotResolved(o) \/ RolledBack(o) \/ NotRolledBack(o)
  \/ At(o, "adding") /\ WorktreeRefused(o)
  \/ \E s \in Sessions : AskForName(o, s) \/ RemoveSession(o, s)
  \/ NameNotUsed(o)
  \/ \E t \in Terminals : StartTerminal(o, t)
  \/ Launched(o) \/ Touched(o) \/ NotStarted(o)
  \/ PlanMade(o) \/ PlanIsOfNothing(o) \/ WorktreeDeleted(o) \/ WorktreeKept(o)
  \/ Forgotten(o) \/ NotForgotten(o)
  \/ RemoveProject(o) \/ ProjectRowRemoved(o) \/ ProjectRowKept(o) \/ ProjectForgotten(o)
  \/ ConfigureProject(o) \/ ProjectSaved(o) \/ ProjectNotSaved(o)

LEMMA StepKinds ==
  ASSUME Next
  PROVE  \/ Restart
         \/ \E o \in Tasks :
              \/ \E s \in Sessions, kind \in Kinds : CreateSession(o, s, kind)
              \/ Queueing(o) \/ Committing(o) \/ Failing(o) \/ Quietly(o)
<1>1. ASSUME NEW o \in Tasks, WorktreeRefused(o)
      PROVE  Failing(o) \/ Quietly(o)
  BY <1>1 DEF WorktreeRefused, Failing, Quietly
<1>2. ASSUME NEW o \in Tasks, Creating(o)
      PROVE  \/ \E s \in Sessions, kind \in Kinds : CreateSession(o, s, kind)
             \/ Queueing(o) \/ Committing(o) \/ Failing(o) \/ Quietly(o)
  <2>1. \/ \E s \in Sessions, kind \in Kinds : CreateSession(o, s, kind)
        \/ Resolved(o) \/ NotResolved(o) \/ Recorded(o) \/ NotRecorded(o)
        \/ WorktreeAdded(o) \/ WorktreeBound(o) \/ WorktreeRefused(o)
        \/ RolledBack(o) \/ NotRolledBack(o) \/ AddFirstTerminal(o)
    BY <1>2, Zenon DEF Creating
  <2>2. CASE \E s \in Sessions, kind \in Kinds : CreateSession(o, s, kind)
    BY <2>2
  <2>3. CASE Resolved(o) \/ WorktreeAdded(o) \/ AddFirstTerminal(o)
    BY <2>3 DEF Queueing
  <2>4. CASE Recorded(o) \/ WorktreeBound(o)
    BY <2>4 DEF Committing
  <2>5. CASE NotResolved(o) \/ RolledBack(o) \/ NotRolledBack(o)
    BY <2>5 DEF Quietly
  <2>6. CASE NotRecorded(o)
    BY <2>6 DEF Failing
  <2>7. CASE WorktreeRefused(o)
    BY <1>1, <2>7
  <2>8. QED
    BY <2>1, <2>2, <2>3, <2>4, <2>5, <2>6, <2>7
<1>3. ASSUME NEW o \in Tasks, Editing(o)
      PROVE  Queueing(o) \/ Committing(o) \/ Failing(o) \/ Quietly(o)
  BY <1>3 DEF Editing, Queueing, Committing, Failing, Quietly
<1>4. ASSUME NEW o \in Tasks, Starting(o) \/ Removing(o)
      PROVE  Quietly(o)
  BY <1>4 DEF Starting, Removing, Quietly
<1>5. QED
  BY <1>2, <1>3, <1>4 DEF Next

(* Every step is of its kind. *)

LEMMA TaskFields ==
  ASSUME Types, NEW o \in Tasks
  PROVE  /\ tasks[o] \in Task /\ Idle \in Task /\ Idle.at = "idle"
         /\ Idle.session = None /\ Idle.terminal = None
         /\ Of(o) \in Sessions \cup {None}
         /\ \A at \in Stages : /\ [tasks[o] EXCEPT !.at = at] \in Task
                               /\ [tasks[o] EXCEPT !.at = at].at = at
                               /\ [tasks[o] EXCEPT !.at = at].session = Of(o)
                               /\ [tasks[o] EXCEPT !.at = at].terminal = tasks[o].terminal
         /\ \A at \in Stages, s \in Sessions \cup {None}, t \in Terminals \cup {None} :
              [at |-> at, session |-> s, terminal |-> t] \in Task
<1>1. tasks[o] \in Task
  BY DEF Types
<1>2. QED
  BY <1>1 DEF Task, Idle, Of

LEMMA Going ==
  ASSUME Types, NEW o \in Tasks, NEW at \in Stages, Goto(o, at)
  PROVE  /\ Moves(o, [tasks[o] EXCEPT !.at = at])
         /\ [tasks[o] EXCEPT !.at = at].at = at
         /\ [tasks[o] EXCEPT !.at = at].session = Of(o)
         /\ [tasks[o] EXCEPT !.at = at].terminal = tasks[o].terminal
BY TaskFields DEF Goto, Moves, Types

LEMMA Beginning ==
  ASSUME Types, NEW o \in Tasks, NEW at \in Stages, NEW s \in Sessions \cup {None},
         NEW t \in Terminals \cup {None}, Begin(o, at, s, t)
  PROVE  /\ Moves(o, [at |-> at, session |-> s, terminal |-> t])
         /\ tasks[o].at = "idle" /\ Of(o) = None /\ tasks[o].terminal = None
BY TaskFields DEF Begin, Moves, Types, Idle, Of

LEMMA Finishing ==
  ASSUME Types, NEW o \in Tasks, End(o)
  PROVE  Moves(o, Idle) /\ Idle.at = "idle" /\ Idle.session = None /\ Idle.terminal = None
BY TaskFields DEF End, Moves, Types

LEMMA Updated ==
  ASSUME Types, NEW s \in Sessions, Born(s), NEW name \in Names,
         NEW origin \in {"derived", "automatic", "user"}
  PROVE  /\ object[s] \in Session
         /\ [object[s] EXCEPT !.bound = TRUE] \in Session
         /\ [object[s] EXCEPT !.name = name, !.origin = origin] \in Session
         /\ [object[s] EXCEPT !.bound = TRUE].kind = object[s].kind
         /\ [object[s] EXCEPT !.bound = TRUE].origin = object[s].origin
         /\ [object[s] EXCEPT !.bound = TRUE].terminals = object[s].terminals
         /\ [object[s] EXCEPT !.name = name, !.origin = origin].kind = object[s].kind
         /\ [object[s] EXCEPT !.name = name, !.origin = origin].origin = origin
         /\ [object[s] EXCEPT !.name = name, !.origin = origin].terminals = object[s].terminals
<1>1. object[s] \in Session
  BY DEF Types, Born
<1>2. QED
  BY <1>1 DEF Session

LEMMA UpdatedTerminals ==
  ASSUME Types, NEW s \in Sessions, Born(s)
  PROVE  \A T \in SUBSET Terminals :
           /\ [object[s] EXCEPT !.terminals = T] \in Session
           /\ [object[s] EXCEPT !.terminals = T].kind = object[s].kind
           /\ [object[s] EXCEPT !.terminals = T].origin = object[s].origin
           /\ [object[s] EXCEPT !.terminals = T].terminals = T
<1>1. object[s] \in Session
  BY DEF Types, Born
<1>2. QED
  BY <1>1 DEF Session

(* What a change queues, whatever it is. *)
LEMMA QueuedIs ==
  ASSUME Types, NEW o \in Tasks, NEW s \in Sessions, NEW v \in Session,
         object' = [object EXCEPT ![s] = v], QueueSave(o, s)
  PROVE  writes' = Append(writes, [task |-> o, session |-> s, value |-> v])
<1>1. object'[s] = v
  BY DEF Types
<1>2. QED
  BY <1>1 DEF QueueSave

(* What does not touch the registry. *)
LEMMA RegistryKept ==
  ASSUME Types, registered' = registered
  PROVE  /\ registered' \in [Terminals -> Sessions \cup {None}]
         /\ \A t \in Terminals : registered'[t] \in {registered[t], None}
BY DEF Types

LEMMA QueueingStep ==
  ASSUME Types, TaskInv, NEW o \in Tasks, Queueing(o)
  PROVE  \E s, v, x : Queues(o, s, v, x)
<1>0. /\ \A at \in {"resolving", "adding", "seeding", "asking"} :
           At(o, at) => Of(o) \in Sessions /\ Born(Of(o))
      /\ None \in Sessions \cup {None} /\ None \in Terminals \cup {None}
  BY DEF TaskInv, At, Stages, Apart
<1>1. CASE Resolved(o)
  <2> DEFINE x == [tasks[o] EXCEPT !.at = "recording"]
  <2>1. At(o, "resolving") /\ Of(o) \in Sessions /\ Born(Of(o)) /\ object[Of(o)] \in Session
    BY <1>0, <1>1, BornAreSessions DEF Resolved
  <2>2. Moves(o, x) /\ x.at = "recording" /\ x.session = Of(o) /\ x.terminal = tasks[o].terminal
    BY <1>1, Going DEF Resolved, Stages
  <2>3. object' = [object EXCEPT ![Of(o)] = object[Of(o)]]
    BY <1>1 DEF Resolved, Types
  <2>4. writes' = Append(writes, [task |-> o, session |-> Of(o), value |-> object[Of(o)]])
    BY <1>1, <2>1, <2>3, QueuedIs DEF Resolved
  <2> HIDE DEF x
  <2>5. Queues(o, Of(o), object[Of(o)], x)
    BY <1>1, <2>1, <2>2, <2>3, <2>4, RegistryKept DEF Resolved, Queues, At, Saving
  <2>6. QED
    BY <2>5
<1>2. CASE WorktreeAdded(o)
  <2> DEFINE x == [tasks[o] EXCEPT !.at = "binding"]
             v == [object[Of(o)] EXCEPT !.bound = TRUE]
  <2>1. At(o, "adding") /\ Of(o) \in Sessions /\ Born(Of(o))
    BY <1>0, <1>2 DEF WorktreeAdded
  <2>2. Moves(o, x) /\ x.at = "binding" /\ x.session = Of(o) /\ x.terminal = tasks[o].terminal
    BY <1>2, Going DEF WorktreeAdded, Stages
  <2>3. /\ v \in Session /\ v.kind = object[Of(o)].kind
        /\ v.origin = object[Of(o)].origin /\ v.terminals = object[Of(o)].terminals
    BY <2>1, Updated, SessionServiceAssumption
  <2>4. object' = [object EXCEPT ![Of(o)] = v]
    BY <1>2 DEF WorktreeAdded, Types
  <2> HIDE DEF v, x
  <2>5. writes' = Append(writes, [task |-> o, session |-> Of(o), value |-> v])
    BY <1>2, <2>1, <2>3, <2>4, QueuedIs DEF WorktreeAdded
  <2>6. Queues(o, Of(o), v, x)
    BY <1>2, <2>1, <2>2, <2>3, <2>4, <2>5, RegistryKept DEF WorktreeAdded, Queues, At, Saving
  <2>7. QED
    BY <2>6
<1>3. CASE AddFirstTerminal(o)
  <2> DEFINE x == [tasks[o] EXCEPT !.at = "seeded"]
  <2>1. At(o, "seeding") /\ Of(o) \in Sessions /\ Born(Of(o)) /\ object[Of(o)] \in Session
    BY <1>0, <1>3, BornAreSessions DEF AddFirstTerminal
  <2>2. Moves(o, x) /\ x.at = "seeded" /\ x.session = Of(o) /\ x.terminal = tasks[o].terminal
    BY <1>3, Going DEF AddFirstTerminal, Stages
  <2>3. PICK t \in Terminals :
           /\ FreshTerminal(t)
           /\ object' = [object EXCEPT ![Of(o)].terminals = @ \cup {t}]
    BY <1>3 DEF AddFirstTerminal
  <2> DEFINE v == [object[Of(o)] EXCEPT !.terminals = object[Of(o)].terminals \cup {t}]
  <2>4. object[Of(o)].terminals \cup {t} \in SUBSET Terminals
    BY <2>1, SessionFields
  <2>5. /\ v \in Session /\ v.kind = object[Of(o)].kind
        /\ v.origin = object[Of(o)].origin /\ v.terminals = object[Of(o)].terminals \cup {t}
    BY <2>1, <2>4, UpdatedTerminals
  <2>6. object' = [object EXCEPT ![Of(o)] = v]
    BY <2>3 DEF Types
  <2> HIDE DEF v, x
  <2>7. writes' = Append(writes, [task |-> o, session |-> Of(o), value |-> v])
    BY <1>3, <2>1, <2>5, <2>6, QueuedIs DEF AddFirstTerminal
  <2>8. Queues(o, Of(o), v, x)
    BY <1>3, <2>1, <2>2, <2>3, <2>5, <2>6, <2>7, RegistryKept DEF AddFirstTerminal, Queues, At, Saving
  <2>9. QED
    BY <2>8
<1>4. ASSUME NEW s \in Sessions, CreateTerminal(o, s)
      PROVE  \E v, x : Queues(o, s, v, x)
  <2>1. s \in known /\ Born(s) /\ object[s] \in Session
    BY <1>4, BornAreSessions DEF CreateTerminal, Types
  <2>2. PICK t \in Terminals :
           /\ FreshTerminal(t)
           /\ object' = [object EXCEPT ![s].terminals = @ \cup {t}]
           /\ Begin(o, "editing", s, t)
    BY <1>4 DEF CreateTerminal
  <2> DEFINE x == [at |-> "editing", session |-> s, terminal |-> t]
             v == [object[s] EXCEPT !.terminals = object[s].terminals \cup {t}]
  <2>3. /\ Moves(o, x) /\ x.at = "editing" /\ x.session = s /\ x.terminal = t
        /\ tasks[o].at = "idle"
    BY <2>2, Beginning DEF Stages
  <2>4. object[s].terminals \cup {t} \in SUBSET Terminals
    BY <2>1, SessionFields
  <2>5. /\ v \in Session /\ v.kind = object[s].kind /\ v.origin = object[s].origin
        /\ v.terminals = object[s].terminals \cup {t}
    BY <2>1, <2>4, UpdatedTerminals
  <2>6. object' = [object EXCEPT ![s] = v]
    BY <2>2 DEF Types
  <2> HIDE DEF v, x
  <2>7. writes' = Append(writes, [task |-> o, session |-> s, value |-> v])
    BY <1>4, <2>1, <2>5, <2>6, QueuedIs DEF CreateTerminal
  <2>8. Queues(o, s, v, x)
    BY <1>4, <2>1, <2>2, <2>3, <2>5, <2>6, <2>7, RegistryKept DEF CreateTerminal, Queues, Saving
  <2>9. QED
    BY <2>8
<1>5. ASSUME NEW s \in Sessions, NEW n \in Names, Rename(o, s, n)
      PROVE  \E v, x : Queues(o, s, v, x)
  <2> DEFINE x == [at |-> "renaming", session |-> s, terminal |-> None]
             v == [object[s] EXCEPT !.name = n, !.origin = "user"]
  <2>1. s \in known /\ Born(s) /\ object[s] \in Session
    BY <1>5, BornAreSessions DEF Rename, Types
  <2>2. /\ Moves(o, x) /\ x.at = "renaming" /\ x.session = s /\ x.terminal = None
        /\ tasks[o].at = "idle"
    BY <1>5, Beginning DEF Rename, Stages
  <2>3. /\ v \in Session /\ v.kind = object[s].kind /\ v.origin = "user"
        /\ v.terminals = object[s].terminals
    BY <2>1, Updated
  <2>4. object' = [object EXCEPT ![s] = v]
    BY <1>5 DEF Rename, Types
  <2> HIDE DEF v, x
  <2>5. writes' = Append(writes, [task |-> o, session |-> s, value |-> v])
    BY <1>5, <2>1, <2>3, <2>4, QueuedIs DEF Rename
  <2>6. Queues(o, s, v, x)
    BY <1>5, <2>1, <2>2, <2>3, <2>4, <2>5, RegistryKept DEF Rename, Queues, Saving
  <2>7. QED
    BY <2>6
<1>6. ASSUME NEW n \in Names, NameAutomatically(o, n)
      PROVE  \E s, v, x : Queues(o, s, v, x)
  <2> DEFINE x == [tasks[o] EXCEPT !.at = "editing"]
             v == [object[Of(o)] EXCEPT !.name = n, !.origin = "automatic"]
  <2>1. At(o, "asking") /\ Of(o) \in Sessions /\ Born(Of(o)) /\ object[Of(o)].origin # "user"
    BY <1>0, <1>6 DEF NameAutomatically, AcceptsAutomaticName
  <2>2. Moves(o, x) /\ x.at = "editing" /\ x.session = Of(o) /\ x.terminal = tasks[o].terminal
    BY <1>6, Going DEF NameAutomatically, Stages
  <2>3. v \in Session /\ v.kind = object[Of(o)].kind /\ v.terminals = object[Of(o)].terminals
    BY <2>1, Updated
  <2>4. object' = [object EXCEPT ![Of(o)] = v]
    BY <1>6 DEF NameAutomatically, Types
  <2> HIDE DEF v, x
  <2>5. writes' = Append(writes, [task |-> o, session |-> Of(o), value |-> v])
    BY <1>6, <2>1, <2>3, <2>4, QueuedIs DEF NameAutomatically
  <2>6. Queues(o, Of(o), v, x)
    BY <1>6, <2>1, <2>2, <2>3, <2>4, <2>5, RegistryKept DEF NameAutomatically, Queues, At, Saving
  <2>7. QED
    BY <2>6
<1>7. ASSUME NEW t \in Terminals, RemoveTerminal(o, t)
      PROVE  \E s, v, x : Queues(o, s, v, x)
  <2>1. PICK s \in Located(t) :
          /\ Begin(o, "editing", s, None)
          /\ registered' = [registered EXCEPT ![t] = None]
          /\ object' = [object EXCEPT ![s].terminals = @ \ {t}]
          /\ QueueSave(o, s)
          /\ UNCHANGED <<known, rows, project, published, histories>>
    BY <1>7 DEF RemoveTerminal
  <2> DEFINE x == [at |-> "editing", session |-> s, terminal |-> None]
             v == [object[s] EXCEPT !.terminals = object[s].terminals \ {t}]
  <2>2. s \in known /\ s \in Sessions /\ Born(s) /\ object[s] \in Session
    BY <2>1, BornAreSessions DEF Located, Types
  <2>3. /\ Moves(o, x) /\ x.at = "editing" /\ x.session = s /\ x.terminal = None
        /\ tasks[o].at = "idle"
    BY <2>1, <2>2, Beginning DEF Stages
  <2>4. object[s].terminals \ {t} \in SUBSET Terminals
    BY <2>2, SessionFields
  <2>5. /\ v \in Session /\ v.kind = object[s].kind /\ v.origin = object[s].origin
        /\ v.terminals = object[s].terminals \ {t}
    BY <2>2, <2>4, UpdatedTerminals
  <2>6. object' = [object EXCEPT ![s] = v]
    BY <2>1 DEF Types
  <2> HIDE DEF v, x
  <2>7. writes' = Append(writes, [task |-> o, session |-> s, value |-> v])
    BY <2>1, <2>2, <2>5, <2>6, QueuedIs
  <2>8. /\ registered' \in [Terminals -> Sessions \cup {None}]
        /\ \A r \in Terminals : registered'[r] \in {registered[r], None}
        /\ registered'[t] = None
    BY <2>1 DEF Types
  <2>9. Queues(o, s, v, x)
    BY <2>1, <2>2, <2>3, <2>5, <2>6, <2>7, <2>8 DEF Queues, Saving
  <2>10. QED
    BY <2>9
<1>8. QED
  BY <1>1, <1>2, <1>3, <1>4, <1>5, <1>6, <1>7 DEF Queueing

LEMMA CommittingStep ==
  ASSUME Types, TaskInv, NEW o \in Tasks, Committing(o)
  PROVE  \E x : Commits(o, x)
<1>1. CASE Recorded(o)
  <2>1. PICK at \in {"adding", "seeding"} : Goto(o, at)
    BY <1>1 DEF Recorded
  <2> DEFINE x == [tasks[o] EXCEPT !.at = at]
  <2>2. at \in Stages
    BY DEF Stages
  <2>3. Moves(o, x) /\ x.at = at /\ x.session = Of(o) /\ x.terminal = tasks[o].terminal
    BY <2>1, <2>2, Going
  <2> HIDE DEF x
  <2>4. Commits(o, x)
    BY <1>1, <2>1, <2>3 DEF Recorded, Commits, At, Saving
  <2>5. QED
    BY <2>4
<1>2. CASE WorktreeBound(o)
  <2> DEFINE x == [tasks[o] EXCEPT !.at = "seeding"]
  <2>1. Moves(o, x) /\ x.at = "seeding" /\ x.session = Of(o) /\ x.terminal = tasks[o].terminal
    BY <1>2, Going DEF WorktreeBound, Stages
  <2> HIDE DEF x
  <2>2. Commits(o, x)
    BY <1>2, <2>1 DEF WorktreeBound, Commits, At, Saving
  <2>3. QED
    BY <2>2
<1>3. CASE Edited(o)
  <2>1. Moves(o, Idle) /\ Idle.at = "idle"
    BY <1>3, Finishing DEF Edited
  <2>2. Commits(o, Idle)
    BY <1>3, <2>1 DEF Edited, Commits, At, Saving
  <2>3. QED
    BY <2>2
<1>4. QED
  BY <1>1, <1>2, <1>3 DEF Committing

LEMMA FailingStep ==
  ASSUME Types, TaskInv, NEW o \in Tasks, Failing(o)
  PROVE  \E x : Fails(o, x)
<1>1. CASE NotRecorded(o)
  <2>1. Moves(o, Idle) /\ Idle.at = "idle"
    BY <1>1, Finishing DEF NotRecorded
  <2>2. Fails(o, Idle)
    BY <1>1, <2>1 DEF NotRecorded, Fails, At, Saving
  <2>3. QED
    BY <2>2
<1>2. CASE At(o, "binding") /\ WorktreeRefused(o)
  <2>1. At(o, "binding") /\ SaveFailed(o) /\ RollBack(o)
    BY <1>2 DEF WorktreeRefused, At
  <2> DEFINE x == [tasks[o] EXCEPT !.at = "unrecording"]
  <2>2. Moves(o, x) /\ x.at = "unrecording" /\ x.session = Of(o) /\ x.terminal = tasks[o].terminal
    BY <2>1, Going DEF RollBack, Stages
  <2> HIDE DEF x
  <2>3. Fails(o, x)
    BY <2>1, <2>2 DEF RollBack, Fails, At, Saving
  <2>4. QED
    BY <2>3
<1>3. CASE NotSaved(o)
  <2>1. Moves(o, Idle) /\ Idle.at = "idle"
    BY <1>3, Finishing DEF NotSaved
  <2>2. Fails(o, Idle)
    BY <1>3, <2>1 DEF NotSaved, Fails, At, Saving
  <2>3. QED
    BY <2>2
<1>4. QED
  BY <1>1, <1>2, <1>3 DEF Failing

LEMMA QuietStep ==
  ASSUME Types, TaskInv, NEW o \in Tasks, Quietly(o)
  PROVE  \E x : Quiet(o, x)
<1> DEFINE Same == /\ UNCHANGED <<object, writes, claimed>>
                   /\ \A s \in Sessions : rows'[s] \in {rows[s], Unborn}
<1>0. /\ None \in Sessions \cup {None} /\ None \in Terminals \cup {None}
      /\ Of(o) \in Sessions \cup {None}
  BY TaskFields
<1>1. Same
  <2>1. CASE RolledBack(o) \/ Forgotten(o) \/ NotRolledBack(o) \/ NotForgotten(o)
    BY <2>1 DEF RolledBack, Forgotten, NotRolledBack, NotForgotten, Types
  <2>2. CASE At(o, "adding") /\ WorktreeRefused(o)
    <3>1. RollBack(o) /\ writes' = writes
      BY <2>2 DEF WorktreeRefused, At
    <3>2. QED
      BY <3>1 DEF RollBack
  <2>3. CASE ProjectRowRemoved(o) \/ ProjectRowKept(o)
    BY <2>3 DEF ProjectRowRemoved, ProjectRowKept
  <2>4. CASE \E s \in Sessions : AskForName(o, s) \/ RemoveSession(o, s)
    BY <2>4 DEF AskForName, RemoveSession, histories
  <2>5. CASE \E t \in Terminals : StartTerminal(o, t)
    BY <2>5 DEF StartTerminal, histories
  <2>6. CASE NotResolved(o) \/ NameNotUsed(o) \/ Touched(o) \/ NotStarted(o)
    BY <2>6 DEF NotResolved, NameNotUsed, Touched, NotStarted, histories
  <2>7. CASE Launched(o) \/ PlanMade(o) \/ WorktreeDeleted(o) \/ RemoveProject(o)
    BY <2>7 DEF Launched, PlanMade, WorktreeDeleted, RemoveProject
  <2>8. CASE PlanIsOfNothing(o) \/ WorktreeKept(o)
    BY <2>8 DEF PlanIsOfNothing, WorktreeKept, histories
  <2>9. CASE ProjectForgotten(o) \/ ConfigureProject(o) \/ ProjectSaved(o) \/ ProjectNotSaved(o)
    BY <2>9 DEF ProjectForgotten, ConfigureProject, ProjectSaved, ProjectNotSaved, histories
  <2>10. QED
    BY <2>1, <2>2, <2>3, <2>4, <2>5, <2>6, <2>7, <2>8, <2>9 DEF Quietly
<1> HIDE DEF Same
<1>2. ASSUME tasks[o].at \notin Saving,
             \/ End(o)
             \/ \E at \in Stages \ Saving : Goto(o, at)
             \/ \E at \in Stages \ Saving, s \in Sessions \cup {None},
                   t \in Terminals \cup {None} : Begin(o, at, s, t)
      PROVE  \E x : Quiet(o, x)
  <2>1. CASE End(o)
    <3>1. Moves(o, Idle) /\ Idle.at \notin Saving
      BY <2>1, Finishing DEF Saving
    <3>2. QED
      BY <1>1, <1>2, <3>1 DEF Quiet, Same
  <2>2. ASSUME NEW at \in Stages \ Saving, Goto(o, at)
        PROVE  \E x : Quiet(o, x)
    <3> DEFINE x == [tasks[o] EXCEPT !.at = at]
    <3>1. Moves(o, x) /\ x.at = at
      BY <2>2, Going
    <3> HIDE DEF x
    <3>2. Quiet(o, x)
      BY <1>1, <1>2, <3>1 DEF Quiet, Same
    <3>3. QED
      BY <3>2
  <2>3. ASSUME NEW at \in Stages \ Saving, NEW s \in Sessions \cup {None},
               NEW t \in Terminals \cup {None}, Begin(o, at, s, t)
        PROVE  \E x : Quiet(o, x)
    <3> DEFINE x == [at |-> at, session |-> s, terminal |-> t]
    <3>1. Moves(o, x) /\ x.at = at
      BY <2>3, Beginning
    <3> HIDE DEF x
    <3>2. Quiet(o, x)
      BY <1>1, <1>2, <3>1 DEF Quiet, Same
    <3>3. QED
      BY <3>2
  <2>4. QED
    BY <1>2, <2>1, <2>2, <2>3
<1>3. ASSUME NEW at \in Stages, NEW s \in Sessions \cup {None},
             NEW t \in Terminals \cup {None}, Begin(o, at, s, t)
      PROVE  tasks[o].at \notin Saving
  BY <1>3, Beginning DEF Saving
<1>4. ASSUME \E at \in Stages \ Saving, s \in Sessions \cup {None},
                t \in Terminals \cup {None} : Begin(o, at, s, t)
      PROVE  \E x : Quiet(o, x)
  BY <1>2, <1>3, <1>4
<1>5. CASE \/ NotResolved(o) \/ NameNotUsed(o) \/ Touched(o) \/ NotStarted(o)
           \/ RolledBack(o) \/ NotRolledBack(o)
  <2>1. End(o) /\ tasks[o].at \in {"resolving", "asking", "launching", "touching", "unrecording"}
    BY <1>5 DEF NotResolved, NameNotUsed, Touched, NotStarted, RolledBack, NotRolledBack, At
  <2>2. QED
    BY <1>2, <2>1 DEF Saving
<1>6. CASE \/ PlanIsOfNothing(o) \/ WorktreeKept(o) \/ Forgotten(o) \/ NotForgotten(o)
           \/ ProjectRowKept(o) \/ ProjectForgotten(o) \/ ProjectSaved(o) \/ ProjectNotSaved(o)
  <2>1. /\ End(o)
        /\ tasks[o].at \in {"planning", "deleting", "forgetting", "dropping", "dropped", "configuring"}
    BY <1>6 DEF PlanIsOfNothing, WorktreeKept, Forgotten, NotForgotten, ProjectRowKept,
                ProjectForgotten, ProjectSaved, ProjectNotSaved, At
  <2>2. QED
    BY <1>2, <2>1 DEF Saving
<1>7. CASE At(o, "adding") /\ WorktreeRefused(o)
  <2>1. tasks[o].at = "adding" /\ Goto(o, "unrecording")
    BY <1>7 DEF WorktreeRefused, At, RollBack
  <2>2. QED
    BY <1>2, <2>1 DEF Saving, Stages
<1>8. CASE PlanMade(o) \/ WorktreeDeleted(o) \/ ProjectRowRemoved(o)
  <2>1. /\ tasks[o].at \in {"planning", "deleting", "dropping"}
        /\ \E at \in {"deleting", "forgetting", "dropped"} : Goto(o, at)
    BY <1>8 DEF PlanMade, WorktreeDeleted, ProjectRowRemoved, At
  <2>2. QED
    BY <1>2, <2>1 DEF Saving, Stages
<1>9. CASE Launched(o)
  <2>1. tasks[o].at = "launching" /\ (End(o) \/ Goto(o, "touching"))
    BY <1>9 DEF Launched, At
  <2>2. QED
    BY <1>2, <2>1 DEF Saving, Stages
<1>10. CASE \E s \in Sessions : AskForName(o, s) \/ RemoveSession(o, s)
  <2>1. PICK s \in Sessions : Begin(o, "asking", s, None) \/ Begin(o, "planning", s, None)
    BY <1>10 DEF AskForName, RemoveSession
  <2>2. QED
    BY <1>0, <1>4, <2>1 DEF Saving, Stages
<1>11. CASE \E t \in Terminals : StartTerminal(o, t)
  <2>1. PICK t \in Terminals, s \in known :
          Begin(o, "launching", s, t) \/ Begin(o, "touching", s, t)
    BY <1>11 DEF StartTerminal, Located
  <2>2. s \in Sessions
    BY DEF Types
  <2>3. QED
    BY <1>4, <2>1, <2>2 DEF Saving, Stages
<1>12. CASE RemoveProject(o) \/ ConfigureProject(o)
  <2>1. Begin(o, "dropping", None, None) \/ Begin(o, "configuring", None, None)
    BY <1>12 DEF RemoveProject, ConfigureProject
  <2>2. QED
    BY <1>0, <1>4, <2>1 DEF Saving, Stages
<1>13. QED
  BY <1>5, <1>6, <1>7, <1>8, <1>9, <1>10, <1>11, <1>12 DEF Quietly

-----------------------------------------------------------------------------
(* The types. *)

LEMMA TypesInit == Init => Types
<1> SUFFICES ASSUME Init PROVE Types
  OBVIOUS
<1>1. writes \in Seq(Write)
  BY EmptySeq DEF Init
<1>2. tasks \in [Tasks -> Task]
  BY DEF Init, Task, Idle
<1>3. Announced = {}
  BY DEF Init, Announced
<1>4. QED
  BY <1>1, <1>2, <1>3 DEF Init, Types

LEMMA PublishedTypes ==
  ASSUME object' \in [Sessions -> Session \cup {Unborn}], known' \subseteq Sessions,
         \A s \in known' : object'[s] # Unborn, Publish
  PROVE  /\ Announced' \subseteq Sessions /\ \A s \in Announced' : published'[s] \in Session
         /\ Announced' = known' /\ \A s \in known' : published'[s] = object'[s]
BY DEF Publish, Announced

(* The saved row of a commit is that of the object the caller is about. *)
LEMMA HeadOf ==
  ASSUME Types, TaskInv, QueueInv, NEW o \in Tasks, Turn(o), tasks[o].at \in Saving
  PROVE  /\ writes # <<>> /\ 1 \in 1..Len(writes) /\ Head(writes) = writes[1]
         /\ Head(writes).task = o /\ Head(writes).session = Of(o)
         /\ Of(o) \in Sessions /\ Born(Of(o)) /\ object[Of(o)] \in Session
         /\ Head(writes) \in Write /\ Head(writes).value \in Session
         /\ Head(writes).value.kind = object[Of(o)].kind
         /\ At(o, "recording") => Of(o) \notin known
<1>1. writes # <<>> /\ Head(writes).task = o
  BY DEF Turn
<1>2. 1 \in 1..Len(writes) /\ Head(writes) = writes[1] /\ Head(writes) \in Write
  BY <1>1, HeadAndTail
<1>3. Head(writes).session = Of(o) /\ Head(writes).value.kind = object[Of(o)].kind
  BY <1>1, <1>2 DEF QueueInv
<1>4. Of(o) \in Sessions /\ Born(Of(o))
  <2>1. tasks[o].at \in Stages \ Apart
    BY DEF Saving, Stages, Apart
  <2>2. QED
    BY <2>1 DEF TaskInv
<1>5. At(o, "recording") => Of(o) \notin known
  BY DEF TaskInv, At, Making
<1>6. QED
  BY <1>1, <1>2, <1>3, <1>4, <1>5, BornAreSessions DEF Write

LEMMA TypesQueues ==
  ASSUME Types, NEW o \in Tasks, NEW s, NEW v, NEW x, Queues(o, s, v, x)
  PROVE  Types'
<1>1. /\ s \in Sessions /\ v \in Session /\ v # Unborn
      /\ object' = [object EXCEPT ![s] = v]
      /\ object' \in [Sessions -> Session \cup {Unborn}]
      /\ \A r \in Sessions : Born(r) => object'[r] # Unborn
  BY SessionFields DEF Queues, Types, Born
<1>2. [task |-> o, session |-> s, value |-> v] \in Write
  BY <1>1 DEF Write
<1>3. writes' \in Seq(Write)
  BY <1>2, Appended DEF Queues
<1>4. tasks' \in [Tasks -> Task]
  BY DEF Queues, Moves, Types
<1>5. /\ Announced' \subseteq Sessions /\ \A r \in Announced' : published'[r] \in Session
      /\ project' \in [known : BOOLEAN, row : BOOLEAN]
      /\ removed' \subseteq Sessions /\ claimed' \subseteq Sessions
      /\ unsaved' \subseteq Sessions /\ ghosts' \subseteq Sessions
      /\ untold' \subseteq Sessions /\ strays' \subseteq Terminals
      /\ known' = known /\ rows' = rows
      /\ registered' \in [Terminals -> Sessions \cup {None}]
  BY DEF Queues, Types, Announced, histories
<1>6. QED
  BY <1>1, <1>3, <1>4, <1>5 DEF Types, Born

LEMMA TypesCommits ==
  ASSUME Types, TaskInv, QueueInv, NEW o \in Tasks, NEW x, Commits(o, x)
  PROVE  Types'
<1> DEFINE w == Head(writes)
           row == Reconciled(w)
<1>1. /\ w \in Write /\ w.session = Of(o) /\ Of(o) \in Sessions /\ Born(Of(o))
      /\ object[w.session] \in Session /\ writes # <<>>
  BY HeadOf DEF Commits, Saved
<1>2. row \in Session /\ row # Unborn
  BY <1>1, ReconciledRow, SessionFields
<1>3. rows' = [rows EXCEPT ![w.session] = row] /\ writes' = Tail(writes)
  BY DEF Commits, Saved
<1>4. /\ unsaved' \subseteq Sessions /\ ghosts' \subseteq Sessions
      /\ claimed' \subseteq Sessions /\ untold' \subseteq Sessions
  BY <1>1 DEF Commits, Saved, Types, Publish
<1> HIDE DEF row, w
<1>5. rows' \in [Sessions -> Session \cup {Unborn}]
  BY <1>1, <1>2, <1>3 DEF Types
<1>6. \A s \in Sessions : rows'[s] # Unborn => Born(s)
  BY <1>1, <1>3 DEF Types
<1>7. /\ object' = object /\ known' \subseteq Sessions
      /\ \A s \in known' : object'[s] # Unborn
  BY <1>1 DEF Commits, Types, Born
<1>8. Announced' \subseteq Sessions /\ \A s \in Announced' : published'[s] \in Session
  BY <1>7, PublishedTypes DEF Commits, Types
<1>9. writes' \in Seq(Write)
  BY <1>1, <1>3, HeadAndTail
<1>10. tasks' \in [Tasks -> Task]
  BY DEF Commits, Moves, Types
<1>11. /\ registered' = registered /\ project' = project /\ removed' = removed
       /\ strays' = strays
  BY DEF Commits
<1>12. QED
  BY <1>4, <1>5, <1>6, <1>7, <1>8, <1>9, <1>10, <1>11 DEF Types, Born

LEMMA TypesFails ==
  ASSUME Types, TaskInv, QueueInv, NEW o \in Tasks, NEW x, Fails(o, x)
  PROVE  Types'
<1>1. /\ Head(writes) \in Write /\ Head(writes).session \in Sessions /\ writes # <<>>
      /\ Of(o) \in Sessions
  BY HeadOf DEF Fails, SaveFailed
<1>2. writes' \in Seq(Write) /\ unsaved' \subseteq Sessions /\ untold' \subseteq Sessions
  BY <1>1, HeadAndTail DEF Fails, SaveFailed, Types
<1>3. tasks' \in [Tasks -> Task]
  BY DEF Fails, Moves, Types
<1>4. known' \subseteq known /\ strays' \subseteq Terminals
  BY DEF Fails, Types, LiveOf
<1>5. /\ object' = object /\ rows' = rows /\ published' = published /\ project' = project
      /\ registered' = registered /\ removed' = removed /\ claimed' = claimed
      /\ ghosts' = ghosts
  BY DEF Fails
<1>6. QED
  BY <1>2, <1>3, <1>4, <1>5 DEF Types, Born, Announced

LEMMA TypesQuiet ==
  ASSUME Types, TaskInv, NEW o \in Tasks, Quietly(o)
  PROVE  Types'
<1>1. PICK x : Quiet(o, x)
  BY QuietStep
<1>2. /\ object' = object /\ writes' = writes /\ claimed' = claimed
      /\ tasks' \in [Tasks -> Task]
      /\ \A s \in Sessions : rows'[s] # Unborn => rows'[s] = rows[s]
  BY <1>1 DEF Quiet, Moves, Types
<1> DEFINE Rest ==
  /\ rows' \in [Sessions -> Session \cup {Unborn}]
  /\ known' \subseteq known
  /\ Publish \/ published' = published
  /\ project' \in [known : BOOLEAN, row : BOOLEAN]
  /\ registered' \in [Terminals -> Sessions \cup {None}]
  /\ removed' \subseteq Sessions /\ unsaved' \subseteq Sessions
  /\ ghosts' \subseteq Sessions /\ untold' \subseteq Sessions /\ strays' \subseteq Terminals
<1>3. Rest
  <2>1. CASE RolledBack(o) \/ Forgotten(o) \/ NotRolledBack(o) \/ NotForgotten(o)
    <3>1. Of(o) \in Sessions
      BY <2>1 DEF TaskInv, RolledBack, Forgotten, NotRolledBack, NotForgotten, At, Stages, Apart
    <3>2. CASE RolledBack(o) \/ Forgotten(o)
      BY <3>1, <3>2 DEF RolledBack, Forgotten, Types, Publish
    <3>3. CASE NotRolledBack(o) \/ NotForgotten(o)
      BY <3>1, <3>3 DEF NotRolledBack, NotForgotten, Types, Undeleted
    <3>4. QED
      BY <2>1, <3>2, <3>3
  <2>2. CASE At(o, "adding") /\ WorktreeRefused(o)
    <3>1. RollBack(o) /\ unsaved' = unsaved
      BY <2>2 DEF WorktreeRefused, At
    <3>2. QED
      BY <3>1 DEF RollBack, Types, LiveOf
  <2>3. CASE ProjectRowRemoved(o)
    <3>1. rows' \in [Sessions -> Session \cup {Unborn}]
      BY <2>3 DEF ProjectRowRemoved, Types
    <3>2. ghosts' \subseteq ghosts
      BY <2>3 DEF ProjectRowRemoved
    <3>3. /\ removed' \subseteq Sessions /\ unsaved' \subseteq Sessions
          /\ project' \in [known : BOOLEAN, row : BOOLEAN]
      BY <2>3 DEF ProjectRowRemoved, Types
    <3>4. UNCHANGED <<known, published, registered, untold, strays>>
      BY <2>3 DEF ProjectRowRemoved
    <3>5. QED
      BY <3>1, <3>2, <3>3, <3>4 DEF Types
  <2>4. CASE \E s \in Sessions : AskForName(o, s) \/ RemoveSession(o, s)
    BY <2>4 DEF AskForName, RemoveSession, histories, Types
  <2>5. CASE \E t \in Terminals : StartTerminal(o, t)
    BY <2>5 DEF StartTerminal, histories, Types
  <2>6. CASE NotResolved(o) \/ NameNotUsed(o) \/ Touched(o) \/ NotStarted(o)
    BY <2>6 DEF NotResolved, NameNotUsed, Touched, NotStarted, histories, Types, Publish
  <2>7. CASE Launched(o)
    <3>1. tasks[o].terminal \in Terminals /\ Of(o) \in Sessions
      BY <2>7 DEF TaskInv, Launched, At, Stages, Apart
    <3>2. QED
      BY <2>7, <3>1 DEF Launched, Types
  <2>8. CASE PlanMade(o)
    BY <2>8 DEF PlanMade, Types, Stopped, LiveOf
  <2>9. CASE WorktreeDeleted(o)
    BY <2>9 DEF WorktreeDeleted, Types, LiveOf
  <2>10. CASE RemoveProject(o)
    BY <2>10 DEF RemoveProject, Types, Stopped, LiveOf, Publish
  <2>11. CASE PlanIsOfNothing(o) \/ WorktreeKept(o) \/ ConfigureProject(o)
    BY <2>11 DEF PlanIsOfNothing, WorktreeKept, ConfigureProject, histories, Types
  <2>12. CASE ProjectForgotten(o) \/ ProjectSaved(o) \/ ProjectNotSaved(o)
    BY <2>12 DEF ProjectForgotten, ProjectSaved, ProjectNotSaved, histories, Types
  <2>13. CASE ProjectRowKept(o)
    BY <2>13 DEF ProjectRowKept, Undeleted, Types
  <2>14. QED
    BY <2>1, <2>2, <2>3, <2>4, <2>5, <2>6, <2>7, <2>8, <2>9, <2>10, <2>11, <2>12, <2>13
       DEF Quietly
<1>4. Announced' \subseteq Sessions /\ \A s \in Announced' : published'[s] \in Session
  <2>1. CASE Publish
    BY <1>2, <1>3, <2>1, PublishedTypes DEF Types, Born
  <2>2. CASE published' = published
    BY <2>2 DEF Types, Announced
  <2>3. QED
    BY <1>3, <2>1, <2>2
<1>5. QED
  BY <1>2, <1>3, <1>4 DEF Types, Born

LEMMA TypesCreate ==
  ASSUME Types, NEW o \in Tasks, NEW s \in Sessions, NEW kind \in Kinds,
         CreateSession(o, s, kind)
  PROVE  /\ Types'
         /\ object' = [object EXCEPT ![s] = object'[s]] /\ object'[s] \in Session
         /\ object'[s].terminals = {} /\ object'[s] # Unborn
         /\ \A r \in Sessions : r # s => object'[r] = object[r]
<1>1. /\ object' \in [Sessions -> Session \cup {Unborn}]
      /\ object'[s] \in Session /\ object'[s].terminals = {} /\ object'[s] # Unborn
      /\ \A r \in Sessions : r # s => object'[r] = object[r]
      /\ object' = [object EXCEPT ![s] = object'[s]]
  <2> DEFINE new == [kind |-> kind, bound |-> FALSE, name |-> Derived,
                     origin |-> "derived", terminals |-> {}]
  <2>1. new \in Session /\ new.terminals = {}
    BY SessionServiceAssumption DEF Session
  <2>2. object' = [object EXCEPT ![s] = new]
    BY DEF CreateSession
  <2> HIDE DEF new
  <2>3. QED
    BY <2>1, <2>2, SessionFields DEF Types
<1>2. tasks' \in [Tasks -> Task]
  <2>1. Begin(o, "resolving", s, None)
    BY DEF CreateSession
  <2>2. "resolving" \in Stages
    BY DEF Stages
  <2>3. QED
    BY <2>1, <2>2, Beginning DEF Moves, Types
<1>3. QED
  BY <1>1, <1>2 DEF Types, CreateSession, Born, Announced

LEMMA TypesRestart ==
  ASSUME Types, Restart
  PROVE  Types'
<1>1. tasks' \in [Tasks -> Task]
  BY DEF Restart, Task, Idle
<1>2. writes' \in Seq(Write)
  BY EmptySeq DEF Restart
<1>3. /\ object' \in [Sessions -> Session \cup {Unborn}] /\ known' \subseteq Sessions
      /\ \A s \in known' : object'[s] # Unborn
      /\ rows' = rows /\ object' = rows
  BY DEF Restart, Types
<1>4. Announced' \subseteq Sessions /\ \A s \in Announced' : published'[s] \in Session
  BY <1>3, PublishedTypes DEF Restart
<1>5. project' \in [known : BOOLEAN, row : BOOLEAN]
  BY DEF Restart, Types
<1>6. QED
  BY <1>1, <1>2, <1>3, <1>4, <1>5 DEF Restart, Types, Born, Publish

-----------------------------------------------------------------------------
(* What a request is about. *)

(* A request goes on, and the others' sessions are left as they are. *)
LEMMA TaskStays ==
  ASSUME Types, TaskInv, NEW o \in Tasks, NEW x, Moves(o, x),
         \A s \in Sessions : Born(s) => object'[s] # Unborn,
         \A q \in Tasks : q # o /\ tasks[q].at \in Making =>
           /\ Of(q) \notin known' /\ rows'[Of(q)] = Unborn /\ x.session # Of(q),
         \A q \in Tasks : q # o /\ tasks[q].at \in Ending => Of(q) \notin known',
         x.at \in Stages \ Apart => x.session \in Sessions /\ object'[x.session] # Unborn,
         x.at \in Apart \cup {"idle"} => x.session = None,
         x.at = "launching" => x.terminal \in Terminals,
         x.at \in Making =>
           /\ x.session \notin known' /\ rows'[x.session] = Unborn
           /\ \A q \in Tasks : q # o => Of(q) # x.session,
         x.at \in Ending => x.session \notin known'
  PROVE  TaskInv'
<1>1. tasks' = [tasks EXCEPT ![o] = x]
  BY DEF Moves
<1>2. tasks'[o] = x /\ \A q \in Tasks : q # o => tasks'[q] = tasks[q]
  BY <1>1 DEF Types
<1>3. ASSUME NEW q \in Tasks, q # o
      PROVE  /\ tasks'[q].at \in Stages \ Apart =>
                  tasks'[q].session \in Sessions /\ object'[tasks'[q].session] # Unborn
             /\ tasks'[q].at \in Apart \cup {"idle"} => tasks'[q].session = None
             /\ tasks'[q].at = "launching" => tasks'[q].terminal \in Terminals
             /\ tasks'[q].at \in Making =>
                  /\ tasks'[q].session \notin known' /\ rows'[tasks'[q].session] = Unborn
                  /\ \A r \in Tasks : tasks'[r].session = tasks'[q].session => r = q
             /\ tasks'[q].at \in Ending => tasks'[q].session \notin known'
  BY <1>2, <1>3 DEF TaskInv, Of
<1>4. /\ tasks'[o].at \in Making =>
           \A r \in Tasks : tasks'[r].session = tasks'[o].session => r = o
  BY <1>2 DEF Of
<1>5. QED
  BY <1>2, <1>3, <1>4 DEF TaskInv, Of, Born

LEMMA TaskInvQueues ==
  ASSUME Types, TaskInv, NEW o \in Tasks, NEW s, NEW v, NEW x, Queues(o, s, v, x)
  PROVE  TaskInv'
<1>1. /\ Moves(o, x) /\ s \in Sessions /\ x.session = s /\ v # Unborn /\ x.at \in Saving
      /\ object' = [object EXCEPT ![s] = v] /\ known' = known /\ rows' = rows
      /\ tasks[o].at = "resolving" <=> x.at = "recording"
      /\ tasks[o].at = "idle" => s \in known
      /\ tasks[o].at # "idle" => s = Of(o)
  BY SessionFields DEF Queues
<1>2. \A r \in Sessions : Born(r) => object'[r] # Unborn
  BY <1>1 DEF Types, Born
<1>3. object'[s] # Unborn
  BY <1>1 DEF Types
<1>4. \A q \in Tasks : q # o /\ tasks[q].at \in Making =>
           Of(q) \notin known /\ rows[Of(q)] = Unborn /\ s # Of(q)
  BY <1>1 DEF TaskInv
<1>5. \A q \in Tasks : tasks[q].at \in Ending => Of(q) \notin known
  BY DEF TaskInv
<1>6. x.at \in Making => /\ s \notin known /\ rows[s] = Unborn
                         /\ \A q \in Tasks : q # o => Of(q) # s
  BY <1>1 DEF TaskInv, Making, Saving
<1>7. x.at \notin Apart \cup {"idle"} \cup Ending /\ x.at # "launching"
  BY <1>1 DEF Saving, Apart, Ending
<1>8. QED
  BY <1>1, <1>2, <1>3, <1>4, <1>5, <1>6, <1>7, TaskStays

LEMMA TaskInvCommits ==
  ASSUME Types, TaskInv, QueueInv, NEW o \in Tasks, NEW x, Commits(o, x)
  PROVE  TaskInv'
<1>1. /\ Head(writes).session = Of(o) /\ Of(o) \in Sessions /\ Born(Of(o))
  BY HeadOf DEF Commits, Saved
<1>2. /\ Moves(o, x) /\ tasks[o].at \in Saving /\ x.at \in {"idle", "adding", "seeding"}
      /\ x.at = "idle" => x.session = None
      /\ x.at # "idle" => x.session = Of(o)
  BY DEF Commits, Idle
<1>3. /\ object' = object /\ known' \subseteq known \cup {Of(o)}
      /\ At(o, "recording") \/ known' = known
      /\ \A s \in Sessions : s # Of(o) => rows'[s] = rows[s]
  BY <1>1 DEF Commits, Saved, Types
<1>4. \A q \in Tasks : q # o /\ tasks[q].at \in Making => Of(q) # Of(o) /\ Of(q) \in Sessions
  BY DEF TaskInv, Making, Stages, Apart
<1>5. \A q \in Tasks : q # o /\ tasks[q].at \in Making =>
           Of(q) \notin known' /\ rows'[Of(q)] = Unborn /\ x.session # Of(q)
  BY <1>2, <1>3, <1>4, NoneIsNoSession DEF TaskInv
<1>6. \A q \in Tasks : q # o /\ tasks[q].at \in Ending => Of(q) \notin known'
  <2>1. ASSUME NEW q \in Tasks, q # o, At(o, "recording")
        PROVE  Of(q) # Of(o)
    BY <2>1 DEF TaskInv, At, Making
  <2>2. QED
    BY <1>3, <2>1 DEF TaskInv
<1>7. \A s \in Sessions : Born(s) => object'[s] # Unborn
  BY <1>3 DEF Born
<1>8. x.at \notin Making \cup Ending /\ x.at # "launching"
  BY <1>2 DEF Making, Ending
<1>9. x.at \in Stages \ Apart => x.session \in Sessions /\ object'[x.session] # Unborn
  BY <1>1, <1>2, <1>3 DEF Stages, Born
<1>10. x.at \in Apart \cup {"idle"} => x.session = None
  BY <1>2 DEF Apart
<1>11. QED
  BY <1>2, <1>5, <1>6, <1>7, <1>8, <1>9, <1>10, TaskStays

LEMMA TaskInvFails ==
  ASSUME Types, TaskInv, NEW o \in Tasks, NEW x, Fails(o, x)
  PROVE  TaskInv'
<1>1. /\ Moves(o, x) /\ tasks[o].at \in Saving /\ x.at \in {"idle", "unrecording"}
      /\ x.at = "idle" => x.session = None
      /\ x.at = "unrecording" => x.session = Of(o) /\ known' = known \ {Of(o)}
      /\ object' = object /\ rows' = rows /\ known' \subseteq known
  BY DEF Fails, Idle
<1>2. Of(o) \in Sessions /\ Born(Of(o))
  BY <1>1 DEF TaskInv, Saving, Stages, Apart
<1>3. \A q \in Tasks : q # o /\ tasks[q].at \in Making =>
           /\ Of(q) \notin known' /\ rows'[Of(q)] = Unborn /\ x.session # Of(q)
  <2>1. \A q \in Tasks : q # o /\ tasks[q].at \in Making => Of(q) # Of(o) /\ Of(q) \in Sessions
    BY DEF TaskInv, Making, Stages, Apart
  <2>2. QED
    BY <1>1, <2>1, NoneIsNoSession DEF TaskInv
<1>4. \A q \in Tasks : tasks[q].at \in Ending => Of(q) \notin known'
  BY <1>1 DEF TaskInv
<1>5. x.at \notin Making /\ x.at # "launching" /\ (x.at \in Apart \cup {"idle"} => x.at = "idle")
  BY <1>1 DEF Making, Apart
<1>6. x.at \in Stages \ Apart => x.at = "unrecording"
  BY <1>1 DEF Stages
<1>7. x.at \in Ending => x.session \notin known'
  BY <1>1 DEF Ending
<1>8. \A s \in Sessions : Born(s) => object'[s] # Unborn
  BY <1>1 DEF Born
<1>9. QED
  BY <1>1, <1>2, <1>3, <1>4, <1>5, <1>6, <1>7, <1>8, TaskStays DEF Born

(* A quiet step begins with a listed session or none, goes on, or ends. *)
GoesQuietly(o, x) ==
  /\ x \in Task
  /\ Moves(o, x)
  /\ x.session \in known \cup {None, Of(o)}
  /\ x.at \notin Making
  /\ x.at \in Stages \ Apart => x.session \in Sessions /\ Born(x.session)
  /\ x.at \in Apart \cup {"idle"} => x.session = None
  /\ x.at = "launching" => x.terminal \in Terminals
  /\ x.at \in Ending => x.session \notin known'
  /\ known' \subseteq known
  /\ \/ x.terminal = None
     \/ x.terminal = tasks[o].terminal /\ x.session = Of(o)
     \/ x.session \in Located(x.terminal)

LEMMA QuietTask ==
  ASSUME Types, TaskInv, NEW o \in Tasks, Quietly(o)
  PROVE  \E x : GoesQuietly(o, x)
<1>0. /\ None \in Sessions \cup {None} /\ None \in Terminals \cup {None}
      /\ known \subseteq Sessions /\ \A s \in known : Born(s)
  BY DEF Types
<1>1. ASSUME End(o), known' = known PROVE \E x : GoesQuietly(o, x)
  <2>1. Moves(o, Idle) /\ Idle.at = "idle" /\ Idle.session = None /\ Idle.terminal = None
    BY <1>1, Finishing
  <2>2. GoesQuietly(o, Idle)
    BY <1>1, <2>1 DEF Moves, Making, Stages, Apart, Ending, GoesQuietly
  <2>3. QED
    BY <2>2
<1>2. ASSUME NEW at \in Stages \ (Apart \cup Making \cup {"launching"}), Goto(o, at),
             tasks[o].at \in Stages \ Apart, known' \subseteq known,
             at \in Ending => Of(o) \notin known'
      PROVE  \E x : GoesQuietly(o, x)
  <2> DEFINE x == [tasks[o] EXCEPT !.at = at]
  <2>1. Moves(o, x) /\ x.at = at /\ x.session = Of(o) /\ x.terminal = tasks[o].terminal
    BY <1>2, Going
  <2>2. Of(o) \in Sessions /\ Born(Of(o))
    BY <1>2 DEF TaskInv
  <2> HIDE DEF x
  <2>3. at # "idle"
    BY DEF Stages
  <2>4. GoesQuietly(o, x)
    BY <1>2, <2>1, <2>2, <2>3 DEF Moves, GoesQuietly
  <2>5. QED
    BY <2>4
<1>3. ASSUME NEW at \in Stages \ (Apart \cup Making \cup Ending), NEW s \in known,
             NEW t \in Terminals \cup {None}, Begin(o, at, s, t), known' = known,
             at = "launching" => t \in Terminals,
             t = None \/ s \in Located(t)
      PROVE  \E x : GoesQuietly(o, x)
  <2> DEFINE x == [at |-> at, session |-> s, terminal |-> t]
  <2>1. Moves(o, x)
    BY <1>0, <1>3, Beginning
  <2>2. x.at = at /\ x.session = s /\ x.terminal = t
    OBVIOUS
  <2>3. at # "idle"
    BY DEF Stages
  <2> HIDE DEF x
  <2>4. GoesQuietly(o, x)
    BY <1>0, <1>3, <2>1, <2>2, <2>3 DEF Moves, GoesQuietly
  <2>5. QED
    BY <2>4
<1>4. ASSUME NEW at \in Apart, Begin(o, at, None, None), known' \subseteq known
      PROVE  \E x : GoesQuietly(o, x)
  <2> DEFINE x == [at |-> at, session |-> None, terminal |-> None]
  <2>1. Moves(o, x)
    BY <1>0, <1>4, Beginning DEF Apart, Stages
  <2>2. x.at = at /\ x.session = None /\ x.terminal = None
    OBVIOUS
  <2> HIDE DEF x
  <2>3. at \notin Making \cup Ending \cup {"launching"}
    BY DEF Apart, Making, Ending
  <2>4. GoesQuietly(o, x)
    BY <1>4, <2>1, <2>2, <2>3 DEF Moves, GoesQuietly
  <2>5. QED
    BY <2>4
<1>5. CASE \/ NotResolved(o) \/ NameNotUsed(o) \/ Touched(o) \/ NotStarted(o)
           \/ RolledBack(o) \/ NotRolledBack(o)
  BY <1>1, <1>5 DEF NotResolved, NameNotUsed, Touched, NotStarted, RolledBack, NotRolledBack
<1>6. CASE \/ PlanIsOfNothing(o) \/ WorktreeKept(o) \/ Forgotten(o) \/ NotForgotten(o)
           \/ ProjectRowKept(o) \/ ProjectForgotten(o) \/ ProjectSaved(o) \/ ProjectNotSaved(o)
  BY <1>1, <1>6 DEF PlanIsOfNothing, WorktreeKept, Forgotten, NotForgotten, ProjectRowKept,
                    ProjectForgotten, ProjectSaved, ProjectNotSaved
<1>7. CASE At(o, "adding") /\ WorktreeRefused(o)
  <2>1. tasks[o].at = "adding" /\ Goto(o, "unrecording") /\ known' = known \ {Of(o)}
    BY <1>7 DEF WorktreeRefused, At, RollBack
  <2>2. /\ "unrecording" \in Stages \ (Apart \cup Making \cup {"launching"})
        /\ "adding" \in Stages \ Apart
    BY DEF Stages, Apart, Making
  <2>3. QED
    BY <1>2, <2>1, <2>2
<1>8. CASE PlanMade(o) \/ WorktreeDeleted(o)
  <2>1. PICK at \in {"deleting", "forgetting"} :
          Goto(o, at) /\ (at = "deleting" => known' = known)
                      /\ (at = "forgetting" => known' = known \ {Of(o)})
    BY <1>8 DEF PlanMade, WorktreeDeleted
  <2>2. tasks[o].at \in {"planning", "deleting"}
    BY <1>8 DEF PlanMade, WorktreeDeleted, At
  <2>3. /\ at \in Stages \ (Apart \cup Making \cup {"launching"})
        /\ tasks[o].at \in Stages \ Apart
        /\ at \in Ending => at = "forgetting"
    BY <2>2 DEF Stages, Apart, Making, Ending
  <2>4. known' \subseteq known /\ (at \in Ending => Of(o) \notin known')
    BY <2>1, <2>3
  <2>5. QED
    BY <1>2, <2>1, <2>3, <2>4
<1>9. CASE ProjectRowRemoved(o)
  <2> DEFINE x == [tasks[o] EXCEPT !.at = "dropped"]
  <2>1. Goto(o, "dropped") /\ tasks[o].at = "dropping" /\ known' = known
    BY <1>9 DEF ProjectRowRemoved, At
  <2>2. Of(o) = None
    BY <2>1 DEF TaskInv, Apart
  <2>3. Moves(o, x) /\ x.at = "dropped" /\ x.session = None /\ x.terminal = tasks[o].terminal
    BY <2>1, <2>2, Going DEF Stages
  <2> HIDE DEF x
  <2>4. GoesQuietly(o, x)
    BY <2>1, <2>2, <2>3 DEF Moves, Making, Stages, Apart, Ending, GoesQuietly
  <2>5. QED
    BY <2>4
<1>10. CASE Launched(o)
  <2>1. /\ tasks[o].at = "launching" /\ known' = known
        /\ End(o) \/ Goto(o, "touching")
    BY <1>10 DEF Launched, At
  <2>2. /\ "touching" \in Stages \ (Apart \cup Making \cup {"launching"})
        /\ "touching" \notin Ending /\ "launching" \in Stages \ Apart
    BY DEF Stages, Apart, Making, Ending
  <2>3. QED
    BY <1>1, <1>2, <2>1, <2>2
<1>11. CASE \E s \in Sessions : AskForName(o, s) \/ RemoveSession(o, s)
  <2>1. PICK s \in known : /\ Begin(o, "asking", s, None) \/ Begin(o, "planning", s, None)
                           /\ known' = known
    BY <1>11 DEF AskForName, RemoveSession
  <2>2. {"asking", "planning"} \subseteq Stages \ (Apart \cup Making \cup Ending)
    BY DEF Stages, Apart, Making, Ending
  <2>3. QED
    BY <1>0, <1>3, <2>1, <2>2
<1>12. CASE \E t \in Terminals : StartTerminal(o, t)
  <2>1. PICK t \in Terminals, s \in known :
          /\ Begin(o, "launching", s, t) \/ Begin(o, "touching", s, t)
          /\ known' = known /\ s \in Located(t)
    BY <1>12 DEF StartTerminal, Located
  <2>2. {"launching", "touching"} \subseteq Stages \ (Apart \cup Making \cup Ending)
    BY DEF Stages, Apart, Making, Ending
  <2>3. QED
    BY <1>3, <2>1, <2>2
<1>13. CASE RemoveProject(o) \/ ConfigureProject(o)
  <2>1. /\ Begin(o, "dropping", None, None) \/ Begin(o, "configuring", None, None)
        /\ known' \subseteq known
    BY <1>13 DEF RemoveProject, ConfigureProject
  <2>2. QED
    BY <1>4, <2>1 DEF Apart
<1>14. QED
  BY <1>5, <1>6, <1>7, <1>8, <1>9, <1>10, <1>11, <1>12, <1>13 DEF Quietly

LEMMA TaskInvQuiet ==
  ASSUME Types, TaskInv, NEW o \in Tasks, Quietly(o)
  PROVE  TaskInv'
<1>1. PICK x : GoesQuietly(o, x)
  BY QuietTask
<1>2. /\ object' = object
      /\ \A s \in Sessions : rows[s] = Unborn => rows'[s] = Unborn
  BY QuietStep DEF Quiet
<1>3. \A q \in Tasks : tasks[q].at \in Making => Of(q) \in Sessions
  BY DEF TaskInv, Making, Stages, Apart
<1>4. \A q \in Tasks : q # o /\ tasks[q].at \in Making =>
           Of(q) \notin known' /\ rows'[Of(q)] = Unborn /\ x.session # Of(q)
  BY <1>1, <1>2, <1>3, NoneIsNoSession DEF TaskInv, GoesQuietly
<1>5. \A q \in Tasks : q # o /\ tasks[q].at \in Ending => Of(q) \notin known'
  BY <1>1 DEF TaskInv, GoesQuietly
<1>6. \A s \in Sessions : Born(s) => object'[s] # Unborn
  BY <1>2 DEF Born
<1>7. QED
  BY <1>1, <1>4, <1>5, <1>6, TaskStays DEF GoesQuietly

LEMMA TaskInvCreate ==
  ASSUME Types, TaskInv, NEW o \in Tasks, NEW s \in Sessions, NEW kind \in Kinds,
         CreateSession(o, s, kind)
  PROVE  TaskInv'
<1> DEFINE x == [at |-> "resolving", session |-> s, terminal |-> None]
<1>1. Moves(o, x)
  BY Beginning DEF CreateSession, Stages
<1>2. x.at = "resolving" /\ x.session = s
  OBVIOUS
<1>3. /\ s \notin known /\ rows[s] = Unborn /\ \A q \in Tasks : Of(q) # s
      /\ known' = known /\ rows' = rows
  BY DEF CreateSession, FreshSession, Busy, Of
<1>4. /\ object'[s] # Unborn
      /\ \A r \in Sessions : Born(r) => object'[r] # Unborn
  BY TypesCreate DEF Born
<1> HIDE DEF x
<1>5. x.at \in Stages \ Apart /\ x.at \notin Ending /\ x.at # "launching"
  BY <1>2 DEF Stages, Apart, Ending
<1>6. x.at \notin Apart \cup {"idle"}
  BY <1>2 DEF Apart
<1>7. \A q \in Tasks : q # o /\ tasks[q].at \in Making =>
           Of(q) \notin known' /\ rows'[Of(q)] = Unborn /\ x.session # Of(q)
  BY <1>2, <1>3 DEF TaskInv
<1>8. \A q \in Tasks : q # o /\ tasks[q].at \in Ending => Of(q) \notin known'
  BY <1>3 DEF TaskInv
<1>9. QED
  BY <1>1, <1>2, <1>3, <1>4, <1>5, <1>6, <1>7, <1>8, TaskStays

LEMMA TaskInvRestart == ASSUME Restart PROVE TaskInv'
<1>1. \A o \in Tasks : tasks'[o] = Idle
  BY DEF Restart
<1>2. QED
  BY <1>1 DEF TaskInv, Of, Idle, Stages, Apart, Making, Ending

-----------------------------------------------------------------------------
(* The queue of saves. *)

LEMMA QueueInvQueues ==
  ASSUME Types, TaskInv, QueueInv, NEW o \in Tasks, NEW s, NEW v, NEW x, Queues(o, s, v, x)
  PROVE  QueueInv'
<1> DEFINE w == [task |-> o, session |-> s, value |-> v]
           n == Len(writes)
<1>1. /\ tasks' = [tasks EXCEPT ![o] = x] /\ s \in Sessions /\ v \in Session
      /\ tasks[o].at \notin Saving /\ x.at \in Saving /\ x.session = s
      /\ object' = [object EXCEPT ![s] = v] /\ v.kind = object[s].kind
      /\ writes' = Append(writes, w)
  BY DEF Queues, Moves, Saving
<1>2. w \in Write /\ w.task = o /\ w.session = s /\ w.value = v
  BY <1>1 DEF Write
<1>3. /\ Len(writes') = n + 1 /\ n \in Nat
      /\ \A i \in 1..n : writes'[i] = writes[i]
      /\ writes'[n + 1] = w
  BY <1>1, <1>2, Appended
<1>4. \A i \in 1..n : /\ writes[i].task \in Tasks /\ writes[i].session \in Sessions
                      /\ writes[i].task # o
  BY <1>1, SeqElements DEF QueueInv
<1> HIDE DEF w
<1>5. tasks'[o] = x /\ \A q \in Tasks : q # o => tasks'[q] = tasks[q]
  BY <1>1 DEF Types
<1>6. object'[s] = v /\ \A r \in Sessions : r # s => object'[r] = object[r]
  BY <1>1 DEF Types
<1>7. \A i \in 1..Len(writes') : i = n + 1 \/ i \in 1..n
  BY <1>3
<1>8. ASSUME NEW i \in 1..n
      PROVE  /\ tasks'[writes'[i].task].session = writes'[i].session
             /\ tasks'[writes'[i].task].at \in Saving
             /\ writes'[i].value.kind = object'[writes'[i].session].kind
             /\ (\A j \in 1..Len(writes') : j > i => writes'[j].session # writes'[i].session)
                  => writes'[i].value = object'[writes'[i].session]
  <2>1. writes'[i] = writes[i] /\ tasks'[writes[i].task] = tasks[writes[i].task]
    BY <1>3, <1>4, <1>5
  <2>2. object'[writes[i].session].kind = object[writes[i].session].kind
    BY <1>1, <1>4, <1>6
  <2>3. ASSUME \A j \in 1..Len(writes') : j > i => writes'[j].session # writes[i].session
        PROVE  writes[i].value = object'[writes[i].session]
    <3>1. n + 1 \in 1..Len(writes') /\ n + 1 > i
      BY <1>3
    <3>2. writes[i].session # s
      BY <1>2, <1>3, <2>3, <3>1
    <3>3. Last(i)
      BY <1>3, <2>3 DEF Last
    <3>4. QED
      BY <1>4, <1>6, <3>2, <3>3 DEF QueueInv
  <2>4. QED
    BY <2>1, <2>2, <2>3 DEF QueueInv, Of
<1>9. /\ tasks'[writes'[n + 1].task].session = writes'[n + 1].session
      /\ tasks'[writes'[n + 1].task].at \in Saving
      /\ writes'[n + 1].value.kind = object'[writes'[n + 1].session].kind
      /\ writes'[n + 1].value = object'[writes'[n + 1].session]
  BY <1>1, <1>2, <1>3, <1>5, <1>6
<1>10. \A i, j \in 1..Len(writes') : writes'[i].task = writes'[j].task => i = j
  BY <1>2, <1>3, <1>4, <1>7 DEF QueueInv
<1>11. QED
  BY <1>7, <1>8, <1>9, <1>10 DEF QueueInv, Last, Of

(* A save ends: its task goes on, and the others stay in their order. *)
LEMMA QueueInvEnds ==
  ASSUME Types, TaskInv, QueueInv, NEW o \in Tasks, NEW x, Moves(o, x),
         tasks[o].at \in Saving, Turn(o), object' = object, writes' = Tail(writes)
  PROVE  /\ QueueInv'
         /\ Len(writes') = Len(writes) - 1 /\ Len(writes) \in Nat
         /\ \A i \in 1..Len(writes') :
              /\ i + 1 \in 1..Len(writes) /\ writes'[i] = writes[i + 1]
              /\ writes[i + 1].task # o
              /\ tasks'[writes[i + 1].task] = tasks[writes[i + 1].task]
         /\ \A i \in 1..Len(writes) : i = 1 \/ i - 1 \in 1..Len(writes')
<1>1. /\ writes # <<>> /\ 1 \in 1..Len(writes) /\ writes[1].task = o
  BY HeadOf
<1>2. /\ Len(writes') = Len(writes) - 1 /\ Len(writes) \in Nat
      /\ \A i \in 1..Len(writes') : i + 1 \in 1..Len(writes) /\ writes'[i] = writes[i + 1]
  BY <1>1, HeadAndTail
<1>3. \A i \in 1..Len(writes') : writes[i + 1].task # o /\ writes[i + 1].task \in Tasks
  BY <1>1, <1>2, SeqElements DEF QueueInv
<1>4. \A q \in Tasks : q # o => tasks'[q] = tasks[q]
  BY DEF Moves, Types
<1>5. \A i \in 1..Len(writes) : i = 1 \/ i - 1 \in 1..Len(writes')
  BY <1>2
<1>6. ASSUME NEW i \in 1..Len(writes')
      PROVE  /\ tasks'[writes'[i].task].session = writes'[i].session
             /\ tasks'[writes'[i].task].at \in Saving
             /\ writes'[i].value.kind = object'[writes'[i].session].kind
             /\ (\A j \in 1..Len(writes') : j > i => writes'[j].session # writes'[i].session)
                  => writes'[i].value = object'[writes'[i].session]
  <2>1. /\ writes'[i] = writes[i + 1] /\ i + 1 \in 1..Len(writes)
        /\ tasks'[writes[i + 1].task] = tasks[writes[i + 1].task]
    BY <1>2, <1>3, <1>4
  <2>2. ASSUME \A j \in 1..Len(writes') : j > i => writes'[j].session # writes'[i].session
        PROVE  Last(i + 1)
    <3> SUFFICES ASSUME NEW j \in 1..Len(writes), j > i + 1
                 PROVE  writes[j].session # writes[i + 1].session
      BY DEF Last
    <3>1. j - 1 \in 1..Len(writes') /\ j - 1 > i /\ (j - 1) + 1 = j
      BY <1>5
    <3>2. writes'[j - 1] = writes[j]
      BY <1>2, <3>1
    <3>3. QED
      BY <2>1, <2>2, <3>1, <3>2
  <2>3. QED
    BY <2>1, <2>2 DEF QueueInv, Of
<1>7. \A i, j \in 1..Len(writes') : writes'[i].task = writes'[j].task => i = j
  <2> SUFFICES ASSUME NEW i \in 1..Len(writes'), NEW j \in 1..Len(writes'),
                      writes'[i].task = writes'[j].task
               PROVE  i = j
    OBVIOUS
  <2>1. i + 1 = j + 1
    BY <1>2 DEF QueueInv
  <2>2. QED
    BY <2>1
<1>8. QueueInv'
  BY <1>6, <1>7 DEF QueueInv, Last, Of
<1>9. QED
  BY <1>2, <1>3, <1>4, <1>5, <1>8

LEMMA QueueInvQuiet ==
  ASSUME Types, QueueInv, NEW o \in Tasks, NEW x, Quiet(o, x)
  PROVE  QueueInv'
<1>1. \A i \in 1..Len(writes) : tasks'[writes[i].task] = tasks[writes[i].task]
  BY SeqElements DEF QueueInv, Quiet, Moves, Types
<1>2. object' = object /\ writes' = writes
  BY DEF Quiet
<1>3. QED
  BY <1>1, <1>2 DEF QueueInv, Last, Of

LEMMA QueueInvCreate ==
  ASSUME Types, TaskInv, QueueInv, NEW o \in Tasks, NEW s \in Sessions, NEW kind \in Kinds,
         CreateSession(o, s, kind)
  PROVE  /\ QueueInv'
         /\ \A i \in 1..Len(writes) :
              /\ tasks'[writes[i].task] = tasks[writes[i].task]
              /\ writes[i].session # s
              /\ object'[writes[i].session] = object[writes[i].session]
<1>1. tasks[o].at = "idle" /\ \A q \in Tasks : q # o => tasks'[q] = tasks[q]
  BY Beginning DEF CreateSession, Stages, Begin, Idle, Types
<1>2. \A i \in 1..Len(writes) :
        /\ writes[i].task \in Tasks /\ writes[i].session \in Sessions
        /\ writes[i].task # o
        /\ writes[i].session # s
  BY <1>1, SeqElements DEF QueueInv, Saving, CreateSession, FreshSession, Busy, Of
<1>3. /\ writes' = writes
      /\ \A i \in 1..Len(writes) :
           /\ tasks'[writes[i].task] = tasks[writes[i].task]
           /\ object'[writes[i].session] = object[writes[i].session]
  BY <1>1, <1>2, TypesCreate DEF CreateSession
<1>4. QED
  BY <1>2, <1>3 DEF QueueInv, Last, Of

LEMMA QueueInvRestart == ASSUME Restart PROVE QueueInv'
<1>1. writes' = <<>> /\ 1..Len(writes') = {}
  BY DEF Restart
<1>2. QED
  BY <1>1 DEF QueueInv

-----------------------------------------------------------------------------
(* Names. *)

LEMMA NameInvQueues ==
  ASSUME Types, TaskInv, QueueInv, NameInv, NEW o \in Tasks, NEW s, NEW v, NEW x,
         Queues(o, s, v, x)
  PROVE  NameInv'
<1> DEFINE w == [task |-> o, session |-> s, value |-> v]
           n == Len(writes)
<1>1. /\ tasks' = [tasks EXCEPT ![o] = x] /\ s \in Sessions /\ v \in Session
      /\ tasks[o].at \notin Saving /\ Born(s) /\ x \in Task
      /\ object' = [object EXCEPT ![s] = v]
      /\ writes' = Append(writes, w)
      /\ object[s].origin = "user" => v.origin = "user"
      /\ x.at = "renaming" => v.origin = "user"
      /\ claimed' = claimed /\ rows' = rows
  BY DEF Queues, Moves, Saving, histories
<1>2. w \in Write /\ w.task = o /\ w.session = s /\ w.value = v
  BY <1>1 DEF Write
<1>3. /\ Len(writes') = n + 1 /\ n \in Nat
      /\ \A i \in 1..n : writes'[i] = writes[i]
      /\ writes'[n + 1] = w
      /\ \A i \in 1..Len(writes') : i = n + 1 \/ i \in 1..n
  BY <1>1, <1>2, Appended
<1>4. \A i \in 1..n : /\ writes[i].task \in Tasks /\ writes[i].session \in Sessions
                      /\ writes[i].task # o
  BY <1>1, SeqElements DEF QueueInv
<1> HIDE DEF w
<1>5. tasks'[o] = x /\ \A q \in Tasks : q # o => tasks'[q] = tasks[q]
  BY <1>1 DEF Types
<1>6. object'[s] = v /\ \A r \in Sessions : r # s => object'[r] = object[r]
  BY <1>1 DEF Types
<1>7. ASSUME NEW i \in 1..n
      PROVE  /\ tasks'[writes'[i].task].at = "renaming" => writes'[i].value.origin = "user"
             /\ writes'[i].session \in claimed' => writes'[i].value.origin = "user"
             /\ writes'[i].value.origin = "user" =>
                  /\ object'[writes'[i].session].origin = "user"
                  /\ \A j \in 1..Len(writes') :
                       j > i /\ writes'[j].session = writes'[i].session
                         => writes'[j].value.origin = "user"
  <2>1. /\ writes'[i] = writes[i] /\ tasks'[writes[i].task] = tasks[writes[i].task]
        /\ claimed' = claimed
    BY <1>1, <1>3, <1>4, <1>5
  <2>2. ASSUME writes[i].value.origin = "user"
        PROVE  object'[writes[i].session].origin = "user"
    BY <1>1, <1>4, <1>6, <2>2 DEF NameInv
  <2>3. ASSUME writes[i].value.origin = "user", NEW j \in 1..Len(writes'), j > i,
               writes'[j].session = writes[i].session
        PROVE  writes'[j].value.origin = "user"
    <3>1. CASE j = n + 1
      BY <1>2, <1>3, <1>6, <2>2, <2>3, <3>1
    <3>2. CASE j \in 1..n
      BY <1>3, <2>3, <3>2 DEF NameInv
    <3>3. QED
      BY <1>3, <3>1, <3>2
  <2>4. QED
    BY <2>1, <2>2, <2>3 DEF NameInv, At
<1>8. /\ tasks'[writes'[n + 1].task].at = "renaming" => writes'[n + 1].value.origin = "user"
      /\ writes'[n + 1].session \in claimed' => writes'[n + 1].value.origin = "user"
      /\ writes'[n + 1].value.origin = "user" =>
           /\ object'[writes'[n + 1].session].origin = "user"
           /\ \A j \in 1..Len(writes') :
                j > n + 1 /\ writes'[j].session = writes'[n + 1].session
                  => writes'[j].value.origin = "user"
  BY <1>1, <1>2, <1>3, <1>5, <1>6 DEF NameInv
<1>9. /\ \A r \in claimed' : object'[r] # Unborn => object'[r].origin = "user"
      /\ \A r \in claimed' : rows'[r] # Unborn => rows'[r].origin = "user"
  <2>1. claimed \subseteq Sessions
    BY DEF Types
  <2>2. QED
    BY <1>1, <1>6, <2>1 DEF NameInv, Born
<1>10. QED
  BY <1>3, <1>7, <1>8, <1>9 DEF NameInv, At, Born

(* A save that ends, whether committed or not. *)
LEMMA NameInvEnds ==
  ASSUME Types, TaskInv, QueueInv, NameInv, NEW o \in Tasks, NEW x, Moves(o, x),
         tasks[o].at \in Saving, Turn(o), object' = object, writes' = Tail(writes),
         claimed' \subseteq claimed \cup {Of(o)},
         At(o, "renaming") \/ claimed' \subseteq claimed,
         \A s \in Sessions : s # Of(o) => rows'[s] = rows[s],
         \/ rows'[Of(o)] = rows[Of(o)] /\ claimed' \subseteq claimed
         \/ rows'[Of(o)].origin = Head(writes).value.origin
  PROVE  NameInv'
<1>1. /\ 1 \in 1..Len(writes) /\ writes[1].task = o /\ writes[1].session = Of(o)
      /\ Head(writes) = writes[1] /\ Of(o) \in Sessions /\ Born(Of(o))
  BY HeadOf
<1>2. /\ Len(writes') = Len(writes) - 1 /\ Len(writes) \in Nat
      /\ \A i \in 1..Len(writes') :
           /\ i + 1 \in 1..Len(writes) /\ writes'[i] = writes[i + 1]
           /\ tasks'[writes[i + 1].task] = tasks[writes[i + 1].task]
  BY QueueInvEnds
<1>3. ASSUME Of(o) \in claimed'
      PROVE  /\ writes[1].value.origin = "user"
             /\ \A i \in 1..Len(writes') :
                  writes'[i].session = Of(o) => writes'[i].value.origin = "user"
             /\ object[Of(o)].origin = "user"
  <2>1. writes[1].value.origin = "user"
    BY <1>1, <1>3 DEF NameInv
  <2>2. ASSUME NEW i \in 1..Len(writes'), writes'[i].session = Of(o)
        PROVE  writes'[i].value.origin = "user"
    <3>1. i + 1 \in 1..Len(writes) /\ i + 1 > 1 /\ writes'[i] = writes[i + 1]
      BY <1>2
    <3>2. QED
      BY <1>1, <2>1, <2>2, <3>1 DEF NameInv
  <2>3. QED
    BY <1>1, <2>1, <2>2 DEF NameInv
<1>4. ASSUME NEW i \in 1..Len(writes')
      PROVE  /\ tasks'[writes'[i].task].at = "renaming" => writes'[i].value.origin = "user"
             /\ writes'[i].session \in claimed' => writes'[i].value.origin = "user"
             /\ writes'[i].value.origin = "user" =>
                  /\ object'[writes'[i].session].origin = "user"
                  /\ \A j \in 1..Len(writes') :
                       j > i /\ writes'[j].session = writes'[i].session
                         => writes'[j].value.origin = "user"
  <2>1. /\ writes'[i] = writes[i + 1] /\ i + 1 \in 1..Len(writes)
        /\ tasks'[writes[i + 1].task] = tasks[writes[i + 1].task]
    BY <1>2
  <2>2. writes'[i].session \in claimed' => writes'[i].value.origin = "user"
    BY <1>3, <2>1 DEF NameInv
  <2>3. ASSUME writes'[i].value.origin = "user", NEW j \in 1..Len(writes'), j > i,
               writes'[j].session = writes'[i].session
        PROVE  writes'[j].value.origin = "user"
    <3>1. writes'[j] = writes[j + 1] /\ j + 1 \in 1..Len(writes) /\ j + 1 > i + 1
      BY <1>2, <2>3
    <3>2. QED
      BY <2>1, <2>3, <3>1 DEF NameInv
  <2>4. QED
    BY <2>1, <2>2, <2>3 DEF NameInv, At
<1>5. \A s \in claimed' : object'[s] # Unborn => object'[s].origin = "user"
  BY <1>3 DEF NameInv, Born
<1>6. ASSUME NEW s \in claimed', rows'[s] # Unborn
      PROVE  rows'[s].origin = "user"
  <2>1. CASE s # Of(o)
    <3>1. s \in claimed /\ s \in Sessions
      BY <2>1 DEF Types
    <3>2. QED
      BY <1>6, <2>1, <3>1 DEF NameInv
  <2>2. CASE s = Of(o) /\ rows'[Of(o)].origin = Head(writes).value.origin
    BY <1>1, <1>3, <2>2
  <2>3. CASE s = Of(o) /\ rows'[Of(o)] = rows[Of(o)] /\ claimed' \subseteq claimed
    BY <1>6, <2>3 DEF NameInv
  <2>4. QED
    BY <2>1, <2>2, <2>3
<1>7. QED
  BY <1>4, <1>5, <1>6 DEF NameInv, At, Born

LEMMA NameInvCommits ==
  ASSUME Types, TaskInv, QueueInv, NameInv, NEW o \in Tasks, NEW x, Commits(o, x)
  PROVE  NameInv'
<1>1. /\ Head(writes).session = Of(o) /\ Of(o) \in Sessions /\ object[Of(o)] \in Session
      /\ Head(writes) \in Write
  BY HeadOf DEF Commits, Saved
<1>2. Reconciled(Head(writes)).origin = Head(writes).value.origin
  BY <1>1, ReconciledRow
<1>3. /\ \A s \in Sessions : s # Of(o) => rows'[s] = rows[s]
      /\ rows'[Of(o)].origin = Head(writes).value.origin
  BY <1>1, <1>2 DEF Commits, Saved, Types
<1>4. /\ Moves(o, x) /\ tasks[o].at \in Saving /\ Turn(o) /\ object' = object
      /\ writes' = Tail(writes) /\ claimed' \subseteq claimed \cup {Of(o)}
      /\ At(o, "renaming") \/ claimed' \subseteq claimed
  BY DEF Commits, Saved
<1>5. QED
  BY <1>3, <1>4, NameInvEnds

LEMMA NameInvFails ==
  ASSUME Types, TaskInv, QueueInv, NameInv, NEW o \in Tasks, NEW x, Fails(o, x)
  PROVE  NameInv'
<1>1. /\ Moves(o, x) /\ tasks[o].at \in Saving /\ Turn(o) /\ object' = object
      /\ writes' = Tail(writes) /\ claimed' = claimed /\ rows' = rows
  BY DEF Fails, SaveFailed
<1>2. QED
  BY <1>1, NameInvEnds

LEMMA NameInvQuiet ==
  ASSUME Types, QueueInv, NameInv, NEW o \in Tasks, NEW x, Quiet(o, x)
  PROVE  NameInv'
<1>1. \A i \in 1..Len(writes) : tasks'[writes[i].task] = tasks[writes[i].task]
  BY SeqElements DEF QueueInv, Quiet, Moves, Types
<1>2. /\ object' = object /\ writes' = writes /\ claimed' = claimed
      /\ \A s \in claimed : rows'[s] \in {rows[s], Unborn}
  BY DEF Quiet, Types
<1>3. QED
  BY <1>1, <1>2 DEF NameInv, At, Born

LEMMA NameInvCreate ==
  ASSUME Types, TaskInv, QueueInv, NameInv, NEW o \in Tasks, NEW s \in Sessions,
         NEW kind \in Kinds, CreateSession(o, s, kind)
  PROVE  NameInv'
<1>1. \A i \in 1..Len(writes) :
        /\ tasks'[writes[i].task] = tasks[writes[i].task]
        /\ writes[i].session # s
        /\ object'[writes[i].session] = object[writes[i].session]
  BY QueueInvCreate
<1>2. /\ writes' = writes /\ claimed' = claimed \ {s} /\ rows' = rows
      /\ \A r \in Sessions : r # s => object'[r] = object[r]
  BY TypesCreate DEF CreateSession
<1>3. claimed \subseteq Sessions
  BY DEF Types
<1>4. QED
  BY <1>1, <1>2, <1>3 DEF NameInv, At, Born

LEMMA NameInvRestart == ASSUME NameInv, Restart PROVE NameInv'
<1>1. /\ writes' = <<>> /\ 1..Len(writes') = {}
      /\ object' = rows /\ rows' = rows /\ claimed' = claimed
  BY DEF Restart
<1>2. QED
  BY <1>1 DEF NameInv, Born

-----------------------------------------------------------------------------
(* Quiet steps, by what they change: Minor ones leave the list, the rows and *)
(* what is owed alone.                                                       *)

Minor(o) ==
  \/ NotResolved(o) \/ NameNotUsed(o) \/ Touched(o) \/ NotStarted(o) \/ Launched(o)
  \/ PlanIsOfNothing(o) \/ WorktreeKept(o)
  \/ \E s \in Sessions : AskForName(o, s) \/ RemoveSession(o, s)
  \/ \E t \in Terminals : StartTerminal(o, t)
  \/ ProjectForgotten(o) \/ ConfigureProject(o) \/ ProjectSaved(o) \/ ProjectNotSaved(o)

LEMMA QuietIs ==
  ASSUME NEW o \in Tasks, Quietly(o)
  PROVE  \/ Minor(o)
         \/ At(o, "adding") /\ RollBack(o) /\ UNCHANGED <<writes, unsaved>>
         \/ RolledBack(o) \/ Forgotten(o)
         \/ NotRolledBack(o) \/ NotForgotten(o)
         \/ PlanMade(o) \/ WorktreeDeleted(o)
         \/ RemoveProject(o) \/ ProjectRowRemoved(o) \/ ProjectRowKept(o)
<1>1. CASE At(o, "adding") /\ WorktreeRefused(o)
  BY <1>1 DEF WorktreeRefused, At
<1>2. CASE RolledBack(o) \/ Forgotten(o) \/ PlanMade(o) \/ WorktreeDeleted(o)
  BY <1>2
<1>3. CASE RemoveProject(o) \/ ProjectRowRemoved(o) \/ ProjectRowKept(o)
  BY <1>3
<1>4. CASE NotRolledBack(o) \/ NotForgotten(o)
  BY <1>4
<1>5. CASE Minor(o)
  BY <1>5
<1>6. QED
  BY <1>1, <1>2, <1>3, <1>4, <1>5 DEF Quietly, Minor

LEMMA MinorStep ==
  ASSUME Types, TaskInv, NEW o \in Tasks, Minor(o)
  PROVE  /\ UNCHANGED <<object, known, rows, writes, unsaved, ghosts, claimed>>
         /\ (published' = published /\ untold' = untold) \/ Publish
         /\ tasks[o].at \notin Owing \cup Saving \cup {"dropping"}
         /\ \/ registered' = registered /\ strays' = strays
            \/ /\ Launched(o) /\ registered[tasks[o].terminal] = None
               /\ registered' = [registered EXCEPT ![tasks[o].terminal] = Of(o)]
               /\ \/ strays' = strays /\ Of(o) \in Located(tasks[o].terminal)
                  \/ strays' = strays \cup {tasks[o].terminal}
<1>0. /\ None \in Sessions \cup {None} /\ None \in Terminals \cup {None}
      /\ known \subseteq Sessions
  BY DEF Types
<1>1. CASE NotResolved(o) \/ NameNotUsed(o) \/ Touched(o) \/ NotStarted(o)
  BY <1>1 DEF NotResolved, NameNotUsed, Touched, NotStarted, histories, At, Owing, Ending, Saving
<1>2. CASE Launched(o)
  BY <1>2 DEF Launched, At, Owing, Ending, Saving
<1>3. CASE \/ PlanIsOfNothing(o) \/ WorktreeKept(o) \/ ProjectForgotten(o)
           \/ ProjectSaved(o) \/ ProjectNotSaved(o)
  BY <1>3 DEF PlanIsOfNothing, WorktreeKept, ProjectForgotten, ProjectSaved, ProjectNotSaved,
              histories, At, Owing, Ending, Saving
<1>4. CASE \/ ConfigureProject(o) \/ \E s \in Sessions : AskForName(o, s) \/ RemoveSession(o, s)
           \/ \E t \in Terminals : StartTerminal(o, t)
  <2>1. tasks[o] = Idle
    BY <1>4 DEF ConfigureProject, AskForName, RemoveSession, StartTerminal, Begin
  <2>2. UNCHANGED <<object, known, rows, project, published, registered, writes, histories>>
    BY <1>4 DEF ConfigureProject, AskForName, RemoveSession, StartTerminal
  <2>3. Idle.at \notin Owing \cup Saving \cup {"dropping"}
    BY DEF Idle, Owing, Ending, Saving
  <2>4. QED
    BY <2>1, <2>2, <2>3 DEF histories
<1>5. QED
  BY <1>1, <1>2, <1>3, <1>4 DEF Minor

(* Where a step leaves its task, and the others. *)
LEMMA TaskAfter ==
  ASSUME Types, NEW o \in Tasks
  PROVE  /\ End(o) => tasks'[o] = Idle
         /\ \A at \in Stages : Goto(o, at) =>
              tasks'[o].at = at /\ tasks'[o].session = Of(o)
         /\ \A at, s, t : Begin(o, at, s, t) =>
              /\ tasks[o].at = "idle"
              /\ tasks'[o].at = at /\ tasks'[o].session = s
         /\ \A x : Moves(o, x) => tasks'[o] = x /\ \A q \in Tasks : q # o => tasks'[q] = tasks[q]
<1>1. tasks \in [Tasks -> Task]
  BY DEF Types
<1>2. tasks[o] \in Task
  BY <1>1
<1>3. QED
  BY <1>1, <1>2 DEF Task, End, Goto, Begin, Moves, Idle, Of

-----------------------------------------------------------------------------
(* Rows. *)

(* The rows that stay are somebody's still. *)
LEMMA RowsStay ==
  ASSUME Types, RowInv, NEW o \in Tasks, NEW x, Moves(o, x), NEW r,
         \A s \in Sessions : s # r /\ rows'[s] # Unborn =>
           /\ rows'[s] = rows[s] /\ object'[s].kind = object[s].kind
           /\ s \in known =>
                \/ s \in known'
                \/ tasks'[o].at \in Ending /\ tasks'[o].session = s
                \/ rows[s].kind # "folder" /\ tasks'[o].at = "dropping"
           /\ s \in ghosts => s \in ghosts'
           /\ tasks[o].at \in Ending => Of(o) # s
           /\ tasks[o].at = "dropping" => rows[s].kind = "folder",
         r \in Sessions /\ rows'[r] # Unborn =>
           /\ object'[r].kind = rows'[r].kind
           /\ r \in known' \/ r \in ghosts'
  PROVE  RowInv'
<1> SUFFICES ASSUME NEW s \in Sessions, rows'[s] # Unborn
             PROVE  object'[s].kind = rows'[s].kind /\ Kept(s)'
  BY DEF RowInv
<1>1. \A q \in Tasks : q # o => tasks'[q] = tasks[q]
  BY TaskAfter
<1>2. CASE s = r
  BY <1>2 DEF Kept
<1>3. CASE s # r
  <2>1. /\ rows'[s] = rows[s] /\ object'[s].kind = object[s].kind
        /\ object[s].kind = rows[s].kind /\ Kept(s)
    BY <1>3 DEF RowInv
  <2>2. CASE s \in known
    BY <1>3, <2>1, <2>2 DEF Kept, At, Of
  <2>3. CASE s \in ghosts
    BY <1>3, <2>1, <2>3 DEF Kept
  <2>4. ASSUME NEW q \in Tasks, tasks[q].at \in Ending, Of(q) = s
        PROVE  Kept(s)'
    BY <1>1, <1>3, <2>4 DEF Kept, Of
  <2>5. ASSUME rows[s].kind # "folder", NEW q \in Tasks, At(q, "dropping")
        PROVE  Kept(s)'
    BY <1>1, <1>3, <2>1, <2>5 DEF Kept, At
  <2>6. QED
    BY <2>1, <2>2, <2>3, <2>4, <2>5 DEF Kept
<1>4. QED
  BY <1>2, <1>3

LEMMA RowInvQueues ==
  ASSUME Types, RowInv, NEW o \in Tasks, NEW s, NEW v, NEW x, Queues(o, s, v, x)
  PROVE  RowInv'
<1>1. /\ Moves(o, x) /\ known' = known /\ rows' = rows /\ ghosts' = ghosts
      /\ tasks[o].at \notin Ending /\ tasks[o].at # "dropping"
      /\ object' = [object EXCEPT ![s] = v] /\ v.kind = object[s].kind
  BY DEF Queues, histories, Ending
<1>2. \A r \in Sessions : object'[r].kind = object[r].kind
  BY <1>1 DEF Types
<1>3. None \notin Sessions
  BY NoneIsNoSession
<1>4. QED
  BY <1>1, <1>2, <1>3, RowsStay

LEMMA RowInvCommits ==
  ASSUME Types, TaskInv, QueueInv, RowInv, NEW o \in Tasks, NEW x, Commits(o, x)
  PROVE  RowInv'
<1>1. /\ Head(writes).session = Of(o) /\ Of(o) \in Sessions /\ object[Of(o)] \in Session
      /\ Head(writes) \in Write /\ Head(writes).value.kind = object[Of(o)].kind
  BY HeadOf DEF Commits, Saved
<1>2. Reconciled(Head(writes)).kind = object[Of(o)].kind
  BY <1>1, ReconciledRow
<1>3. /\ \A s \in Sessions : s # Of(o) => rows'[s] = rows[s]
      /\ rows'[Of(o)].kind = object[Of(o)].kind
  BY <1>1, <1>2 DEF Commits, Saved, Types
<1>4. Of(o) \in known' \/ Of(o) \in ghosts'
  BY <1>1 DEF Commits, Saved
<1>5. /\ Moves(o, x) /\ object' = object /\ known \subseteq known' /\ ghosts \subseteq ghosts'
      /\ tasks[o].at \notin Ending /\ tasks[o].at # "dropping"
  BY DEF Commits, Saved, Saving, Ending
<1>6. QED
  BY <1>3, <1>4, <1>5, RowsStay

LEMMA RowInvFails ==
  ASSUME Types, RowInv, NEW o \in Tasks, NEW x, Fails(o, x)
  PROVE  RowInv'
<1>1. /\ Moves(o, x) /\ object' = object /\ rows' = rows /\ ghosts' = ghosts
      /\ tasks[o].at \notin Ending /\ tasks[o].at # "dropping"
      /\ x.at = "unrecording" => x.session = Of(o) /\ known' = known \ {Of(o)}
      /\ x.at # "unrecording" => known' = known
  BY DEF Fails, Saving, Ending
<1>2. tasks'[o] = x
  BY <1>1, TaskAfter
<1>3. \A s \in known : s \in known' \/ (tasks'[o].at \in Ending /\ tasks'[o].session = s)
  BY <1>1, <1>2 DEF Ending
<1>4. None \notin Sessions
  BY NoneIsNoSession
<1>5. QED
  BY <1>1, <1>3, <1>4, RowsStay

LEMMA RowInvQuiet ==
  ASSUME Types, TaskInv, RowInv, NEW o \in Tasks, Quietly(o)
  PROVE  RowInv'
<1>1. PICK x : Quiet(o, x)
  BY QuietStep
<1>2. Moves(o, x) /\ object' = object /\ \A s \in Sessions : rows'[s] # Unborn => rows'[s] = rows[s]
  BY <1>1 DEF Quiet
<1>3. None \notin Sessions
  BY NoneIsNoSession
<1>4. CASE Minor(o)
  <2>1. /\ known' = known /\ ghosts' = ghosts
        /\ tasks[o].at \notin Ending /\ tasks[o].at # "dropping"
    BY <1>4, MinorStep DEF Owing
  <2>2. QED
    BY <1>2, <1>3, <2>1, RowsStay
<1>5. CASE \/ At(o, "adding") /\ RollBack(o)
           \/ PlanMade(o) \/ WorktreeDeleted(o)
  <2>1. /\ ghosts' = ghosts /\ tasks[o].at \notin Ending /\ tasks[o].at # "dropping"
        /\ \/ known' = known
           \/ /\ known' = known \ {Of(o)}
              /\ Goto(o, "unrecording") \/ Goto(o, "forgetting")
    BY <1>5 DEF RollBack, PlanMade, WorktreeDeleted, At, Ending
  <2>2. \A s \in known : s \in known' \/ (tasks'[o].at \in Ending /\ tasks'[o].session = s)
    BY <2>1, TaskAfter DEF Stages, Ending
  <2>3. QED
    BY <1>2, <1>3, <2>1, <2>2, RowsStay
<1>6. CASE RolledBack(o) \/ Forgotten(o)
  <2>1. /\ known' = known /\ ghosts \subseteq ghosts' \cup {Of(o)}
        /\ tasks[o].at # "dropping"
        /\ Of(o) \in Sessions
    BY <1>6 DEF RolledBack, Forgotten, At, TaskInv, Stages, Apart
  <2>2. rows'[Of(o)] = Unborn
    BY <1>6, <2>1 DEF RolledBack, Forgotten, Types
  <2>3. QED
    BY <1>2, <1>3, <2>1, <2>2, RowsStay
<1>7. CASE RemoveProject(o)
  <2>1. /\ ghosts' = ghosts /\ tasks[o].at = "idle" /\ tasks'[o].at = "dropping"
        /\ known' = known \ {s \in known : Member(s)}
    BY <1>7, TaskAfter DEF RemoveProject
  <2>2. \A s \in Sessions : s \in known /\ rows[s] # Unborn /\ s \notin known' =>
          rows[s].kind # "folder"
    BY <2>1 DEF RowInv, Member
  <2>3. \A s \in Sessions : rows'[s] # Unborn /\ s \in known =>
          s \in known' \/ (rows[s].kind # "folder" /\ tasks'[o].at = "dropping")
    BY <1>2, <2>1, <2>2
  <2>4. tasks[o].at \notin Ending /\ tasks[o].at # "dropping"
    BY <2>1 DEF Ending
  <2>5. QED
    BY <1>2, <1>3, <2>1, <2>3, <2>4, RowsStay
<1>8. CASE ProjectRowRemoved(o)
  <2>1. /\ known' = known /\ tasks[o].at \notin Ending
        /\ \A s \in Sessions : rows'[s] # Unborn => rows[s].kind = "folder"
        /\ \A s \in ghosts : rows'[s] # Unborn => s \in ghosts'
    BY <1>8 DEF ProjectRowRemoved, At, Ending
  <2>2. QED
    BY <1>2, <1>3, <2>1, RowsStay
<1>9. CASE NotRolledBack(o) \/ NotForgotten(o)
  <2>1. /\ known' = known /\ ghosts' = ghosts \cup Undeleted({Of(o)}) /\ rows' = rows
        /\ tasks[o].at # "dropping"
    BY <1>9 DEF NotRolledBack, NotForgotten, At
  <2>2. rows[Of(o)] # Unborn => Of(o) \in ghosts'
    BY <2>1 DEF Undeleted
  <2>3. Of(o) \in Sessions /\ rows[Of(o)] # Unborn => object[Of(o)].kind = rows[Of(o)].kind
    BY DEF RowInv
  <2>4. QED
    BY <1>2, <2>1, <2>2, <2>3, RowsStay
<1>10. CASE ProjectRowKept(o)
  <2>1. /\ known' = known /\ rows' = rows
        /\ ghosts' = ghosts \cup Undeleted({s \in Sessions \ known : Member(s)})
        /\ tasks[o].at = "dropping"
    BY <1>10 DEF ProjectRowKept, At
  <2>2. \A q \in Tasks : q # o => tasks'[q] = tasks[q]
    BY <1>2, TaskAfter
  <2> SUFFICES ASSUME NEW s \in Sessions, rows'[s] # Unborn
               PROVE  object'[s].kind = rows'[s].kind /\ Kept(s)'
    BY DEF RowInv
  <2>3. object[s].kind = rows[s].kind /\ Kept(s) /\ rows[s] # Unborn
    BY <2>1 DEF RowInv
  <2>4. CASE s \in known \/ s \in ghosts
    BY <1>2, <2>1, <2>3, <2>4 DEF Kept
  <2>5. ASSUME NEW q \in Tasks, tasks[q].at \in Ending, Of(q) = s
        PROVE  Kept(s)'
    BY <2>1, <2>2, <2>5 DEF Kept, Of, Ending
  <2>6. CASE rows[s].kind # "folder" /\ s \notin known
    <3>1. rows[s].kind \in Kinds
      BY <2>3, BornAreSessions, SessionFields
    <3>2. s \in ghosts'
      BY <2>1, <2>3, <2>6, <3>1 DEF Undeleted, Member
    <3>3. QED
      BY <1>2, <2>1, <2>3, <3>2 DEF Kept
  <2>7. QED
    BY <1>2, <2>1, <2>3, <2>4, <2>5, <2>6 DEF Kept
<1>11. QED
  BY <1>4, <1>5, <1>6, <1>7, <1>8, <1>9, <1>10, QuietIs

LEMMA RowInvCreate ==
  ASSUME Types, RowInv, NEW o \in Tasks, NEW s \in Sessions, NEW kind \in Kinds,
         CreateSession(o, s, kind)
  PROVE  RowInv'
<1>1. /\ Begin(o, "resolving", s, None) /\ known' = known /\ rows' = rows
      /\ ghosts' = ghosts \ {s} /\ rows[s] = Unborn
  BY DEF CreateSession, FreshSession
<1>2. /\ tasks[o].at = "idle"
      /\ Moves(o, [at |-> "resolving", session |-> s, terminal |-> None])
  BY <1>1, Beginning DEF Stages
<1>3. \A r \in Sessions : r # s => object'[r] = object[r]
  BY TypesCreate
<1>4. tasks[o].at \notin Ending /\ tasks[o].at # "dropping"
  BY <1>2 DEF Ending
<1>5. QED
  BY <1>1, <1>2, <1>3, <1>4, RowsStay

LEMMA RowInvRestart == ASSUME Restart PROVE RowInv'
<1>1. /\ object' = rows /\ rows' = rows /\ known' = {s \in Sessions : rows[s] # Unborn}
  BY DEF Restart
<1>2. QED
  BY <1>1 DEF RowInv, Kept

-----------------------------------------------------------------------------
(* Lists. *)

LEMMA PublishedAll ==
  ASSUME Publish
  PROVE  ListInv'
BY DEF Publish, ListInv, Shows, Announced

(* A step that sends no list: what it changes is owed, or left to the next. *)
LEMMA ListsStay ==
  ASSUME Types, ListInv, NEW o \in Tasks, NEW x, Moves(o, x), published' = published, NEW r,
         tasks[o].at \in Owing => Of(o) = r,
         \A s \in Sessions : s # r =>
           /\ object'[s] = object[s] /\ (s \in known' <=> s \in known)
           /\ s \in untold => s \in untold',
         r \in Sessions =>
           \/ tasks'[o].session = r /\ tasks'[o].at \in Owing
           \/ r \in untold'
           \/ Shows(r)'
  PROVE  ListInv'
<1>1. \A q \in Tasks : q # o => tasks'[q] = tasks[q]
  BY TaskAfter
<1>2. ASSUME NEW s \in Sessions, s # r
      PROVE  Owed(s)' \/ s \in untold' \/ Shows(s)'
  <2>1. CASE Owed(s)
    BY <1>1, <1>2, <2>1 DEF Owed, Of
  <2>2. CASE s \in untold
    BY <1>2, <2>2
  <2>3. CASE Shows(s)
    BY <1>2, <2>3 DEF Shows, Announced
  <2>4. QED
    BY <2>1, <2>2, <2>3 DEF ListInv
<1>3. ASSUME r \in Sessions
      PROVE  Owed(r)' \/ r \in untold' \/ Shows(r)'
  BY <1>3 DEF Owed, Of
<1>4. QED
  BY <1>2, <1>3 DEF ListInv

LEMMA ListInvQueues ==
  ASSUME Types, ListInv, NEW o \in Tasks, NEW s, NEW v, NEW x, Queues(o, s, v, x)
  PROVE  ListInv'
<1>1. /\ Moves(o, x) /\ known' = known /\ published' = published /\ untold' = untold
      /\ tasks[o].at \notin Owing /\ s \in Sessions /\ x.session = s
      /\ object' = [object EXCEPT ![s] = v] /\ x.at \in Saving
      /\ x.at = "recording" => v = object[s]
  BY DEF Queues, histories, Owing, Ending, Saving
<1>2. \A r \in Sessions : r # s => object'[r] = object[r]
  BY <1>1 DEF Types
<1>3. CASE x.at # "recording"
  <2>1. tasks'[o].session = s /\ tasks'[o].at \in Owing
    BY <1>1, <1>3, TaskAfter DEF Owing
  <2>2. QED
    BY <1>1, <1>2, <2>1, ListsStay
<1>4. CASE x.at = "recording"
  <2>1. object' = object
    BY <1>1, <1>4 DEF Types
  <2>2. QED
    BY <1>1, <2>1, NoneIsNoSession, ListsStay
<1>5. QED
  BY <1>3, <1>4

LEMMA ListInvFails ==
  ASSUME Types, TaskInv, QueueInv, ListInv, NEW o \in Tasks, NEW x, Fails(o, x)
  PROVE  ListInv'
<1>1. Of(o) \in Sessions
  BY HeadOf DEF Fails, SaveFailed
<1>2. /\ Moves(o, x) /\ object' = object /\ published' = published
      /\ known' = known \/ known' = known \ {Of(o)}
      /\ untold \subseteq untold' /\ tasks'[o] = x
  BY TaskAfter DEF Fails
<1>3. CASE x.at = "idle" /\ ~At(o, "recording")
  <2>1. Of(o) \in untold'
    BY <1>3 DEF Fails
  <2>2. QED
    BY <1>2, <2>1, ListsStay
<1>4. CASE x.at = "unrecording"
  <2>1. tasks'[o].session = Of(o) /\ tasks'[o].at \in Owing
    BY <1>2, <1>4 DEF Fails, Owing, Ending
  <2>2. QED
    BY <1>2, <2>1, ListsStay
<1>5. CASE x.at = "idle" /\ At(o, "recording")
  <2>1. known' = known /\ tasks[o].at \notin Owing
    BY <1>5 DEF Fails, At, Owing, Ending
  <2>2. QED
    BY <1>2, <2>1, NoneIsNoSession, ListsStay
<1>6. QED
  BY <1>3, <1>4, <1>5 DEF Fails

LEMMA ListInvQuiet ==
  ASSUME Types, TaskInv, ListInv, NEW o \in Tasks, Quietly(o)
  PROVE  ListInv'
<1>1. PICK x : Quiet(o, x)
  BY QuietStep
<1>2. Moves(o, x) /\ object' = object
  BY <1>1 DEF Quiet
<1>3. CASE Minor(o)
  <2>1. /\ known' = known /\ tasks[o].at \notin Owing
        /\ (published' = published /\ untold' = untold) \/ Publish
    BY <1>3, MinorStep
  <2>2. CASE published' = published /\ untold' = untold
    BY <1>2, <2>1, <2>2, NoneIsNoSession, ListsStay
  <2>3. QED
    BY <2>1, <2>2, PublishedAll
<1>4. CASE \/ At(o, "adding") /\ RollBack(o) /\ UNCHANGED <<writes, unsaved>>
           \/ PlanMade(o) \/ WorktreeDeleted(o)
  <2>1. /\ untold' = untold /\ published' = published /\ tasks[o].at \notin Owing
        /\ \/ known' = known
           \/ /\ known' = known \ {Of(o)}
              /\ Goto(o, "unrecording") \/ Goto(o, "forgetting")
    BY <1>4 DEF RollBack, PlanMade, WorktreeDeleted, At, Owing, Ending, Saving
  <2>2. CASE known' = known
    BY <1>2, <2>1, <2>2, NoneIsNoSession, ListsStay
  <2>3. CASE /\ known' = known \ {Of(o)}
             /\ Goto(o, "unrecording") \/ Goto(o, "forgetting")
    <3>1. tasks'[o].session = Of(o) /\ tasks'[o].at \in Owing
      BY <2>3, TaskAfter DEF Stages, Owing, Ending
    <3>2. \A s \in Sessions : s # Of(o) => (s \in known' <=> s \in known)
      BY <2>3
    <3>3. QED
      BY <1>2, <2>1, <3>1, <3>2, ListsStay
  <2>4. QED
    BY <2>1, <2>2, <2>3
<1>5. CASE RolledBack(o) \/ Forgotten(o) \/ RemoveProject(o)
  <2>1. Publish
    BY <1>5 DEF RolledBack, Forgotten, RemoveProject
  <2>2. QED
    BY <2>1, PublishedAll
<1>6. CASE ProjectRowRemoved(o) \/ ProjectRowKept(o)
  <2>1. /\ known' = known /\ untold' = untold /\ published' = published
        /\ tasks[o].at \notin Owing
    BY <1>6 DEF ProjectRowRemoved, ProjectRowKept, At, Owing, Ending, Saving
  <2>2. QED
    BY <1>2, <2>1, NoneIsNoSession, ListsStay
<1>7. CASE NotRolledBack(o) \/ NotForgotten(o)
  <2>1. /\ known' = known /\ published' = published
        /\ untold' = untold \cup {Of(o)}
    BY <1>7 DEF NotRolledBack, NotForgotten
  <2>2. QED
    BY <1>2, <2>1, ListsStay
<1>8. QED
  BY <1>3, <1>4, <1>5, <1>6, <1>7, QuietIs

LEMMA ListInvCreate ==
  ASSUME Types, ListInv, NEW o \in Tasks, NEW s \in Sessions, NEW kind \in Kinds,
         CreateSession(o, s, kind)
  PROVE  ListInv'
<1>1. /\ Begin(o, "resolving", s, None) /\ known' = known /\ published' = published
      /\ untold' = untold \ {s} /\ s \notin known /\ s \notin Announced
  BY DEF CreateSession, FreshSession
<1>2. /\ tasks[o].at = "idle"
      /\ Moves(o, [at |-> "resolving", session |-> s, terminal |-> None])
  BY <1>1, Beginning DEF Stages
<1>3. \A r \in Sessions : r # s => object'[r] = object[r]
  BY TypesCreate
<1>4. tasks[o].at \notin Owing
  BY <1>2 DEF Owing, Ending, Saving
<1>5. Shows(s)'
  BY <1>1 DEF Shows, Announced
<1>6. QED
  BY <1>1, <1>2, <1>3, <1>4, <1>5, ListsStay

-----------------------------------------------------------------------------
(* Terminals. *)

(* A step by which no session gets a terminal, and a request only one its   *)
(* session has.                                                             *)
LEMMA HoldersStay ==
  ASSUME Types, HolderInv, NEW o \in Tasks, NEW x, Moves(o, x),
         \A t \in Terminals, s \in Sessions : Holder(s, t)' => Holder(s, t),
         \A t \in Terminals :
           \/ registered'[t] \in {registered[t], None}
           \/ t = tasks[o].terminal /\ registered'[t] = Of(o),
         \/ x.terminal = None
         \/ x.terminal = tasks[o].terminal /\ x.session = Of(o)
         \/ x.session \in Sessions /\ Holder(x.session, x.terminal)
  PROVE  HolderInv'
<1>1. tasks'[o] = x /\ \A q \in Tasks : q # o => tasks'[q] = tasks[q]
  BY TaskAfter
<1>2. None \notin Terminals
  BY NoneIsNoSession
<1> SUFFICES ASSUME NEW t \in Terminals, NEW s \in Sessions, Holder(s, t)'
             PROVE  /\ \A r \in Sessions : Holder(r, t)' => r = s
                    /\ registered'[t] \in {s, None}
                    /\ \A q \in Tasks : tasks'[q].terminal = t => tasks'[q].session = s
  BY DEF HolderInv, Of
<1>3. Holder(s, t)
  OBVIOUS
<1>4. \A r \in Sessions : Holder(r, t) => r = s
  BY <1>3 DEF HolderInv
<1>5. registered[t] \in {s, None} /\ \A q \in Tasks : tasks[q].terminal = t => tasks[q].session = s
  BY <1>3 DEF HolderInv, Of
<1>6. registered'[t] \in {s, None}
  BY <1>5 DEF Of
<1>7. x.terminal = t => x.session = s
  BY <1>2, <1>4, <1>5 DEF Of
<1>8. QED
  BY <1>1, <1>4, <1>5, <1>6, <1>7

LEMMA HolderInvQueues ==
  ASSUME Types, TaskInv, HolderInv, NEW o \in Tasks, NEW s, NEW v, NEW x, Queues(o, s, v, x)
  PROVE  HolderInv'
<1>1. /\ Moves(o, x) /\ rows' = rows /\ s \in Sessions /\ x.session = s
      /\ object' = [object EXCEPT ![s] = v] /\ v # Unborn /\ Born(s)
      /\ \A t \in v.terminals : t \in object[s].terminals \/ FreshTerminal(t)
      /\ \A t \in Terminals : registered'[t] \in {registered[t], None}
      /\ \/ x.terminal \in {None, tasks[o].terminal}
         \/ x.terminal \in v.terminals /\ FreshTerminal(x.terminal)
      /\ tasks[o].at # "idle" => s = Of(o)
      /\ tasks[o].at = "idle" => s \in known
  BY SessionFields DEF Queues
<1>2. /\ object'[s] = v /\ \A r \in Sessions : r # s => object'[r] = object[r]
  BY <1>1 DEF Types
<1>3. ASSUME NEW t \in Terminals, NEW r \in Sessions, Holder(r, t)'
      PROVE  Holder(r, t) \/ (r = s /\ FreshTerminal(t))
  BY <1>1, <1>2, <1>3 DEF Holder, Holds, Born
<1>4. ASSUME NEW t \in Terminals, FreshTerminal(t)
      PROVE  /\ \A r \in Sessions : ~Holder(r, t)
             /\ registered[t] = None /\ \A q \in Tasks : tasks[q].terminal # t
  BY <1>4 DEF FreshTerminal, Holder, Holds
<1>5. tasks'[o] = x /\ \A q \in Tasks : q # o => tasks'[q] = tasks[q]
  BY <1>1, TaskAfter
<1>6. ASSUME NEW t \in Terminals, NEW r \in Sessions, Holder(r, t)'
      PROVE  /\ \A p \in Sessions : Holder(p, t)' => p = r
             /\ registered'[t] \in {r, None}
             /\ \A q \in Tasks : tasks'[q].terminal = t => tasks'[q].session = r
  <2>1. CASE FreshTerminal(t)
    <3>1. r = s /\ \A p \in Sessions : Holder(p, t)' => p = s
      BY <1>3, <1>4, <1>6, <2>1
    <3>2. registered'[t] = None
      BY <1>1, <1>4, <2>1
    <3>3. \A q \in Tasks : tasks'[q].terminal = t => tasks'[q].session = s
      BY <1>1, <1>4, <1>5, <2>1
    <3>4. QED
      BY <3>1, <3>2, <3>3
  <2>2. CASE ~FreshTerminal(t)
    <3>1. Holder(r, t) /\ \A p \in Sessions : Holder(p, t)' => p = r
      BY <1>3, <1>6, <2>2 DEF HolderInv
    <3>2. registered'[t] \in {r, None}
      BY <1>1, <3>1 DEF HolderInv
    <3>3. \A q \in Tasks : tasks[q].terminal = t => tasks[q].session = r
      BY <3>1 DEF HolderInv, Of
    <3>4. ASSUME x.terminal = t PROVE s = r
      <4>1. tasks[o].terminal = t
        BY <1>1, <2>2, <3>4, NoneIsNoSession
      <4>2. tasks[o].session = r
        BY <3>3, <4>1
      <4>3. tasks[o].at # "idle"
        BY <4>2, NoneIsNoSession DEF TaskInv, Of
      <4>4. QED
        BY <1>1, <4>2, <4>3 DEF Of
    <3>5. QED
      BY <1>1, <1>5, <3>1, <3>2, <3>3, <3>4
  <2>3. QED
    BY <2>1, <2>2
<1>7. QED
  BY <1>6 DEF HolderInv, Of

LEMMA HolderInvCommits ==
  ASSUME Types, TaskInv, QueueInv, HolderInv, NEW o \in Tasks, NEW x, Commits(o, x)
  PROVE  HolderInv'
<1>1. /\ Head(writes).session = Of(o) /\ Of(o) \in Sessions /\ object[Of(o)] \in Session
      /\ Head(writes) \in Write
  BY HeadOf DEF Commits, Saved
<1>2. \A t \in Reconciled(Head(writes)).terminals :
        t \in object[Of(o)].terminals \/ Holds(rows[Of(o)], t)
  BY <1>1, ReconciledRow
<1>3. /\ \A s \in Sessions : s # Of(o) => rows'[s] = rows[s]
      /\ rows'[Of(o)] = Reconciled(Head(writes))
      /\ object' = object /\ Moves(o, x) /\ registered' = registered
      /\ \/ x.terminal = None
         \/ x.terminal = tasks[o].terminal /\ x.session = Of(o)
  BY <1>1, TaskFields DEF Commits, Saved, Types
<1>4. object[Of(o)] # Unborn
  BY <1>1, SessionFields
<1>5. \A t \in Terminals, s \in Sessions : Holder(s, t)' => Holder(s, t)
  BY <1>2, <1>3, <1>4 DEF Holder, Holds
<1>6. QED
  BY <1>3, <1>5, HoldersStay

LEMMA HolderInvFails ==
  ASSUME Types, HolderInv, NEW o \in Tasks, NEW x, Fails(o, x)
  PROVE  HolderInv'
<1>1. /\ object' = object /\ rows' = rows /\ Moves(o, x) /\ registered' = registered
      /\ \/ x.terminal = None
         \/ x.terminal = tasks[o].terminal /\ x.session = Of(o)
  BY TaskFields DEF Fails
<1>2. \A t \in Terminals, s \in Sessions : Holder(s, t)' => Holder(s, t)
  BY <1>1 DEF Holder
<1>3. QED
  BY <1>1, <1>2, HoldersStay

LEMMA HolderInvQuiet ==
  ASSUME Types, TaskInv, HolderInv, NEW o \in Tasks, Quietly(o)
  PROVE  HolderInv'
<1>1. PICK x : GoesQuietly(o, x)
  BY QuietTask
<1>2. /\ Moves(o, x)
      /\ \/ x.terminal = None
         \/ x.terminal = tasks[o].terminal /\ x.session = Of(o)
         \/ x.session \in Located(x.terminal)
  BY <1>1 DEF GoesQuietly
<1>3. /\ object' = object /\ \A s \in Sessions : rows'[s] \in {rows[s], Unborn}
  BY QuietStep DEF Quiet
<1>4. \A t \in Terminals, s \in Sessions : Holder(s, t)' => Holder(s, t)
  BY <1>3 DEF Holder, Holds
<1>5. \A t, s : s \in Located(t) => s \in Sessions /\ Holder(s, t)
  BY DEF Located, Holder, Holds, Types, Born
<1>6. \A t \in Terminals :
           \/ registered'[t] \in {registered[t], None}
           \/ t = tasks[o].terminal /\ registered'[t] = Of(o)
  <2>1. CASE Minor(o)
    BY <2>1, MinorStep DEF Types
  <2>2. CASE \/ At(o, "adding") /\ RollBack(o)
             \/ RolledBack(o) \/ Forgotten(o) \/ WorktreeDeleted(o) \/ ProjectRowRemoved(o)
             \/ NotRolledBack(o) \/ NotForgotten(o) \/ ProjectRowKept(o)
    BY <2>2 DEF RollBack, RolledBack, Forgotten, WorktreeDeleted, ProjectRowRemoved,
                NotRolledBack, NotForgotten, ProjectRowKept
  <2>3. CASE PlanMade(o) \/ RemoveProject(o)
    BY <2>3 DEF PlanMade, RemoveProject, Stopped
  <2>4. QED
    BY <2>1, <2>2, <2>3, QuietIs
<1>7. QED
  BY <1>2, <1>4, <1>5, <1>6, HoldersStay

LEMMA HolderInvCreate ==
  ASSUME Types, HolderInv, NEW o \in Tasks, NEW s \in Sessions, NEW kind \in Kinds,
         CreateSession(o, s, kind)
  PROVE  HolderInv'
<1> DEFINE x == [at |-> "resolving", session |-> s, terminal |-> None]
<1>1. Moves(o, x) /\ x.terminal = None
  BY Beginning DEF CreateSession, Stages
<1>2. /\ object'[s].terminals = {} /\ \A r \in Sessions : r # s => object'[r] = object[r]
      /\ rows' = rows /\ registered' = registered
  BY TypesCreate DEF CreateSession
<1>3. \A t \in Terminals, r \in Sessions : Holder(r, t)' => Holder(r, t)
  BY <1>2 DEF Holder, Holds
<1> HIDE DEF x
<1>4. QED
  BY <1>1, <1>2, <1>3, HoldersStay

LEMMA HolderInvRestart ==
  ASSUME Types, HolderInv, Restart
  PROVE  HolderInv'
<1>1. /\ object' = rows /\ rows' = rows
      /\ \A t \in Terminals : registered'[t] = None
      /\ \A o \in Tasks : tasks'[o].terminal = None
  BY DEF Restart, Idle
<1>2. \A t \in Terminals, s \in Sessions : Holder(s, t)' => Holder(s, t)
  BY <1>1 DEF Holder
<1>3. QED
  BY <1>1, <1>2, NoneIsNoSession DEF HolderInv

(* A step that takes a session off the list stops its terminals, or leaves  *)
(* them as strays.                                                          *)
LEMMA ListedStay ==
  ASSUME Types, HolderInv, LiveTerminalsAreListed,
         \A t \in Terminals : registered'[t] # None => registered'[t] = registered[t],
         \A t \in Terminals, s \in known :
           registered'[t] # None /\ t \in object[s].terminals =>
             \/ s \in known' /\ t \in object'[s].terminals
             \/ registered[t] = s => t \in strays',
         \A t \in strays : registered'[t] # None => t \in strays'
  PROVE  LiveTerminalsAreListed'
<1> SUFFICES ASSUME NEW t \in Terminals, registered'[t] # None
             PROVE  Located(t)' # {} \/ t \in strays'
  BY DEF LiveTerminalsAreListed
<1>1. registered[t] # None
  OBVIOUS
<1>2. CASE t \in strays
  BY <1>2
<1>3. CASE Located(t) # {}
  <2>1. PICK s \in known : t \in object[s].terminals
    BY <1>3 DEF Located
  <2>2. s \in Sessions /\ Holder(s, t)
    BY <2>1 DEF Types, Born, Holder, Holds
  <2>3. registered[t] = s
    BY <1>1, <2>2 DEF HolderInv
  <2>4. CASE s \in known' /\ t \in object'[s].terminals
    BY <2>4 DEF Located
  <2>5. QED
    BY <2>1, <2>3, <2>4
<1>4. QED
  BY <1>1, <1>2, <1>3 DEF LiveTerminalsAreListed

LEMMA LiveQueues ==
  ASSUME Types, HolderInv, LiveTerminalsAreListed,
         NEW o \in Tasks, NEW s, NEW v, NEW x, Queues(o, s, v, x)
  PROVE  LiveTerminalsAreListed'
<1>1. /\ s \in Sessions /\ object' = [object EXCEPT ![s] = v]
      /\ \A t \in object[s].terminals : t \in v.terminals \/ registered'[t] = None
      /\ \A t \in Terminals : registered'[t] \in {registered[t], None}
      /\ known' = known /\ strays' = strays
  BY DEF Queues, histories
<1>2. object'[s] = v /\ \A r \in Sessions : r # s => object'[r] = object[r]
  BY <1>1 DEF Types
<1>3. known \subseteq Sessions
  BY DEF Types
<1>4. \A t \in Terminals, r \in known :
        registered'[t] # None /\ t \in object[r].terminals =>
          r \in known' /\ t \in object'[r].terminals
  BY <1>1, <1>2, <1>3
<1>5. QED
  BY <1>1, <1>4, ListedStay

LEMMA LiveEnds ==
  ASSUME Types, HolderInv, LiveTerminalsAreListed, NEW o \in Tasks, NEW x,
         Commits(o, x) \/ Fails(o, x)
  PROVE  LiveTerminalsAreListed'
<1>1. /\ registered' = registered /\ object' = object
      /\ \/ known \subseteq known' /\ strays' = strays
         \/ known' = known \ {Of(o)} /\ strays' = strays \cup LiveOf({Of(o)})
  BY DEF Commits, Fails
<1>2. QED
  BY <1>1, ListedStay DEF LiveOf

LEMMA LiveQuiet ==
  ASSUME Types, TaskInv, HolderInv, LiveTerminalsAreListed, NEW o \in Tasks, Quietly(o)
  PROVE  LiveTerminalsAreListed'
<1>1. object' = object
  BY QuietStep DEF Quiet
<1>2. CASE Minor(o)
  <2>1. CASE registered' = registered /\ strays' = strays
    BY <1>1, <1>2, <2>1, MinorStep, ListedStay
  <2>2. CASE ~(registered' = registered /\ strays' = strays)
    <3> DEFINE own == tasks[o].terminal
    <3>1. /\ known' = known
          /\ registered' = [registered EXCEPT ![own] = Of(o)]
          /\ \/ strays' = strays /\ Of(o) \in Located(own)
             \/ strays' = strays \cup {own}
      BY <1>2, <2>2, MinorStep
    <3>2. \A t : Located(t)' = Located(t)
      BY <1>1, <3>1 DEF Located
    <3>3. ASSUME NEW t \in Terminals, registered'[t] # None
          PROVE  Located(t)' # {} \/ t \in strays'
      <4>1. CASE t = own
        BY <3>1, <3>2, <4>1
      <4>2. CASE t # own
        <5>1. registered'[t] = registered[t]
          BY <3>1, <4>2 DEF Types
        <5>2. QED
          BY <3>1, <3>2, <3>3, <5>1 DEF LiveTerminalsAreListed
      <4>3. QED
        BY <4>1, <4>2
    <3>4. QED
      BY <3>3 DEF LiveTerminalsAreListed
  <2>3. QED
    BY <2>1, <2>2
<1>3. CASE (At(o, "adding") /\ RollBack(o)) \/ WorktreeDeleted(o)
  <2>1. /\ registered' = registered /\ known' = known \ {Of(o)}
        /\ strays' = strays \cup LiveOf({Of(o)})
    BY <1>3 DEF RollBack, WorktreeDeleted
  <2>2. QED
    BY <1>1, <2>1, ListedStay DEF LiveOf
<1>4. CASE \/ RolledBack(o) \/ Forgotten(o) \/ ProjectRowRemoved(o)
           \/ NotRolledBack(o) \/ NotForgotten(o) \/ ProjectRowKept(o)
  <2>1. registered' = registered /\ known' = known /\ strays' = strays
    BY <1>4 DEF RolledBack, Forgotten, ProjectRowRemoved, NotRolledBack, NotForgotten,
                ProjectRowKept
  <2>2. QED
    BY <1>1, <2>1, ListedStay
<1>5. CASE PlanMade(o) \/ RemoveProject(o)
  <2>1. PICK gone : /\ registered' = Stopped(gone)
                    /\ strays' = strays \ LiveOf(gone)
                    /\ known \ gone \subseteq known'
    BY <1>5 DEF PlanMade, RemoveProject
  <2>2. \A t \in Terminals : /\ registered[t] \in gone => registered'[t] = None
                             /\ registered[t] \notin gone => registered'[t] = registered[t]
    BY <2>1 DEF Stopped
  <2>3. \A t \in strays : registered'[t] # None => t \in strays'
    BY <2>1, <2>2 DEF LiveOf, Types
  <2>4. \A t \in Terminals, s \in known : registered'[t] # None /\ registered[t] = s => s \in known'
    BY <2>1, <2>2
  <2>5. QED
    BY <1>1, <2>2, <2>3, <2>4, ListedStay
<1>6. QED
  BY <1>2, <1>3, <1>4, <1>5, QuietIs

LEMMA LiveCreate ==
  ASSUME Types, HolderInv, LiveTerminalsAreListed, NEW o \in Tasks, NEW s \in Sessions,
         NEW kind \in Kinds, CreateSession(o, s, kind)
  PROVE  LiveTerminalsAreListed'
<1>1. /\ \A r \in Sessions : r # s => object'[r] = object[r]
      /\ s \notin known /\ known' = known /\ registered' = registered /\ strays' = strays
  BY TypesCreate DEF CreateSession, FreshSession
<1>2. known \subseteq Sessions
  BY DEF Types
<1>3. QED
  BY <1>1, <1>2, ListedStay

LEMMA LiveRestart == ASSUME Restart PROVE LiveTerminalsAreListed'
BY DEF Restart, LiveTerminalsAreListed

-----------------------------------------------------------------------------
(* What is in memory. *)

Underway(s) == \E i \in 1..Len(writes) : writes[i].session = s

LEMMA MemoryQueues ==
  ASSUME Types, MemoryIsOnItsWayToDisk,
         NEW o \in Tasks, NEW s, NEW v, NEW x, Queues(o, s, v, x)
  PROVE  MemoryIsOnItsWayToDisk'
<1> DEFINE w == [task |-> o, session |-> s, value |-> v]
<1>1. /\ s \in Sessions /\ object' = [object EXCEPT ![s] = v] /\ v \in Session
      /\ writes' = Append(writes, w)
      /\ known' = known /\ rows' = rows /\ unsaved' = unsaved
  BY DEF Queues, histories
<1>2. w \in Write /\ w.session = s
  BY <1>1 DEF Write
<1>3. /\ Len(writes') = Len(writes) + 1 /\ Len(writes) \in Nat
      /\ \A i \in 1..Len(writes) : writes'[i] = writes[i]
      /\ writes'[Len(writes) + 1] = w
  BY <1>1, <1>2, Appended
<1> HIDE DEF w
<1>4. Underway(s)'
  <2>1. Len(writes) + 1 \in 1..Len(writes')
    BY <1>3
  <2>2. QED
    BY <1>2, <1>3, <2>1 DEF Underway
<1>5. \A r : Underway(r) => Underway(r)'
  BY <1>3 DEF Underway
<1>6. \A r \in known : r # s => object'[r] = object[r]
  BY <1>1 DEF Types
<1>7. QED
  BY <1>1, <1>4, <1>5, <1>6 DEF MemoryIsOnItsWayToDisk, Underway

LEMMA UnderwayStill ==
  ASSUME Types, TaskInv, QueueInv, NEW o \in Tasks, NEW x, Moves(o, x),
         tasks[o].at \in Saving, Turn(o), object' = object, writes' = Tail(writes)
  PROVE  /\ \A s : s # Of(o) /\ Underway(s) => Underway(s)'
         /\ \A s : s = Of(o) /\ ~Underway(s)' => Head(writes).value = object[s]
<1>1. /\ 1 \in 1..Len(writes) /\ Head(writes) = writes[1] /\ writes[1].session = Of(o)
  BY HeadOf
<1>2. /\ Len(writes) \in Nat
      /\ \A i \in 1..Len(writes') : i + 1 \in 1..Len(writes) /\ writes'[i] = writes[i + 1]
      /\ \A i \in 1..Len(writes) : i = 1 \/ i - 1 \in 1..Len(writes')
  BY QueueInvEnds
<1>3. \A i \in 1..Len(writes) : i # 1 => writes'[i - 1] = writes[i]
  <2> SUFFICES ASSUME NEW i \in 1..Len(writes), i # 1
               PROVE  writes'[i - 1] = writes[i]
    OBVIOUS
  <2>1. i - 1 \in 1..Len(writes') /\ (i - 1) + 1 = i
    BY <1>2
  <2>2. writes'[i - 1] = writes[(i - 1) + 1]
    BY <1>2, <2>1
  <2>3. QED
    BY <2>1, <2>2
<1>4. ASSUME NEW s, s # Of(o), Underway(s)
      PROVE  Underway(s)'
  BY <1>1, <1>2, <1>3, <1>4 DEF Underway
<1>5. ASSUME NEW s, s = Of(o), ~Underway(s)'
      PROVE  Head(writes).value = object[s]
  <2>1. ASSUME NEW i \in 1..Len(writes), i # 1
        PROVE  writes[i].session # s
    BY <1>2, <1>3, <1>5, <2>1 DEF Underway
  <2>2. Last(1)
    BY <1>1, <1>5, <2>1 DEF Last
  <2>3. QED
    BY <1>1, <1>5, <2>2 DEF QueueInv
<1>6. QED
  BY <1>4, <1>5

LEMMA MemoryCommits ==
  ASSUME Types, TaskInv, QueueInv, MemoryIsOnItsWayToDisk, NEW o \in Tasks, NEW x,
         Commits(o, x)
  PROVE  MemoryIsOnItsWayToDisk'
<1>1. /\ Head(writes).session = Of(o) /\ Of(o) \in Sessions /\ object[Of(o)] \in Session
      /\ Head(writes) \in Write
  BY HeadOf DEF Commits, Saved
<1>2. /\ \A s : s # Of(o) /\ Underway(s) => Underway(s)'
      /\ \A s : s = Of(o) /\ ~Underway(s)' => Head(writes).value = object[s]
  BY UnderwayStill DEF Commits, Saved
<1>3. /\ \A s \in Sessions : s # Of(o) => rows'[s] = rows[s]
      /\ rows'[Of(o)] = Reconciled(Head(writes))
      /\ object' = object /\ known' \subseteq known \cup {Of(o)}
      /\ unsaved' = unsaved \ {Of(o)}
  BY <1>1 DEF Commits, Saved, Types
<1>4. \A s : s = Of(o) /\ ~Underway(s)' => rows'[s] = object'[s]
  BY <1>1, <1>2, <1>3, ReconciledRow
<1>5. ASSUME NEW s \in known', s # Of(o)
      PROVE  rows'[s] = object'[s] \/ Underway(s)' \/ s \in unsaved'
  <2>1. s \in known /\ s \in Sessions
    BY <1>3, <1>5 DEF Types
  <2>2. rows[s] = object[s] \/ Underway(s) \/ s \in unsaved
    BY <2>1 DEF MemoryIsOnItsWayToDisk, Underway
  <2>3. QED
    BY <1>2, <1>3, <1>5, <2>1, <2>2
<1>6. QED
  BY <1>4, <1>5 DEF MemoryIsOnItsWayToDisk, Underway

LEMMA MemoryFails ==
  ASSUME Types, TaskInv, QueueInv, MemoryIsOnItsWayToDisk, NEW o \in Tasks, NEW x,
         Fails(o, x)
  PROVE  MemoryIsOnItsWayToDisk'
<1>1. Head(writes).session = Of(o)
  BY HeadOf DEF Fails, SaveFailed
<1>2. \A s : s # Of(o) /\ Underway(s) => Underway(s)'
  BY UnderwayStill DEF Fails, SaveFailed
<1>3. /\ rows' = rows /\ object' = object /\ known' \subseteq known
      /\ unsaved' = unsaved \cup {Of(o)}
  BY <1>1 DEF Fails, SaveFailed
<1>4. \A s \in known : rows[s] = object[s] \/ Underway(s) \/ s \in unsaved
  BY DEF MemoryIsOnItsWayToDisk, Underway
<1>5. QED
  BY <1>2, <1>3, <1>4 DEF MemoryIsOnItsWayToDisk, Underway

LEMMA MemoryQuiet ==
  ASSUME Types, TaskInv, MemoryIsOnItsWayToDisk, NEW o \in Tasks, Quietly(o)
  PROVE  MemoryIsOnItsWayToDisk'
<1>1. /\ object' = object /\ writes' = writes /\ known' \subseteq known
  BY QuietStep, QuietTask DEF Quiet, GoesQuietly
<1>2. CASE rows' = rows /\ unsaved' = unsaved
  BY <1>1, <1>2 DEF MemoryIsOnItsWayToDisk
<1>3. CASE Minor(o)
  BY <1>2, <1>3, MinorStep
<1>4. CASE \/ At(o, "adding") /\ RollBack(o) /\ UNCHANGED <<writes, unsaved>>
           \/ PlanMade(o) \/ WorktreeDeleted(o) \/ RemoveProject(o)
           \/ NotRolledBack(o) \/ NotForgotten(o) \/ ProjectRowKept(o)
  BY <1>2, <1>4 DEF RollBack, PlanMade, WorktreeDeleted, RemoveProject, NotRolledBack,
                    NotForgotten, ProjectRowKept
<1>5. CASE RolledBack(o) \/ Forgotten(o)
  <2>1. Of(o) \notin known
    BY <1>5 DEF TaskInv, RolledBack, Forgotten, At, Ending
  <2>2. /\ \A s \in Sessions : s # Of(o) => rows'[s] = rows[s]
        /\ unsaved' = unsaved
    BY <1>5 DEF RolledBack, Forgotten, Types
  <2>3. known \subseteq Sessions
    BY DEF Types
  <2>4. QED
    BY <1>1, <2>1, <2>2, <2>3 DEF MemoryIsOnItsWayToDisk
<1>6. CASE ProjectRowRemoved(o)
  <2>1. /\ known' = known /\ unsaved' = unsaved \cup {s \in known : Member(s)}
        /\ \A s \in Sessions : rows[s].kind = "folder" => rows'[s] = rows[s]
    BY <1>6 DEF ProjectRowRemoved
  <2>2. \A s \in known : s \in Sessions /\ (Member(s) \/ object[s].kind = "folder")
    BY BornAreSessions, SessionFields DEF Types, Member
  <2>3. QED
    BY <1>1, <2>1, <2>2 DEF MemoryIsOnItsWayToDisk
<1>7. QED
  BY <1>3, <1>4, <1>5, <1>6, QuietIs

LEMMA MemoryCreate ==
  ASSUME Types, MemoryIsOnItsWayToDisk, NEW o \in Tasks, NEW s \in Sessions,
         NEW kind \in Kinds, CreateSession(o, s, kind)
  PROVE  MemoryIsOnItsWayToDisk'
<1>1. /\ \A r \in Sessions : r # s => object'[r] = object[r]
      /\ s \notin known /\ known' = known /\ rows' = rows /\ writes' = writes
      /\ unsaved' = unsaved \ {s}
  BY TypesCreate DEF CreateSession, FreshSession
<1>2. known \subseteq Sessions
  BY DEF Types
<1>3. QED
  BY <1>1, <1>2 DEF MemoryIsOnItsWayToDisk

LEMMA MemoryRestart == ASSUME Restart PROVE MemoryIsOnItsWayToDisk'
BY DEF Restart, MemoryIsOnItsWayToDisk

-----------------------------------------------------------------------------
(* The invariant. *)

LEMMA InvInit == Init => Inv
<1> SUFFICES ASSUME Init PROVE Inv
  OBVIOUS
<1>1. Types
  BY TypesInit
<1>2. \A o \in Tasks : tasks[o].at = "idle" /\ Of(o) = None /\ tasks[o].terminal = None
  BY DEF Init, Idle, Of
<1>3. TaskInv
  BY <1>2 DEF TaskInv, Stages, Apart, Making, Ending
<1>4. 1..Len(writes) = {}
  BY DEF Init
<1>5. QueueInv
  BY <1>4 DEF QueueInv
<1>6. NameInv
  BY <1>4 DEF Init, NameInv
<1>7. RowInv /\ ListInv
  BY DEF Init, RowInv, ListInv, Shows, Announced
<1>8. HolderInv
  BY DEF Init, HolderInv, Holder, Holds
<1>9. MemoryIsOnItsWayToDisk /\ LiveTerminalsAreListed
  BY DEF Init, MemoryIsOnItsWayToDisk, LiveTerminalsAreListed
<1>10. QED
  BY <1>1, <1>3, <1>5, <1>6, <1>7, <1>8, <1>9 DEF Inv

LEMMA InvNext == Inv /\ [Next]_vars => Inv'
<1> SUFFICES ASSUME Inv, [Next]_vars PROVE Inv'
  OBVIOUS
<1>0. /\ Types /\ TaskInv /\ QueueInv /\ NameInv /\ RowInv /\ ListInv /\ HolderInv
      /\ MemoryIsOnItsWayToDisk /\ LiveTerminalsAreListed
  BY DEF Inv
<1>1. CASE Restart
  <2>1. Types' /\ TaskInv' /\ QueueInv' /\ NameInv' /\ RowInv' /\ HolderInv'
    BY <1>0, <1>1, TypesRestart, TaskInvRestart, QueueInvRestart, NameInvRestart,
       RowInvRestart, HolderInvRestart
  <2>2. ListInv' /\ MemoryIsOnItsWayToDisk' /\ LiveTerminalsAreListed'
    BY <1>1, PublishedAll, MemoryRestart, LiveRestart DEF Restart
  <2>3. QED
    BY <2>1, <2>2 DEF Inv
<1>2. ASSUME NEW o \in Tasks, NEW s \in Sessions, NEW kind \in Kinds, CreateSession(o, s, kind)
      PROVE  Inv'
  BY <1>0, <1>2, TypesCreate, TaskInvCreate, QueueInvCreate, NameInvCreate, RowInvCreate,
     ListInvCreate, HolderInvCreate, MemoryCreate, LiveCreate DEF Inv
<1>3. ASSUME NEW o \in Tasks, Queueing(o)
      PROVE  Inv'
  <2>1. PICK s, v, x : Queues(o, s, v, x)
    BY <1>0, <1>3, QueueingStep
  <2>2. QED
    BY <1>0, <2>1, TypesQueues, TaskInvQueues, QueueInvQueues, NameInvQueues, RowInvQueues,
       ListInvQueues, HolderInvQueues, MemoryQueues, LiveQueues DEF Inv
<1>4. ASSUME NEW o \in Tasks, Committing(o)
      PROVE  Inv'
  <2>1. PICK x : Commits(o, x)
    BY <1>0, <1>4, CommittingStep
  <2>2. QueueInv'
    BY <1>0, <2>1, QueueInvEnds DEF Commits, Saved
  <2>3. ListInv'
    BY <2>1, PublishedAll DEF Commits
  <2>4. QED
    BY <1>0, <2>1, <2>2, <2>3, TypesCommits, TaskInvCommits, NameInvCommits, RowInvCommits,
       HolderInvCommits, MemoryCommits, LiveEnds DEF Inv
<1>5. ASSUME NEW o \in Tasks, Failing(o)
      PROVE  Inv'
  <2>1. PICK x : Fails(o, x)
    BY <1>0, <1>5, FailingStep
  <2>2. QueueInv'
    BY <1>0, <2>1, QueueInvEnds DEF Fails, SaveFailed
  <2>3. QED
    BY <1>0, <2>1, <2>2, TypesFails, TaskInvFails, NameInvFails, RowInvFails, ListInvFails,
       HolderInvFails, MemoryFails, LiveEnds DEF Inv
<1>6. ASSUME NEW o \in Tasks, Quietly(o)
      PROVE  Inv'
  <2>1. PICK x : Quiet(o, x)
    BY <1>0, <1>6, QuietStep
  <2>2. QED
    BY <1>0, <1>6, <2>1, TypesQuiet, TaskInvQuiet, QueueInvQuiet, NameInvQuiet, RowInvQuiet,
       ListInvQuiet, HolderInvQuiet, MemoryQuiet, LiveQuiet DEF Inv
<1>7. CASE UNCHANGED vars
  BY <1>0, <1>7 DEF Inv, vars, Types, TaskInv, QueueInv, Last, NameInv, RowInv, Kept, ListInv,
     Owed, Shows, HolderInv, Holder, Holds, MemoryIsOnItsWayToDisk, LiveTerminalsAreListed,
     Born, Announced, Of, At, Located
<1>8. QED
  BY <1>1, <1>2, <1>3, <1>4, <1>5, <1>6, <1>7, StepKinds

LEMMA Invariance == Spec => []Inv
BY InvInit, InvNext, PTL DEF Spec

-----------------------------------------------------------------------------
(* The variables have their types; a save in the queue is of a request that *)
(* waits for it, with a session the service made.                           *)
THEOREM TypeCorrect == Spec => []TypeOK
BY Invariance, InvImpliesProperties, PTL

(* Once a rename is acknowledged, the session has the user's name in memory *)
(* and in the database, whatever the session namer answers, in whichever    *)
(* order the saves commit, and however often the daemon restarts            *)
(* (session-service.ts, nameAutomatically and rename).                      *)
THEOREM TheUsersNameWins == Spec => []UserNameWins
BY Invariance, InvImpliesProperties, PTL

(* A listed session's row is as the session is, or a save of it waits, or   *)
(* the last one failed: no handler changes a session and forgets to save    *)
(* it, and the last of several saves that overlap carries what all of them  *)
(* changed (prisma-repositories.ts, save).                                  *)
THEOREM NoChangeIsForgotten == Spec => []MemoryIsOnItsWayToDisk
BY Invariance, InvImpliesProperties, PTL

(* Every row is of a listed session, or a request is at work on it, or it   *)
(* outlives its session, because it was saved after the session was dropped *)
(* or the database failed to delete it: a worktree git refused, a removed   *)
(* session and a removed project leave no other row behind                  *)
(* (session-service.ts, removeSession and forgetSession; project-service.ts,*)
(* removeProject).                                                          *)
THEOREM RowsHaveASession == Spec => []RowsAreListed
BY Invariance, InvImpliesProperties, PTL

(* The last list the clients got shows every session as it is, but for      *)
(* those a request is at work on, and those a failed save or delete has     *)
(* changed in memory since that list: every other path ends in publish, and *)
(* the next publish of any request tells of these too.                      *)
THEOREM ClientsAreToldOfSessions == Spec => []ListIsAnnounced
BY Invariance, InvImpliesProperties, PTL

(* A live terminal is listed by a listed session, where the requests that   *)
(* stop it find it, unless its session was taken off the list while it was  *)
(* being started (registry.ts, session-service.ts).                         *)
THEOREM LiveTerminalsCanBeStopped == Spec => []LiveTerminalsAreListed
BY Invariance, InvImpliesProperties, PTL
=============================================================================
