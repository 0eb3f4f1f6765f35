--------------------------- MODULE SessionService ---------------------------
(***************************************************************************)
(* The sessions of the daemon and the project some of them belong to: what *)
(* the session service and the project service hold in memory, what the    *)
(* database holds, what was announced to the clients, and the live         *)
(* terminals (packages/session/src/session-service.ts, project-service.ts, *)
(* packages/db/src/prisma-repositories.ts, packages/terminal/src/          *)
(* registry.ts).                                                           *)
(*                                                                         *)
(* Every request runs in a task of its own and gives way at each await: to *)
(* git, to the login shell, to an agent asked for a name, to the database. *)
(* A step is what runs between two awaits.  The daemon may stop at any     *)
(* moment and start again from its database.                               *)
(***************************************************************************)
EXTENDS Naturals, Sequences, FiniteSets

CONSTANTS Sessions,   \* names for the sessions anything refers to at one time
          Terminals,  \* names for the terminals, likewise
          Tasks,      \* the requests that may be in flight at one time
          Names,      \* what a session may be called
          Derived,    \* the name creation gives
          Kinds,      \* what sessions are made
          WritesFail  \* whether the database may fail a write: a save or a delete

None == "none"

ASSUME SessionServiceAssumption ==
  /\ None \notin Sessions \cup Terminals
  /\ Derived \in Names
  /\ Kinds \subseteq {"folder", "projectDirectory", "worktree", "adopted"}
  /\ WritesFail \in BOOLEAN

VARIABLES
  object,      \* the session objects: tasks hold on to them when they are gone
  known,       \* the sessions SessionService lists
  rows,        \* the sessions' rows
  project,     \* [known, row]: the project, in memory and in the database
  published,   \* what sessionsChanged last carried
  registered,  \* [Terminals -> the session of the live terminal, or None]
  writes,      \* the saves that wait for the transaction lock, in order
  tasks,       \* [Tasks -> the request in flight]
  removed,     \* history: sessions whose removal was acknowledged
  claimed,     \* history: sessions a person named, acknowledged
  unsaved,     \* history: sessions whose last save failed, or whose row went
               \*  with the project's
  ghosts,      \* history: sessions whose row outlives them, because it was
               \*  saved after they were dropped or could not be deleted
  untold,      \* history: sessions a failed request has changed in memory
               \*  since the last publish
  strays       \* history: terminals registered after theirs was removed

vars == <<object, known, rows, project, published, registered, writes, tasks,
          removed, claimed, unsaved, ghosts, untold, strays>>
histories == <<removed, claimed, unsaved, ghosts, untold, strays>>

Unborn == [kind |-> None]
Session == [kind : Kinds, bound : BOOLEAN, name : Names,
            origin : {"derived", "automatic", "user"}, terminals : SUBSET Terminals]

Idle == [at |-> "idle", session |-> None, terminal |-> None]
Stages == {"resolving", "recording", "adding", "binding", "unrecording", "seeding",
           "seeded", "renaming", "editing", "asking", "launching", "touching",
           "planning", "deleting", "forgetting", "dropping", "dropped", "configuring"}

\* Sessions of a project name it in a foreign key.
Member(s) == object[s].kind \in Kinds \ {"folder"}
Born(s) == object[s] # Unborn
Busy(s) == \E o \in Tasks : tasks[o].session = s
Announced == DOMAIN published

TypeOK ==
  /\ object \in [Sessions -> Session \cup {Unborn}]
  /\ rows \in [Sessions -> Session \cup {Unborn}]
  /\ known \subseteq {s \in Sessions : Born(s)}
  /\ Announced \subseteq Sessions
  /\ \A s \in Announced : published[s] \in Session
  /\ project \in [known : BOOLEAN, row : BOOLEAN]
  /\ registered \in [Terminals -> Sessions \cup {None}]
  /\ \A i \in 1..Len(writes) :
       /\ writes[i].task \in Tasks
       /\ writes[i].value \in Session
       /\ tasks[writes[i].task].session = writes[i].session
  /\ \A o \in Tasks :
       /\ tasks[o].at \in Stages \cup {"idle"}
       /\ tasks[o].session \in Sessions \cup {None}
       /\ tasks[o].terminal \in Terminals \cup {None}
  /\ (removed \cup claimed \cup unsaved \cup ghosts \cup untold) \subseteq Sessions
  /\ strays \subseteq Terminals

Init ==
  /\ object = [s \in Sessions |-> Unborn]
  /\ rows = [s \in Sessions |-> Unborn]
  /\ known = {}
  /\ project = [known |-> TRUE, row |-> TRUE]
  /\ published = [s \in {} |-> Unborn]
  /\ registered = [t \in Terminals |-> None]
  /\ writes = <<>>
  /\ tasks = [o \in Tasks |-> Idle]
  /\ removed = {} /\ claimed = {} /\ unsaved = {} /\ ghosts = {}
  /\ untold = {} /\ strays = {}

-----------------------------------------------------------------------------
(* What handlers share. *)

\* An identifier is a fresh UUID; a name is one nothing refers to any more.
FreshSession(s) ==
  /\ s \notin known \cup Announced
  /\ rows[s] = Unborn
  /\ ~Busy(s)
  /\ \A t \in Terminals : registered[t] # s

FreshTerminal(t) ==
  /\ registered[t] = None
  /\ \A s \in Sessions : \A x \in {object[s], rows[s]} :
       x # Unborn => t \notin x.terminals
  /\ \A o \in Tasks : tasks[o].terminal # t
  /\ \A i \in 1..Len(writes) : t \notin writes[i].value.terminals

\* The session that lists a terminal, if a known one does.
Located(t) == {s \in known : t \in object[s].terminals}

Begin(o, at, s, t) ==
  /\ tasks[o] = Idle
  /\ tasks' = [tasks EXCEPT ![o] = [at |-> at, session |-> s, terminal |-> t]]
Goto(o, at) == tasks' = [tasks EXCEPT ![o].at = at]
End(o) == tasks' = [tasks EXCEPT ![o] = Idle]
At(o, at) == tasks[o].at = at
Of(o) == tasks[o].session

\* publish: the whole list, as the sessions are now.
Publish ==
  /\ published' = [s \in known' |-> object'[s]]
  /\ untold' = {}

\* repository.save is called: it waits for the lock.
QueueSave(o, s) ==
  writes' = Append(writes, [task |-> o, session |-> s, value |-> object'[s]])

Turn(o) == writes # <<>> /\ Head(writes).task = o

\* The columns are those of the call; the terminals that are written are those
\* the object has by now, and only those the call did not name are deleted.
Reconciled(w) ==
  [w.value EXCEPT !.terminals =
     (IF rows[w.session] = Unborn THEN {} ELSE rows[w.session].terminals \cap @)
       \cup object[w.session].terminals]

Storable(w) == w.value.kind # "folder" => project.row

\* The transaction commits, and the caller goes on.
Saved(o) ==
  /\ Turn(o)
  /\ Storable(Head(writes))
  /\ LET w == Head(writes) IN
       /\ rows' = [rows EXCEPT ![w.session] = Reconciled(w)]
       /\ unsaved' = unsaved \ {w.session}
       /\ ghosts' = IF w.session \in known \/ At(o, "recording")
                    THEN ghosts ELSE ghosts \cup {w.session}
  /\ writes' = Tail(writes)

SaveFailed(o) ==
  /\ Turn(o)
  /\ WritesFail \/ ~Storable(Head(writes))
  /\ unsaved' = unsaved \cup {Head(writes).session}
  /\ writes' = Tail(writes)

\* Of some sessions, those whose row a delete that fails leaves in the database.
Undeleted(gone) == {s \in gone : rows[s] # Unborn}

LiveOf(gone) == {t \in Terminals : registered[t] \in gone}
Stopped(gone) == [t \in Terminals |-> IF registered[t] \in gone THEN None ELSE registered[t]]

-----------------------------------------------------------------------------
(* createSession *)

\* The request is resolved: a project's sessions need the project, and some of
\* them ask git first.
CreateSession(o, s, kind) ==
  /\ FreshSession(s)
  /\ kind # "folder" => project.known
  /\ Begin(o, "resolving", s, None)
  /\ object' = [object EXCEPT ![s] = [kind |-> kind, bound |-> FALSE, name |-> Derived,
                                      origin |-> "derived", terminals |-> {}]]
  /\ removed' = removed \ {s} /\ claimed' = claimed \ {s}
  /\ unsaved' = unsaved \ {s} /\ ghosts' = ghosts \ {s} /\ untold' = untold \ {s}
  /\ UNCHANGED <<known, rows, project, published, registered, writes, strays>>

Resolved(o) ==
  /\ At(o, "resolving")
  /\ Goto(o, "recording")
  /\ object' = object
  /\ QueueSave(o, Of(o))
  /\ UNCHANGED <<known, rows, project, published, registered, histories>>

NotResolved(o) ==
  /\ At(o, "resolving")
  /\ object[Of(o)].kind \in {"projectDirectory", "worktree", "adopted"}
  /\ End(o)
  /\ UNCHANGED <<object, known, rows, project, published, registered, writes, histories>>

\* Persisted first, then listed and announced.
Recorded(o) ==
  /\ At(o, "recording")
  /\ Saved(o)
  /\ known' = known \cup {Of(o)}
  /\ object' = object
  /\ Publish
  /\ Goto(o, IF object[Of(o)].kind = "worktree" THEN "adding" ELSE "seeding")
  /\ UNCHANGED <<project, registered, removed, claimed, strays>>

NotRecorded(o) ==
  /\ At(o, "recording")
  /\ SaveFailed(o)
  /\ End(o)
  /\ UNCHANGED <<object, known, rows, project, published, registered,
                 removed, claimed, ghosts, untold, strays>>

\* git made the worktree; the binding is what git says it is.
WorktreeAdded(o) ==
  /\ At(o, "adding")
  /\ Goto(o, "binding")
  /\ object' = [object EXCEPT ![Of(o)].bound = TRUE]
  /\ QueueSave(o, Of(o))
  /\ UNCHANGED <<known, rows, project, published, registered, histories>>

WorktreeBound(o) ==
  /\ At(o, "binding")
  /\ Saved(o)
  /\ UNCHANGED <<object, known>>
  /\ Publish
  /\ Goto(o, "seeding")
  /\ UNCHANGED <<project, registered, removed, claimed, strays>>

\* Mutation: the session is taken off the list, and its row is left.
ForgetsInMemory(o) ==
  /\ known' = known \ {Of(o)}
  /\ End(o)
  /\ strays' = strays \cup LiveOf({Of(o)})
  /\ UNCHANGED <<object, rows, project, published, registered, removed, claimed, ghosts,
                 untold>>

\* The release arm: forgetSession, when git refused or the binding was not saved.
\* It stops no terminal: one started meanwhile is left behind.
RollBack(o) ==
  /\ known' = known \ {Of(o)}
  /\ Goto(o, "unrecording")
  /\ strays' = strays \cup LiveOf({Of(o)})
  /\ UNCHANGED <<object, rows, project, published, registered, removed, claimed, ghosts,
                 untold>>

WorktreeRefused(o) ==
  \/ At(o, "adding") /\ RollBack(o) /\ UNCHANGED <<writes, unsaved>>
  \/ At(o, "binding") /\ SaveFailed(o) /\ RollBack(o)

RolledBack(o) ==
  /\ At(o, "unrecording")
  /\ rows' = [rows EXCEPT ![Of(o)] = Unborn]
  /\ UNCHANGED <<object, known>>
  /\ Publish
  /\ ghosts' = ghosts \ {Of(o)}
  /\ End(o)
  /\ UNCHANGED <<project, registered, writes, removed, claimed, unsaved, strays>>

\* The row is still there, and the list the clients have still shows the session.
NotRolledBack(o) ==
  /\ At(o, "unrecording")
  /\ WritesFail
  /\ ghosts' = ghosts \cup Undeleted({Of(o)})
  /\ untold' = untold \cup {Of(o)}
  /\ End(o)
  /\ UNCHANGED <<object, known, rows, project, published, registered, writes, removed,
                 claimed, unsaved, strays>>

\* The session's first terminal, which is not started.
AddFirstTerminal(o) ==
  /\ At(o, "seeding")
  /\ \E t \in Terminals :
       /\ FreshTerminal(t)
       /\ object' = [object EXCEPT ![Of(o)].terminals = @ \cup {t}]
  /\ Goto(o, "seeded")
  /\ QueueSave(o, Of(o))
  /\ UNCHANGED <<known, rows, project, published, registered, histories>>

-----------------------------------------------------------------------------
(* Requests that change a session in memory, save it and publish. *)

\* Mutation of rename: it does not wait for the save.
RenameUnawaited(o, s, n) ==
  /\ s \in known /\ tasks[o] = Idle
  /\ object' = [object EXCEPT ![s].name = n, ![s].origin = "user"]
  /\ QueueSave(o, s)
  /\ claimed' = claimed \cup {s}
  /\ UNCHANGED <<known, rows, project, published, registered, tasks, removed, unsaved,
                 ghosts, untold, strays>>

\* rename: the name is the person's from now on.
Rename(o, s, n) ==
  /\ s \in known
  /\ Begin(o, "renaming", s, None)
  /\ object' = [object EXCEPT ![s].name = n, ![s].origin = "user"]
  /\ QueueSave(o, s)
  /\ UNCHANGED <<known, rows, project, published, registered, histories>>

\* The session namer asks an agent, in the background, for a better name.
AskForName(o, s) ==
  /\ s \in known
  /\ object[s].origin # "user"
  /\ Begin(o, "asking", s, None)
  /\ UNCHANGED <<object, known, rows, project, published, registered, writes, histories>>

\* Mutation of acceptsAutomaticName: what held when the agent was asked.
AcceptedWhenAsked(s) == TRUE

AcceptsAutomaticName(s) == object[s].origin # "user"

\* nameAutomatically, with the agent's answer: it looks at the session again.
NameAutomatically(o, n) ==
  /\ At(o, "asking")
  /\ Of(o) \in known /\ AcceptsAutomaticName(Of(o)) /\ object[Of(o)].name # n
  /\ object' = [object EXCEPT ![Of(o)].name = n, ![Of(o)].origin = "automatic"]
  /\ Goto(o, "editing")
  /\ QueueSave(o, Of(o))
  /\ UNCHANGED <<known, rows, project, published, registered, histories>>

\* No answer, no name in it, or no use for it.
NameNotUsed(o) ==
  /\ At(o, "asking")
  /\ End(o)
  /\ UNCHANGED <<object, known, rows, project, published, registered, writes, histories>>

\* createTerminal: a descriptor, configured and not started.
CreateTerminal(o, s) ==
  /\ s \in known
  /\ \E t \in Terminals :
       /\ FreshTerminal(t)
       /\ object' = [object EXCEPT ![s].terminals = @ \cup {t}]
       /\ Begin(o, "editing", s, t)
  /\ QueueSave(o, s)
  /\ UNCHANGED <<known, rows, project, published, registered, histories>>

\* Mutation of removeTerminal: saved first, taken off the list afterwards.
RemoveTerminalSavedFirst(o, t) ==
  \E s \in Located(t) :
    /\ Begin(o, "editing", s, None)
    /\ registered' = [registered EXCEPT ![t] = None]
    /\ object' = [object EXCEPT ![s].terminals = @ \ {t}]
    /\ writes' = Append(writes, [task |-> o, session |-> s, value |-> object[s]])
    /\ UNCHANGED <<known, rows, project, published, histories>>

\* removeTerminal: stopped, forgotten by the registry, then taken off the list.
RemoveTerminal(o, t) ==
  \E s \in Located(t) :
    /\ Begin(o, "editing", s, None)
    /\ registered' = [registered EXCEPT ![t] = None]
    /\ object' = [object EXCEPT ![s].terminals = @ \ {t}]
    /\ QueueSave(o, s)
    /\ UNCHANGED <<known, rows, project, published, histories>>

\* Mutation: saved, and told nobody.
EditedQuietly(o) ==
  /\ tasks[o].at \in {"renaming", "editing", "seeded"}
  /\ Saved(o)
  /\ End(o)
  /\ claimed' = IF At(o, "renaming") THEN claimed \cup {Of(o)} ELSE claimed
  /\ UNCHANGED <<object, known, published, project, registered, removed, untold, strays>>

Edited(o) ==
  /\ tasks[o].at \in {"renaming", "editing", "seeded"}
  /\ Saved(o)
  /\ UNCHANGED <<object, known>>
  /\ Publish
  /\ End(o)
  /\ claimed' = IF At(o, "renaming") THEN claimed \cup {Of(o)} ELSE claimed
  /\ UNCHANGED <<project, registered, removed, strays>>

\* The change stays in memory, and nobody is told.
NotSaved(o) ==
  /\ tasks[o].at \in {"renaming", "editing", "seeded"}
  /\ SaveFailed(o)
  /\ untold' = untold \cup {Of(o)}
  /\ End(o)
  /\ UNCHANGED <<object, known, rows, project, published, registered, removed,
                 claimed, ghosts, strays>>

-----------------------------------------------------------------------------
(* startTerminal and restartTerminal *)

\* A terminal the registry has is started in place; another needs its launch
\* resolved first (the login shell's environment, a program's path).
StartTerminal(o, t) ==
  \E s \in Located(t) :
    /\ Begin(o, IF registered[t] = None THEN "launching" ELSE "touching", s, t)
    /\ UNCHANGED <<object, known, rows, project, published, registered, writes, histories>>

\* register refuses a terminal it has: the second of two starts fails.
Launched(o) ==
  /\ At(o, "launching")
  /\ LET t == tasks[o].terminal IN
       IF registered[t] = None
       THEN /\ registered' = [registered EXCEPT ![t] = Of(o)]
            /\ Goto(o, "touching")
            /\ strays' = IF Of(o) \in Located(t) THEN strays ELSE strays \cup {t}
       ELSE End(o) /\ UNCHANGED <<registered, strays>>
  /\ UNCHANGED <<object, known, rows, project, published, writes, removed, claimed,
                 unsaved, ghosts, untold>>

\* touch changes the row's date, if the row is there.
Touched(o) ==
  /\ At(o, "touching")
  /\ UNCHANGED <<object, known>>
  /\ Publish
  /\ End(o)
  /\ UNCHANGED <<rows, project, registered, writes, removed, claimed, unsaved, ghosts, strays>>

\* The launch cannot be resolved, the process not started, the row not touched.
NotStarted(o) ==
  /\ tasks[o].at \in {"launching", "touching"}
  /\ End(o)
  /\ UNCHANGED <<object, known, rows, project, published, registered, writes, histories>>

-----------------------------------------------------------------------------
(* removeSession, after the plan dispatch makes for it *)

RemoveSession(o, s) ==
  /\ s \in known
  /\ Begin(o, "planning", s, None)
  /\ UNCHANGED <<object, known, rows, project, published, registered, writes, histories>>

\* Mutation: the terminals keep running.
PlanMadeStopsNothing(o) ==
  /\ At(o, "planning")
  /\ Of(o) \in known
  /\ known' = known \ {Of(o)}
  /\ Goto(o, "forgetting")
  /\ UNCHANGED <<object, rows, project, published, registered, writes, histories>>

\* The terminals are stopped; then a worktree of ours may be deleted, if the
\* request says so and the project is still there.
PlanMade(o) ==
  /\ At(o, "planning")
  /\ Of(o) \in known
  /\ registered' = Stopped({Of(o)})
  /\ strays' = strays \ LiveOf({Of(o)})
  /\ \/ /\ object[Of(o)].kind = "worktree" /\ project.known
        /\ Goto(o, "deleting")
        /\ known' = known
     \/ /\ known' = known \ {Of(o)}
        /\ Goto(o, "forgetting")
  /\ UNCHANGED <<object, rows, project, published, writes, removed, claimed, unsaved, ghosts,
                 untold>>

PlanIsOfNothing(o) ==
  /\ At(o, "planning")
  /\ Of(o) \notin known
  /\ End(o)
  /\ UNCHANGED <<object, known, rows, project, published, registered, writes, histories>>

\* A terminal started since the others were stopped is left behind.
WorktreeDeleted(o) ==
  /\ At(o, "deleting")
  /\ known' = known \ {Of(o)}
  /\ Goto(o, "forgetting")
  /\ strays' = strays \cup LiveOf({Of(o)})
  /\ UNCHANGED <<object, rows, project, published, registered, writes, removed, claimed,
                 unsaved, ghosts, untold>>

\* git keeps it: the session stays, its terminals stopped.
WorktreeKept(o) ==
  /\ At(o, "deleting")
  /\ End(o)
  /\ UNCHANGED <<object, known, rows, project, published, registered, writes, histories>>

\* repository.remove does not wait for the transaction lock.
Forgotten(o) ==
  /\ At(o, "forgetting")
  /\ rows' = [rows EXCEPT ![Of(o)] = Unborn]
  /\ UNCHANGED <<object, known>>
  /\ Publish
  /\ removed' = removed \cup {Of(o)}
  /\ ghosts' = ghosts \ {Of(o)}
  /\ End(o)
  /\ UNCHANGED <<project, registered, writes, claimed, unsaved, strays>>

\* The delete fails: the session is off the service's list, and neither its row
\* nor the list the clients have says so.
NotForgotten(o) ==
  /\ At(o, "forgetting")
  /\ WritesFail
  /\ ghosts' = ghosts \cup Undeleted({Of(o)})
  /\ untold' = untold \cup {Of(o)}
  /\ End(o)
  /\ UNCHANGED <<object, known, rows, project, published, registered, writes, removed,
                 claimed, unsaved, strays>>

-----------------------------------------------------------------------------
(* The project: removeProject with projectRemoving, updateSettings, refreshGit *)

RemoveProject(o) ==
  /\ project.known
  /\ Begin(o, "dropping", None, None)
  /\ LET going == {s \in known : Member(s)} IN
       /\ registered' = Stopped(going)
       /\ strays' = strays \ LiveOf(going)
       /\ known' = known \ going
  /\ object' = object
  /\ Publish
  /\ UNCHANGED <<rows, project, writes, removed, claimed, unsaved, ghosts>>

\* The rows of its sessions go with its own, one listed since projectRemoving too.
ProjectRowRemoved(o) ==
  /\ At(o, "dropping")
  /\ project' = [project EXCEPT !.row = FALSE]
  /\ rows' = [s \in Sessions |-> IF rows[s] # Unborn /\ rows[s].kind # "folder"
                                 THEN Unborn ELSE rows[s]]
  /\ removed' = removed \cup {s \in Sessions \ known : Born(s) /\ Member(s) /\ ~Busy(s)}
  /\ unsaved' = unsaved \cup {s \in known : Member(s)}
  /\ ghosts' = {s \in ghosts : rows'[s] # Unborn}
  /\ Goto(o, "dropped")
  /\ UNCHANGED <<object, known, published, registered, writes, claimed, untold, strays>>

\* The delete fails: the project stays, and so do the rows of the sessions that
\* projectRemoving has taken off the list.
ProjectRowKept(o) ==
  /\ At(o, "dropping")
  /\ WritesFail
  /\ ghosts' = ghosts \cup Undeleted({s \in Sessions \ known : Member(s)})
  /\ End(o)
  /\ UNCHANGED <<object, known, rows, project, published, registered, writes, removed,
                 claimed, unsaved, untold, strays>>

ProjectForgotten(o) ==
  /\ At(o, "dropped")
  /\ project' = [project EXCEPT !.known = FALSE]
  /\ End(o)
  /\ UNCHANGED <<object, known, rows, published, registered, writes, histories>>

\* The settings or the git description of the project are saved: an upsert.
ConfigureProject(o) ==
  /\ project.known
  /\ Begin(o, "configuring", None, None)
  /\ UNCHANGED <<object, known, rows, project, published, registered, writes, histories>>

ProjectNotSaved(o) ==
  /\ At(o, "configuring")
  /\ WritesFail
  /\ End(o)
  /\ UNCHANGED <<object, known, rows, project, published, registered, writes, histories>>

ProjectSaved(o) ==
  /\ At(o, "configuring")
  /\ project' = [project EXCEPT !.row = TRUE]
  /\ End(o)
  /\ UNCHANGED <<object, known, rows, published, registered, writes, histories>>

-----------------------------------------------------------------------------
\* The daemon stops, with whatever was in flight, and loads what was saved.
Restart ==
  /\ known' = {s \in Sessions : rows[s] # Unborn}
  /\ object' = rows
  /\ Publish
  /\ project' = [project EXCEPT !.known = project.row]
  /\ registered' = [t \in Terminals |-> None]
  /\ writes' = <<>>
  /\ tasks' = [o \in Tasks |-> Idle]
  /\ unsaved' = {} /\ ghosts' = {} /\ strays' = {}
  /\ UNCHANGED <<rows, removed, claimed>>

Creating(o) ==
  \/ \E s \in Sessions, kind \in Kinds : CreateSession(o, s, kind)
  \/ Resolved(o) \/ NotResolved(o) \/ Recorded(o) \/ NotRecorded(o)
  \/ WorktreeAdded(o) \/ WorktreeBound(o) \/ WorktreeRefused(o)
  \/ RolledBack(o) \/ NotRolledBack(o)
  \/ AddFirstTerminal(o)

Editing(o) ==
  \/ \E s \in Sessions : AskForName(o, s) \/ CreateTerminal(o, s)
  \/ \E s \in Sessions, n \in Names : Rename(o, s, n)
  \/ \E n \in Names : NameAutomatically(o, n)
  \/ \E t \in Terminals : RemoveTerminal(o, t)
  \/ NameNotUsed(o) \/ Edited(o) \/ NotSaved(o)

Starting(o) ==
  \/ \E t \in Terminals : StartTerminal(o, t)
  \/ Launched(o) \/ Touched(o) \/ NotStarted(o)

Removing(o) ==
  \/ \E s \in Sessions : RemoveSession(o, s)
  \/ PlanMade(o) \/ PlanIsOfNothing(o) \/ WorktreeDeleted(o) \/ WorktreeKept(o)
  \/ Forgotten(o) \/ NotForgotten(o)
  \/ RemoveProject(o) \/ ProjectRowRemoved(o) \/ ProjectRowKept(o) \/ ProjectForgotten(o)
  \/ ConfigureProject(o) \/ ProjectSaved(o) \/ ProjectNotSaved(o)

Next == Restart \/ \E o \in Tasks : Creating(o) \/ Editing(o) \/ Starting(o) \/ Removing(o)

Spec == Init /\ [][Next]_vars

-----------------------------------------------------------------------------
(* Properties *)

\* What a request changes in a session is on its way to the database from the
\* moment it is in memory: a listed session's row is up to date, or a save is
\* waiting, or one has failed.
MemoryIsOnItsWayToDisk ==
  \A s \in known :
    \/ rows[s] = object[s]
    \/ \E i \in 1..Len(writes) : writes[i].session = s
    \/ s \in unsaved

\* A row without a listed session is one a request is still working on, or one
\* that outlives its session: it was saved after the session was dropped, or the
\* database failed to delete it.  A refused worktree, a removed session and a
\* removed project leave no other row behind.
RowsAreListed ==
  \A s \in Sessions : rows[s] # Unborn =>
    \/ s \in known \/ Busy(s) \/ s \in ghosts
    \/ Member(s) /\ \E o \in Tasks : At(o, "dropping")

\* The clients' last list is the service's, but for the sessions a request is
\* working on, and for those a request that failed has changed since: what a
\* failed save or delete leaves in memory, the next publish of any request tells.
ListIsAnnounced ==
  \A s \in Sessions : Busy(s) \/ s \in untold \/
    /\ s \in Announced <=> s \in known
    /\ s \in known => published[s] = object[s]

\* The user's name always wins: once a rename is acknowledged, no answer of the
\* session namer and no restart puts another's name in its place.
UserNameWins ==
  \A s \in claimed :
    /\ s \in known => object[s].origin = "user"
    /\ rows[s] # Unborn => rows[s].origin = "user"

\* A live terminal can be found by the requests that stop it: a listed session
\* lists it, or a request is removing it, or it is a stray.
LiveTerminalsAreListed ==
  \A t \in Terminals : registered[t] # None =>
    Located(t) # {} \/ t \in strays

\* What a removal promises: no row, no entry and no live terminal is left of a
\* session whose removal was acknowledged.
RemovedIsGone ==
  \A s \in removed :
    s \notin known /\ rows[s] = Unborn /\ \A t \in Terminals : registered[t] # s
=============================================================================
