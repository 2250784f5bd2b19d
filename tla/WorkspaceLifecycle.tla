------------------------- MODULE WorkspaceLifecycle -------------------------
(***************************************************************************)
(* The life of HWS workspaces: the Axiom state machine                     *)
(* (internal/orchestration/workspace), the reconciler it runs, the desktop *)
(* adapter (internal/adapters/shelldesktop) with its in-memory launch      *)
(* evidence, the shell executor at the other end of D-Bus                  *)
(* (shell-extension/shellExecutor.js), the snapshots the shell publishes,  *)
(* and what the user and the applications do meanwhile.                    *)
(*                                                                         *)
(* A request to the shell goes through the broker (ShellActionBroker): the *)
(* caller gets the answer to its own action or gives up, and an action it  *)
(* gave up on may still be executed later.  D-Bus delivers the signals of  *)
(* one sender in order, so `wire` is a queue.                              *)
(*                                                                         *)
(* A native application is in the published snapshot exactly when it has a *)
(* window (extension.js skips the others), so "present" and "ready" of a   *)
(* resource without a placement intent coincide.  Placement is left to     *)
(* another module.                                                         *)
(***************************************************************************)
EXTENDS Naturals, Sequences, Reconcile

CONSTANTS
    Workspaces,   \* workspace ids
    Resources,    \* resource ids, naturals so that they are ordered
    Apps,         \* desktop application ids
    Revisions,    \* definition revisions (names the author of the file chose)
    NoRev,        \* the empty revision of a workspace never activated
    Catalogs,     \* the compiled catalog files an edit may produce
    MaxWindows,   \* bound: windows opened
    MaxOps,       \* bound: lifecycle events dispatched
    MaxQuits,     \* bound: applications ended outside HWS
    MaxExpiries,  \* bound: snapshots that outlive their TTL
    MaxReloads,   \* bound: edits of the workspace catalog
    MaxCrashes,   \* bound: daemon restarts
    MaxFaults     \* bound: quits, expiries, edits and restarts together

\* DesiredState.Validate, for resources of kind desktop_app.
Specs == [app : Apps, ownership : Ownerships, required : BOOLEAN]
Definitions == UNION {[D -> Specs] : D \in SUBSET Resources}
NoDefinition == [r \in {} |-> r]

\* compileWorkspaceFile: an active revision refers to a definition in the file.
ValidCatalog(c) ==
    /\ \A w \in Workspaces :
          /\ DOMAIN c.defs[w] \subseteq Revisions
          /\ \A v \in DOMAIN c.defs[w] : c.defs[w][v] \in Definitions
          /\ c.active[w] \in DOMAIN c.defs[w] \cup {NoRev}

\* Every catalog that gives target t an application gives it application a.
Names(t, a) ==
    \A c \in Catalogs : \A v \in DOMAIN c.defs[t.ws] :
        t.res \in DOMAIN c.defs[t.ws][v] => c.defs[t.ws][v][t.res].app = a

\* Edits of the catalog do not point a resource of a workspace to another
\* application.  The evidence of a launch is kept for a workspace and a resource,
\* so it says nothing about the application after such an edit.
StableApps ==
    \A c \in Catalogs, w \in Workspaces : \A v \in DOMAIN c.defs[w] :
        \A r \in DOMAIN c.defs[w][v] :
            Names([ws |-> w, res |-> r], c.defs[w][v][r].app)

ASSUME LifecycleAssumption ==
    /\ Resources \subseteq Nat
    /\ NoRev \notin Revisions
    /\ \A c \in Catalogs : ValidCatalog(c)
    /\ {MaxWindows, MaxOps, MaxQuits, MaxExpiries, MaxReloads, MaxCrashes,
        MaxFaults} \subseteq Nat

VARIABLES
    (* the desktop *)
    launcher,     \* launcher[a]: who started the running application
    wins,         \* open windows [id, app]; ids are never reused
    closeAsked,   \* windows Mutter was asked to close
    nextWin,      \* the next window id (Mutter's stable sequence)
    (* D-Bus *)
    wire,         \* shell actions emitted and not yet handled, in order
    (* the daemon *)
    surf,         \* the aggregated surface snapshot: a set of windows
    managed,      \* Desktop.managed: <<workspace, resource>> with evidence
    catalog,      \* catalog.File: defs[w][v], and active[w], the current v
    op,           \* op[w]: the lifecycle operation running for w
    (* the durable store *)
    state,        \* state[w]: the Axiom state object
    (* budgets and history *)
    used,         \* events, quits, expiries, reloads and crashes so far
    launches,     \* history: [run, ws, res, app] launched; run counts restarts
    asked,        \* history: [ws, res, app, by] of windows asked to close
    published     \* history: apps published to this daemon process

world   == <<launcher, wins, closeAsked, nextWin>>
history == <<launches, asked, published>>
vars == <<launcher, wins, closeAsked, nextWin, wire, surf, managed,
          catalog, op, state, used, launches, asked, published>>

Statuses == {"inactive", "preparing", "active", "degraded", "recovering",
             "closing", "failed"}
Busy     == {"preparing", "recovering", "closing"}
Windows  == [id : 1..MaxWindows, app : Apps]
Phases   == {"idle", "reconcile", "ensure", "awaitEnsure", "waitReady",
             "close", "closeNext", "closeWindows", "awaitClose", "commit"}
Codes    == {"", "definition_not_found", "ensure_failed",
             "required_resource_unreached", "close_failed"}
NoReply  == [ok |-> FALSE, changed |-> FALSE]
NoResult == [status |-> "inactive", reached |-> {}, total |-> {}, code |-> ""]
IdleOp   == [phase |-> "idle", def |-> NoDefinition, todo |-> {}, left |-> {}, reply |-> NoReply,
             session |-> [r \in Resources |-> {}], failed |-> FALSE,
             result |-> NoResult]

Budgets  == {"ops", "quits", "expiries", "reloads", "crashes"}
Targets  == [ws : Workspaces, res : Resources]
Messages == [kind : {"ensure"}, target : Targets, app : Apps, live : BOOLEAN]
            \cup [kind : {"close"}, target : Targets, win : 1..MaxWindows, live : BOOLEAN]

Replies  == [ok : BOOLEAN, changed : BOOLEAN]
Results  == [status : Statuses, reached : SUBSET Resources, total : SUBSET Resources,
             code : Codes]
Operations ==
    [phase : Phases, def : Definitions, todo : SUBSET Resources,
     left : SUBSET (1..MaxWindows), reply : Replies,
     session : [Resources -> SUBSET (1..MaxWindows)], failed : BOOLEAN,
     result : Results]
States   == [status : Statuses, rev : Revisions \cup {NoRev},
             reached : SUBSET Resources, total : SUBSET Resources, code : Codes]

TypeOK ==
    /\ launcher \in [Apps -> {"none", "hws", "user"}]
    /\ wins \subseteq Windows
    /\ closeAsked \subseteq 1..MaxWindows
    /\ nextWin \in 1..(MaxWindows + 1)
    /\ wire \in Seq(Messages)
    /\ surf \subseteq Windows
    /\ managed \subseteq Workspaces \X Resources
    /\ catalog \in Catalogs
    /\ op \in [Workspaces -> Operations]
    /\ state \in [Workspaces -> States]
    /\ used \in [Budgets -> Nat]
    /\ launches \subseteq [run : Nat, target : Targets, app : Apps]
    /\ asked \subseteq [target : Targets, app : Apps, by : {"none", "hws", "user"}]
    /\ published \subseteq Apps

\* A fresh desktop and a daemon that just opened an empty store.
Init ==
    /\ launcher = [a \in Apps |-> "none"]
    /\ wins = {} /\ closeAsked = {} /\ nextWin = 1
    /\ wire = <<>>
    /\ surf = {}
    /\ managed = {}
    /\ catalog \in Catalogs
    /\ op = [w \in Workspaces |-> IdleOp]
    /\ state = [w \in Workspaces |->
                  [status |-> "inactive", rev |-> NoRev, reached |-> {},
                   total |-> {}, code |-> ""]]
    /\ used = [b \in Budgets |-> 0]
    /\ launches = {} /\ asked = {} /\ published = {}

-----------------------------------------------------------------------------
(***************************************************************************)
(* Helpers                                                                 *)
(***************************************************************************)
Spend(budget, max) ==
    used[budget] < max /\ used' = [used EXCEPT ![budget] = @ + 1]

Disturb(budget, max) ==
    /\ used["quits"] + used["expiries"] + used["reloads"] + used["crashes"] < MaxFaults
    /\ Spend(budget, max)

First(S) == CHOOSE r \in S : \A q \in S : r <= q

WindowsOf(a, snapshot) == {x \in snapshot : x.app = a}

\* File.Resolve of the revision that w's state pins.
Resolvable(w) == state[w].rev \in DOMAIN catalog.defs[w]
Resolve(w) == catalog.defs[w][state[w].rev]

\* Desktop.Observe: the resources present and ready in the latest snapshot.
Ready(def) == {r \in DOMAIN def : WindowsOf(def[r].app, surf) # {}}

\* Observed ownership "managed": a managed spec with launch evidence.
ObservedManaged(w, def) ==
    {r \in Ready(def) : def[r].ownership = "managed" /\ <<w, r>> \in managed}

\* The broker's caller gives up: nobody waits for w's emitted actions any more.
Abandon(w) ==
    wire' = [i \in DOMAIN wire |->
               IF wire[i].target.ws = w THEN [wire[i] EXCEPT !.live = FALSE] ELSE wire[i]]

-----------------------------------------------------------------------------
(***************************************************************************)
(* Lifecycle events.  Axiom serializes the events of one execution; the    *)
(* event's assignments are durable before its activity runs.  The activity *)
(* is triggered by a change of the status, so an event that writes the     *)
(* status it found (left behind by a crash) need not start one.            *)
(***************************************************************************)
Begin(w, status, phase) ==
    /\ op[w].phase = "idle"
    /\ Spend("ops", MaxOps)
    /\ \/ op' = [op EXCEPT ![w] = [IdleOp EXCEPT !.phase = phase]]
       \/ state[w].status = status /\ UNCHANGED op
    /\ UNCHANGED <<world, wire, surf, managed, catalog, history>>

\* Runtime.ActivateWorkspaceJSON: the catalog's current revision is pinned.
Activate(w) ==
    /\ catalog.active[w] # NoRev
    /\ Begin(w, "preparing", "reconcile")
    /\ state' = [state EXCEPT ![w].status = "preparing", ![w].rev = catalog.active[w],
                              ![w].code = ""]

Recover(w) ==
    /\ Begin(w, "recovering", "reconcile")
    /\ state' = [state EXCEPT ![w].status = "recovering"]

Resume(w) ==
    /\ Begin(w, "preparing", "reconcile")
    /\ state' = [state EXCEPT ![w].status = "preparing"]

Close(w) ==
    /\ Begin(w, "closing", "close")
    /\ state' = [state EXCEPT ![w].status = "closing"]

\* Suspend releases nothing.
Suspend(w) ==
    /\ op[w].phase = "idle"
    /\ Spend("ops", MaxOps)
    /\ state' = [state EXCEPT ![w].status = "inactive"]
    /\ UNCHANGED <<world, wire, surf, managed, catalog, op, history>>

-----------------------------------------------------------------------------
(***************************************************************************)
(* The ReconcileWorkspace activity                                         *)
(***************************************************************************)
Outcome(status, reached, total, code) ==
    [status |-> status, reached |-> reached, total |-> total, code |-> code]

\* Resolve, observe, plan.
ReconcileStart(w) ==
    /\ op[w].phase = "reconcile"
    /\ op' = [op EXCEPT ![w] =
         IF Resolvable(w)
         THEN [@ EXCEPT !.phase = "ensure", !.def = Resolve(w),
                        !.todo = BuildReconcilePlan(Resolve(w), Ready(Resolve(w)))]
         ELSE [@ EXCEPT !.phase = "commit",
                        !.result = Outcome("failed", {}, {}, "definition_not_found")]]
    /\ UNCHANGED <<world, wire, surf, managed, catalog, state, used, history>>

\* Ensure of the next planned resource: the launch action is emitted.
EnsureSend(w) ==
    /\ op[w].phase = "ensure" /\ op[w].todo # {}
    /\ LET r == First(op[w].todo) IN
       wire' = Append(wire, [kind |-> "ensure", target |-> [ws |-> w, res |-> r],
                             app |-> op[w].def[r].app, live |-> TRUE])
    /\ op' = [op EXCEPT ![w].phase = "awaitEnsure", ![w].reply = NoReply]
    /\ UNCHANGED <<world, surf, managed, catalog, state, used, history>>

\* Mutant: any successful answer counts as evidence of a launch.
EnsureAcceptedAlways(w) ==
    /\ op[w].phase = "awaitEnsure" /\ op[w].reply.ok
    /\ managed' = managed \cup
         {<<w, r>> : r \in {q \in {First(op[w].todo)} :
                              op[w].def[q].ownership = "managed"}}
    /\ op' = [op EXCEPT ![w].phase = "waitReady", ![w].reply = NoReply]
    /\ UNCHANGED <<world, wire, surf, catalog, state, used, history>>

\* A successful answer; "changed" on a managed resource is launch evidence.
EnsureAccepted(w) ==
    /\ op[w].phase = "awaitEnsure" /\ op[w].reply.ok
    /\ LET r == First(op[w].todo) IN
       managed' = IF op[w].reply.changed /\ op[w].def[r].ownership = "managed"
                  THEN managed \cup {<<w, r>>} ELSE managed
    /\ op' = [op EXCEPT ![w].phase = "waitReady", ![w].reply = NoReply]
    /\ UNCHANGED <<world, wire, surf, catalog, state, used, history>>

\* waitPresent / waitReady see the application's window.
EnsureReady(w) ==
    /\ op[w].phase = "waitReady"
    /\ First(op[w].todo) \in Ready(op[w].def)
    /\ op' = [op EXCEPT ![w].phase = "ensure", ![w].todo = @ \ {First(@)}]
    /\ UNCHANGED <<world, wire, surf, managed, catalog, state, used, history>>

\* Mutant: the wait for the application's window has no deadline.
EnsureFailsNoDeadline(w) ==
    /\ op[w].phase \in {"ensure", "awaitEnsure"} /\ op[w].todo # {}
    /\ op' = [op EXCEPT ![w].phase = "ensure", ![w].todo = @ \ {First(@)},
                        ![w].reply = NoReply, ![w].failed = TRUE]
    /\ Abandon(w)
    /\ UNCHANGED <<world, surf, managed, catalog, state, used, history>>

\* Ensure returns an error: the emission fails, the shell refuses, the broker
\* times out or the activity's deadline passes.  The reconciler goes on.
EnsureFails(w) ==
    /\ op[w].phase \in {"ensure", "awaitEnsure", "waitReady"} /\ op[w].todo # {}
    /\ op' = [op EXCEPT ![w].phase = "ensure", ![w].todo = @ \ {First(@)},
                        ![w].reply = NoReply, ![w].failed = TRUE]
    /\ Abandon(w)
    /\ UNCHANGED <<world, surf, managed, catalog, state, used, history>>

\* Observe again and evaluate.
ReconcileDone(w) ==
    /\ op[w].phase = "ensure" /\ op[w].todo = {}
    /\ LET def == op[w].def
           ready == Ready(def)
       IN op' = [op EXCEPT ![w].phase = "commit", ![w].result =
                   Outcome(TargetStatus(def, ready), ReachedOf(def, ready),
                           RequiredOf(def), FailureCode(def, ready, op[w].failed))]
    /\ UNCHANGED <<world, wire, surf, managed, catalog, state, used, history>>

-----------------------------------------------------------------------------
(***************************************************************************)
(* The CloseWorkspace activity                                             *)
(***************************************************************************)

\* Resolve and observe.  What is not observed as managed is skipped.
CloseStart(w) ==
    /\ op[w].phase = "close"
    /\ op' = [op EXCEPT ![w] =
         IF Resolvable(w)
         THEN LET def == Resolve(w) IN
              [@ EXCEPT
                 !.phase = "closeNext", !.def = def,
                 !.todo = ObservedManaged(w, def),
                 !.session = [r \in Resources |->
                    IF r \in ObservedManaged(w, def)
                    THEN {x.id : x \in WindowsOf(def[r].app, surf)} ELSE {}]]
         ELSE [@ EXCEPT !.phase = "commit", !.result =
                 Outcome("failed", state[w].reached, state[w].total, "definition_not_found")]]
    /\ UNCHANGED <<world, wire, surf, managed, catalog, state, used, history>>

CloseNext(w) ==
    /\ op[w].phase = "closeNext" /\ op[w].todo # {}
    /\ op' = [op EXCEPT ![w].phase = "closeWindows",
                        ![w].left = op[w].session[First(op[w].todo)]]
    /\ UNCHANGED <<world, wire, surf, managed, catalog, state, used, history>>

CloseSend(w) ==
    /\ op[w].phase = "closeWindows" /\ op[w].left # {}
    /\ LET r == First(op[w].todo) IN
       wire' = Append(wire, [kind |-> "close", target |-> [ws |-> w, res |-> r],
                             win |-> First(op[w].left), live |-> TRUE])
    /\ op' = [op EXCEPT ![w].phase = "awaitClose", ![w].reply = NoReply]
    /\ UNCHANGED <<world, surf, managed, catalog, state, used, history>>

CloseAccepted(w) ==
    /\ op[w].phase = "awaitClose" /\ op[w].reply.ok
    /\ op' = [op EXCEPT ![w].phase = "closeWindows", ![w].reply = NoReply,
                        ![w].left = @ \ {First(@)}]
    /\ UNCHANGED <<world, wire, surf, managed, catalog, state, used, history>>

\* Mutant: Close does not wait for the windows to disappear.
CloseAbsentUnchecked(w) ==
    /\ op[w].phase = "closeWindows" /\ op[w].left = {}
    /\ managed' = managed \ {<<w, First(op[w].todo)>>}
    /\ op' = [op EXCEPT ![w].phase = "closeNext", ![w].todo = @ \ {First(@)}]
    /\ UNCHANGED <<world, wire, surf, catalog, state, used, history>>

\* waitWindowsAbsent succeeds; the evidence is dropped.
CloseAbsent(w) ==
    /\ op[w].phase = "closeWindows" /\ op[w].left = {}
    /\ \A x \in surf : x.id \notin op[w].session[First(op[w].todo)]
    /\ managed' = managed \ {<<w, First(op[w].todo)>>}
    /\ op' = [op EXCEPT ![w].phase = "closeNext", ![w].todo = @ \ {First(@)}]
    /\ UNCHANGED <<world, wire, surf, catalog, state, used, history>>

\* Close of one resource returns an error; the others are still closed.
CloseFails(w) ==
    /\ op[w].phase \in {"closeWindows", "awaitClose"}
    /\ op' = [op EXCEPT ![w].phase = "closeNext", ![w].todo = @ \ {First(@)},
                        ![w].reply = NoReply, ![w].failed = TRUE]
    /\ Abandon(w)
    /\ UNCHANGED <<world, surf, managed, catalog, state, used, history>>

CloseDone(w) ==
    /\ op[w].phase = "closeNext" /\ op[w].todo = {}
    /\ op' = [op EXCEPT ![w].phase = "commit", ![w].result =
         Outcome(IF op[w].failed THEN "degraded" ELSE "inactive",
                 state[w].reached, state[w].total,
                 IF op[w].failed THEN "close_failed" ELSE "")]
    /\ UNCHANGED <<world, wire, surf, managed, catalog, state, used, history>>

\* The activity's output is assigned to the state object.
Commit(w) ==
    /\ op[w].phase = "commit"
    /\ state' = [state EXCEPT ![w] =
         [status |-> op[w].result.status, rev |-> @.rev,
          reached |-> op[w].result.reached, total |-> op[w].result.total,
          code |-> op[w].result.code]]
    /\ op' = [op EXCEPT ![w] = IdleOp]
    /\ UNCHANGED <<world, wire, surf, managed, catalog, used, history>>

-----------------------------------------------------------------------------
(***************************************************************************)
(* The shell executor handles the oldest action on the wire.               *)
(***************************************************************************)
Answer(m, changed) ==
    op' = IF m.live
          THEN [op EXCEPT ![m.target.ws].reply = [ok |-> TRUE, changed |-> changed]]
          ELSE op

\* _ensureDesktopApp: a stopped application is launched.
ShellEnsures ==
    /\ wire # <<>> /\ Head(wire).kind = "ensure"
    /\ LET m == Head(wire)
           stopped == launcher[m.app] = "none"
       IN /\ launcher' = IF stopped THEN [launcher EXCEPT ![m.app] = "hws"] ELSE launcher
          /\ launches' = IF stopped
                THEN launches \cup {[run |-> used["crashes"], target |-> m.target, app |-> m.app]}
                ELSE launches
          /\ Answer(m, stopped)
    /\ wire' = Tail(wire)
    /\ UNCHANGED <<wins, closeAsked, nextWin, surf, managed, catalog, state,
                   used, asked, published>>

\* _closeWindow: Mutter is asked to close the window; an absent one is fine.
ShellCloses ==
    /\ wire # <<>> /\ Head(wire).kind = "close"
    /\ LET m == Head(wire)
           target == {x \in wins : x.id = m.win}
       IN /\ closeAsked' = closeAsked \cup {x.id : x \in target}
          /\ asked' = asked \cup {[target |-> m.target, app |-> x.app,
                                    by |-> launcher[x.app]] : x \in target}
          /\ Answer(m, target # {})
    /\ wire' = Tail(wire)
    /\ UNCHANGED <<launcher, wins, nextWin, surf, managed, catalog, state,
                   used, launches, published>>

\* The action is refused (unknown application, window not closeable, invalid
\* action, executor error) or the signal finds no enabled extension.
ShellDeclines ==
    /\ wire # <<>>
    /\ wire' = Tail(wire)
    /\ UNCHANGED <<world, surf, managed, catalog, op, state, used, history>>

-----------------------------------------------------------------------------
(***************************************************************************)
(* The desktop, the user, the catalog file and the daemon process          *)
(***************************************************************************)
UserLaunches(a) ==
    /\ launcher[a] = "none"
    /\ nextWin <= MaxWindows
    /\ launcher' = [launcher EXCEPT ![a] = "user"]
    /\ UNCHANGED <<wins, closeAsked, nextWin, wire, surf, managed, catalog, op,
                   state, used, history>>

\* A starting application maps its first window, a running one another.
AppOpensWindow(a) ==
    /\ launcher[a] # "none"
    /\ nextWin <= MaxWindows
    /\ wins' = wins \cup {[id |-> nextWin, app |-> a]}
    /\ nextWin' = nextWin + 1
    /\ UNCHANGED <<launcher, closeAsked, wire, surf, managed, catalog, op,
                   state, used, history>>

\* The application honours the close request, now or never.  GNOME considers
\* an application stopped when its last window is gone.
AppClosesWindow(x) ==
    /\ x.id \in closeAsked
    /\ wins' = wins \ {x}
    /\ launcher' = IF WindowsOf(x.app, wins) = {x}
                   THEN [launcher EXCEPT ![x.app] = "none"] ELSE launcher
    /\ UNCHANGED <<closeAsked, nextWin, wire, surf, managed, catalog, op, state,
                   used, history>>

\* The user quits the application, it crashes, or it fails to start.
AppEnds(a) ==
    /\ launcher[a] # "none"
    /\ Disturb("quits", MaxQuits)
    /\ launcher' = [launcher EXCEPT ![a] = "none"]
    /\ wins' = wins \ WindowsOf(a, wins)
    /\ UNCHANGED <<closeAsked, nextWin, wire, surf, managed, catalog, op, state,
                   history>>

\* The extension publishes; the hub replaces the provider and refreshes.
Publish ==
    /\ surf # wins
    /\ surf' = wins
    /\ published' = published \cup {x.app : x \in wins}
    /\ UNCHANGED <<world, wire, managed, catalog, op, state, used, launches, asked>>

\* The published snapshot is older than its TTL: Registry.Apply drops it.
Expire ==
    /\ surf # {}
    /\ Disturb("expiries", MaxExpiries)
    /\ surf' = {}
    /\ UNCHANGED <<world, wire, managed, catalog, op, state, history>>

\* The catalog file is edited and reloaded.  The author names the revisions,
\* so an edit may also change what a revision in use means.
CatalogReload ==
    /\ Disturb("reloads", MaxReloads)
    /\ catalog' \in Catalogs \ {catalog}
    /\ UNCHANGED <<world, wire, surf, managed, op, state, history>>

\* Mutant: the old snapshot survives the restart.
CrashKeepsSnapshot ==
    /\ Disturb("crashes", MaxCrashes)
    /\ managed' = {} /\ published' = {}
    /\ op' = [w \in Workspaces |-> IdleOp]
    /\ wire' = [i \in DOMAIN wire |-> [wire[i] EXCEPT !.live = FALSE]]
    /\ UNCHANGED <<world, surf, catalog, state, launches, asked>>

\* Mutant: whatever was interrupted is run again as a reconciliation.
CrashReconciles ==
    /\ Disturb("crashes", MaxCrashes)
    /\ surf' = {} /\ managed' = {} /\ published' = {}
    /\ \E again \in SUBSET {w \in Workspaces : op[w].phase # "idle"} :
          op' = [w \in Workspaces |->
                   IF w \in again THEN [IdleOp EXCEPT !.phase = "reconcile"] ELSE IdleOp]
    /\ wire' = [i \in DOMAIN wire |-> [wire[i] EXCEPT !.live = FALSE]]
    /\ UNCHANGED <<world, catalog, state, launches, asked>>

\* The daemon dies and is restarted.  The state objects are durable; launch
\* evidence, snapshots and waiting requests are not.  Emitted actions are still
\* delivered.  Whether Axiom runs an interrupted activity again is its choice.
Crash ==
    /\ Disturb("crashes", MaxCrashes)
    /\ surf' = {} /\ managed' = {} /\ published' = {}
    /\ \E again \in SUBSET {w \in Workspaces : op[w].phase # "idle"} :
          op' = [w \in Workspaces |->
                   IF w \in again
                   THEN [IdleOp EXCEPT !.phase =
                           IF state[w].status = "closing" THEN "close" ELSE "reconcile"]
                   ELSE IdleOp]
    /\ wire' = [i \in DOMAIN wire |-> [wire[i] EXCEPT !.live = FALSE]]
    /\ UNCHANGED <<world, catalog, state, launches, asked>>

-----------------------------------------------------------------------------
Event(w) == Activate(w) \/ Recover(w) \/ Resume(w) \/ Close(w) \/ Suspend(w)

\* The steps of the goroutine that runs w's activity.
ActivityStep(w) ==
    \/ ReconcileStart(w) \/ EnsureSend(w) \/ EnsureAccepted(w) \/ EnsureReady(w)
    \/ EnsureFails(w) \/ ReconcileDone(w)
    \/ CloseStart(w) \/ CloseNext(w) \/ CloseSend(w) \/ CloseAccepted(w)
    \/ CloseAbsent(w) \/ CloseFails(w) \/ CloseDone(w)
    \/ Commit(w)

Shell == ShellEnsures \/ ShellCloses \/ ShellDeclines

Environment ==
    \/ \E a \in Apps : UserLaunches(a) \/ AppOpensWindow(a) \/ AppEnds(a)
    \/ \E x \in wins : AppClosesWindow(x)
    \/ Publish \/ Expire \/ CatalogReload \/ Crash

Next ==
    \/ \E w \in Workspaces : Event(w) \/ ActivityStep(w)
    \/ Shell
    \/ Environment

Spec == Init /\ [][Next]_vars

\* A running activity is scheduled and every wait in it has a deadline; the
\* extension's two-second heartbeat keeps publishing.
Fairness ==
    /\ \A w \in Workspaces : WF_vars(ActivityStep(w))
    /\ WF_vars(Publish)

FairSpec == Spec /\ Fairness

-----------------------------------------------------------------------------
(***************************************************************************)
(* Properties                                                              *)
(***************************************************************************)

\* Launch evidence is sound: the adapter holds it for a resource only if the
\* shell launched an application for exactly that resource in this daemon
\* process.  A late or lost answer, a restart or another workspace's launch
\* never creates it.
EvidenceSound ==
    \A w \in Workspaces, r \in Resources : <<w, r>> \in managed =>
        \E l \in launches : l.run = used["crashes"] /\ l.target = [ws |-> w, res |-> r]

\* Close asks a window of an application to close on behalf of a resource only
\* if the shell launched that application for that resource: applications that
\* were running already (adopted) survive every Close, across restarts,
\* timeouts and late deliveries.
OnlyLaunchedAsked ==
    \A e \in asked : \E l \in launches : l.target = e.target /\ l.app = e.app

\* An application instance that the user started is never asked to close.
UserAppNeverAsked == \A e \in asked : e.by # "user"

\* The durable record of an active workspace never shows a required resource
\* unreached, whatever operations, failures and restarts came before.
ActiveIsComplete ==
    /\ TypeOK
    /\ \A w \in Workspaces :
         state[w].status = "active" => state[w].reached = state[w].total

\* A workspace becomes active only if every application its definition requires
\* has been seen with a window in a snapshot this daemon process received:
\* accepted commands and snapshots from before a restart are no evidence.
ActiveWasObserved ==
    [][\A w \in Workspaces :
          state[w].status # "active" /\ state'[w].status = "active" =>
             \A r \in RequiredOf(op[w].def) : op[w].def[r].app \in published]_vars

\* When Close reports "inactive", every window it undertook to close is gone
\* from the desktop, not merely asked to close.
CloseIsConfirmed ==
    \A w \in Workspaces :
        /\ op[w].phase = "commit"
        /\ state[w].status = "closing" /\ state'[w].status = "inactive"
        => \A r \in Resources, x \in wins : x.id \notin op[w].session[r]

CloseConfirmed == [][CloseIsConfirmed]_vars

\* The activity that op[w] is a step of; the outcome to be written is that of the
\* activity the status started.
ActivityOf(w) ==
    CASE op[w].phase = "idle" -> "none"
      [] op[w].phase \in {"reconcile", "ensure", "awaitEnsure", "waitReady"} -> "reconcile"
      [] op[w].phase \in {"close", "closeNext", "closeWindows", "awaitClose"} -> "close"
      [] op[w].phase = "commit" -> IF state[w].status = "closing" THEN "close" ELSE "reconcile"

Record == INSTANCE WorkspaceRecord WITH activity <- [w \in Workspaces |-> ActivityOf(w)]

\* The whole machine, with its shell, its desktop and its restarts, changes a record
\* only by the rules of the lifecycle: each activity ends once, in a status its rule
\* allows and with the verdict that fits what it reached, and writes over nothing
\* that changed meanwhile.
ImplementsRecord == Record!Spec

\* Every operation settles, whatever the shell, the user, the applications and
\* the catalog do: no workspace stays preparing, recovering or closing for ever
\* unless the daemon is restarted (what Axiom does then is its choice).
OperationSettles ==
    \A w \in Workspaces :
        state[w].status \in Busy ~> state[w].status \notin Busy \/ used["crashes"] > 0
=============================================================================
