------------------------------ MODULE HomeGrid ------------------------------
(***************************************************************************)
(* The home grid of the shell (homeGrid.js) and the daemon it shows.  Its  *)
(* DaemonClient follows the owner of the bus name, says Hello, and on      *)
(* signals of the daemon reads the hierarchy and the workspace states      *)
(* again.  The user walks the tree and starts lifecycle operations, which  *)
(* daemon.Runtime runs and announces.                                      *)
(*                                                                         *)
(* The client is one thread, but its calls are asynchronous: several reads *)
(* may be outstanding, a call may fail or time out, the daemon may die at  *)
(* any time and come back.  In the daemon every call has a goroutine.      *)
(*                                                                         *)
(* Data: "busy" is preparing, recovering or closing, "impaired" degraded   *)
(* or failed; of a status record only the status is kept.  Revisions are   *)
(* not: the client never compares them.  The panel's cards are the subject *)
(* of PanelHub.                                                            *)
(***************************************************************************)
EXTENDS Hierarchy, SequencesExt

CONSTANTS
    Workspaces,   \* the workspaces of the catalog
    NoWorkspace,  \* no workspace, no lock
    WorkspaceOf,  \* WorkspaceOf[n]: the workspace of node n
    Files,        \* what the hierarchy file may contain
    DefaultTree,  \* the hierarchy of a new installation
    Absent,       \* no tree or no states yet
    Overtaking,   \* whether a read may be answered before an earlier one
    Budgets       \* bounds: what may happen in one behaviour, see Budget

\* How many operations the user starts here and hwsctl elsewhere, how often the
\* grid is opened, how many edits of the hierarchy file, deaths of the daemon and
\* failing calls or operations there are, and how many reads of a kind may be
\* outstanding.
Budget == [mutations : Nat, others : Nat, opens : Nat, edits : Nat, deaths : Nat,
           failures : Nat, reads : Nat]

ASSUME HomeGridAssumption ==
    /\ WorkspaceOf \in [Nodes -> Workspaces \cup {NoWorkspace}]
    /\ Files \subseteq Documents /\ DefaultTree \in Files /\ NewTree(DefaultTree)
    /\ NoWorkspace \notin Workspaces /\ Absent \notin Files /\ Overtaking \in BOOLEAN
    /\ Budgets \subseteq Budget

VARIABLES
    up, tree,     \* the daemon runs; its hierarchy, kept through restarts
    status, op,   \* workspace states; the operation a goroutine runs on each
    owner,        \* owner changes the client has not seen
    hello,        \* a Hello is outstanding
    hints,        \* signals the client has not seen
    calls,        \* outstanding GetTree and GetWorkspaceStates calls
    muts,         \* the operations started here
    available,    \* DaemonClient._available
    queued,       \* timers of queueTreeRefresh, queueWorkspaceStatesRefresh
    model, states,\* the dialog's _model and _workspaceStates
    path,         \* _path
    lock, token,  \* _mutatingWorkspace, _mutationToken
    unannounced,  \* history: workspaces changed since the last WorkspaceChanged
    missed,       \* history: what the client asked for last in vain
    budget        \* what remains of the budget

daemon  == <<up, tree, status, op>>
wire    == <<owner, hello, hints, calls>>
view    == <<available, queued, model, states>>
user    == <<path, lock, token, muts>>
history == <<unannounced, missed>>
vars == <<up, tree, status, op, owner, hello, hints, calls, muts, available, queued,
          model, states, path, lock, token, unannounced, missed, budget>>

Kinds    == {"tree", "states"}
Statuses == {"inactive", "busy", "active", "impaired"}
Ops      == {"idle", "reconcile", "close", "committed"}
Actions  == {"activate", "recover", "suspend", "close"}

\* A status that WorkspaceStatesJSON has not read yet.
Unread == "unread"

\* A call is done when it is answered, or failed with its daemon.
TreeReads  == [data : Files \cup {Absent}, done : BOOLEAN]
StateReads == [data : [Workspaces -> Statuses \cup {Unread}], done : {FALSE}]
                \cup [data : [Workspaces -> Statuses] \cup {Absent}, done : {TRUE}]
Failed     == [data |-> Absent, done |-> TRUE]

\* An operation is kept until the daemon has begun it and its callback has run;
\* open: the callback has not run.
Mutations == [ws : Workspaces, act : Actions, phase : {"sent", "running", "answered"},
              open : BOOLEAN, token : Nat]

TypeOK ==
    /\ up \in BOOLEAN /\ tree \in Files
    /\ status \in [Workspaces -> Statuses] /\ op \in [Workspaces -> Ops]
    /\ owner \in Seq({"lost", "gained"}) /\ hello \in BOOLEAN /\ hints \subseteq Kinds
    /\ calls \in [Kinds -> Seq(TreeReads) \cup Seq(StateReads)]
    /\ calls["tree"] \in Seq(TreeReads) /\ calls["states"] \in Seq(StateReads)
    /\ muts \subseteq Mutations
    /\ available \in BOOLEAN /\ queued \subseteq Kinds
    /\ model \in Files \cup {Absent}
    /\ states \in [Workspaces -> Statuses] \cup {Absent}
    /\ path \in Seq(Nodes) /\ lock \in Workspaces \cup {NoWorkspace} /\ token \in Nat
    /\ unannounced \subseteq Workspaces /\ missed \subseteq Kinds \cup {"hello"}
    /\ budget \in Budget

\* The daemon runs; the extension has just created its proxy.
Init ==
    /\ up = TRUE /\ tree = DefaultTree
    /\ status = [w \in Workspaces |-> "inactive"] /\ op = [w \in Workspaces |-> "idle"]
    /\ owner = <<"gained">> /\ hello = FALSE /\ hints = {}
    /\ calls = [k \in Kinds |-> <<>>] /\ muts = {}
    /\ available = FALSE /\ queued = {} /\ model = Absent /\ states = Absent
    /\ path = <<>> /\ lock = NoWorkspace /\ token = 0
    /\ unannounced = {} /\ missed = {}
    /\ budget \in Budgets

-----------------------------------------------------------------------------
Spend(e) == budget[e] > 0 /\ budget' = [budget EXCEPT ![e] = @ - 1]

\* Mutant: setAvailable(false) leaves the lock of an operation in flight.
OwnerLostKeepsLock ==
    /\ owner # <<>> /\ Head(owner) = "lost" /\ owner' = Tail(owner)
    /\ available' = FALSE /\ model' = Absent /\ states' = Absent /\ path' = <<>>
    /\ token' = token + 1
    /\ UNCHANGED <<daemon, hello, hints, calls, queued, lock, muts, history, budget>>

\* _ownerChanged without an owner: everything shown is cleared, and the token is
\* advanced, so that no answer to an earlier operation has an effect.
OwnerLost ==
    /\ owner # <<>> /\ Head(owner) = "lost" /\ owner' = Tail(owner)
    /\ available' = FALSE /\ model' = Absent /\ states' = Absent /\ path' = <<>>
    /\ lock' = NoWorkspace /\ token' = token + 1
    /\ UNCHANGED <<daemon, hello, hints, calls, queued, muts, history, budget>>

\* _ownerChanged with an owner: Hello, which fails if the owner is gone already.
OwnerGained ==
    /\ owner # <<>> /\ Head(owner) = "gained" /\ owner' = Tail(owner)
    /\ hello' = up
    /\ missed' = IF up THEN missed \ {"hello"} ELSE missed \cup {"hello"}
    /\ UNCHANGED <<daemon, hints, calls, view, user, unannounced, budget>>

\* Hello is answered: the client is available and reads everything anew.
HelloAnswered ==
    /\ hello /\ up /\ hello' = FALSE
    /\ available' = TRUE /\ queued' = Kinds
    /\ UNCHANGED <<daemon, owner, hints, calls, model, states, user, history, budget>>

\* Hello times out or is refused; it is not repeated.
HelloFails ==
    /\ Spend("failures") /\ hello /\ hello' = FALSE
    /\ missed' = missed \cup {"hello"}
    /\ UNCHANGED <<daemon, owner, hints, calls, view, user, unannounced>>

\* Mutant: a signal during an outstanding read starts no further one.
SignalDuringRead(k) ==
    /\ k \in hints /\ hints' = hints \ {k}
    /\ queued' = IF available /\ calls[k] = <<>> THEN queued \cup {k} ELSE queued
    /\ UNCHANGED <<daemon, owner, hello, calls, available, model, states, user, history, budget>>

\* g-signal: queue a read, unless the daemon is not available; the signals of the
\* next 30 ms share it.
Signal(k) ==
    /\ k \in hints /\ hints' = hints \ {k}
    /\ queued' = IF available THEN queued \cup {k} ELSE queued
    /\ UNCHANGED <<daemon, owner, hello, calls, available, model, states, user, history, budget>>

\* HomeGridController.open: both reads, in addition to those of the signals.
Open ==
    /\ available /\ queued' = Kinds /\ Spend("opens")
    /\ UNCHANGED <<daemon, wire, available, model, states, user, history>>

NotRead(k) == IF k = "tree" THEN Absent ELSE [w \in Workspaces |-> Unread]

\* The timer fires: refreshTree or refreshWorkspaceStates.  A call to a daemon
\* that is gone fails, and nobody is told.
Fire(k) ==
    /\ k \in queued /\ queued' = queued \ {k}
    /\ Len(calls[k]) < budget.reads
    /\ calls' = [calls EXCEPT ![k] = IF available /\ up
                  THEN Append(@, [data |-> NotRead(k), done |-> FALSE]) ELSE @]
    /\ missed' = IF up THEN missed \ {k} ELSE missed \cup {k}
    /\ UNCHANGED <<daemon, owner, hello, hints, available, model, states, user,
                   unannounced, budget>>

\* The reads the daemon may work on: all earlier ones are answered.
Serving(k) ==
    {i \in DOMAIN calls[k] : ~calls[k][i].done
        /\ (Overtaking \/ \A j \in 1..(i - 1) : calls[k][j].done)}

\* TreeJSON.
ServeTree(i) ==
    /\ up /\ i \in Serving("tree")
    /\ calls' = [calls EXCEPT !["tree"][i] = [data |-> tree, done |-> TRUE]]
    /\ UNCHANGED <<daemon, owner, hello, hints, view, user, history, budget>>

\* WorkspaceStatesJSON reads one workspace after the other.
ServeState(i, w) ==
    /\ up /\ i \in Serving("states") /\ calls["states"][i].data[w] = Unread
    /\ LET data == [calls["states"][i].data EXCEPT ![w] = status[w]]
       IN calls' = [calls EXCEPT !["states"][i] =
                      [data |-> data, done |-> \A v \in Workspaces : data[v] # Unread]]
    /\ UNCHANGED <<daemon, owner, hello, hints, view, user, history, budget>>

\* Mutant: setTree keeps the path.
ShowTreeKeepsPath(d) ==
    IF BuildTreeModel(d, RootOf(d))
    THEN model' = d /\ path' = (IF path = <<>> THEN <<RootOf(d)>> ELSE path)
    ELSE UNCHANGED <<model, path>>

\* setTree: a tree that is rejected leaves the last one in place.
ShowTree(d) ==
    IF BuildTreeModel(d, RootOf(d))
    THEN model' = d /\ path' = SanitizePath(d, path)
    ELSE UNCHANGED <<model, path>>

\* A read's callback, whether the daemon is still available or not; an error is
\* ignored.
Answer(k) ==
    \E i \in DOMAIN calls[k] :
        /\ calls[k][i].done /\ (Overtaking \/ i = 1)
        /\ calls' = [calls EXCEPT ![k] = RemoveAt(@, i)]
        /\ LET data == calls[k][i].data IN
           \/ data = Absent /\ UNCHANGED <<model, states, path>>
           \/ data # Absent /\ k = "tree" /\ ShowTree(data) /\ UNCHANGED states
           \/ data # Absent /\ k = "states" /\ states' = data /\ UNCHANGED <<model, path>>
        /\ UNCHANGED <<daemon, owner, hello, hints, available, queued, lock, token, muts,
                       history, budget>>

\* A read fails or is given up after 1.5 s; it is not repeated.
CallFails(k) ==
    /\ Spend("failures")
    /\ \E i \in DOMAIN calls[k] :
          /\ ~calls[k][i].done
          /\ calls' = [calls EXCEPT ![k] = RemoveAt(@, i)]
          /\ missed' = IF i = Len(calls[k]) THEN missed \cup {k} ELSE missed
    /\ UNCHANGED <<daemon, owner, hello, hints, view, user, unannounced>>

-----------------------------------------------------------------------------
(***************************************************************************)
(* The user.                                                               *)
(***************************************************************************)
Shown == available /\ model # Absent

\* _workspaceState: without states every workspace counts as inactive.
StatusShown(w) == IF states = Absent THEN "inactive" ELSE states[w]

\* workspacePresentation's primary action, and the buttons of the selected node;
\* a failed workspace has no suspend button, a degraded one has.
PrimaryAction(st) == CASE st \in {"inactive", "active"} -> {"activate"}
                       [] st = "impaired"               -> {"recover"}
                       [] OTHER                         -> {}
Buttons(st) ==
    PrimaryAction(st) \cup (IF st \in {"active", "impaired"} THEN {"suspend", "close"} ELSE {})

\* _mutateWorkspace, unless an operation is in flight: a new token, and the call,
\* which fails in a later step if the daemon is gone.
Mutate(w, act) ==
    IF lock # NoWorkspace THEN UNCHANGED <<lock, token, muts, budget>>
    ELSE /\ Spend("mutations")
         /\ lock' = w /\ token' = token + 1
         /\ muts' = muts \cup {[ws |-> w, act |-> act, open |-> TRUE, token |-> token + 1,
                                phase |-> IF up THEN "sent" ELSE "answered"]}

\* _choose: select the node; on a leaf, its primary action.
Choose(i, n) ==
    /\ Shown /\ i \in DOMAIN path /\ n \in ChildrenOf(model, path[i])
    /\ path' = SelectPathNode(model, path, i, n)
    /\ LET w == WorkspaceOf[n] IN
       IF \/ ChildrenOf(model, n) # {} \/ w = NoWorkspace
          \/ PrimaryAction(StatusShown(w)) = {}
       THEN UNCHANGED <<lock, token, muts, budget>>
       ELSE \E act \in PrimaryAction(StatusShown(w)) : Mutate(w, act)
    /\ UNCHANGED <<daemon, wire, view, history>>

\* A button below the selected leaf.
PressButton(act) ==
    /\ Shown /\ Len(path) > 1 /\ ChildrenOf(model, Last(path)) = {}
    /\ LET w == WorkspaceOf[Last(path)] IN
       /\ w # NoWorkspace /\ w # lock /\ act \in Buttons(StatusShown(w))
       /\ Mutate(w, act)
    /\ UNCHANGED <<daemon, wire, view, path, history>>

\* A click on a breadcrumb, and _goParent.
Crumb(i) ==
    /\ Shown /\ i \in DOMAIN path /\ i < Len(path)
    /\ path' = SubSeq(path, 1, i)
    /\ UNCHANGED <<daemon, wire, view, lock, token, muts, history, budget>>

\* _jumpToPath with the path of a search result.
Jump(n) ==
    /\ Shown /\ n \in DOMAIN model \ {RootOf(model)}
    /\ path' = SanitizePath(model, PathTo(model, n))
    /\ path' # path
    /\ UNCHANGED <<daemon, wire, view, lock, token, muts, history, budget>>

\* m becomes n.
Updated(m, n) == {k \in (muts \ {m}) \cup {n} : k.open \/ k.phase = "sent"}

\* Mutant: the callback does not compare tokens.
OverAnyToken(m) ==
    /\ muts' = Updated(m, [m EXCEPT !.open = FALSE])
    /\ lock' = NoWorkspace

\* The callback of an operation: the lock is released if the token is current.
Over(m) ==
    /\ muts' = Updated(m, [m EXCEPT !.open = FALSE])
    /\ lock' = IF m.token = token THEN NoWorkspace ELSE lock

MutationAnswered(m) ==
    /\ m.open /\ m.phase = "answered"
    /\ Over(m)
    /\ UNCHANGED <<daemon, wire, view, path, token, history, budget>>

\* The client gives up on the call; the daemon does not.
MutationTimesOut(m) ==
    /\ Spend("failures") /\ m.open /\ m.phase # "answered"
    /\ Over(m)
    /\ UNCHANGED <<daemon, wire, view, path, token, history>>

-----------------------------------------------------------------------------
(***************************************************************************)
(* The daemon.                                                             *)
(***************************************************************************)

\* RunHierarchyMaintenance: the file is compiled; a good one is announced.
EditHierarchy(d) ==
    /\ up /\ Spend("edits") /\ d # tree
    /\ IF NewTree(d) THEN tree' = d /\ hints' = hints \cup {"tree"}
       ELSE UNCHANGED <<tree, hints>>
    /\ UNCHANGED <<up, status, op, owner, hello, calls, view, user, history>>

\* Lifecycle.Activate, Recover, Close and Suspend: the event changes the status at
\* once; the operations of one workspace wait for each other.
Dispatch(w, act) ==
    /\ up /\ op[w] = "idle"
    /\ status' = [status EXCEPT ![w] = IF act = "suspend" THEN "inactive" ELSE "busy"]
    /\ op' = [op EXCEPT ![w] = CASE act = "suspend" -> "committed" [] act = "close" -> "close"
                                 [] OTHER -> "reconcile"]
    /\ unannounced' = unannounced \cup {w}
    /\ UNCHANGED <<up, tree, wire, view, path, lock, token, missed>>

MutationBegins(m) ==
    /\ m.phase = "sent" /\ Dispatch(m.ws, m.act)
    /\ muts' = Updated(m, [m EXCEPT !.phase = "running"])
    /\ UNCHANGED budget

\* The catalog or the lifecycle refuses: nothing changes but the answer.
MutationRefused(m) ==
    /\ up /\ m.phase = "sent"
    /\ muts' = Updated(m, [m EXCEPT !.phase = "answered"])
    /\ UNCHANGED <<daemon, wire, view, path, lock, token, history, budget>>

\* hwsctl starts an operation.
OtherBegins(w, act) == Spend("others") /\ Dispatch(w, act) /\ UNCHANGED muts

\* What the activity of an operation may report.
Outcomes(o) == CASE o = "reconcile" -> {"active", "impaired"}
                 [] o = "close"     -> {"inactive", "impaired"}
                 [] OTHER           -> {}

\* The activity's result is committed.
Commit(w) ==
    /\ op[w] \in {"reconcile", "close"}
    /\ \E st \in Outcomes(op[w]) : status' = [status EXCEPT ![w] = st]
    /\ op' = [op EXCEPT ![w] = "committed"]
    /\ unannounced' = unannounced \cup {w}
    /\ UNCHANGED <<up, tree, wire, view, user, missed, budget>>

\* The call that waits for w's operation is answered.
AnswerRunning(w) ==
    muts' = {IF m.ws = w /\ m.phase = "running" THEN [m EXCEPT !.phase = "answered"] ELSE m :
             m \in muts}

\* The end of runWorkspaceMutation: WorkspaceChanged, then the answer.
Notify(w) ==
    /\ op[w] = "committed" /\ op' = [op EXCEPT ![w] = "idle"]
    /\ hints' = hints \cup {"states"} /\ unannounced' = {}
    /\ AnswerRunning(w)
    /\ UNCHANGED <<up, tree, status, owner, hello, calls, view, path, lock, token,
                   missed, budget>>

\* The operation outlasts its deadline, or its state cannot be read: an error, and
\* no signal, whatever became of the status.
MutationFails(w) ==
    /\ Spend("failures") /\ op[w] # "idle" /\ op' = [op EXCEPT ![w] = "idle"]
    /\ \E st \in {status[w]} \cup Outcomes(op[w]) : status' = [status EXCEPT ![w] = st]
    /\ unannounced' = unannounced \cup {w}
    /\ AnswerRunning(w)
    /\ UNCHANGED <<up, tree, wire, view, path, lock, token, missed>>

\* The daemon dies: calls that were not answered fail.  States are durable.
DaemonDies ==
    /\ Spend("deaths") /\ up /\ up' = FALSE
    /\ owner' = Append(owner, "lost")
    /\ op' = [w \in Workspaces |-> "idle"]
    /\ hello' = FALSE /\ missed' = IF hello THEN missed \cup {"hello"} ELSE missed
    /\ calls' = [k \in Kinds |-> [i \in DOMAIN calls[k] |->
                    IF calls[k][i].done THEN calls[k][i] ELSE Failed]]
    /\ muts' = {[m EXCEPT !.phase = "answered"] : m \in {m \in muts : m.open}}
    /\ UNCHANGED <<tree, status, hints, view, path, lock, token, unannounced>>

DaemonStarts ==
    /\ ~up /\ up' = TRUE /\ owner' = Append(owner, "gained")
    /\ UNCHANGED <<tree, status, op, hello, hints, calls, view, user, history, budget>>

-----------------------------------------------------------------------------
Reading(k) ==
    \/ k = "tree" /\ \E i \in DOMAIN calls["tree"] : ServeTree(i)
    \/ k = "states" /\ \E i \in DOMAIN calls["states"], w \in Workspaces : ServeState(i, w)

ClientStep(k) == Signal(k) \/ Fire(k) \/ Reading(k) \/ Answer(k)

UserStep ==
    \/ Open
    \/ \E i \in DOMAIN path : Crumb(i) \/ \E n \in Nodes : Choose(i, n)
    \/ \E n \in Nodes : Jump(n)
    \/ \E act \in Actions : PressButton(act)

Next ==
    \/ OwnerLost \/ OwnerGained \/ HelloAnswered \/ HelloFails
    \/ \E k \in Kinds : ClientStep(k) \/ CallFails(k)
    \/ UserStep
    \/ \E m \in muts : MutationAnswered(m) \/ MutationTimesOut(m)
                       \/ MutationBegins(m) \/ MutationRefused(m)
    \/ \E d \in Files : EditHierarchy(d)
    \/ \E w \in Workspaces :
          \/ \E act \in Actions : OtherBegins(w, act)
          \/ Commit(w) \/ Notify(w) \/ MutationFails(w)
    \/ DaemonDies \/ DaemonStarts

Spec == Init /\ [][Next]_vars

\* The main loop of the shell runs its timers and callbacks, the daemon's
\* goroutines are scheduled, and every operation has a deadline.
Fairness ==
    /\ WF_vars(OwnerLost \/ OwnerGained) /\ WF_vars(HelloAnswered)
    /\ \A k \in Kinds :
          /\ WF_vars(Signal(k)) /\ WF_vars(Fire(k))
          /\ WF_vars(Reading(k)) /\ WF_vars(Answer(k))
    /\ WF_vars(\E m \in muts : MutationAnswered(m))
    /\ WF_vars(\E m \in muts : MutationBegins(m) \/ MutationRefused(m))
    /\ \A w \in Workspaces : WF_vars(Commit(w)) /\ WF_vars(Notify(w))

FairSpec == Spec /\ Fairness

-----------------------------------------------------------------------------
(***************************************************************************)
(* Properties                                                              *)
(***************************************************************************)

\* Whatever the file contained and whatever answers came late, the daemon serves
\* and the home grid shows a tree, and the breadcrumbs are the way from the root
\* of the tree shown to a node of it, although nodes move and vanish under the
\* user's hands.
PathIsRooted ==
    /\ TypeOK
    /\ IsTree(tree)
    /\ model = Absent => path = <<>>
    /\ model # Absent => /\ IsTree(model)
                         /\ path # <<>> /\ Last(path) \in DOMAIN model
                         /\ path = PathTo(model, Last(path))

\* The lock is held exactly while the callback of the operation that took it is
\* to come: neither a late answer to an operation from before the daemon was lost
\* releases the lock of a newer one, nor is the grid locked for nothing.
LockHasItsCall ==
    /\ lock # NoWorkspace =>
          \E m \in muts : m.open /\ m.token = token /\ m.ws = lock
    /\ \A m \in muts : m.open /\ m.token = token => m.ws = lock

\* The grid does not stay locked, whatever becomes of the operation.
LockIsReleased == lock # NoWorkspace ~> lock = NoWorkspace

\* Once nothing changes any more, the client is connected and shows the daemon's
\* tree and states: signals that are coalesced, dropped before the handshake or
\* sent during a read lose nothing.  The excuses are a Hello or a last read that
\* failed, which nobody repeats, and the status of an operation that ended in an
\* error, which nobody announces.
ClientFollowsDaemon ==
    <>[](\/ ~up \/ "hello" \in missed
         \/ /\ available
            /\ "tree" \in missed \/ model = tree
            /\ \/ "states" \in missed
               \/ states # Absent /\ \A w \in Workspaces \ unannounced : states[w] = status[w])
=============================================================================
