----------------------------- MODULE Placement -----------------------------
(***************************************************************************)
(* Placing the window of a workspace's application: the second half of     *)
(* Desktop.Ensure (ensurePlacement, waitReady, and Observe) in the daemon, *)
(* ShellExecutor._placeWindow in the shell, and between them the snapshots *)
(* from which the daemon knows monitors and windows.                       *)
(*                                                                         *)
(* A snapshot reaches the daemon in two stores: the surface, in which      *)
(* waitPresent looks for the application, and then Runtime.shellSnapshot,  *)
(* from which placements are resolved.  Monitors come and go, the user     *)
(* moves windows and applications open and close them at any time.  How    *)
(* snapshots are delivered, and expire, is the subject of ShellSnapshots;  *)
(* how requests are matched with answers, of ShellActionBroker.            *)
(***************************************************************************)
EXTENDS PlacementGeometry, Sequences

CONSTANTS
    DisplaySet,   \* the displays that may be connected
    Intents,      \* the placements a workspace may ask for
    WindowIds,    \* numbers: anchorWindow takes the smallest
    Frames,       \* where users and applications put windows
    Slops,        \* by how much Mutter misses a frame it is asked for
    MaxWorkspaces,\* bound: GNOME's workspaces
    Nothing,      \* no snapshot
    Budgets       \* bounds: what may happen in one behaviour, see Budget

\* Operations, changes of the display, of windows and of the number of
\* workspaces, and deadlines that pass.
Budget == [ensures : Nat, displays : Nat, windows : Nat, workspaces : Nat, deadlines : Nat]

Window == [monitor : Int, workspace : Int, frame : Rects, placeable : BOOLEAN]
Intent == [role : Int, workspace : Nat, rect : Normalized]

ASSUME PlacementAssumption ==
    /\ (\A d \in DisplaySet : IsDisplay(d)) /\ Intents \subseteq Intent
    /\ WindowIds \subseteq Nat /\ Frames \subseteq Rects /\ Slops \subseteq Int
    /\ MaxWorkspaces \in Nat \ {0} /\ Budgets \subseteq Budget

VARIABLES
    intent,     \* the resource's placement
    display,    \* the monitors
    workspaces, \* how many there are
    windows,    \* the application's windows by their id
    sent,       \* the snapshot that was published last, or Nothing if it failed
    incoming,   \* the snapshot that the daemon handles, or Nothing
    published,  \* incoming is in the surface already
    surface,    \* ids of the application's windows in Hub.surfaceSnapshot
    retained,   \* Runtime.shellSnapshot, or Nothing
    op,         \* the operation: its number, phase, expected topology and result
    requests,   \* place_window signals on their way to the shell
    placed,     \* history: the last target the shell moved a window to, and when
    budget      \* what remains of the budget

shell == <<display, workspaces, windows>>
delivery == <<sent, incoming, published, surface, retained>>
vars == <<intent, display, workspaces, windows, sent, incoming, published, surface, retained,
          op, requests, placed, budget>>

\* _shellPayload
Snapshot == [topology |-> CaptureTopology(display), windows |-> windows]

Phases == {"idle", "present", "resolve", "asked", "placing", "final"}
Results == {"none", "ready", "unresolved", "unobserved", "refused", "topology", "deadline"}

IsWindows(ws) == DOMAIN ws \subseteq WindowIds /\ \A w \in DOMAIN ws : ws[w] \in Window

Topologies == {CaptureTopology(d) : d \in DisplaySet}

\* A snapshot shows a display and windows that may exist.
IsSnapshot(s) == s.topology \in Topologies /\ IsWindows(s.windows)

Targets == {ResolvePlacement(i, t) : i \in Intents, t \in Topologies} \ {NoTarget}

Requests == [op : Nat, target : Targets, window : WindowIds]
Operations == [number : Nat, phase : Phases, expected : Topologies \cup {NoTarget},
               result : Results]

TypeOK ==
    /\ intent \in Intents /\ display \in DisplaySet /\ workspaces \in 1..MaxWorkspaces
    /\ IsWindows(windows)
    /\ published \in BOOLEAN /\ (published => incoming # Nothing)
    /\ incoming # Nothing => IsSnapshot(incoming)
    /\ retained # Nothing => IsSnapshot(retained)
    /\ surface \subseteq WindowIds
    /\ op \in Operations /\ requests \in Seq(Requests)
    /\ budget \in Budget

Init ==
    /\ intent \in Intents /\ display \in DisplaySet /\ workspaces = MaxWorkspaces
    /\ windows = <<>>
    /\ sent = Nothing /\ incoming = Nothing /\ published = FALSE /\ surface = {}
    /\ retained = Nothing
    /\ op = [number |-> 0, phase |-> "idle", expected |-> NoTarget, result |-> "none"]
    /\ requests = <<>> /\ placed = Nothing
    /\ budget \in Budgets

Spend(e) == budget[e] > 0 /\ budget' = [budget EXCEPT ![e] = @ - 1]

-----------------------------------------------------------------------------
(***************************************************************************)
(* The desktop.                                                            *)
(***************************************************************************)

\* A monitor is plugged in or out, becomes the primary one, or its work area or
\* scale changes.  Mutter sees to it that windows are on a monitor that exists.
DisplayChange ==
    /\ Spend("displays") /\ display' \in DisplaySet \ {display}
    /\ LET on == DOMAIN display'.monitors IN
       windows' = [w \in DOMAIN windows |->
         IF on = {} \/ windows[w].monitor \in on THEN windows[w]
         ELSE [windows[w] EXCEPT !.monitor = display'.primary]]
    /\ UNCHANGED <<intent, workspaces, delivery, op, requests, placed>>

\* A window is opened, moved, maximized or restored.
WindowChange ==
    /\ Spend("windows") /\ DOMAIN display.monitors # {}
    /\ \E w \in WindowIds, f \in Frames, i \in DOMAIN display.monitors, p \in BOOLEAN :
         windows' = [x \in DOMAIN windows \cup {w} |->
            IF x = w THEN [monitor |-> i, workspace |-> 0, frame |-> f, placeable |-> p]
            ELSE windows[x]]
    /\ windows' # windows
    /\ UNCHANGED <<intent, display, workspaces, delivery, op, requests, placed>>

WindowCloses ==
    /\ Spend("windows")
    /\ \E w \in DOMAIN windows : windows' = [x \in DOMAIN windows \ {w} |-> windows[x]]
    /\ UNCHANGED <<intent, display, workspaces, delivery, op, requests, placed>>

\* GNOME removes the last workspace, or adds one.
WorkspacesChange ==
    /\ Spend("workspaces") /\ workspaces' \in (1..MaxWorkspaces) \ {workspaces}
    /\ windows' = [w \in DOMAIN windows |->
         [windows[w] EXCEPT !.workspace = IF @ < workspaces' THEN @ ELSE workspaces' - 1]]
    /\ UNCHANGED <<intent, display, delivery, op, requests, placed>>

-----------------------------------------------------------------------------
(***************************************************************************)
(* Snapshots.                                                              *)
(***************************************************************************)

\* _publishNative: what was not published yet, one call at a time.
PublishNative ==
    /\ incoming = Nothing /\ sent # Snapshot
    /\ sent' = Snapshot /\ incoming' = Snapshot
    /\ UNCHANGED <<intent, shell, published, surface, retained, op, requests, placed, budget>>

\* Mutant: a snapshot that cannot be decoded is published all the same.
RefuseLate ==
    /\ incoming # Nothing /\ ~ValidTopology(incoming.topology)
    /\ incoming' = Nothing /\ sent' = Nothing /\ published' = TRUE
    /\ UNCHANGED <<intent, shell, surface, retained, op, requests, placed, budget>>

\* gnomeshell.Decode refuses a snapshot without a valid topology, as a whole; the
\* extension will send it again.
Refuse ==
    /\ incoming # Nothing /\ ~published /\ ~ValidTopology(incoming.topology)
    /\ incoming' = Nothing /\ sent' = Nothing
    /\ UNCHANGED <<intent, shell, published, surface, retained, op, requests, placed, budget>>

\* Hub.ReplaceShellSnapshotJSON in Runtime.ReplaceShellSnapshotJSON.
ReplaceSurface ==
    /\ incoming # Nothing /\ ~published /\ ValidTopology(incoming.topology)
    /\ surface' = DOMAIN incoming.windows /\ published' = TRUE
    /\ UNCHANGED <<intent, shell, sent, incoming, retained, op, requests, placed, budget>>

\* Mutant: only the first snapshot is retained, and those with another topology.
RetainTopology ==
    /\ published
    /\ retained' = IF retained = Nothing \/ retained.topology # incoming.topology
                   THEN incoming ELSE retained
    /\ incoming' = Nothing /\ published' = FALSE
    /\ UNCHANGED <<intent, shell, sent, surface, op, requests, placed, budget>>

\* Then the snapshot is retained.
Retain ==
    /\ published
    /\ retained' = incoming /\ incoming' = Nothing /\ published' = FALSE
    /\ UNCHANGED <<intent, shell, sent, surface, op, requests, placed, budget>>

-----------------------------------------------------------------------------
(***************************************************************************)
(* The operation.                                                          *)
(***************************************************************************)
EnsureBegin ==
    /\ Spend("ensures") /\ op.phase = "idle"
    /\ op' = [number |-> op.number + 1, phase |-> "present", expected |-> NoTarget,
              result |-> "none"]
    /\ UNCHANGED <<intent, shell, delivery, requests, placed>>

End(result) == op' = [op EXCEPT !.phase = "idle", !.result = result]

\* waitPresent
Present ==
    /\ op.phase = "present" /\ surface # {}
    /\ op' = [op EXCEPT !.phase = "resolve"]
    /\ UNCHANGED <<intent, shell, delivery, requests, placed, budget>>

\* anchorWindow
Anchor(ids) == CHOOSE w \in ids : \A x \in ids : w <= x

\* resolvePlacement for the retained snapshot, whose topology may be empty.
Target == IF retained = Nothing THEN NoTarget ELSE ResolvePlacement(intent, retained.topology)

\* placementReached for the retained snapshot.
Reached ==
    /\ Target # NoTarget /\ DOMAIN retained.windows # {}
    /\ PlacementReached(Target, retained.windows[Anchor(DOMAIN retained.windows)],
                        retained.topology)

\* ensurePlacement up to its request, all from one look at the retained snapshot.
\* The snapshot lists applications with windows only.
EnsurePlacement ==
    /\ op.phase = "resolve"
    /\ \/ Target = NoTarget /\ End("unresolved") /\ UNCHANGED requests
       \/ /\ Target # NoTarget /\ DOMAIN retained.windows = {}
          /\ End("unobserved") /\ UNCHANGED requests
       \/ /\ Reached
          /\ op' = [op EXCEPT !.phase = "final"] /\ UNCHANGED requests
       \/ /\ Target # NoTarget /\ DOMAIN retained.windows # {} /\ ~Reached
          /\ op' = [op EXCEPT !.phase = "asked", !.expected = retained.topology]
          /\ requests' = Append(requests, [op |-> op.number, target |-> Target,
                                           window |-> Anchor(DOMAIN retained.windows)])
    /\ UNCHANGED <<intent, shell, delivery, placed, budget>>

\* Observe: the application is in the surface and its placement is reached.
Ready == surface # {} /\ Reached

Topology == IF retained = Nothing THEN NoTarget ELSE retained.topology

\* waitReady with the topology that the target was resolved for.
WaitPlaced ==
    /\ op.phase = "placing"
    /\ \/ Topology # op.expected /\ End("topology")
       \/ Topology = op.expected /\ Ready /\ op' = [op EXCEPT !.phase = "final"]
    /\ UNCHANGED <<intent, shell, delivery, requests, placed, budget>>

\* Ensure's own waitReady, for any topology.
WaitReady ==
    /\ op.phase = "final" /\ Ready /\ End("ready")
    /\ UNCHANGED <<intent, shell, delivery, requests, placed, budget>>

\* The broker's timeout, or the context's deadline in one of the waits.
Deadline ==
    /\ Spend("deadlines") /\ op.phase \in {"present", "asked", "placing", "final"}
    /\ End("deadline")
    /\ UNCHANGED <<intent, shell, delivery, requests, placed>>

-----------------------------------------------------------------------------
(***************************************************************************)
(* ShellExecutor._placeWindow.                                             *)
(***************************************************************************)
Request == Head(requests)

\* Mutant: the monitor is looked up, the topology not compared.
AcceptsMonitor ==
    /\ Request.target.monitor \in DOMAIN display.monitors
    /\ Request.window \in DOMAIN windows
    /\ windows[Request.window].placeable
    /\ Request.target.workspace < workspaces

\* None of the refusals: the topology differs, the monitor, the window or the
\* workspace is gone, the window is maximized or of a fixed size.
Accepts ==
    /\ CaptureTopology(display) = Request.target.topology
    /\ Request.target.monitor \in DOMAIN display.monitors
    /\ Request.window \in DOMAIN windows
    /\ windows[Request.window].placeable
    /\ Request.target.workspace < workspaces

\* The broker hands the answer to the operation that waits for it, if any.
Answer(success) ==
    IF op.phase = "asked" /\ op.number = Request.op
    THEN IF success THEN op' = [op EXCEPT !.phase = "placing"] ELSE End("refused")
    ELSE UNCHANGED op

\* The window is moved; Mutter's frame may differ a little.
Moved(slop) ==
    windows' = [windows EXCEPT ![Request.window] =
        [@ EXCEPT !.monitor = Request.target.monitor, !.workspace = Request.target.workspace,
                  !.frame = [Request.target.rect EXCEPT !.x = @ + slop, !.width = @ - slop]]]

\* The executor runs in the compositor's only thread: when it looks at the topology
\* again, after the move, it is the same.
PlaceWindow ==
    /\ requests # <<>> /\ Accepts
    /\ \E slop \in Slops : Moved(slop)
    /\ placed' = [target |-> Request.target, display |-> display]
    /\ Answer(TRUE) /\ requests' = Tail(requests)
    /\ UNCHANGED <<intent, display, workspaces, delivery, budget>>

RefuseWindow ==
    /\ requests # <<>> /\ ~Accepts
    /\ Answer(FALSE) /\ requests' = Tail(requests)
    /\ UNCHANGED <<intent, shell, delivery, placed, budget>>

-----------------------------------------------------------------------------
\* What the daemon and the extension do on their own.
Progress ==
    \/ PublishNative \/ Refuse \/ ReplaceSurface \/ Retain
    \/ Present \/ EnsurePlacement \/ WaitPlaced \/ WaitReady
    \/ PlaceWindow \/ RefuseWindow

Next ==
    \/ Progress
    \/ DisplayChange \/ WindowChange \/ WindowCloses \/ WorkspacesChange
    \/ EnsureBegin \/ Deadline

Spec == Init /\ [][Next]_vars

\* The shell publishes and answers, the daemon handles calls and polls; no order
\* among them is assumed.
Fairness == WF_vars(Progress)

FairSpec == Spec /\ Fairness

-----------------------------------------------------------------------------
(***************************************************************************)
(* Properties                                                              *)
(***************************************************************************)

\* docs/INVARIANTS.md, I-36: a change of the topology invalidates placements that
\* were resolved before it.  However late a request arrives, and whoever still
\* waits for it, a window is only moved to where the intent belongs on the monitors
\* that are connected at that moment.
PlacedForItsDisplay ==
    placed # Nothing =>
        placed.target = ResolvePlacement(intent, CaptureTopology(placed.display))

\* A target lies in the work area of its monitor, whatever is rounded and cut off on
\* the way, and a window that is taken to have reached it lies there too, up to the
\* tolerance.
PlacementIsInside ==
    Target # NoTarget =>
        LET area == retained.topology.monitors[Target.monitor].workArea
        IN /\ Inside(Target.rect, area, 0)
           /\ Reached => Inside(retained.windows[Anchor(DOMAIN retained.windows)].frame, area,
                                2 * Tolerance)

\* An operation that found the application in the surface, and then not in the
\* retained snapshot, either met the moment between the two stores of a snapshot,
\* or the application's windows are gone.
UnobservedOnlyInTransit ==
    [][op'.result = "unobserved" /\ op.phase = "resolve" => published \/ surface = {}]_vars

\* Nothing disturbs the desktop any more, and the daemon knows it as it is.
Calm ==
    /\ \A e \in DOMAIN budget : budget[e] = 0
    /\ requests = <<>> /\ incoming = Nothing /\ retained = Snapshot
    /\ surface = DOMAIN windows /\ surface # {} /\ windows[Anchor(surface)].placeable
    /\ Target # NoTarget /\ intent.workspace < workspaces

\* Then an operation succeeds, however its window stands at the beginning, and
\* although Mutter does not hit the frame exactly.
CalmEnsureSucceeds ==
    (op.phase = "present" /\ Calm) ~> (op.phase = "idle" /\ op.result = "ready")
=============================================================================
