-------------------------- MODULE WorkspaceRecord --------------------------
(***************************************************************************)
(* What the rules of workspace.BuildDefinition (internal/orchestration/    *)
(* workspace/model.go) promise about the durable record of a workspace,    *)
(* without the desktop, the shell, the catalog and the steps of an         *)
(* activity: an event sets the status and starts the activity of that      *)
(* status; the activity ends once, with one of its outcomes, which the     *)
(* rule that ran it writes into the record.  WorkspaceLifecycle implements *)
(* this.                                                                   *)
(***************************************************************************)
CONSTANTS
    Workspaces,   \* workspace ids
    Resources,    \* resource ids
    Revisions,    \* definition revisions
    NoRev         \* the empty revision of a workspace never activated

VARIABLES
    state,        \* state[w]: the Axiom state object
    activity      \* activity[w]: "none", "reconcile" or "close"

vars == <<state, activity>>

Init ==
    /\ state = [w \in Workspaces |->
                  [status |-> "inactive", rev |-> NoRev, reached |-> {},
                   total |-> {}, code |-> ""]]
    /\ activity = [w \in Workspaces |-> "none"]

\* The rules that run an activity are triggered by a change of the status.
Started(w, a, old, new) ==
    \/ activity' = [activity EXCEPT ![w] = a]
    \/ old = new /\ UNCHANGED activity

\* Rules activate, recover, resume and closeRequested.  Only activate pins a
\* revision; it clears the failure of the operation before.
Request(w) ==
    /\ activity[w] = "none"
    /\ \/ /\ \E v \in Revisions :
                state' = [state EXCEPT ![w].status = "preparing", ![w].rev = v, ![w].code = ""]
          /\ Started(w, "reconcile", state[w].status, "preparing")
       \/ \E s \in {"preparing", "recovering"} :
             /\ state' = [state EXCEPT ![w].status = s]
             /\ Started(w, "reconcile", state[w].status, s)
       \/ /\ state' = [state EXCEPT ![w].status = "closing"]
          /\ Started(w, "close", state[w].status, "closing")

\* Rule suspend.
Suspend(w) ==
    /\ activity[w] = "none"
    /\ state' = [state EXCEPT ![w].status = "inactive"]
    /\ UNCHANGED activity

\* The verdict of a reconciliation that reached these of the required resources;
\* an Ensure that failed is reported whatever was reached.
Verdict(reached, total) ==
    IF reached = total THEN "active" ELSE IF reached # {} THEN "degraded" ELSE "failed"

Reason(reached, total) ==
    {"ensure_failed", IF reached = total THEN "" ELSE "required_resource_unreached"}

Write(w, status, reached, total, code) ==
    state' = [state EXCEPT ![w] =
        [status |-> status, rev |-> @.rev, reached |-> reached, total |-> total, code |-> code]]

\* Rules reconcilePreparing and reconcileRecovering.
Reconciled(w) ==
    /\ activity[w] = "reconcile" /\ state[w].status \in {"preparing", "recovering"}
    /\ activity' = [activity EXCEPT ![w] = "none"]
    /\ \/ Write(w, "failed", {}, {}, "definition_not_found")
       \/ \E total \in SUBSET Resources : \E reached \in SUBSET total :
             \E code \in Reason(reached, total) :
                Write(w, Verdict(reached, total), reached, total, code)

\* Rule closeManagedResources: the counts are not its outputs.
Closed(w) ==
    /\ activity[w] = "close" /\ state[w].status = "closing"
    /\ activity' = [activity EXCEPT ![w] = "none"]
    /\ \E end \in {<<"inactive", "">>, <<"degraded", "close_failed">>,
                   <<"failed", "definition_not_found">>} :
          Write(w, end[1], state[w].reached, state[w].total, end[2])

\* The daemon is restarted: an activity is run again, or left behind with its status.
Restart ==
    /\ \E again \in SUBSET {w \in Workspaces : activity[w] # "none"} :
          activity' = [w \in Workspaces |-> IF w \in again THEN activity[w] ELSE "none"]
    /\ UNCHANGED state

Next ==
    \/ \E w \in Workspaces : Request(w) \/ Suspend(w) \/ Reconciled(w) \/ Closed(w)
    \/ Restart

Spec == Init /\ [][Next]_vars
=============================================================================
