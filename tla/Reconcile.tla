----------------------------- MODULE Reconcile -----------------------------
(***************************************************************************)
(* The pure part of reconciliation: internal/domain/reconcile.go and the   *)
(* verdicts of internal/application/reconcile/reconciler.go.               *)
(*                                                                         *)
(* A definition (domain.DesiredState) is a function from resource ids to   *)
(* specs [app, ownership, required].  An observation is the set of the     *)
(* resources that are present and ready.                                   *)
(***************************************************************************)
EXTENDS FiniteSets

Ownerships == {"managed", "adopted", "external"}

\* BuildReconcilePlan: ensure what is not ready, leave external resources be.
BuildReconcilePlan(def, ready) ==
    {r \in DOMAIN def : r \notin ready /\ def[r].ownership # "external"}

\* EvaluateReconcile: the required resources, and those of them reached.
RequiredOf(def) == {r \in DOMAIN def : def[r].required}
ReachedOf(def, ready) == RequiredOf(def) \cap ready

\* Mutant: one reached resource is enough for "active".
TargetStatusAny(def, ready) ==
    IF ReachedOf(def, ready) # {} \/ RequiredOf(def) = {} THEN "active" ELSE "failed"

\* Result.TargetStatus.  The code compares the two counts; a subset of a finite
\* set has its cardinality exactly when it is the whole set.
TargetStatus(def, ready) ==
    IF ReachedOf(def, ready) = RequiredOf(def) THEN "active"
    ELSE IF ReachedOf(def, ready) # {} THEN "degraded" ELSE "failed"

\* Result.FailureCode.
FailureCode(def, ready, failed) ==
    IF failed THEN "ensure_failed"
    ELSE IF ReachedOf(def, ready) # RequiredOf(def)
         THEN "required_resource_unreached" ELSE ""
=============================================================================
