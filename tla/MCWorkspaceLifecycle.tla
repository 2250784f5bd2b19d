------------------------ MODULE MCWorkspaceLifecycle ------------------------
(* Instances of WorkspaceLifecycle for TLC: the catalogs of the runs.      *)
EXTENDS WorkspaceLifecycle, TLC

CONSTANTS w1, w2, a1, a2, v1, v2

Managed(a, req) == [app |-> a, ownership |-> "managed", required |-> req]
Adopted(a, req) == [app |-> a, ownership |-> "adopted", required |-> req]
External(a, req) == [app |-> a, ownership |-> "external", required |-> req]

\* A catalog with the definitions defs of the one workspace w1.
Catalog(defs, v) == [defs |-> w1 :> defs, active |-> w1 :> v]

\* One managed application.
OneApp == 1 :> Managed(a1, TRUE)

\* A second required resource, adopted or external.
AndAdopted  == OneApp @@ 2 :> Adopted(a2, TRUE)
AndExternal == OneApp @@ 2 :> External(a2, TRUE)

OneAppCatalog == {Catalog(v1 :> OneApp, v1)}

\* Edits that keep the application of each resource: another revision with a
\* second resource; that revision rewritten and no active revision.
EditedCatalogs == {Catalog(v1 :> OneApp, v1), Catalog(v2 :> AndAdopted, v2),
                   Catalog(v1 :> OneApp @@ v2 :> AndExternal, NoRev)}

\* Two workspaces use one application.
SharedCatalog == {[defs |-> w1 :> (v1 :> OneApp) @@ w2 :> (v1 :> OneApp),
                   active |-> w1 :> v1 @@ w2 :> v1]}

\* No edit of the runs points a resource to another application.
ASSUME CatalogsAreStable == StableApps
=============================================================================
