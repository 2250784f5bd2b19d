---------------------------- MODULE SurfaceMerge ----------------------------
(***************************************************************************)
(* How Registry.Apply (internal/providers/registry.go) lays the snapshot   *)
(* of a rich provider, an editor or a browser, over what the shell         *)
(* observes: which application it belongs to, and which of its windows     *)
(* show the provider's views.                                              *)
(*                                                                         *)
(* A native world is a function from the applications the shell shows to   *)
(* their windows; a surface gives each window the provider's views in it.  *)
(* Identity keys stand for the application's id, its desktop id and its    *)
(* hints, in the normal form of identityKeys.                              *)
(***************************************************************************)
EXTENDS Naturals, FiniteSets, Functions, SequencesExt

CONSTANTS
    Views,        \* tabs
    MaxPatch,     \* the windows of a browser are 1..MaxPatch
    PatchOf,      \* PatchOf[v]: the browser's window of tab v
    NativeKeys,   \* NativeKeys[a]: identity keys of application a
    ProviderKeys, \* identity keys of the provider's snapshots
    ProviderApp,  \* the application id the provider claims
    Ambiguous     \* the key of two applications

ASSUME SurfaceMergeAssumption ==
    MaxPatch \in Nat \ {0} /\ PatchOf \in [Views -> 1..MaxPatch]

\* Mutant: the last application of a key has it.
AddKeysLast(index, a) ==
    [k \in DOMAIN index \cup NativeKeys[a] |-> IF k \in NativeKeys[a] THEN a ELSE index[k]]

\* One step of buildNativeIdentityIndex.
AddKeys(index, a) ==
    [k \in DOMAIN index \cup NativeKeys[a] |->
        IF k \notin NativeKeys[a] THEN index[k]
        ELSE IF k \in DOMAIN index /\ index[k] # a THEN Ambiguous ELSE a]

\* buildNativeIdentityIndex for the applications in the order of the snapshots,
\* which is that of a map's iteration.
IdentityIndex(order) ==
    LET index[i \in 0..Len(order)] ==
            IF i = 0 THEN <<>> ELSE AddKeys(index[i - 1], order[i])
    IN index[Len(order)]

\* resolveNativeIdentity, and the fallback to the id the provider claims.
AppOf(order) ==
    LET index == IdentityIndex(order)
        candidates == {index[k] : k \in ProviderKeys \cap DOMAIN index} \ {Ambiguous}
    IN IF Cardinality(candidates) = 1 THEN CHOOSE a \in candidates : TRUE ELSE ProviderApp

-----------------------------------------------------------------------------
\* Mutant: the provider's windows replace those of the shell.
MergePatchReplaces(windows, patch, views) == patch :> views

\* One patch of mergeWindows.  A provider does not know the shell's windows: its
\* patch goes to the only window there is, replacing the provider's views in it,
\* or becomes a window of its own.
MergePatch(windows, patch, views) ==
    IF Cardinality(DOMAIN windows) = 1
    THEN [w \in DOMAIN windows |-> views]
    ELSE [w \in DOMAIN windows \cup {patch} |-> IF w = patch THEN views ELSE windows[w]]

\* The window patches of ProviderSnapshot.  An editor has one, whatever its tabs,
\* and a browser one for each of its windows with tabs.
EditorPatches(views) == [p \in {1} |-> views]
BrowserPatches(views) ==
    [p \in {PatchOf[v] : v \in views} |-> {v \in views : PatchOf[v] = p}]

\* mergeWindows: the patches in the order of their ids.
MergeWindows(windows, patches) ==
    LET merged[p \in 0..MaxPatch] ==
            IF p = 0 THEN windows
            ELSE IF p \in DOMAIN patches THEN MergePatch(merged[p - 1], p, patches[p])
            ELSE merged[p - 1]
    IN merged[MaxPatch]

\* Registry.Apply: the shell's applications, and the provider's snapshot laid over
\* the one it belongs to, or over an application of its own (AllowOrphan).
Apply(native, order, patches) ==
    LET a == AppOf(order)
        bare == [b \in DOMAIN native |-> [w \in native[b] |-> {}]]
        windows == IF a \in DOMAIN native THEN bare[a] ELSE <<>>
    IN [b \in DOMAIN native \cup {a} |->
          IF b = a THEN MergeWindows(windows, patches) ELSE bare[b]]

\* Without a fresh snapshot of the provider.
ApplyNone(native) == [b \in DOMAIN native |-> [w \in native[b] |-> {}]]

ViewsIn(surface) ==
    UNION {UNION Range(surface[a]) : a \in DOMAIN surface}
=============================================================================
