----------------------------- MODULE ConfigFile -----------------------------
(***************************************************************************)
(* A hot-reloaded configuration file: contexttree.Manager (the hierarchy)  *)
(* and catalog.File (the workspace catalog), which have the same code.     *)
(* Configure installs the built-in source and loads the file; afterwards   *)
(* one maintenance goroutine polls the file's size and modification time   *)
(* and reloads when they differ from the ones recorded.  A rejected file   *)
(* leaves the last good content in place.                                  *)
(*                                                                         *)
(* The user edits the file at any time, also between the steps of Reload.  *)
(* Every write gives the file a new stamp (size and modification time).    *)
(***************************************************************************)
EXTENDS Naturals

CONSTANTS
    Contents,     \* what the file may contain
    Good,         \* the contents that compile
    Default,      \* the built-in source
    NoFile,       \* the file does not exist
    EditsRace,    \* whether an edit may fall between ReadFile and Stat
    MaxEdits      \* bound: writes and removals

ASSUME ConfigAssumption ==
    /\ Good \subseteq Contents /\ Default \in Good
    /\ NoFile \notin Contents
    /\ EditsRace \in BOOLEAN /\ MaxEdits \in Nat

VARIABLES
    disk,         \* the file's content, or NoFile
    stamp,        \* its size and modification time
    edits,        \* edits so far
    pc,           \* where the goroutine of Configure, then of Poll, is
    data, info,   \* Reload's locals: what ReadFile and Stat returned
    seen,         \* m.modTime and m.size
    loaded,       \* m.tree / f.definitions and f.active
    revision,     \* m.revision
    lastErr       \* m.lastErr: nil or the compiler's error

file   == <<disk, stamp, edits>>
locals == <<pc, data, info>>
vars   == <<disk, stamp, edits, pc, data, info, seen, loaded, revision, lastErr>>

TypeOK ==
    /\ disk \in Contents \cup {NoFile}
    /\ stamp \in Nat /\ edits \in 0..MaxEdits
    /\ pc \in {"start", "create", "read", "stat", "install", "idle"}
    /\ data \in Contents /\ info \in Nat
    /\ seen \in Nat
    /\ loaded \in Contents \cup {NoFile}
    /\ revision \in Nat /\ lastErr \in {"nil", "rejected"}

\* A new manager; the file is whatever an earlier session left.
Init ==
    /\ disk \in Contents \cup {NoFile}
    /\ stamp = 1 /\ edits = 0
    /\ pc = "start" /\ data = Default /\ info = 0
    /\ seen = 0
    /\ loaded = NoFile /\ revision = 0 /\ lastErr = "nil"

-----------------------------------------------------------------------------
\* Configure, first part: Apply the built-in source, then set the path.
ConfigureDefault ==
    /\ pc = "start"
    /\ loaded' = Default /\ revision' = revision + 1 /\ lastErr' = "nil"
    /\ pc' = "create"
    /\ UNCHANGED <<file, data, info, seen>>

\* Configure, second part: write the built-in source if there is no file.
ConfigureCreate ==
    /\ pc = "create"
    /\ IF disk = NoFile
       THEN disk' = Default /\ stamp' = stamp + 1
       ELSE UNCHANGED <<disk, stamp>>
    /\ pc' = "read"
    /\ UNCHANGED <<edits, data, info, seen, loaded, revision, lastErr>>

\* The directory or the file cannot be created: Configure returns the error.
\* The daemon logs it and starts with the built-in source.
ConfigureFails ==
    /\ pc = "create"
    /\ pc' = "idle"
    /\ UNCHANGED <<file, data, info, seen, loaded, revision, lastErr>>

\* Mutant: after a rejected file the poller waits for nothing any more.
PollChangedUnlessRejected ==
    /\ pc = "idle" /\ lastErr = "nil"
    /\ disk # NoFile /\ stamp # seen
    /\ pc' = "read"
    /\ UNCHANGED <<file, data, info, seen, loaded, revision, lastErr>>

\* Poll, every maintenance tick: stat the file and compare.
PollChanged ==
    /\ pc = "idle"
    /\ disk # NoFile /\ stamp # seen
    /\ pc' = "read"
    /\ UNCHANGED <<file, data, info, seen, loaded, revision, lastErr>>

\* Reload: ReadFile.
ReloadRead ==
    /\ pc = "read" /\ disk # NoFile
    /\ data' = disk
    /\ pc' = "stat"
    /\ UNCHANGED <<file, info, seen, loaded, revision, lastErr>>

\* Reload: Stat, a second look at the path.
ReloadStat ==
    /\ pc = "stat" /\ disk # NoFile
    /\ info' = stamp
    /\ pc' = "install"
    /\ UNCHANGED <<file, data, seen, loaded, revision, lastErr>>

\* ReadFile or Stat fails: Reload returns the error and records nothing.
ReloadFails ==
    /\ pc \in {"read", "stat"} /\ disk = NoFile
    /\ pc' = "idle"
    /\ UNCHANGED <<file, data, info, seen, loaded, revision, lastErr>>

\* Mutant: a rejected file is installed all the same.
ReloadInstallUnchecked ==
    /\ pc = "install"
    /\ seen' = info
    /\ loaded' = data /\ revision' = revision + 1 /\ lastErr' = "nil"
    /\ pc' = "idle"
    /\ UNCHANGED <<file, data, info>>

\* Mutant: an accepted file leaves the error of the rejected one before it.
ReloadInstallKeepsError ==
    /\ pc = "install"
    /\ seen' = info
    /\ IF data \in Good
       THEN loaded' = data /\ revision' = revision + 1 /\ UNCHANGED lastErr
       ELSE lastErr' = "rejected" /\ UNCHANGED <<loaded, revision>>
    /\ pc' = "idle"
    /\ UNCHANGED <<file, data, info>>

\* Reload: compile, and under the mutex record the stamp and the verdict.
ReloadInstall ==
    /\ pc = "install"
    /\ seen' = info
    /\ IF data \in Good
       THEN loaded' = data /\ revision' = revision + 1 /\ lastErr' = "nil"
       ELSE lastErr' = "rejected" /\ UNCHANGED <<loaded, revision>>
    /\ pc' = "idle"
    /\ UNCHANGED <<file, data, info>>

-----------------------------------------------------------------------------
\* The user writes or removes the file.
Edit ==
    /\ edits < MaxEdits /\ (EditsRace \/ pc # "stat")
    /\ disk' \in (Contents \cup {NoFile}) \ {disk}
    /\ stamp' = stamp + 1 /\ edits' = edits + 1
    /\ UNCHANGED <<locals, seen, loaded, revision, lastErr>>

Maintenance ==
    \/ ConfigureDefault \/ ConfigureCreate \/ ConfigureFails
    \/ PollChanged \/ ReloadRead \/ ReloadStat \/ ReloadFails \/ ReloadInstall

Next == Maintenance \/ Edit

Spec == Init /\ [][Next]_vars

\* The maintenance ticker keeps firing.
FairSpec == Spec /\ WF_vars(Maintenance)

-----------------------------------------------------------------------------
(***************************************************************************)
(* Properties                                                              *)
(***************************************************************************)

\* Valid(): "whether the current on-disk configuration is valid".
Valid == revision > 0 /\ lastErr = "nil"

\* Whatever the user writes, readers are served content that compiled, from
\* the moment the manager is configured: a rejected reload keeps the last good
\* content.
LastKnownGood == TypeOK /\ (revision > 0 => loaded \in Good)

\* When a poll would see nothing to do, the file was fully taken into account:
\* good content is being served, bad content is reported.
PolledIsCurrent ==
    pc = "idle" /\ disk # NoFile /\ stamp = seen =>
        /\ disk \in Good => loaded = disk
        /\ Valid <=> disk \in Good

\* An edit takes effect: once the user stops editing, a good file is served.
EditTakesEffect == <>[](disk \in Good => loaded = disk)

\* Once the user stops editing, Valid reports on the file that is on the disk.
ValidReportsDisk == <>[](disk # NoFile => (Valid <=> disk \in Good))
=============================================================================
