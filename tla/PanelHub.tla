------------------------------ MODULE PanelHub ------------------------------
(***************************************************************************)
(* daemon.Hub: the panel is projected from the provider registry and the   *)
(* panel specification by Refresh, which any number of goroutines run at   *)
(* once (provider connections, D-Bus handlers, the maintenance ticker) and *)
(* which reads its inputs under four separate locks before it publishes    *)
(* under h.mu.  ReloadPanel replaces the specification from the file, on   *)
(* the maintenance ticker and on the D-Bus call of hwsctl.                 *)
(*                                                                         *)
(* Data: the registry's content is the number of changes made to it (new   *)
(* snapshots and expiries), and the surface snapshot's semantic revision,  *)
(* a hash of its content, is that content: the versions of the registry    *)
(* that its applications and its provider health were read from.           *)
(***************************************************************************)
EXTENDS Naturals

CONSTANTS
    Handlers,     \* goroutines of provider connections and D-Bus calls
    Ticker,       \* the maintenance goroutine
    Sources,      \* contents of the panel configuration file
    Good,         \* the ones that compile
    Default,      \* DefaultPanelSource
    EditsRace,    \* whether an edit may fall between ReadFile and Stat
    MaxChanges,   \* bound: changes of the registry
    MaxCalls,     \* bound: ReloadPanel calls over D-Bus
    MaxEdits      \* bound: edits of the file

Threads == Handlers \cup {Ticker}

ASSUME HubAssumption ==
    /\ Ticker \notin Handlers
    /\ Good \subseteq Sources /\ Default \in Good
    /\ EditsRace \in BOOLEAN
    /\ {MaxChanges, MaxCalls, MaxEdits} \subseteq Nat

VARIABLES
    registry,     \* providers.Registry
    spec,         \* dsl.Manager: the current source and its revision
    disk, stamp,  \* the file: content; size and modification time
    seen,         \* h.configMod and h.configSize
    confRev,      \* h.configRevision, reported by HealthJSON
    surf,         \* h.surfaceSnapshot: its content and generation
    panelRev,     \* h.panelRevision
    lastSpec,     \* h.lastSpecRevision
    panel,        \* h.panelSnapshot: the surface content and source shown
    pc, loc,      \* the goroutines
    hint,         \* a PanelChanged signal the client has not acted on
    view,         \* the panel the client shows
    used          \* calls and edits so far

inputs == <<registry, spec, disk, stamp, seen, confRev>>
hub    == <<surf, panelRev, lastSpec, panel>>
client == <<hint, view>>
vars   == <<registry, spec, disk, stamp, seen, confRev, surf, panelRev, lastSpec, panel,
            pc, loc, hint, view, used>>

Contents == [apps : Nat, health : Nat]
Panels   == [content : Contents, src : Sources]
Locals   == [apps : Nat, health : Nat, gen : Nat, prev : Contents, src : Sources,
             rev : Nat, data : Sources, info : Nat, reload : BOOLEAN]
Blank    == [apps |-> 0, health |-> 0]
Fresh    == [apps |-> 0, health |-> 0, gen |-> 0, prev |-> Blank, src |-> Default,
             rev |-> 0, data |-> Default, info |-> 0, reload |-> FALSE]

TypeOK ==
    /\ registry \in 0..MaxChanges
    /\ spec \in [src : Good, rev : Nat]
    /\ disk \in Sources /\ stamp \in Nat /\ seen \in Nat /\ confRev \in Nat
    /\ surf \in [content : Contents, gen : Nat]
    /\ panelRev \in Nat /\ lastSpec \in Nat /\ panel \in Panels
    /\ pc \in [Threads -> {"idle", "read", "compile", "stat", "record", "apply",
                           "health", "previous", "spec", "publish", "notify"}]
    /\ loc \in [Threads -> Locals]
    /\ hint \in BOOLEAN /\ view \in Panels
    /\ used \in [calls : 0..MaxCalls, edits : 0..MaxEdits]

\* Configure has applied the built-in source and loaded the same from the file;
\* the first Refresh has published the empty registry and the client has it.
Init ==
    /\ registry = 0
    /\ spec = [src |-> Default, rev |-> 2]
    /\ disk = Default /\ stamp = 1 /\ seen = 1 /\ confRev = 2
    /\ surf = [content |-> Blank, gen |-> 1]
    /\ panelRev = 1 /\ lastSpec = 2
    /\ panel = [content |-> Blank, src |-> Default]
    /\ pc = [t \in Threads |-> "idle"]
    /\ loc = [t \in Threads |-> Fresh]
    /\ hint = FALSE /\ view = panel
    /\ used = [calls |-> 0, edits |-> 0]

-----------------------------------------------------------------------------
Goto(t, label) == pc' = [pc EXCEPT ![t] = label]

\* A handler's call is over; the ticker goes on to the Refresh of its tick.
AfterReload(t) ==
    /\ Goto(t, IF t = Ticker THEN "apply" ELSE "idle")
    /\ loc' = [loc EXCEPT ![t] = Fresh]

\* Ingest or ReplaceShellSnapshotJSON: the registry accepts, Refresh follows.
Ingest(t) ==
    /\ t # Ticker /\ pc[t] = "idle"
    /\ registry < MaxChanges /\ registry' = registry + 1
    /\ Goto(t, "apply")
    /\ UNCHANGED <<spec, disk, stamp, seen, confRev, hub, loc, client, used>>

\* A provider's snapshot outlives its TTL: what Apply returns changes by itself.
Expires ==
    /\ registry < MaxChanges /\ registry' = registry + 1
    /\ UNCHANGED <<spec, disk, stamp, seen, confRev, hub, pc, loc, client, used>>

\* hwsctl calls ReloadPanel.
ReloadCall(t) ==
    /\ t # Ticker /\ pc[t] = "idle"
    /\ used.calls < MaxCalls /\ used' = [used EXCEPT !.calls = @ + 1]
    /\ Goto(t, "read")
    /\ UNCHANGED <<inputs, hub, loc, client>>

\* Mutant: the tick does not poll the file.
TickRefreshes ==
    /\ pc[Ticker] = "idle"
    /\ Goto(Ticker, "apply")
    /\ UNCHANGED <<inputs, hub, loc, client, used>>

\* Mutant: the tick polls the file and leaves refreshing to new snapshots.
TickPolls ==
    /\ pc[Ticker] = "idle"
    /\ Goto(Ticker, IF stamp # seen THEN "read" ELSE "idle")
    /\ UNCHANGED <<inputs, hub, loc, client, used>>

\* A maintenance tick: PollConfig, then Refresh.
Tick ==
    /\ pc[Ticker] = "idle"
    /\ Goto(Ticker, IF stamp # seen THEN "read" ELSE "apply")
    /\ UNCHANGED <<inputs, hub, loc, client, used>>

\* ReloadPanel: ReadFile.
ReloadRead(t) ==
    /\ pc[t] = "read"
    /\ loc' = [loc EXCEPT ![t].data = disk]
    /\ Goto(t, "compile")
    /\ UNCHANGED <<inputs, hub, client, used>>

\* ReloadPanel: manager.Apply.  A rejected source changes nothing, and no stamp
\* is recorded, so that the next tick tries again.
ReloadCompile(t) ==
    /\ pc[t] = "compile"
    /\ \/ /\ loc[t].data \in Good
          /\ spec' = [src |-> loc[t].data, rev |-> spec.rev + 1]
          /\ loc' = [loc EXCEPT ![t].rev = spec'.rev]
          /\ Goto(t, "stat")
       \/ /\ loc[t].data \notin Good
          /\ AfterReload(t) /\ UNCHANGED spec
    /\ UNCHANGED <<registry, disk, stamp, seen, confRev, hub, client, used>>

\* ReloadPanel: Stat.
ReloadStat(t) ==
    /\ pc[t] = "stat"
    /\ loc' = [loc EXCEPT ![t].info = stamp]
    /\ Goto(t, "record")
    /\ UNCHANGED <<inputs, hub, client, used>>

\* ReloadPanel: record the stamp and the revision under h.mu; Refresh follows.
ReloadRecord(t) ==
    /\ pc[t] = "record"
    /\ seen' = loc[t].info /\ confRev' = loc[t].rev
    /\ loc' = [loc EXCEPT ![t] = [Fresh EXCEPT !.reload = TRUE]]
    /\ Goto(t, "apply")
    /\ UNCHANGED <<registry, spec, disk, stamp, hub, client, used>>

-----------------------------------------------------------------------------
\* Refresh: registry.Apply under the registry's lock.
RefreshApply(t) ==
    /\ pc[t] = "apply"
    /\ loc' = [loc EXCEPT ![t].apps = registry]
    /\ Goto(t, "health")
    /\ UNCHANGED <<inputs, hub, client, used>>

\* Refresh: registry.Health under the registry's lock, taken anew.
RefreshHealth(t) ==
    /\ pc[t] = "health"
    /\ loc' = [loc EXCEPT ![t].health = registry]
    /\ Goto(t, "previous")
    /\ UNCHANGED <<inputs, hub, client, used>>

\* Refresh: clone the previous snapshot under h.mu; NewSnapshot computes the
\* generation from it.
RefreshPrevious(t) ==
    /\ pc[t] = "previous"
    /\ loc' = [loc EXCEPT ![t].prev = surf.content,
                          ![t].gen = IF surf.content = [apps |-> loc[t].apps,
                                                        health |-> loc[t].health]
                                     THEN surf.gen ELSE surf.gen + 1]
    /\ Goto(t, "spec")
    /\ UNCHANGED <<inputs, hub, client, used>>

\* Refresh: manager.Current under the manager's lock.
RefreshSpec(t) ==
    /\ pc[t] = "spec"
    /\ loc' = [loc EXCEPT ![t].src = spec.src, ![t].rev = spec.rev]
    /\ Goto(t, "publish")
    /\ UNCHANGED <<inputs, hub, client, used>>

\* The content of the snapshot that t computed.
Content(t) == [apps |-> loc[t].apps, health |-> loc[t].health]

\* Mutant: the specification's revision is read again when it is recorded.
PublishTorn(t, changed) ==
    /\ surf' = [content |-> Content(t), gen |-> loc[t].gen]
    /\ lastSpec' = spec.rev
    /\ panelRev' = IF changed THEN panelRev + 1 ELSE panelRev
    /\ panel' = [content |-> Content(t), src |-> loc[t].src]

\* What publishing does, given whether the panel counts as changed.
Publish(t, changed) ==
    /\ surf' = [content |-> Content(t), gen |-> loc[t].gen]
    /\ lastSpec' = loc[t].rev
    /\ panelRev' = IF changed THEN panelRev + 1 ELSE panelRev
    /\ panel' = [content |-> Content(t), src |-> loc[t].src]

\* The end of Refresh: the PanelConfigChanged of a ReloadPanel, then what the
\* goroutine does next.
Finish(t, changed) ==
    \/ /\ changed \/ loc[t].reload
       /\ Goto(t, "notify") /\ UNCHANGED loc
    \/ /\ ~(changed \/ loc[t].reload)
       /\ Goto(t, "idle") /\ loc' = [loc EXCEPT ![t] = Fresh]

\* Mutant: changes are detected against the snapshot cloned earlier.
RefreshPublishStale(t) ==
    /\ pc[t] = "publish"
    /\ LET changed == Content(t) # loc[t].prev \/ loc[t].rev # lastSpec
       IN Publish(t, changed) /\ Finish(t, changed)
    /\ UNCHANGED <<inputs, client, used>>

\* Refresh: compare and publish under h.mu.
RefreshPublish(t) ==
    /\ pc[t] = "publish"
    /\ LET changed == Content(t) # surf.content \/ loc[t].rev # lastSpec
       IN Publish(t, changed) /\ Finish(t, changed)
    /\ UNCHANGED <<inputs, client, used>>

\* Mutant: the signal is lost.
RefreshNotifyLost(t) ==
    /\ pc[t] = "notify"
    /\ IF loc[t].reload THEN AfterReload(t)
       ELSE Goto(t, "idle") /\ loc' = [loc EXCEPT ![t] = Fresh]
    /\ UNCHANGED <<inputs, hub, client, used>>

\* After the unlock: emit PanelChanged (and PanelConfigChanged).
RefreshNotify(t) ==
    /\ pc[t] = "notify"
    /\ hint' = TRUE
    /\ IF loc[t].reload THEN AfterReload(t)
       ELSE Goto(t, "idle") /\ loc' = [loc EXCEPT ![t] = Fresh]
    /\ UNCHANGED <<inputs, hub, view, used>>

-----------------------------------------------------------------------------
\* The user edits the file.
Edit ==
    /\ used.edits < MaxEdits /\ used' = [used EXCEPT !.edits = @ + 1]
    /\ EditsRace \/ \A t \in Threads : pc[t] \notin {"compile", "stat"}
    /\ disk' \in Sources \ {disk}
    /\ stamp' = stamp + 1
    /\ UNCHANGED <<registry, spec, seen, confRev, hub, pc, loc, client>>

\* The client acts on the signal: GetPanelSnapshot.
ClientRefresh ==
    /\ hint /\ hint' = FALSE
    /\ view' = panel
    /\ UNCHANGED <<inputs, hub, pc, loc, used>>

ReloadStep(t) == ReloadRead(t) \/ ReloadCompile(t) \/ ReloadStat(t) \/ ReloadRecord(t)
RefreshStep(t) ==
    \/ RefreshApply(t) \/ RefreshHealth(t) \/ RefreshPrevious(t) \/ RefreshSpec(t)
    \/ RefreshPublish(t) \/ RefreshNotify(t)

Next ==
    \/ \E t \in Threads : Ingest(t) \/ ReloadCall(t) \/ ReloadStep(t) \/ RefreshStep(t)
    \/ Tick \/ Expires \/ Edit \/ ClientRefresh

Spec == Init /\ [][Next]_vars

\* Goroutines are scheduled, the ticker keeps firing, the client handles signals.
Fairness ==
    /\ \A t \in Threads : WF_vars(ReloadStep(t) \/ RefreshStep(t))
    /\ WF_vars(Tick) /\ WF_vars(ClientRefresh)

FairSpec == Spec /\ Fairness

-----------------------------------------------------------------------------
(***************************************************************************)
(* Properties                                                              *)
(***************************************************************************)

\* The panel revision identifies what is shown: whenever concurrent Refreshes
\* replace the panel by a different one, in whatever order, it increases.
RevisionIdentifiesPanel ==
    [][panel' # panel => panelRev' > panelRev]_vars

\* The published panel is the one its recorded revisions describe: what the
\* panel shows, the snapshot h.surfaceSnapshot and, when no reload is newer,
\* the specification of h.lastSpecRevision belong together.
PanelIsConsistent ==
    /\ TypeOK
    /\ panel.content = surf.content
    /\ lastSpec = spec.rev => panel.src = spec.src

\* A Refresh that was overtaken may publish older inputs over newer ones, but
\* not for good: once inputs rest, the panel shows the registry, both of its
\* halves from the same version, and the current specification.
PanelConverges ==
    <>[](/\ panel.content = [apps |-> registry, health |-> registry]
         /\ panel.src = spec.src)

\* The last good file is in force once edits stop.
EditTakesEffect == <>[](disk \in Good => spec.src = disk)

\* The client ends up with the panel the daemon has: no publication is left
\* unannounced, although signals are sent outside the lock.
ClientCatchesUp == <>[](view = panel)
=============================================================================
