--------------------------- MODULE ShellSnapshots ---------------------------
(***************************************************************************)
(* How the desktop's state reaches the provider registry.  The extension   *)
(* (shell-extension/extension.js) submits a snapshot of all applications   *)
(* when it changed and on every heartbeat, numbered by a revision that     *)
(* starts anew whenever the extension is enabled.  The daemon decodes it   *)
(* (internal/providers/gnomeshell) and replaces all that the registry      *)
(* holds for the shell (providers.Registry.ReplaceProvider), unless the    *)
(* registry has a newer revision of one of its applications.  The Runtime  *)
(* then retains the snapshot for placement, under a mutex of its own.      *)
(*                                                                         *)
(* Submissions are asynchronous D-Bus calls, each handled by a goroutine   *)
(* of its own, so they may overtake each other; the extension gives up on  *)
(* a call after 1.5 s although the daemon may still handle it.             *)
(*                                                                         *)
(* Data: a snapshot's payload is its set of applications.                  *)
(***************************************************************************)
EXTENDS Naturals

CONSTANTS
    Apps,         \* applications
    Slots,        \* bound: calls in flight
    Nothing,      \* no call, no entry, no payload
    MaxChanges,   \* bound: changes of the desktop
    MaxFaults     \* bound: restarts, failures, timeouts, expiries, overtakings

ASSUME SnapshotsAssumption ==
    /\ \A A \in SUBSET Apps : A # Nothing
    /\ {MaxChanges, MaxFaults} \subseteq Nat

VARIABLES
    running,      \* applications with windows on the desktop
    instance,     \* how often the extension was enabled
    shellRevision,\* _shellRevision
    lastSemantic, \* _lastShellSemantic: the payload last submitted, or Nothing
    calls,        \* calls[s]: a SubmitShellSnapshot call, or Nothing
    snapshots,    \* Registry.snapshots of the provider gnome-shell
    retained,     \* Runtime.shellSnapshot, or Nothing
    used          \* changes and faults so far

extension == <<instance, shellRevision, lastSemantic>>
vars == <<running, instance, shellRevision, lastSemantic, calls, snapshots, retained,
          used>>

\* A batch as it is sent; the instance is not part of the message.
Batches == [apps : SUBSET Apps, rev : Nat \ {0}, from : Nat]

\* sent: the daemon has not handled it; replaced: the registry has it, the Runtime
\* has not; waits: the extension has not given up.
Calls == [batch : Batches, phase : {"sent", "replaced", "done", "failed"}, waits : BOOLEAN]

\* An application's entry, with the batch that it came in.
Entries == [batch : Batches, fresh : BOOLEAN]

TypeOK ==
    /\ running \subseteq Apps
    /\ instance \in Nat /\ shellRevision \in Nat
    /\ lastSemantic = Nothing \/ lastSemantic \subseteq Apps
    /\ calls \in [Slots -> Calls \cup {Nothing}]
    /\ snapshots \in [Apps -> Entries \cup {Nothing}]
    /\ retained \in Batches \cup {Nothing}
    /\ used \in [changes : 0..MaxChanges, faults : 0..MaxFaults]

Init ==
    /\ running = {}
    /\ instance = 1 /\ shellRevision = 0 /\ lastSemantic = Nothing
    /\ calls = [s \in Slots |-> Nothing]
    /\ snapshots = [a \in Apps |-> Nothing] /\ retained = Nothing
    /\ used = [changes |-> 0, faults |-> 0]

-----------------------------------------------------------------------------
Fault == used.faults < MaxFaults /\ used' = [used EXCEPT !.faults = @ + 1]

Stored == {a \in Apps : snapshots[a] # Nothing}

\* Registry.Apply: expired entries stay in the registry but are not shown.
Shown == {a \in Stored : snapshots[a].fresh}

\* Applications start and end.
DesktopChange ==
    /\ used.changes < MaxChanges /\ used' = [used EXCEPT !.changes = @ + 1]
    /\ running' \in SUBSET Apps \ {running}
    /\ UNCHANGED <<extension, calls, snapshots, retained>>

Submit(s, rev) ==
    calls' = [calls EXCEPT ![s] =
        [batch |-> [apps |-> running, rev |-> rev, from |-> instance],
         phase |-> "sent", waits |-> TRUE]]

\* Mutant: the revision is incremented after it was sent.
PublishNativeLate(s, force) ==
    /\ calls[s] = Nothing
    /\ force \/ running # lastSemantic
    /\ shellRevision' = IF running # lastSemantic THEN shellRevision + 1 ELSE shellRevision
    /\ lastSemantic' = running
    /\ Submit(s, shellRevision)
    /\ UNCHANGED <<running, instance, snapshots, retained, used>>

\* Mutant: a submission after a failed one reuses its revision.
PublishNativeReuses(s, force) ==
    /\ calls[s] = Nothing
    /\ force \/ running # lastSemantic
    /\ shellRevision' = IF \/ shellRevision = 0
                           \/ lastSemantic # Nothing /\ running # lastSemantic
                        THEN shellRevision + 1 ELSE shellRevision
    /\ lastSemantic' = running
    /\ Submit(s, shellRevision')
    /\ UNCHANGED <<running, instance, snapshots, retained, used>>

\* _publishNative: on a change, or forced by the heartbeat.
PublishNative(s, force) ==
    /\ calls[s] = Nothing
    /\ force \/ running # lastSemantic
    /\ shellRevision' = IF running # lastSemantic \/ shellRevision = 0
                        THEN shellRevision + 1 ELSE shellRevision
    /\ lastSemantic' = running
    /\ Submit(s, shellRevision')
    /\ UNCHANGED <<running, instance, snapshots, retained, used>>

-----------------------------------------------------------------------------
\* ReplaceProvider's check: one of the batch's applications has a newer entry.
Stale(batch) == \E a \in batch.apps \cap Stored : batch.rev < snapshots[a].batch.rev

\* Mutant: what the batch does not mention is not deleted.
ReplacedMerging(batch) ==
    [a \in Apps |-> IF a \in batch.apps THEN [batch |-> batch, fresh |-> TRUE]
                    ELSE snapshots[a]]

\* The registry after ReplaceProvider: the batch and nothing else.
Replaced(batch) ==
    [a \in Apps |-> IF a \in batch.apps THEN [batch |-> batch, fresh |-> TRUE]
                    ELSE Nothing]

\* The daemon's part of call s ends in phase ph; nobody hears of a call that the
\* extension has given up.
Handled(s, ph) ==
    calls' = [calls EXCEPT ![s] =
        IF ph \in {"done", "failed"} /\ ~@.waits THEN Nothing ELSE [@ EXCEPT !.phase = ph]]

\* Hub.ReplaceShellSnapshotJSON: decode, replace under the registry's mutex, and
\* refresh the panel.  What the extension sends satisfies Snapshot.Validate.
ReplaceShellSnapshot(s, refreshed) ==
    /\ snapshots' = IF Stale(calls[s].batch) THEN snapshots ELSE Replaced(calls[s].batch)
    /\ Handled(s, IF Stale(calls[s].batch) \/ ~refreshed THEN "failed" ELSE "replaced")
    /\ UNCHANGED <<running, extension, retained>>

InPhase(ph) == {s \in Slots : calls[s] # Nothing /\ calls[s].phase = ph}
InFlight == InPhase("sent")

\* The batch of call t was submitted before that of call s.
Before(t, s) ==
    LET x == calls[t].batch
        y == calls[s].batch
    IN x.from < y.from \/ (x.from = y.from /\ x.rev < y.rev)

\* The daemon handles the call, in the order of submission ...
Handle(s) ==
    /\ s \in InFlight
    /\ \A t \in InFlight : ~Before(t, s)
    /\ ReplaceShellSnapshot(s, TRUE) /\ UNCHANGED used

\* ... or not: its goroutine overtakes that of an earlier call.
Overtake(s) ==
    /\ Fault
    /\ s \in InFlight
    /\ \E t \in InFlight : Before(t, s)
    /\ ReplaceShellSnapshot(s, TRUE)

\* Refresh fails after the registry was changed: the call fails all the same.
RefreshFails(s) ==
    /\ Fault
    /\ s \in InFlight
    /\ ReplaceShellSnapshot(s, FALSE)

\* Mutant: only a newer revision is retained.
RetainNewer(s) ==
    /\ s \in InPhase("replaced")
    /\ retained' = IF retained = Nothing \/ retained.rev <= calls[s].batch.rev
                   THEN calls[s].batch ELSE retained
    /\ Handled(s, "done")
    /\ UNCHANGED <<running, extension, snapshots, used>>

\* The end of Runtime.ReplaceShellSnapshotJSON: the snapshot is retained, after
\* the registry's mutex was released.
Retain(s) ==
    /\ s \in InPhase("replaced")
    /\ retained' = calls[s].batch
    /\ Handled(s, "done")
    /\ UNCHANGED <<running, extension, snapshots, used>>

\* The reply's callback.  A failure makes the next refresh submit the payload
\* again, as a change; a call of a disabled extension is cancelled.
Failed(s) ==
    lastSemantic' = IF /\ calls[s].batch.from = instance
                       /\ calls[s].batch.apps = lastSemantic
                    THEN Nothing ELSE lastSemantic

\* Mutant: a failure is ignored.
AnswerIgnored(s) ==
    /\ calls[s] # Nothing /\ calls[s].phase \in {"done", "failed"}
    /\ calls' = [calls EXCEPT ![s] = Nothing]
    /\ UNCHANGED <<running, extension, snapshots, retained, used>>

Answer(s) ==
    /\ calls[s] # Nothing /\ calls[s].phase \in {"done", "failed"}
    /\ IF calls[s].phase = "failed" THEN Failed(s) ELSE UNCHANGED lastSemantic
    /\ calls' = [calls EXCEPT ![s] = Nothing]
    /\ UNCHANGED <<running, instance, shellRevision, snapshots, retained, used>>

\* The call times out in the extension; the daemon has handled it, or may still.
TimeOut(s) ==
    /\ Fault
    /\ calls[s] # Nothing /\ calls[s].waits /\ calls[s].phase # "failed"
    /\ Failed(s)
    /\ calls' = [calls EXCEPT ![s] =
         IF @.phase = "done" THEN Nothing ELSE [@ EXCEPT !.waits = FALSE]]
    /\ UNCHANGED <<running, instance, shellRevision, snapshots, retained>>

\* The entries, all captured at one time, outlive their TTL.
Expire ==
    /\ Fault
    /\ Shown # {}
    /\ snapshots' = [a \in Apps |->
         IF a \in Stored THEN [snapshots[a] EXCEPT !.fresh = FALSE] ELSE Nothing]
    /\ UNCHANGED <<running, extension, calls, retained>>

\* disable() and enable(), as around the screen lock: the counter starts anew.
ExtensionRestart ==
    /\ Fault
    /\ instance' = instance + 1
    /\ shellRevision' = 0 /\ lastSemantic' = Nothing
    /\ UNCHANGED <<running, calls, snapshots, retained>>

\* The daemon is restarted: outstanding calls fail, and losing the daemon clears
\* the payload last submitted.
DaemonRestart ==
    /\ Fault
    /\ snapshots' = [a \in Apps |-> Nothing] /\ retained' = Nothing
    /\ lastSemantic' = Nothing
    /\ calls' = [s \in Slots |->
         IF calls[s] = Nothing \/ ~calls[s].waits THEN Nothing
         ELSE IF calls[s].phase \in {"sent", "replaced"} THEN [calls[s] EXCEPT !.phase = "failed"]
         ELSE calls[s]]
    /\ UNCHANGED <<running, instance, shellRevision>>

Heartbeat == \E s \in Slots : PublishNative(s, TRUE)

Next ==
    \/ DesktopChange \/ Heartbeat
    \/ \E s \in Slots :
          \/ PublishNative(s, FALSE) \/ Handle(s) \/ Overtake(s) \/ RefreshFails(s)
          \/ Retain(s) \/ Answer(s) \/ TimeOut(s)
    \/ Expire \/ ExtensionRestart \/ DaemonRestart

Spec == Init /\ [][Next]_vars

\* The heartbeat keeps firing, and D-Bus delivers calls and replies.
Fairness ==
    /\ WF_vars(Heartbeat)
    /\ \A s \in Slots : WF_vars(Handle(s)) /\ WF_vars(Retain(s)) /\ WF_vars(Answer(s))

FairSpec == Spec /\ Fairness

-----------------------------------------------------------------------------
(***************************************************************************)
(* Properties                                                              *)
(***************************************************************************)

\* ReplaceProvider is atomic and complete: whatever calls overtake each other,
\* time out or come from an earlier instance of the extension, the registry
\* holds one whole snapshot of the shell and nothing from another one.
BatchIsWhole ==
    \A a \in Stored :
        /\ snapshots[a].batch.apps = Stored
        /\ \A b \in Stored : snapshots[b] = snapshots[a]

\* The batches that are in flight or in the registry.
Around ==
    {calls[s].batch : s \in {t \in Slots : calls[t] # Nothing}}
    \cup {snapshots[a].batch : a \in Stored}

\* Within one instance of the extension a revision stands for one payload,
\* through failures, timeouts and retries, so that comparing revisions is
\* comparing snapshots.
RevisionIdentifiesBatch ==
    \A x, y \in Around : x.from = y.from /\ x.rev = y.rev => x.apps = y.apps

\* Once the desktop rests and nothing fails any more the registry shows it.
\* Older batches may overwrite newer ones and a restarted counter is refused as
\* stale at first; heartbeats and the new revision of a retry make up for both.
RegistryFollowsShell == <>[](Shown = running)

\* The snapshot that placement decisions read ends up with the desktop as well,
\* although it is stored outside the registry's mutex, so that two handlers may
\* store theirs in the other order than they replaced the registry, and is not
\* stored at all when the refresh fails.
RetainedFollowsShell == <>[](retained # Nothing /\ retained.apps = running)
=============================================================================
