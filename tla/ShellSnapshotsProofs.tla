------------------------ MODULE ShellSnapshotsProofs ------------------------
(***************************************************************************)
(* Proofs about ShellSnapshots, for any set of applications, any number of *)
(* calls in flight and any number of changes and faults.                   *)
(***************************************************************************)
EXTENDS ShellSnapshots, TLAPS

USE DEF extension

\* Moving a call to another phase, or taking it off the wire, keeps the types of
\* the calls and sends nothing new.
LEMMA HandledCalls ==
    ASSUME TypeOK, NEW s \in Slots, calls[s] # Nothing,
           NEW ph \in {"sent", "replaced", "done", "failed"}, Handled(s, ph)
    PROVE  /\ calls' \in [Slots -> Calls \cup {Nothing}]
           /\ \A t \in Slots : calls'[t] # Nothing =>
                 calls[t] # Nothing /\ calls'[t].batch = calls[t].batch
<1>1. calls[s] \in Calls
  BY DEF TypeOK
<1>2. [calls[s] EXCEPT !.phase = ph] \in Calls
  BY <1>1 DEF Calls
<1>3. [calls[s] EXCEPT !.phase = ph].batch = calls[s].batch
  BY <1>1 DEF Calls
<1>4. \/ calls' = [calls EXCEPT ![s] = Nothing]
      \/ calls' = [calls EXCEPT ![s] = [calls[s] EXCEPT !.phase = ph]]
  BY DEF Handled
<1>5. QED
  BY <1>2, <1>3, <1>4 DEF TypeOK

\* What a handler leaves in the registry has come with its call or was there.
LEMMA ReplacedEntries ==
    ASSUME TypeOK, NEW s \in Slots, s \in InFlight, NEW refreshed \in BOOLEAN,
           ReplaceShellSnapshot(s, refreshed)
    PROVE  /\ snapshots' \in [Apps -> Entries \cup {Nothing}]
           /\ \/ snapshots' = snapshots
              \/ snapshots' = Replaced(calls[s].batch)
           /\ calls' \in [Slots -> Calls \cup {Nothing}]
           /\ \A t \in Slots : calls'[t] # Nothing =>
                 calls[t] # Nothing /\ calls'[t].batch = calls[t].batch
<1>1. calls[s] # Nothing /\ calls[s] \in Calls
  BY DEF TypeOK, InFlight, InPhase
<1>2. PICK ph \in {"replaced", "failed"} : Handled(s, ph)
  BY DEF ReplaceShellSnapshot
<1>3. Replaced(calls[s].batch) \in [Apps -> Entries \cup {Nothing}]
  BY <1>1 DEF Replaced, Calls, Entries
<1>4. snapshots' = snapshots \/ snapshots' = Replaced(calls[s].batch)
  BY DEF ReplaceShellSnapshot
<1>5. QED
  BY <1>1, <1>2, <1>3, <1>4, HandledCalls DEF TypeOK

\* Expiry changes nothing but the freshness of the entries.
LEMMA ExpiredEntries ==
    ASSUME TypeOK, Expire
    PROVE  /\ snapshots' \in [Apps -> Entries \cup {Nothing}]
           /\ \A a \in Apps : snapshots'[a] # Nothing =>
                 snapshots[a] # Nothing /\ snapshots'[a].batch = snapshots[a].batch
<1>1. ASSUME NEW a \in Apps, snapshots[a] # Nothing
      PROVE  /\ [snapshots[a] EXCEPT !.fresh = FALSE] \in Entries
             /\ [snapshots[a] EXCEPT !.fresh = FALSE].batch = snapshots[a].batch
  BY <1>1 DEF TypeOK, Entries
<1>2. snapshots' = [a \in Apps |->
          IF snapshots[a] # Nothing THEN [snapshots[a] EXCEPT !.fresh = FALSE] ELSE Nothing]
  BY DEF Expire, Stored
<1>3. QED
  BY <1>1, <1>2

\* A timeout or a restart of the daemon ends waits and calls, and sends nothing.
LEMMA EndedCalls ==
    ASSUME TypeOK, (\E s \in Slots : TimeOut(s)) \/ DaemonRestart
    PROVE  /\ calls' \in [Slots -> Calls \cup {Nothing}]
           /\ \A t \in Slots : calls'[t] # Nothing =>
                 calls[t] # Nothing /\ calls'[t].batch = calls[t].batch
<1>1. ASSUME NEW t \in Slots, calls[t] # Nothing
      PROVE  /\ [calls[t] EXCEPT !.waits = FALSE] \in Calls
             /\ [calls[t] EXCEPT !.waits = FALSE].batch = calls[t].batch
             /\ [calls[t] EXCEPT !.phase = "failed"] \in Calls
             /\ [calls[t] EXCEPT !.phase = "failed"].batch = calls[t].batch
  BY <1>1 DEF TypeOK, Calls
<1>2. ASSUME NEW s \in Slots, TimeOut(s)
      PROVE  /\ calls[s] # Nothing
             /\ \/ calls' = [calls EXCEPT ![s] = Nothing]
                \/ calls' = [calls EXCEPT ![s] = [calls[s] EXCEPT !.waits = FALSE]]
  BY <1>2 DEF TimeOut
<1>3. CASE \E s \in Slots : TimeOut(s)
  <2>1. PICK s \in Slots : TimeOut(s)
    BY <1>3
  <2>2. CASE calls' = [calls EXCEPT ![s] = Nothing]
    BY <2>2 DEF TypeOK
  <2>3. CASE calls' = [calls EXCEPT ![s] = [calls[s] EXCEPT !.waits = FALSE]]
    <3>1. calls[s] # Nothing
      BY <1>2, <2>1
    <3>2. /\ calls'[s].batch = calls[s].batch /\ calls'[s] \in Calls
          /\ \A t \in Slots \ {s} : calls'[t] = calls[t]
      BY <1>1, <2>3, <3>1 DEF TypeOK
    <3>3. QED
      BY <1>1, <2>3, <3>1, <3>2 DEF TypeOK
  <2>4. QED
    BY <1>2, <2>1, <2>2, <2>3
<1>4. CASE DaemonRestart
  <2>1. calls' = [t \in Slots |-> calls'[t]]
    BY <1>4 DEF DaemonRestart
  <2>2. ASSUME NEW t \in Slots, calls'[t] # Nothing
        PROVE  /\ calls[t] # Nothing
               /\ calls'[t] = calls[t] \/ calls'[t] = [calls[t] EXCEPT !.phase = "failed"]
    BY <1>4, <2>2 DEF DaemonRestart
  <2>3. ASSUME NEW t \in Slots, calls'[t] # Nothing
        PROVE  calls'[t] \in Calls /\ calls'[t].batch = calls[t].batch
    BY <1>1, <2>2, <2>3 DEF TypeOK
  <2>4. QED
    BY <2>1, <2>2, <2>3
<1>5. QED
  BY <1>3, <1>4

\* Every variable of the extension, of the wire and of the registry keeps its
\* type.
THEOREM TypeCorrect == Spec => []TypeOK
<1>1. Init => TypeOK
  BY SnapshotsAssumption DEF Init, TypeOK
<1>2. ASSUME TypeOK, [Next]_vars PROVE TypeOK'
  <2> USE <1>2, SnapshotsAssumption DEF TypeOK
  <2>1. CASE DesktopChange
    BY <2>1 DEF DesktopChange
  <2>2. ASSUME NEW s \in Slots, NEW force \in BOOLEAN, PublishNative(s, force)
        PROVE  TypeOK'
    BY <2>2 DEF PublishNative, Submit, Calls, Batches
  <2>3. ASSUME NEW s \in Slots, Handle(s) \/ Overtake(s) \/ RefreshFails(s)
        PROVE  TypeOK'
    <3>1. PICK refreshed \in BOOLEAN : s \in InFlight /\ ReplaceShellSnapshot(s, refreshed)
      BY <2>3 DEF Handle, Overtake, RefreshFails
    <3>2. used' = used \/ Fault
      BY <2>3 DEF Handle, Overtake, RefreshFails
    <3>3. UNCHANGED <<running, extension, retained>>
      BY <3>1 DEF ReplaceShellSnapshot
    <3>4. QED
      BY <3>1, <3>2, <3>3, ReplacedEntries DEF Fault
  <2>4. ASSUME NEW s \in Slots, Retain(s) PROVE TypeOK'
    BY <2>4, HandledCalls DEF Retain, InPhase, Calls
  <2>5. ASSUME NEW s \in Slots, Answer(s) PROVE TypeOK'
    BY <2>5 DEF Answer, Failed
  <2>6. ASSUME NEW s \in Slots, TimeOut(s) PROVE TypeOK'
    <3>1. calls' \in [Slots -> Calls \cup {Nothing}]
      BY <2>6, EndedCalls
    <3>2. lastSemantic' = Nothing \/ lastSemantic' = lastSemantic
      BY <2>6 DEF TimeOut, Failed
    <3>3. QED
      BY <2>6, <3>1, <3>2 DEF TimeOut, Fault
  <2>7. CASE Expire
    BY <2>7, ExpiredEntries DEF Expire, Fault
  <2>8. CASE ExtensionRestart
    BY <2>8 DEF ExtensionRestart, Fault
  <2>9. CASE DaemonRestart
    BY <2>9, EndedCalls DEF DaemonRestart, Fault
  <2>10. CASE UNCHANGED vars
    BY <2>10 DEF vars
  <2>11. QED
    BY <2>1, <2>2, <2>3, <2>4, <2>5, <2>6, <2>7, <2>8, <2>9, <2>10
    DEF Next, Heartbeat
<1>3. QED
  BY <1>1, <1>2, PTL DEF Spec

-----------------------------------------------------------------------------
\* The registry holds one whole batch or nothing, whatever order the calls are
\* handled in: with TypeOK the property is inductive, because every step that
\* changes the registry writes all of it.
THEOREM BatchCorrect == Spec => []BatchIsWhole
<1>1. Init => BatchIsWhole
  BY DEF Init, BatchIsWhole, Stored
<1>2. ASSUME TypeOK, BatchIsWhole, [Next]_vars PROVE BatchIsWhole'
  <2>1. CASE snapshots' = snapshots
    BY <1>2, <2>1 DEF BatchIsWhole, Stored
  <2>2. ASSUME NEW s \in Slots, Handle(s) \/ Overtake(s) \/ RefreshFails(s)
        PROVE  BatchIsWhole'
    <3>1. PICK refreshed \in BOOLEAN : s \in InFlight /\ ReplaceShellSnapshot(s, refreshed)
      BY <2>2 DEF Handle, Overtake, RefreshFails
    <3>2. CASE snapshots' = Replaced(calls[s].batch)
      <4>1. calls[s].batch.apps \subseteq Apps
        BY <1>2, <3>1 DEF TypeOK, InFlight, InPhase, Calls, Batches
      <4>2. QED
        BY <3>2, <4>1 DEF BatchIsWhole, Stored, Replaced
    <3>3. QED
      BY <1>2, <2>1, <3>1, <3>2, ReplacedEntries
  <2>3. CASE Expire
    <3>1. snapshots' = [a \in Apps |->
              IF a \in Stored THEN [snapshots[a] EXCEPT !.fresh = FALSE] ELSE Nothing]
      BY <2>3 DEF Expire
    <3>2. ASSUME NEW a \in Stored', NEW b \in Stored
          PROVE  a \in Stored /\ b \in Stored' /\ snapshots'[b] = snapshots'[a]
      BY <1>2, <3>1, <3>2 DEF BatchIsWhole, Stored
    <3>3. ASSUME NEW a \in Stored' PROVE Stored' = Stored
      BY <3>1, <3>2, <3>3 DEF Stored
    <3>4. ASSUME NEW a \in Stored' PROVE snapshots'[a].batch = snapshots[a].batch
      BY <1>2, <2>3, ExpiredEntries DEF Stored
    <3>5. QED
      BY <1>2, <3>2, <3>3, <3>4 DEF BatchIsWhole
  <2>4. CASE DaemonRestart
    BY <2>4 DEF DaemonRestart, BatchIsWhole, Stored
  <2>5. QED
    BY <1>2, <2>1, <2>2, <2>3, <2>4
    DEF Next, Heartbeat, DesktopChange, PublishNative, Retain, Answer, TimeOut,
        ExtensionRestart, vars
<1>3. QED
  BY <1>1, <1>2, TypeCorrect, PTL DEF Spec

-----------------------------------------------------------------------------
(***************************************************************************)
(* RevisionIdentifiesBatch is not inductive: it does not say what the next *)
(* submission may carry.  No batch is ahead of the extension, and one with *)
(* the extension's current revision has the payload last submitted, unless *)
(* a failure made the extension forget it.                                 *)
(***************************************************************************)
BehindExtension(x) ==
    /\ x.from <= instance
    /\ x.from = instance =>
         /\ x.rev <= shellRevision
         /\ x.rev = shellRevision /\ lastSemantic # Nothing => x.apps = lastSemantic

RevisionInv ==
    /\ \A x \in Around : BehindExtension(x)
    /\ RevisionIdentifiesBatch

\* Only a publication brings a batch that was not around.
LEMMA NothingNewAround ==
    ASSUME TypeOK, [Next]_vars,
           ~ \E s \in Slots, force \in BOOLEAN : PublishNative(s, force)
    PROVE  Around' \subseteq Around
<1>1. CASE calls' = calls /\ snapshots' = snapshots
  BY <1>1 DEF Around, Stored
<1>2. ASSUME NEW s \in Slots, Handle(s) \/ Overtake(s) \/ RefreshFails(s)
      PROVE  Around' \subseteq Around
  <2>1. PICK refreshed \in BOOLEAN : s \in InFlight /\ ReplaceShellSnapshot(s, refreshed)
    BY <1>2 DEF Handle, Overtake, RefreshFails
  <2>2. calls[s] # Nothing
    BY <2>1 DEF InFlight, InPhase
  <2>3. \A a \in Apps : snapshots'[a] # Nothing =>
           \/ snapshots[a] # Nothing /\ snapshots'[a] = snapshots[a]
           \/ snapshots'[a].batch = calls[s].batch
    BY <2>1, ReplacedEntries DEF Replaced
  <2>4. \A t \in Slots : calls'[t] # Nothing =>
           calls[t] # Nothing /\ calls'[t].batch = calls[t].batch
    BY <2>1, ReplacedEntries
  <2>5. QED
    BY <2>2, <2>3, <2>4 DEF Around, Stored
<1>3. ASSUME NEW s \in Slots, Retain(s) PROVE Around' \subseteq Around
  <2>1. \A t \in Slots : calls'[t] # Nothing =>
           calls[t] # Nothing /\ calls'[t].batch = calls[t].batch
    BY <1>3, HandledCalls DEF Retain, InPhase
  <2>2. QED
    BY <1>3, <2>1 DEF Retain, Around, Stored
<1>4. ASSUME NEW s \in Slots, Answer(s) PROVE Around' \subseteq Around
  <2>1. \A t \in Slots : calls'[t] # Nothing => calls'[t] = calls[t]
    BY <1>4 DEF Answer, TypeOK
  <2>2. QED
    BY <1>4, <2>1 DEF Answer, Around, Stored
<1>5. CASE (\E s \in Slots : TimeOut(s)) \/ DaemonRestart
  <2>1. \A t \in Slots : calls'[t] # Nothing =>
           calls[t] # Nothing /\ calls'[t].batch = calls[t].batch
    BY <1>5, EndedCalls
  <2>2. \A a \in Apps : snapshots'[a] # Nothing => snapshots'[a] = snapshots[a]
    BY <1>5 DEF TimeOut, DaemonRestart
  <2>3. QED
    BY <2>1, <2>2 DEF Around, Stored
<1>6. CASE Expire
  <2>1. calls' = calls
    BY <1>6 DEF Expire
  <2>2. QED
    BY <1>6, <2>1, ExpiredEntries DEF Around, Stored
<1>7. QED
  BY <1>1, <1>2, <1>3, <1>4, <1>5, <1>6
  DEF Next, Heartbeat, DesktopChange, ExtensionRestart, vars

\* Within one instance of the extension equal revisions carry equal snapshots,
\* for any number of failures, timeouts, retries and restarts.
THEOREM RevisionCorrect == Spec => []RevisionIdentifiesBatch
<1>1. Init => RevisionInv
  BY DEF Init, RevisionInv, RevisionIdentifiesBatch, Around, Stored
<1>2. ASSUME TypeOK, RevisionInv, [Next]_vars PROVE RevisionInv'
  <2>1. ASSUME NEW s \in Slots, NEW force \in BOOLEAN, PublishNative(s, force)
        PROVE  RevisionInv'
    <3> DEFINE sent == [apps |-> running, rev |-> shellRevision', from |-> instance]
    <3>1. Around' \subseteq Around \cup {sent}
      <4>1. calls' = [calls EXCEPT ![s] = [batch |-> sent, phase |-> "sent", waits |-> TRUE]]
        BY <2>1 DEF PublishNative, Submit
      <4>2. \A t \in Slots : calls'[t] = calls[t] \/ calls'[t].batch = sent
        BY <1>2, <4>1 DEF TypeOK
      <4>3. snapshots' = snapshots
        BY <2>1 DEF PublishNative
      <4>4. QED
        BY <4>2, <4>3 DEF Around, Stored
    <3>2. \A x \in Around : x.from = instance /\ x.rev = shellRevision' => x.apps = running
      <4>1. running # Nothing
        BY <1>2, SnapshotsAssumption DEF TypeOK
      <4>2. CASE running = lastSemantic /\ shellRevision # 0
        BY <1>2, <2>1, <4>1, <4>2 DEF PublishNative, RevisionInv, BehindExtension
      <4>3. CASE ~(running = lastSemantic /\ shellRevision # 0)
        <5>1. shellRevision' = shellRevision + 1
          BY <2>1, <4>3 DEF PublishNative
        <5>2. ASSUME NEW x \in Around, x.from = instance
              PROVE  x.rev <= shellRevision /\ x.rev \in Nat
          BY <1>2, <5>2 DEF RevisionInv, BehindExtension, Around, Stored, TypeOK, Calls,
                            Entries, Batches
        <5>3. QED
          BY <1>2, <5>1, <5>2 DEF TypeOK
      <4>4. QED
        BY <4>2, <4>3
    <3>3. RevisionIdentifiesBatch'
      BY <1>2, <3>1, <3>2 DEF RevisionInv, RevisionIdentifiesBatch
    <3>4. ASSUME NEW x \in Around' PROVE BehindExtension(x)'
      <4>1. instance' = instance /\ lastSemantic' = running
        BY <2>1 DEF PublishNative
      <4>2. shellRevision' \in Nat /\ shellRevision <= shellRevision'
        BY <1>2, <2>1 DEF PublishNative, TypeOK
      <4>3. CASE x = sent
        BY <1>2, <4>1, <4>2, <4>3 DEF BehindExtension, TypeOK
      <4>4. CASE x \in Around
        <5>1. x.rev \in Nat
          BY <1>2, <4>4 DEF Around, Stored, TypeOK, Calls, Entries, Batches
        <5>2. QED
          BY <1>2, <3>2, <4>1, <4>2, <4>4, <5>1 DEF RevisionInv, BehindExtension, TypeOK
      <4>5. QED
        BY <3>1, <3>4, <4>3, <4>4
    <3>5. QED
      BY <3>3, <3>4 DEF RevisionInv
  <2>2. CASE ~ \E s \in Slots, force \in BOOLEAN : PublishNative(s, force)
    <3>1. Around' \subseteq Around
      BY <1>2, <2>2, NothingNewAround
    <3>2. RevisionIdentifiesBatch'
      BY <1>2, <3>1 DEF RevisionInv, RevisionIdentifiesBatch
    <3>3. CASE ExtensionRestart
      <4>1. ASSUME NEW x \in Around' PROVE x.from <= instance /\ x.from \in Nat
        BY <1>2, <3>1, <4>1 DEF RevisionInv, BehindExtension, Around, Stored, TypeOK,
                                Calls, Entries, Batches
      <4>2. QED
        BY <1>2, <3>2, <3>3, <4>1 DEF ExtensionRestart, RevisionInv, BehindExtension, TypeOK
    <3>4. CASE ~ExtensionRestart
      <4>1. instance' = instance /\ shellRevision' = shellRevision
        BY <1>2, <2>2, <3>4
        DEF Next, Heartbeat, DesktopChange, Handle, Overtake, RefreshFails,
            ReplaceShellSnapshot, Retain, Answer, TimeOut, Expire, DaemonRestart, vars
      <4>2. lastSemantic' = lastSemantic \/ lastSemantic' = Nothing
        BY <1>2, <2>2, <3>4
        DEF Next, Heartbeat, DesktopChange, Handle, Overtake, RefreshFails,
            ReplaceShellSnapshot, Retain, Answer, Failed, TimeOut, Expire,
            DaemonRestart, vars
      <4>3. QED
        BY <1>2, <3>1, <3>2, <4>1, <4>2 DEF RevisionInv, BehindExtension
    <3>5. QED
      BY <3>3, <3>4
  <2>3. QED
    BY <2>1, <2>2
<1>3. RevisionInv => RevisionIdentifiesBatch
  BY DEF RevisionInv
<1>4. QED
  BY <1>1, <1>2, <1>3, TypeCorrect, PTL DEF Spec
=============================================================================
