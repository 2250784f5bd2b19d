-------------------------- MODULE ConfigFileProofs --------------------------
(***************************************************************************)
(* Proofs about ConfigFile, for every set of file contents, every number   *)
(* of edits and every interleaving of the editor with the reload.          *)
(***************************************************************************)
EXTENDS ConfigFile, TLAPS

\* The configuration is typed: no step of Configure, Poll or Reload keeps
\* anything but file contents, stamps and flags.
THEOREM TypeCorrect == Spec => []TypeOK
<1>1. Init => TypeOK
  BY ConfigAssumption DEF Init, TypeOK
<1>2. TypeOK /\ [Next]_vars => TypeOK'
  <2> SUFFICES ASSUME TypeOK, [Next]_vars PROVE TypeOK'
    OBVIOUS
  <2> USE ConfigAssumption DEF TypeOK, file, locals
  <2>1. CASE ConfigureDefault
    BY <2>1 DEF ConfigureDefault
  <2>2. CASE ConfigureCreate
    BY <2>2 DEF ConfigureCreate
  <2>3. CASE ConfigureFails
    BY <2>3 DEF ConfigureFails
  <2>4. CASE PollChanged
    BY <2>4 DEF PollChanged
  <2>5. CASE ReloadRead
    BY <2>5 DEF ReloadRead
  <2>6. CASE ReloadStat
    BY <2>6 DEF ReloadStat
  <2>7. CASE ReloadFails
    BY <2>7 DEF ReloadFails
  <2>8. CASE ReloadInstall
    BY <2>8 DEF ReloadInstall
  <2>9. CASE Edit
    BY <2>9 DEF Edit
  <2>10. CASE UNCHANGED vars
    BY <2>10 DEF vars
  <2>. QED
    BY <2>1, <2>2, <2>3, <2>4, <2>5, <2>6, <2>7, <2>8, <2>9, <2>10
    DEF Next, Maintenance
<1>. QED
  BY <1>1, <1>2, PTL DEF Spec

\* Readers are never served a configuration that does not compile: the
\* installed content is the built-in source or a file that was accepted.
THEOREM LastKnownGoodCorrect == Spec => []LastKnownGood
<1> DEFINE Served == revision > 0 => loaded \in Good
<1>1. Init => Served
  BY DEF Init
<1>2. TypeOK /\ Served /\ [Next]_vars => Served'
  <2> SUFFICES ASSUME TypeOK, Served, [Next]_vars PROVE Served'
    OBVIOUS
  <2> USE ConfigAssumption DEF TypeOK
  <2>1. CASE ConfigureDefault
    BY <2>1 DEF ConfigureDefault
  <2>2. CASE ReloadInstall
    <3>1. CASE data \in Good
      BY <2>2, <3>1 DEF ReloadInstall
    <3>2. CASE data \notin Good
      BY <2>2, <3>2 DEF ReloadInstall
    <3>. QED
      BY <3>1, <3>2
  <2>3. CASE UNCHANGED <<loaded, revision>>
    BY <2>3
  <2>. QED
    BY <2>1, <2>2, <2>3
    DEF Next, Maintenance, ConfigureCreate, ConfigureFails, PollChanged,
        ReloadRead, ReloadStat, ReloadFails, Edit, vars
<1>3. TypeOK /\ Served => LastKnownGood
  BY DEF LastKnownGood
<1> HIDE DEF Served
<1>. QED
  BY <1>1, <1>2, <1>3, TypeCorrect, PTL DEF Spec

-----------------------------------------------------------------------------
(***************************************************************************)
(* PolledIsCurrent is not inductive: what Reload is about to record has to *)
(* be tied to the file.  Stamps only grow, the content read stands for the *)
(* stamp that Stat will return (this is where edits between ReadFile and   *)
(* Stat are excluded), and so it does until it is recorded.                *)
(***************************************************************************)
ReloadInv ==
    /\ seen <= stamp
    /\ pc = "stat" => data = disk
    /\ pc = "install" => info <= stamp /\ (info = stamp => data = disk)
    /\ pc # "start" => revision > 0
    /\ pc \in {"start", "create"} => seen < stamp
    /\ disk # NoFile /\ stamp = seen =>
          (disk \in Good => loaded = disk) /\ (Valid <=> disk \in Good)

\* The strengthened invariant holds when no edit falls between ReadFile and
\* Stat.
LEMMA ReloadInvCorrect ==
    ASSUME EditsRace = FALSE
    PROVE  Spec => []ReloadInv
<1>1. Init => ReloadInv
  BY DEF Init, ReloadInv, Valid
<1>2. TypeOK /\ ReloadInv /\ [Next]_vars => ReloadInv'
  <2> SUFFICES ASSUME TypeOK, ReloadInv, [Next]_vars PROVE ReloadInv'
    OBVIOUS
  <2> USE ConfigAssumption DEF TypeOK, ReloadInv, Valid, file, locals
  <2>1. CASE ConfigureDefault
    BY <2>1 DEF ConfigureDefault
  <2>2. CASE ConfigureCreate
    BY <2>2 DEF ConfigureCreate
  <2>3. CASE ConfigureFails
    BY <2>3 DEF ConfigureFails
  <2>4. CASE PollChanged
    BY <2>4 DEF PollChanged
  <2>5. CASE ReloadRead
    BY <2>5 DEF ReloadRead
  <2>6. CASE ReloadStat
    BY <2>6 DEF ReloadStat
  <2>7. CASE ReloadFails
    BY <2>7 DEF ReloadFails
  <2>8. CASE ReloadInstall
    <3>1. CASE data \in Good
      BY <2>8, <3>1 DEF ReloadInstall
    <3>2. CASE data \notin Good
      BY <2>8, <3>2 DEF ReloadInstall
    <3>. QED
      BY <3>1, <3>2
  <2>9. CASE Edit
    BY <2>9, EditsRace = FALSE DEF Edit
  <2>10. CASE UNCHANGED vars
    BY <2>10 DEF vars
  <2>. QED
    BY <2>1, <2>2, <2>3, <2>4, <2>5, <2>6, <2>7, <2>8, <2>9, <2>10
    DEF Next, Maintenance
<1>. QED
  BY <1>1, <1>2, TypeCorrect, PTL DEF Spec

\* A poll that sees nothing to do is right: the file on the disk is served if
\* it is good and reported if it is not, provided no edit fell between the
\* ReadFile and the Stat of a reload.
THEOREM PolledIsCurrentCorrect ==
    ASSUME EditsRace = FALSE
    PROVE  Spec => []PolledIsCurrent
<1>1. ReloadInv => PolledIsCurrent
  BY DEF ReloadInv, PolledIsCurrent
<1>. QED
  BY <1>1, ReloadInvCorrect, PTL
=============================================================================
