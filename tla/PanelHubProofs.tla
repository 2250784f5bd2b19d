--------------------------- MODULE PanelHubProofs ---------------------------
(***************************************************************************)
(* Proofs about PanelHub, for any number of goroutines that refresh and    *)
(* reload at once, any registry and any file, with and without edits       *)
(* between a ReadFile and its Stat.                                        *)
(***************************************************************************)
EXTENDS PanelHub, TLAPS

\* A goroutine that starts anew has typed locals.
LEMMA FreshTyped == Fresh \in Locals /\ [Fresh EXCEPT !.reload = TRUE] \in Locals
BY HubAssumption DEF Fresh, Blank, Contents, Locals

\* Assigning a value of its type to a field of a local record keeps its type.
LEMMA LocalsUpdate ==
    ASSUME NEW r \in Locals
    PROVE  /\ \A d \in Sources : [r EXCEPT !.data = d] \in Locals
           /\ \A n \in Nat : [r EXCEPT !.rev = n] \in Locals
           /\ \A n \in Nat : [r EXCEPT !.info = n] \in Locals
           /\ \A n \in Nat : [r EXCEPT !.apps = n] \in Locals
           /\ \A n \in Nat : [r EXCEPT !.health = n] \in Locals
           /\ \A c \in Contents, n \in Nat : [r EXCEPT !.prev = c, !.gen = n] \in Locals
           /\ \A d \in Sources, n \in Nat : [r EXCEPT !.src = d, !.rev = n] \in Locals
<1>1. \A d \in Sources : [r EXCEPT !.data = d] \in Locals
  BY DEF Locals
<1>2. \A n \in Nat : [r EXCEPT !.rev = n] \in Locals
  BY DEF Locals
<1>3. \A n \in Nat : [r EXCEPT !.info = n] \in Locals
  BY DEF Locals
<1>4. \A n \in Nat : [r EXCEPT !.apps = n] \in Locals
  BY DEF Locals
<1>5. \A n \in Nat : [r EXCEPT !.health = n] \in Locals
  BY DEF Locals
<1>6. \A c \in Contents, n \in Nat : [r EXCEPT !.prev = c, !.gen = n] \in Locals
  BY DEF Locals
<1>7. \A d \in Sources, n \in Nat : [r EXCEPT !.src = d, !.rev = n] \in Locals
  BY DEF Locals
<1>8. QED
  BY <1>1, <1>2, <1>3, <1>4, <1>5, <1>6, <1>7

\* Every variable of the hub, of its goroutines and of the client keeps its type;
\* in particular the specification in force always compiles.
THEOREM TypeCorrect == Spec => []TypeOK
<1>1. Init => TypeOK
  <2> SUFFICES ASSUME Init PROVE TypeOK
    OBVIOUS
  <2>1. Blank \in Contents /\ panel \in Panels
    BY HubAssumption DEF Init, Blank, Contents, Panels
  <2>2. loc \in [Threads -> Locals]
    BY FreshTyped DEF Init
  <2>3. hint \in BOOLEAN /\ view \in Panels
    BY <2>1 DEF Init
  <2>4. QED
    BY <2>1, <2>2, <2>3, HubAssumption DEF Init, TypeOK
<1>2. ASSUME TypeOK, [Next]_vars PROVE TypeOK'
  <2> USE <1>2, HubAssumption DEF TypeOK, inputs, hub, client, Goto
  <2>1. ASSUME NEW t \in Threads, Ingest(t) PROVE TypeOK'
    BY <2>1 DEF Ingest
  <2>2. ASSUME NEW t \in Threads, ReloadCall(t) PROVE TypeOK'
    BY <2>2 DEF ReloadCall
  <2>3. ASSUME NEW t \in Threads, ReloadRead(t) PROVE TypeOK'
    <3>1. loc' \in [Threads -> Locals]
      BY <2>3, LocalsUpdate DEF ReloadRead
    <3>2. QED
      BY <2>3, <3>1 DEF ReloadRead
  <2>4. ASSUME NEW t \in Threads, ReloadCompile(t) PROVE TypeOK'
    <3>1. CASE loc[t].data \in Good
      <4>1. spec' \in [src : Good, rev : Nat]
        BY <2>4, <3>1 DEF ReloadCompile
      <4>2. [loc[t] EXCEPT !.rev = spec'.rev] \in Locals
        BY <4>1, LocalsUpdate
      <4>3. loc' \in [Threads -> Locals]
        BY <2>4, <3>1, <4>2 DEF ReloadCompile
      <4>4. QED
        BY <2>4, <3>1, <4>1, <4>3 DEF ReloadCompile
    <3>2. CASE loc[t].data \notin Good
      BY <2>4, <3>2, FreshTyped DEF ReloadCompile, AfterReload
    <3>3. QED
      BY <3>1, <3>2
  <2>5. ASSUME NEW t \in Threads, ReloadStat(t) PROVE TypeOK'
    <3>1. loc' \in [Threads -> Locals]
      BY <2>5, LocalsUpdate DEF ReloadStat
    <3>2. QED
      BY <2>5, <3>1 DEF ReloadStat
  <2>6. ASSUME NEW t \in Threads, ReloadRecord(t) PROVE TypeOK'
    <3>1. loc[t].info \in Nat /\ loc[t].rev \in Nat
      BY DEF Locals
    <3>2. QED
      BY <2>6, <3>1, FreshTyped DEF ReloadRecord
  <2>7. ASSUME NEW t \in Threads, RefreshApply(t) PROVE TypeOK'
    <3>1. registry \in Nat
      OBVIOUS
    <3>2. [loc[t] EXCEPT !.apps = registry] \in Locals
      BY <3>1, LocalsUpdate
    <3>3. QED
      BY <2>7, <3>2 DEF RefreshApply
  <2>8. ASSUME NEW t \in Threads, RefreshHealth(t) PROVE TypeOK'
    <3>1. registry \in Nat
      OBVIOUS
    <3>2. [loc[t] EXCEPT !.health = registry] \in Locals
      BY <3>1, LocalsUpdate
    <3>3. QED
      BY <2>8, <3>2 DEF RefreshHealth
  <2>9. ASSUME NEW t \in Threads, RefreshPrevious(t) PROVE TypeOK'
    <3>1. ASSUME NEW n \in {surf.gen, surf.gen + 1}
          PROVE  [loc[t] EXCEPT !.prev = surf.content, !.gen = n] \in Locals
      <4>1. n \in Nat /\ surf.content \in Contents
        OBVIOUS
      <4>2. QED
        BY <4>1, LocalsUpdate
    <3>2. \/ loc' = [loc EXCEPT ![t] = [loc[t] EXCEPT !.prev = surf.content,
                                                    !.gen = surf.gen]]
          \/ loc' = [loc EXCEPT ![t] = [loc[t] EXCEPT !.prev = surf.content,
                                                    !.gen = surf.gen + 1]]
      BY <2>9 DEF RefreshPrevious
    <3>3. loc' \in [Threads -> Locals]
      BY <3>1, <3>2
    <3>4. QED
      BY <2>9, <3>3 DEF RefreshPrevious
  <2>10. ASSUME NEW t \in Threads, RefreshSpec(t) PROVE TypeOK'
    <3>1. spec.src \in Sources /\ spec.rev \in Nat
      OBVIOUS
    <3>2. loc' \in [Threads -> Locals]
      BY <2>10, <3>1, LocalsUpdate DEF RefreshSpec
    <3>3. QED
      BY <2>10, <3>2 DEF RefreshSpec
  <2>11. ASSUME NEW t \in Threads, RefreshPublish(t) PROVE TypeOK'
    <3>1. /\ Content(t) \in Contents /\ loc[t].src \in Sources
          /\ loc[t].gen \in Nat /\ loc[t].rev \in Nat
      BY DEF Content, Contents, Locals
    <3>2. PICK changed \in BOOLEAN : Publish(t, changed) /\ Finish(t, changed)
      BY <2>11 DEF RefreshPublish
    <3>3. /\ surf' \in [content : Contents, gen : Nat] /\ panel' \in Panels
          /\ panelRev' \in Nat /\ lastSpec' \in Nat
      BY <3>1, <3>2 DEF Publish, Panels
    <3>4. /\ loc' \in [Threads -> Locals]
          /\ pc' = [pc EXCEPT ![t] = "notify"] \/ pc' = [pc EXCEPT ![t] = "idle"]
      BY <3>2, FreshTyped DEF Finish
    <3>5. QED
      BY <2>11, <3>3, <3>4 DEF RefreshPublish
  <2>12. ASSUME NEW t \in Threads, RefreshNotify(t) PROVE TypeOK'
    BY <2>12, FreshTyped DEF RefreshNotify, AfterReload
  <2>13. CASE Tick
    BY <2>13 DEF Tick, Threads
  <2>14. CASE Expires
    BY <2>14 DEF Expires
  <2>15. CASE Edit
    BY <2>15 DEF Edit
  <2>16. CASE ClientRefresh
    BY <2>16 DEF ClientRefresh
  <2>17. CASE UNCHANGED vars
    BY <2>17 DEF vars
  <2>18. QED
    BY <2>1, <2>2, <2>3, <2>4, <2>5, <2>6, <2>7, <2>8, <2>9, <2>10, <2>11, <2>12,
       <2>13, <2>14, <2>15, <2>16, <2>17
    DEF Next, ReloadStep, RefreshStep
<1>3. QED
  BY <1>1, <1>2, PTL DEF Spec

-----------------------------------------------------------------------------
(***************************************************************************)
(* The versions of the specification that are in use: in the manager, in   *)
(* the published panel, and in the hands of a Refresh that read one and    *)
(* has not published yet.  The hub compares revisions only, so it must be  *)
(* that a revision stands for one source and that the manager has the      *)
(* newest one; the manager's own counter gives both.                       *)
(***************************************************************************)
Publishing == {t \in Threads : pc[t] = "publish"}

Versions ==
    {[rev |-> spec.rev, src |-> spec.src], [rev |-> lastSpec, src |-> panel.src]}
    \cup {[rev |-> loc[t].rev, src |-> loc[t].src] : t \in Publishing}

VersionInv ==
    /\ panel.content = surf.content
    /\ \A x \in Versions : x.rev <= spec.rev
    /\ \A x, y \in Versions : x.rev = y.rev => x.src = y.src

\* Revisions are numbers.
LEMMA VersionRevisions == TypeOK => \A x \in Versions : x.rev \in Nat
BY DEF TypeOK, Versions, Publishing, Locals

\* Only the manager's Apply makes a version that was not in use.
LEMMA NoNewVersion ==
    ASSUME TypeOK, [Next]_vars, spec' = spec
    PROVE  Versions' \subseteq Versions
<1> USE DEF TypeOK, inputs, hub, client, Goto
<1>1. ASSUME NEW t \in Threads, RefreshSpec(t) PROVE Versions' \subseteq Versions
  <2>1. panel' = panel /\ lastSpec' = lastSpec
    BY <1>1 DEF RefreshSpec
  <2>2. loc'[t].rev = spec.rev /\ loc'[t].src = spec.src
    BY <1>1 DEF RefreshSpec, Locals
  <2>3. \A u \in Threads : u # t => loc'[u] = loc[u] /\ pc'[u] = pc[u]
    BY <1>1 DEF RefreshSpec
  <2>4. QED
    BY <2>1, <2>2, <2>3 DEF Versions, Publishing
<1>2. ASSUME NEW t \in Threads, RefreshPublish(t) PROVE Versions' \subseteq Versions
  <2>1. t \in Publishing
    BY <1>2 DEF RefreshPublish, Publishing
  <2>2. lastSpec' = loc[t].rev /\ panel'.src = loc[t].src
    BY <1>2 DEF RefreshPublish, Publish
  <2>3. pc'[t] # "publish" /\ \A u \in Threads : u # t => loc'[u] = loc[u] /\ pc'[u] = pc[u]
    BY <1>2 DEF RefreshPublish, Finish
  <2>4. QED
    BY <2>1, <2>2, <2>3 DEF Versions, Publishing
<1>3. ASSUME NEW t \in Threads,
             \/ Ingest(t) \/ ReloadCall(t) \/ ReloadStep(t) \/ RefreshApply(t)
             \/ RefreshHealth(t) \/ RefreshPrevious(t) \/ RefreshNotify(t)
      PROVE  Versions' \subseteq Versions
  <2>1. panel' = panel /\ lastSpec' = lastSpec
    BY <1>3 DEF Ingest, ReloadCall, ReloadStep, ReloadRead, ReloadCompile, ReloadStat,
                ReloadRecord, RefreshApply, RefreshHealth, RefreshPrevious, RefreshNotify
  <2>2. pc'[t] # "publish" /\ \A u \in Threads : u # t => loc'[u] = loc[u] /\ pc'[u] = pc[u]
    BY <1>3 DEF Ingest, ReloadCall, ReloadStep, ReloadRead, ReloadCompile, ReloadStat,
                ReloadRecord, AfterReload, RefreshApply, RefreshHealth, RefreshPrevious,
                RefreshNotify
  <2>3. QED
    BY <2>1, <2>2 DEF Versions, Publishing
<1>4. CASE Tick \/ Expires \/ Edit \/ ClientRefresh \/ UNCHANGED vars
  <2>1. panel' = panel /\ lastSpec' = lastSpec /\ loc' = loc
    BY <1>4 DEF Tick, Expires, Edit, ClientRefresh, vars
  <2>2. \A u \in Threads : pc'[u] = "publish" => pc[u] = "publish"
    BY <1>4 DEF Tick, Expires, Edit, ClientRefresh, vars, Threads
  <2>3. QED
    BY <2>1, <2>2 DEF Versions, Publishing
<1>5. QED
  BY <1>1, <1>2, <1>3, <1>4 DEF Next, RefreshStep

\* The panel that a step publishes shows the snapshot it publishes.
LEMMA ContentFollows ==
    ASSUME TypeOK, panel.content = surf.content, [Next]_vars
    PROVE  panel'.content = surf'.content
<1>1. CASE panel' = panel /\ surf' = surf
  BY <1>1
<1>2. ASSUME NEW t \in Threads, RefreshPublish(t) PROVE panel'.content = surf'.content
  BY <1>2 DEF RefreshPublish, Publish
<1>3. QED
  BY <1>1, <1>2
  DEF Next, hub, Ingest, ReloadCall, ReloadStep, ReloadRead, ReloadCompile, ReloadStat,
      ReloadRecord, RefreshStep, RefreshApply, RefreshHealth, RefreshPrevious,
      RefreshSpec, RefreshNotify, Tick, Expires, Edit, ClientRefresh, vars

\* Revisions of the specification stand for sources, through any number of
\* reloads and overtaking refreshes.
LEMMA VersionInvCorrect == Spec => []VersionInv
<1>1. Init => VersionInv
  BY DEF Init, VersionInv, Versions, Publishing
<1>2. ASSUME TypeOK, VersionInv, [Next]_vars PROVE VersionInv'
  <2>1. panel'.content = surf'.content
    BY <1>2, ContentFollows DEF VersionInv
  <2>2. CASE spec' = spec
    BY <1>2, <2>1, <2>2, NoNewVersion DEF VersionInv
  <2>3. ASSUME NEW t \in Threads, ReloadCompile(t), loc[t].data \in Good
        PROVE  VersionInv'
    <3> DEFINE new == [rev |-> spec.rev + 1, src |-> loc[t].data]
    <3>1. spec' = [src |-> loc[t].data, rev |-> spec.rev + 1]
      BY <2>3 DEF ReloadCompile
    <3>2. pc'[t] # "publish" /\ \A u \in Threads : u # t => loc'[u] = loc[u] /\ pc'[u] = pc[u]
      BY <1>2, <2>3 DEF ReloadCompile, Goto, TypeOK
    <3>3. panel' = panel /\ lastSpec' = lastSpec
      BY <2>3 DEF ReloadCompile, hub
    <3>4. Versions' \subseteq Versions \cup {new}
      BY <3>1, <3>2, <3>3 DEF Versions, Publishing
    <3>5. spec.rev \in Nat /\ \A x \in Versions : x.rev \in Nat /\ x.rev < spec.rev + 1
      BY <1>2, VersionRevisions DEF TypeOK, VersionInv
    <3>6. \A x \in Versions' : x.rev <= spec'.rev
      BY <3>1, <3>4, <3>5
    <3>7. ASSUME NEW x \in Versions', NEW y \in Versions', x.rev = y.rev
          PROVE  x.src = y.src
      BY <1>2, <3>4, <3>5, <3>7 DEF VersionInv
    <3>8. QED
      BY <2>1, <3>6, <3>7 DEF VersionInv
  <2>4. QED
    BY <1>2, <2>2, <2>3
    DEF Next, inputs, Ingest, ReloadCall, ReloadStep, ReloadRead, ReloadCompile, ReloadStat,
        ReloadRecord, RefreshStep, RefreshApply, RefreshHealth, RefreshPrevious,
        RefreshSpec, RefreshPublish, RefreshNotify, Tick, Expires, Edit, ClientRefresh, vars
<1>3. QED
  BY <1>1, <1>2, TypeCorrect, PTL DEF Spec

\* What is published belongs together: the panel shows h.surfaceSnapshot and,
\* when its recorded revision is the manager's, the manager's source.
THEOREM PanelConsistent == Spec => []PanelIsConsistent
<1>1. TypeOK /\ VersionInv => PanelIsConsistent
  <2> SUFFICES ASSUME TypeOK, VersionInv PROVE PanelIsConsistent
    OBVIOUS
  <2>1. /\ [rev |-> spec.rev, src |-> spec.src] \in Versions
        /\ [rev |-> lastSpec, src |-> panel.src] \in Versions
    BY DEF Versions
  <2>2. lastSpec = spec.rev => panel.src = spec.src
    BY <2>1 DEF VersionInv
  <2>3. QED
    BY <2>2 DEF VersionInv, PanelIsConsistent
<1>2. QED
  BY <1>1, TypeCorrect, VersionInvCorrect, PTL

\* No two different panels have the same revision, one after the other: the
\* comparison under h.mu misses no change, although what it compares was read
\* earlier and other goroutines have published since.
THEOREM RevisionIdentifies == Spec => RevisionIdentifiesPanel
<1>1. ASSUME TypeOK, VersionInv, [Next]_vars
      PROVE  [panel' # panel => panelRev' > panelRev]_vars
  <2>1. CASE panel' = panel
    BY <2>1
  <2>2. ASSUME NEW t \in Threads, RefreshPublish(t)
        PROVE  panel' # panel => panelRev' > panelRev
    <3>1. CASE Content(t) # surf.content \/ loc[t].rev # lastSpec
      BY <1>1, <2>2, <3>1 DEF RefreshPublish, Publish, TypeOK
    <3>2. CASE Content(t) = surf.content /\ loc[t].rev = lastSpec
      <4>1. /\ [rev |-> loc[t].rev, src |-> loc[t].src] \in Versions
            /\ [rev |-> lastSpec, src |-> panel.src] \in Versions
        BY <2>2 DEF RefreshPublish, Versions, Publishing
      <4>2. loc[t].src = panel.src /\ Content(t) = panel.content
        BY <1>1, <3>2, <4>1 DEF VersionInv
      <4>3. panel = [content |-> panel.content, src |-> panel.src]
        BY <1>1 DEF TypeOK, Panels
      <4>4. QED
        BY <2>2, <4>2, <4>3 DEF RefreshPublish, Publish
    <3>3. QED
      BY <3>1, <3>2
  <2>3. QED
    BY <1>1, <2>1, <2>2
    DEF Next, hub, Ingest, ReloadCall, ReloadStep, ReloadRead, ReloadCompile, ReloadStat,
        ReloadRecord, RefreshStep, RefreshApply, RefreshHealth, RefreshPrevious,
        RefreshSpec, RefreshNotify, Tick, Expires, Edit, ClientRefresh, vars
<1>2. QED
  BY <1>1, TypeCorrect, VersionInvCorrect, PTL DEF Spec, RevisionIdentifiesPanel
=============================================================================
