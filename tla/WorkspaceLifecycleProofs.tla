---------------------- MODULE WorkspaceLifecycleProofs ----------------------
(***************************************************************************)
(* Proofs about WorkspaceLifecycle, for any workspaces, resources and      *)
(* catalogs, and any number of windows, events and faults.                 *)
(***************************************************************************)
EXTENDS WorkspaceLifecycle, WellFoundedInduction, TLAPS

-----------------------------------------------------------------------------
(***************************************************************************)
(* The operators the model is built from                                   *)
(***************************************************************************)

\* The order on the naturals as a set of pairs.
LEMMA LessThanPairs == \A x, y \in Nat : x < y => <<x, y>> \in OpToRel(<, Nat)
BY DEF OpToRel

\* The next resource or window that an activity takes exists and is the least of
\* those left to do.
LEMMA FirstIsLeast ==
    ASSUME NEW S, S \subseteq Nat, S # {}
    PROVE  First(S) \in S /\ \A q \in S : First(S) <= q
<1>1. PICK r \in S : \A q \in S : ~(<<q, r>> \in OpToRel(<, Nat))
  BY NatLessThanWellFounded, WFMin
<1>2. ASSUME NEW q \in S PROVE r <= q
  <2>1. ~(q < r)
    BY <1>1, LessThanPairs
  <2>2. QED
    BY <2>1
<1>3. QED
  BY <1>2 DEF First

\* A definition is a function from some of the resources to specs.
LEMMA DefinitionShape ==
    /\ NoDefinition \in Definitions
    /\ \A d \in Definitions : /\ DOMAIN d \subseteq Resources
                              /\ \A r \in DOMAIN d : d[r] \in Specs
<1>1. NoDefinition \in [{} -> Specs]
  BY DEF NoDefinition
<1>2. QED
  BY <1>1 DEF Definitions

\* What the catalog resolves for a workspace is a definition.
LEMMA ResolveShape ==
    ASSUME TypeOK, NEW w \in Workspaces, Resolvable(w)
    PROVE  Resolve(w) \in Definitions
BY LifecycleAssumption DEF TypeOK, Resolvable, Resolve, ValidCatalog

\* An activity that does not run has typed local variables.
LEMMA IdleShape ==
    ASSUME NEW ph \in Phases
    PROVE  IdleOp \in Operations /\ [IdleOp EXCEPT !.phase = ph] \in Operations
<1>1. /\ NoReply \in Replies /\ NoResult \in Results
      /\ [r \in Resources |-> {}] \in [Resources -> SUBSET (1..MaxWindows)]
  BY DEF NoReply, Replies, NoResult, Results, Statuses, Codes
<1>2. "idle" \in Phases
  BY DEF Phases
<1>3. QED
  BY <1>1, <1>2, DefinitionShape DEF IdleOp, Operations

\* Abandoning a workspace's actions, or all of them, changes no message but for
\* the question whether somebody waits for its answer.
LEMMA AbandonShape ==
    ASSUME wire \in Seq(Messages), NEW W,
           wire' = [i \in DOMAIN wire |->
               IF wire[i].target.ws \in W THEN [wire[i] EXCEPT !.live = FALSE] ELSE wire[i]]
    PROVE  /\ wire' \in Seq(Messages) /\ DOMAIN wire' = DOMAIN wire
           /\ \A i \in DOMAIN wire :
                /\ wire'[i].target = wire[i].target /\ wire'[i].kind = wire[i].kind
                /\ wire[i].kind = "ensure" => wire'[i].app = wire[i].app
                /\ wire[i].kind = "close" => wire'[i].win = wire[i].win
                /\ wire'[i].live => wire[i].live /\ wire[i].target.ws \notin W
<1>1. ASSUME NEW m \in Messages
      PROVE  /\ [m EXCEPT !.live = FALSE] \in Messages
             /\ ~[m EXCEPT !.live = FALSE].live
             /\ [m EXCEPT !.live = FALSE].target = m.target
             /\ [m EXCEPT !.live = FALSE].kind = m.kind
             /\ m.kind = "ensure" => [m EXCEPT !.live = FALSE].app = m.app
             /\ m.kind = "close" => [m EXCEPT !.live = FALSE].win = m.win
  BY DEF Messages
<1>2. /\ Len(wire) \in Nat /\ DOMAIN wire = 1..Len(wire)
      /\ \A i \in DOMAIN wire : wire[i] \in Messages
  OBVIOUS
<1>3. wire' \in [1..Len(wire) -> Messages]
  BY <1>1, <1>2
<1>4. wire' \in Seq(Messages)
  BY <1>2, <1>3
<1>5. QED
  BY <1>1, <1>2, <1>4

-----------------------------------------------------------------------------
(***************************************************************************)
(* The shape of a running activity: what it has left to do are resources   *)
(* of the definition it resolved, a wait concerns the first of them, and   *)
(* the windows left to close belong to its session.                        *)
(***************************************************************************)
Waiting == {"awaitEnsure", "waitReady", "closeWindows", "awaitClose"}

OpShape(o) ==
    /\ o.todo \subseteq DOMAIN o.def
    /\ o.phase \in Waiting => o.todo # {}
    /\ o.phase \in {"closeWindows", "awaitClose"} => o.left \subseteq o.session[First(o.todo)]
    /\ o.phase = "awaitClose" => o.left # {}
    /\ o.phase \notin {"awaitEnsure", "awaitClose"} => o.reply = NoReply
    /\ o.reply.changed => o.reply.ok

ShapeOK == \A w \in Workspaces : OpShape(op[w])

\* The next resource of an activity is one of its definition's.
LEMMA FirstTodo ==
    ASSUME TypeOK, NEW w \in Workspaces, OpShape(op[w]), op[w].todo # {}
    PROVE  /\ First(op[w].todo) \in op[w].todo /\ First(op[w].todo) \in Resources
           /\ First(op[w].todo) \in DOMAIN op[w].def
           /\ op[w].def[First(op[w].todo)] \in Specs
<1>1. op[w].todo \subseteq Resources /\ op[w].def \in Definitions
  BY DEF TypeOK, Operations
<1>2. First(op[w].todo) \in op[w].todo
  BY <1>1, FirstIsLeast, LifecycleAssumption
<1>3. QED
  BY <1>1, <1>2, DefinitionShape DEF OpShape

\* An idle activity has the shape, in every phase that needs nothing.
LEMMA IdleOpShape ==
    ASSUME NEW ph \in Phases \ Waiting
    PROVE  OpShape(IdleOp) /\ OpShape([IdleOp EXCEPT !.phase = ph])
BY DEF IdleOp, NoReply, OpShape, Waiting

\* A step of w's activity keeps types and shape, and touches no other activity.
LEMMA ActivityShape ==
    ASSUME TypeOK, NEW w \in Workspaces, OpShape(op[w]), ActivityStep(w)
    PROVE  /\ op' \in [Workspaces -> Operations] /\ OpShape(op'[w])
           /\ \A u \in Workspaces \ {w} : op'[u] = op[u]
<1> DEFINE Good(o) == o \in Operations /\ OpShape(o)
<1>0. op[w] \in Operations
  BY DEF TypeOK
<1>1. ASSUME NEW o, Good(o), op' = [op EXCEPT ![w] = o]
      PROVE  /\ op' \in [Workspaces -> Operations] /\ OpShape(op'[w])
             /\ \A u \in Workspaces \ {w} : op'[u] = op[u]
  BY <1>1 DEF TypeOK
<1> HIDE DEF Good
<1>2. CASE ReconcileStart(w)
  <2>1. CASE Resolvable(w)
    <3> DEFINE o == [op[w] EXCEPT !.phase = "ensure", !.def = Resolve(w),
                        !.todo = BuildReconcilePlan(Resolve(w), Ready(Resolve(w)))]
    <3>1. op' = [op EXCEPT ![w] = o]
      BY <1>2, <2>1 DEF ReconcileStart
    <3>2. Resolve(w) \in Definitions /\ DOMAIN Resolve(w) \subseteq Resources
      BY <2>1, ResolveShape, DefinitionShape
    <3>3. BuildReconcilePlan(Resolve(w), Ready(Resolve(w))) \subseteq DOMAIN Resolve(w)
      BY DEF BuildReconcilePlan
    <3>4. Good(o)
      BY <1>0, <1>2, <3>2, <3>3 DEF Good, Operations, OpShape, Waiting, Phases, ReconcileStart
    <3>5. QED
      BY <1>1, <3>1, <3>4
  <2>2. CASE ~Resolvable(w)
    <3> DEFINE o == [op[w] EXCEPT !.phase = "commit",
                        !.result = Outcome("failed", {}, {}, "definition_not_found")]
    <3>1. op' = [op EXCEPT ![w] = o]
      BY <1>2, <2>2 DEF ReconcileStart
    <3>2. Outcome("failed", {}, {}, "definition_not_found") \in Results
      BY DEF Outcome, Results, Statuses, Codes
    <3>4. Good(o)
      BY <1>0, <1>2, <3>2 DEF Good, Operations, OpShape, Waiting, Phases, ReconcileStart
    <3>5. QED
      BY <1>1, <3>1, <3>4
  <2>3. QED
    BY <2>1, <2>2
<1>3. CASE EnsureSend(w)
  <2> DEFINE o == [op[w] EXCEPT !.phase = "awaitEnsure", !.reply = NoReply]
  <2>1. op' = [op EXCEPT ![w] = o]
    BY <1>0, <1>3 DEF EnsureSend, TypeOK
  <2>2. Good(o)
    BY <1>0, <1>3 DEF Good, Operations, OpShape, Waiting, Phases, NoReply, Replies, EnsureSend
  <2>3. QED
    BY <1>1, <2>1, <2>2
<1>4. CASE EnsureAccepted(w)
  <2> DEFINE o == [op[w] EXCEPT !.phase = "waitReady", !.reply = NoReply]
  <2>1. op' = [op EXCEPT ![w] = o]
    BY <1>0, <1>4 DEF EnsureAccepted, TypeOK
  <2>2. Good(o)
    BY <1>0, <1>4 DEF Good, Operations, OpShape, Waiting, Phases, NoReply, Replies, EnsureAccepted
  <2>3. QED
    BY <1>1, <2>1, <2>2
<1>5. CASE EnsureReady(w)
  <2> DEFINE o == [op[w] EXCEPT !.phase = "ensure", !.todo = op[w].todo \ {First(op[w].todo)}]
  <2>1. op' = [op EXCEPT ![w] = o]
    BY <1>0, <1>5 DEF EnsureReady, TypeOK
  <2>2. Good(o)
    BY <1>0, <1>5 DEF Good, Operations, OpShape, Waiting, Phases, NoReply, Replies, EnsureReady
  <2>3. QED
    BY <1>1, <2>1, <2>2
<1>6. CASE EnsureFails(w)
  <2> DEFINE o == [op[w] EXCEPT !.phase = "ensure", !.todo = op[w].todo \ {First(op[w].todo)},
                      !.reply = NoReply, !.failed = TRUE]
  <2>1. op' = [op EXCEPT ![w] = o]
    BY <1>0, <1>6 DEF EnsureFails, TypeOK
  <2>2. Good(o)
    BY <1>0, <1>6 DEF Good, Operations, OpShape, Waiting, Phases, NoReply, Replies, EnsureFails
  <2>3. QED
    BY <1>1, <2>1, <2>2
<1>7. CASE CloseNext(w)
  <2> DEFINE o == [op[w] EXCEPT !.phase = "closeWindows", !.left = op[w].session[First(op[w].todo)]]
  <2>1. op' = [op EXCEPT ![w] = o]
    BY <1>0, <1>7 DEF CloseNext, TypeOK
  <2>2. Good(o)
    BY <1>0, <1>7, FirstTodo DEF Good, Operations, OpShape, Waiting, Phases, NoReply, Replies, CloseNext
  <2>3. QED
    BY <1>1, <2>1, <2>2
<1>8. CASE CloseSend(w)
  <2> DEFINE o == [op[w] EXCEPT !.phase = "awaitClose", !.reply = NoReply]
  <2>1. op' = [op EXCEPT ![w] = o]
    BY <1>0, <1>8 DEF CloseSend, TypeOK
  <2>2. Good(o)
    BY <1>0, <1>8 DEF Good, Operations, OpShape, Waiting, Phases, NoReply, Replies, CloseSend
  <2>3. QED
    BY <1>1, <2>1, <2>2
<1>9. CASE CloseAccepted(w)
  <2> DEFINE o == [op[w] EXCEPT !.phase = "closeWindows", !.reply = NoReply, !.left = op[w].left \ {First(op[w].left)}]
  <2>1. op' = [op EXCEPT ![w] = o]
    BY <1>0, <1>9 DEF CloseAccepted, TypeOK
  <2>2. Good(o)
    BY <1>0, <1>9 DEF Good, Operations, OpShape, Waiting, Phases, NoReply, Replies, CloseAccepted
  <2>3. QED
    BY <1>1, <2>1, <2>2
<1>10. CASE CloseAbsent(w)
  <2> DEFINE o == [op[w] EXCEPT !.phase = "closeNext", !.todo = op[w].todo \ {First(op[w].todo)}]
  <2>1. op' = [op EXCEPT ![w] = o]
    BY <1>0, <1>10 DEF CloseAbsent, TypeOK
  <2>2. Good(o)
    BY <1>0, <1>10 DEF Good, Operations, OpShape, Waiting, Phases, NoReply, Replies, CloseAbsent
  <2>3. QED
    BY <1>1, <2>1, <2>2
<1>11. CASE CloseFails(w)
  <2> DEFINE o == [op[w] EXCEPT !.phase = "closeNext", !.todo = op[w].todo \ {First(op[w].todo)},
                      !.reply = NoReply, !.failed = TRUE]
  <2>1. op' = [op EXCEPT ![w] = o]
    BY <1>0, <1>11 DEF CloseFails, TypeOK
  <2>2. Good(o)
    BY <1>0, <1>11 DEF Good, Operations, OpShape, Waiting, Phases, NoReply, Replies, CloseFails
  <2>3. QED
    BY <1>1, <2>1, <2>2
<1>12. CASE ReconcileDone(w)
  <2> DEFINE def   == op[w].def
             ready == Ready(def)
             res   == Outcome(TargetStatus(def, ready), ReachedOf(def, ready),
                              RequiredOf(def), FailureCode(def, ready, op[w].failed))
             o     == [op[w] EXCEPT !.phase = "commit", !.result = res]
  <2>1. op' = [op EXCEPT ![w] = o]
    BY <1>0, <1>12 DEF ReconcileDone, TypeOK
  <2>2. res \in Results
    <3>1. def \in Definitions /\ DOMAIN def \subseteq Resources
      BY <1>0, DefinitionShape DEF Operations
    <3>2. ReachedOf(def, ready) \subseteq Resources /\ RequiredOf(def) \subseteq Resources
      BY <3>1 DEF ReachedOf, RequiredOf, Ready
    <3>3. TargetStatus(def, ready) \in Statuses
      BY DEF TargetStatus, Statuses
    <3>4. FailureCode(def, ready, op[w].failed) \in Codes
      BY DEF FailureCode, Codes
    <3>5. QED
      BY <3>2, <3>3, <3>4 DEF Outcome, Results
  <2>3. Good(o)
    <3> HIDE DEF res
    <3> QED
      BY <1>0, <1>12, <2>2 DEF Good, Operations, OpShape, Waiting, Phases, ReconcileDone
  <2>4. QED
    BY <1>1, <2>1, <2>3
<1>13. CASE CloseDone(w)
  <2> DEFINE res == Outcome(IF op[w].failed THEN "degraded" ELSE "inactive",
                            state[w].reached, state[w].total,
                            IF op[w].failed THEN "close_failed" ELSE "")
             o   == [op[w] EXCEPT !.phase = "commit", !.result = res]
  <2>1. op' = [op EXCEPT ![w] = o]
    BY <1>0, <1>13 DEF CloseDone, TypeOK
  <2>2. res \in Results
    BY DEF Outcome, Results, Statuses, Codes, TypeOK, States
  <2>3. Good(o)
    <3> HIDE DEF res
    <3> QED
      BY <1>0, <1>13, <2>2 DEF Good, Operations, OpShape, Waiting, Phases, CloseDone
  <2>4. QED
    BY <1>1, <2>1, <2>3
<1>14. CASE CloseStart(w)
  <2>1. CASE Resolvable(w)
    <3> DEFINE def == Resolve(w)
               ses == [r \in Resources |-> IF r \in ObservedManaged(w, def)
                         THEN {x.id : x \in WindowsOf(def[r].app, surf)} ELSE {}]
               o   == [op[w] EXCEPT !.phase = "closeNext", !.def = def,
                         !.todo = ObservedManaged(w, def), !.session = ses]
    <3>1. op' = [op EXCEPT ![w] = o]
      BY <1>14, <2>1 DEF CloseStart
    <3>2. def \in Definitions /\ DOMAIN def \subseteq Resources
      BY <2>1, ResolveShape, DefinitionShape
    <3>3. ObservedManaged(w, def) \subseteq DOMAIN def
      BY DEF ObservedManaged, Ready
    <3>4. ses \in [Resources -> SUBSET (1..MaxWindows)]
      BY DEF WindowsOf, TypeOK, Windows
    <3>5. Good(o)
      <4> HIDE DEF def, ses
      <4> QED
        BY <1>0, <1>14, <3>2, <3>3, <3>4 DEF Good, Operations, OpShape, Waiting, Phases, CloseStart
    <3>6. QED
      BY <1>1, <3>1, <3>5
  <2>2. CASE ~Resolvable(w)
    <3> DEFINE res == Outcome("failed", state[w].reached, state[w].total, "definition_not_found")
               o   == [op[w] EXCEPT !.phase = "commit", !.result = res]
    <3>1. op' = [op EXCEPT ![w] = o]
      BY <1>14, <2>2 DEF CloseStart
    <3>2. res \in Results
      BY DEF Outcome, Results, Statuses, Codes, TypeOK, States
    <3>3. Good(o)
      <4> HIDE DEF res
      <4> QED
        BY <1>0, <1>14, <3>2 DEF Good, Operations, OpShape, Waiting, Phases, CloseStart
    <3>4. QED
      BY <1>1, <3>1, <3>3
  <2>3. QED
    BY <2>1, <2>2
<1>15. CASE Commit(w)
  BY <1>1, <1>15, IdleShape, IdleOpShape DEF Commit, Good, Phases, Waiting
<1>16. QED
  BY <1>2, <1>3, <1>4, <1>5, <1>6, <1>7, <1>8, <1>9, <1>10, <1>11, <1>12, <1>13, <1>14,
     <1>15 DEF ActivityStep

-----------------------------------------------------------------------------
(***************************************************************************)
(* The inductive invariants                                                *)
(***************************************************************************)

\* A message somebody waits for belongs to the wait its workspace's activity is
\* in, about the resource and the window the activity has reached, and has no
\* answer yet; there is one such message at most for a workspace.
Awaited(m, o) ==
    /\ o.reply = NoReply
    /\ m.target.res = First(o.todo)
    /\ m.kind = "ensure" => o.phase = "awaitEnsure"
    /\ m.kind = "close" => o.phase = "awaitClose"

LiveInv ==
    /\ \A i \in DOMAIN wire : wire[i].live => Awaited(wire[i], op[wire[i].target.ws])
    /\ \A i, j \in DOMAIN wire :
         wire[i].live /\ wire[j].live /\ wire[i].target.ws = wire[j].target.ws => i = j

\* The launch in this daemon process that justifies evidence for target t.
LaunchedNow(t) == \E l \in launches : l.run = used["crashes"] /\ l.target = t

\* An answer "changed" that was not yet processed stands for a launch too.
EvidenceInv ==
    /\ EvidenceSound
    /\ \A w \in Workspaces : op[w].phase = "awaitEnsure" /\ op[w].reply.changed =>
          LaunchedNow([ws |-> w, res |-> First(op[w].todo)])

NamesInv ==
    /\ \A l \in launches : Names(l.target, l.app)
    /\ \A i \in DOMAIN wire : wire[i].kind = "ensure" => Names(wire[i].target, wire[i].app)
    /\ \A w \in Workspaces : \A r \in DOMAIN op[w].def :
          Names([ws |-> w, res |-> r], op[w].def[r].app)

\* Window ids are handed out once.
WindowInv ==
    /\ \A x \in wins \cup surf : x.id < nextWin
    /\ \A x, y \in wins \cup surf : x.id = y.id => x = y

\* If the window with this id is open, its application was launched for t.
Entitled(t, id) ==
    /\ id < nextWin
    /\ \A x \in wins : x.id = id => \E l \in launches : l.target = t /\ l.app = x.app

EntitledInv ==
    /\ \A w \in Workspaces, r \in Resources : \A id \in op[w].session[r] :
          Entitled([ws |-> w, res |-> r], id)
    /\ \A i \in DOMAIN wire : wire[i].kind = "close" => Entitled(wire[i].target, wire[i].win)

\* An outcome "active" is complete, and what it requires has been published.
ActiveInv ==
    \A w \in Workspaces : op[w].phase = "commit" /\ op[w].result.status = "active" =>
        op[w].result.reached = op[w].result.total

PublishedInv ==
    /\ \A x \in surf : x.app \in published
    /\ \A w \in Workspaces : op[w].phase = "commit" /\ op[w].result.status = "active" =>
          \A r \in RequiredOf(op[w].def) : op[w].def[r].app \in published

\* While no snapshot expires, an open window of a session is in the snapshot, and
\* a resource no longer to do has no open window unless closing failed.
Gone(o, r) == \A x \in wins : x.id \notin o.session[r]

ClosedInv ==
    /\ \A w \in Workspaces, r \in Resources : \A id \in op[w].session[r] :
          id < nextWin /\ \A x \in wins : x.id = id => x \in surf
    /\ \A w \in Workspaces, r \in Resources :
          op[w].phase \in {"closeNext", "closeWindows", "awaitClose"} =>
             r \in op[w].todo \/ op[w].failed \/ Gone(op[w], r)
    /\ \A w \in Workspaces, r \in Resources :
          op[w].phase = "commit" /\ op[w].result.status = "inactive" => Gone(op[w], r)

-----------------------------------------------------------------------------
(***************************************************************************)
(* Types, shape and the messages awaited: TypeInv is inductive.            *)
(***************************************************************************)
TypeInv == TypeOK /\ ShapeOK /\ LiveInv

\* Handling the oldest message.
LEMMA WireTail ==
    ASSUME wire \in Seq(Messages), wire # <<>>, wire' = Tail(wire)
    PROVE  /\ wire' \in Seq(Messages) /\ 1 \in DOMAIN wire /\ Head(wire) = wire[1]
           /\ wire[1] \in Messages
           /\ \A i \in DOMAIN wire' : i \in Nat /\ i # 0 /\ i + 1 \in DOMAIN wire
                                      /\ wire'[i] = wire[i + 1]
OBVIOUS

\* Emitting a message.
LEMMA WireAppend ==
    ASSUME wire \in Seq(Messages), NEW m \in Messages, wire' = Append(wire, m)
    PROVE  /\ wire' \in Seq(Messages)
           /\ \A i \in DOMAIN wire' : \/ i \in DOMAIN wire /\ wire'[i] = wire[i]
                                      \/ i = Len(wire) + 1 /\ wire'[i] = m
OBVIOUS

\* The messages that an activity emits.
EnsureMsg(w) == [kind |-> "ensure", target |-> [ws |-> w, res |-> First(op[w].todo)],
                 app |-> op[w].def[First(op[w].todo)].app, live |-> TRUE]
CloseMsg(w)  == [kind |-> "close", target |-> [ws |-> w, res |-> First(op[w].todo)],
                 win |-> First(op[w].left), live |-> TRUE]

LEMMA EmittedMessages ==
    ASSUME TypeOK, NEW w \in Workspaces, OpShape(op[w]), op[w].todo # {}
    PROVE  /\ EnsureMsg(w) \in Messages
           /\ op[w].left # {} =>
                CloseMsg(w) \in Messages /\ First(op[w].left) \in op[w].left
<1>1. First(op[w].todo) \in Resources /\ op[w].def[First(op[w].todo)].app \in Apps
  BY FirstTodo DEF Specs
<1>2. op[w].left \subseteq 1..MaxWindows
  BY DEF TypeOK, Operations
<1>3. op[w].left # {} => First(op[w].left) \in op[w].left
  <2>1. op[w].left \subseteq Nat
    BY <1>2, LifecycleAssumption
  <2>2. QED
    BY <2>1, FirstIsLeast
<1>4. QED
  BY <1>1, <1>2, <1>3 DEF EnsureMsg, CloseMsg, Messages, Targets

\* No message is awaited for a workspace whose activity does not wait, or has its
\* answer.
Quiet(w) == op[w].phase \notin {"awaitEnsure", "awaitClose"} \/ op[w].reply # NoReply

LEMMA QuietActivity ==
    ASSUME TypeInv, NEW w \in Workspaces,
           Quiet(w),
           NEW i \in DOMAIN wire, wire[i].target.ws = w
    PROVE  ~wire[i].live
<1>1. wire[i] \in Messages
  BY DEF TypeInv, TypeOK
<1>2. wire[i].kind \in {"ensure", "close"}
  BY <1>1 DEF Messages
<1>3. QED
  BY <1>2 DEF TypeInv, LiveInv, Awaited, Quiet

\* A budget is spent; the restarts are counted by nothing else.
LEMMA SpendEffect ==
    ASSUME used \in [Budgets -> Nat], NEW b \in Budgets, NEW max, Spend(b, max)
    PROVE  used' \in [Budgets -> Nat] /\ \A c \in Budgets \ {b} : used'[c] = used[c]
BY DEF Spend

\* What an event does.
LEMMA EventEffect ==
    ASSUME TypeOK, NEW w \in Workspaces, Event(w)
    PROVE  /\ op[w].phase = "idle"
           /\ \/ UNCHANGED op
              \/ \E ph \in {"reconcile", "close"} :
                    op' = [op EXCEPT ![w] = [IdleOp EXCEPT !.phase = ph]]
           /\ state' \in [Workspaces -> States]
           /\ \A u \in Workspaces : state'[u].status = "active" => state[u].status = "active"
           /\ \A u \in Workspaces : /\ state'[u].reached = state[u].reached
                                    /\ state'[u].total = state[u].total
           /\ \A u \in Workspaces \ {w} : state'[u] = state[u]
           /\ used' \in [Budgets -> Nat] /\ used'["crashes"] = used["crashes"]
           /\ UNCHANGED <<launcher, wins, closeAsked, nextWin, wire, surf, managed,
                          catalog, launches, asked, published>>
<1>1. ASSUME Spend("ops", MaxOps)
      PROVE  used' \in [Budgets -> Nat] /\ used'["crashes"] = used["crashes"]
  BY <1>1, SpendEffect DEF TypeOK, Budgets
<1>0. state \in [Workspaces -> States]
  BY DEF TypeOK
<1> DEFINE StateEffect ==
             /\ state' \in [Workspaces -> States]
             /\ \A u \in Workspaces : state'[u].status = "active" => state[u].status = "active"
             /\ \A u \in Workspaces : /\ state'[u].reached = state[u].reached
                                      /\ state'[u].total = state[u].total
             /\ \A u \in Workspaces \ {w} : state'[u] = state[u]
<1>2. CASE Activate(w)
  <2>1. catalog.active[w] \in Revisions
    BY <1>2, LifecycleAssumption DEF Activate, ValidCatalog, TypeOK
  <2>2. StateEffect
    <3> DEFINE s == [state[w] EXCEPT !.status = "preparing", !.rev = catalog.active[w],
                                     !.code = ""]
    <3>1. state' = [state EXCEPT ![w] = s]
      BY <1>0, <1>2 DEF Activate
    <3>2. state[w] \in States
      BY <1>0
    <3>3. s \in States /\ s.status # "active" /\ s.reached = state[w].reached
          /\ s.total = state[w].total
      BY <2>1, <3>2 DEF States, Statuses, Codes
    <3> HIDE DEF s
    <3>4. QED
      BY <1>0, <3>1, <3>3
  <2> HIDE DEF StateEffect
  <2>3. QED
    BY <1>1, <1>2, <2>2 DEF Activate, Begin, world, history, StateEffect
<1>3. CASE Recover(w)
  <2>1. StateEffect
    BY <1>0, <1>3 DEF Recover, States, Statuses
  <2> HIDE DEF StateEffect
  <2>2. QED
    BY <1>1, <1>3, <2>1 DEF Recover, Begin, world, history, StateEffect
<1>4. CASE Resume(w)
  <2>1. StateEffect
    BY <1>0, <1>4 DEF Resume, States, Statuses
  <2> HIDE DEF StateEffect
  <2>2. QED
    BY <1>1, <1>4, <2>1 DEF Resume, Begin, world, history, StateEffect
<1>5. CASE Close(w)
  <2>1. StateEffect
    BY <1>0, <1>5 DEF Close, States, Statuses
  <2> HIDE DEF StateEffect
  <2>2. QED
    BY <1>1, <1>5, <2>1 DEF Close, Begin, world, history, StateEffect
<1>6. CASE Suspend(w)
  <2>1. StateEffect
    BY <1>0, <1>6 DEF Suspend, States, Statuses
  <2> HIDE DEF StateEffect
  <2>2. QED
    BY <1>1, <1>6, <2>1 DEF Suspend, world, history, StateEffect
<1>7. QED
  BY <1>2, <1>3, <1>4, <1>5, <1>6 DEF Event

\* What a step of w's activity does to everything but the activity's variables.
LEMMA ActivityEffect ==
    ASSUME TypeInv, NEW w \in Workspaces, ActivityStep(w)
    PROVE  /\ \/ UNCHANGED wire /\ Quiet(w)
              \/ EnsureSend(w) /\ wire' = Append(wire, EnsureMsg(w))
              \/ CloseSend(w) /\ wire' = Append(wire, CloseMsg(w))
              \/ Abandon(w)
           /\ managed' \subseteq Workspaces \X Resources
           /\ \A t \in managed' : t \in managed \/
                /\ op[w].phase = "awaitEnsure" /\ op[w].reply.changed
                /\ t = <<w, First(op[w].todo)>>
           /\ UNCHANGED <<launcher, wins, closeAsked, nextWin, surf, catalog, used,
                          launches, asked, published>>
<1> USE DEF world, history, Quiet
<1>1. OpShape(op[w]) /\ managed \subseteq Workspaces \X Resources /\ TypeOK
  BY DEF TypeInv, ShapeOK, TypeOK
<1>2. CASE ReconcileStart(w)
  BY <1>1, <1>2 DEF ReconcileStart
<1>3. CASE EnsureSend(w)
  BY <1>1, <1>3 DEF EnsureSend, EnsureMsg
<1>4. CASE EnsureAccepted(w)
  <2>1. First(op[w].todo) \in Resources
    BY <1>1, <1>4, FirstTodo DEF EnsureAccepted, OpShape, Waiting
  <2>2. QED
    BY <1>1, <1>4, <2>1 DEF EnsureAccepted, NoReply
<1>5. CASE EnsureReady(w)
  BY <1>1, <1>5 DEF EnsureReady
<1>6. CASE EnsureFails(w)
  BY <1>1, <1>6 DEF EnsureFails
<1>7. CASE ReconcileDone(w)
  BY <1>1, <1>7 DEF ReconcileDone
<1>8. CASE CloseStart(w)
  BY <1>1, <1>8 DEF CloseStart
<1>9. CASE CloseNext(w)
  BY <1>1, <1>9 DEF CloseNext
<1>10. CASE CloseSend(w)
  BY <1>1, <1>10 DEF CloseSend, CloseMsg
<1>11. CASE CloseAccepted(w)
  BY <1>1, <1>11 DEF CloseAccepted, NoReply
<1>12. CASE CloseAbsent(w)
  BY <1>1, <1>12 DEF CloseAbsent
<1>13. CASE CloseFails(w)
  BY <1>1, <1>13 DEF CloseFails
<1>14. CASE CloseDone(w)
  BY <1>1, <1>14 DEF CloseDone
<1>15. CASE Commit(w)
  BY <1>1, <1>15 DEF Commit
<1>16. QED
  BY <1>2, <1>3, <1>4, <1>5, <1>6, <1>7, <1>8, <1>9, <1>10, <1>11, <1>12, <1>13, <1>14,
     <1>15 DEF ActivityStep

\* A step of an activity for which no message is awaited leaves the awaited
\* messages of the others alone.
LEMMA QuietStep ==
    ASSUME TypeInv, NEW w \in Workspaces, UNCHANGED wire,
           Quiet(w),
           \A u \in Workspaces \ {w} : op'[u] = op[u]
    PROVE  LiveInv'
<1>1. ASSUME NEW i \in DOMAIN wire, wire[i].live PROVE wire[i].target.ws \in Workspaces \ {w}
  <2>1. wire[i] \in Messages
    BY DEF TypeInv, TypeOK
  <2>2. wire[i].target.ws \in Workspaces
    BY <2>1 DEF Messages, Targets
  <2>3. QED
    BY <1>1, <2>2, QuietActivity
<1>2. QED
  BY <1>1 DEF TypeInv, LiveInv, Awaited

\* No message is awaited for w any more.
LEMMA AbandonStep ==
    ASSUME TypeInv, NEW w \in Workspaces, Abandon(w),
           \A u \in Workspaces \ {w} : op'[u] = op[u]
    PROVE  wire' \in Seq(Messages) /\ LiveInv'
<1>1. wire' = [i \in DOMAIN wire |->
               IF wire[i].target.ws \in {w} THEN [wire[i] EXCEPT !.live = FALSE] ELSE wire[i]]
  BY DEF Abandon
<1>2. /\ wire' \in Seq(Messages) /\ DOMAIN wire' = DOMAIN wire
      /\ \A i \in DOMAIN wire :
           /\ wire'[i].target = wire[i].target /\ wire'[i].kind = wire[i].kind
           /\ wire'[i].live => wire[i].live /\ wire[i].target.ws \notin {w}
  BY <1>1, AbandonShape DEF TypeInv, TypeOK
<1>3. \A i \in DOMAIN wire : wire[i].target.ws \in Workspaces
  BY DEF TypeInv, TypeOK, Messages, Targets
<1>4. QED
  BY <1>2, <1>3 DEF TypeInv, LiveInv, Awaited

\* A new message is the only awaited one of its workspace.
LEMMA SendStep ==
    ASSUME TypeInv, NEW w \in Workspaces, NEW m \in Messages,
           wire' = Append(wire, m), m.target.ws = w, Awaited(m, op'[w]),
           op[w].phase \notin {"awaitEnsure", "awaitClose"},
           \A u \in Workspaces \ {w} : op'[u] = op[u]
    PROVE  wire' \in Seq(Messages) /\ LiveInv'
<1>1. /\ wire' \in Seq(Messages)
      /\ \A i \in DOMAIN wire' : \/ i \in DOMAIN wire /\ wire'[i] = wire[i]
                                 \/ i = Len(wire) + 1 /\ wire'[i] = m
  BY WireAppend DEF TypeInv, TypeOK
<1>2. \A i \in DOMAIN wire : wire[i].live => wire[i].target.ws \in Workspaces \ {w}
  <2> SUFFICES ASSUME NEW i \in DOMAIN wire, wire[i].live
               PROVE  wire[i].target.ws \in Workspaces \ {w}
    OBVIOUS
  <2>1. wire[i] \in Messages
    BY DEF TypeInv, TypeOK
  <2>2. wire[i].target.ws \in Workspaces
    BY <2>1 DEF Messages, Targets
  <2>3. QED
    BY <2>2, QuietActivity DEF Quiet
<1>3. ASSUME NEW i \in DOMAIN wire', wire'[i].live
      PROVE  Awaited(wire'[i], op'[wire'[i].target.ws])
  <2>1. CASE i \in DOMAIN wire /\ wire'[i] = wire[i]
    <3>1. op'[wire[i].target.ws] = op[wire[i].target.ws]
      BY <1>2, <1>3, <2>1
    <3>2. Awaited(wire[i], op[wire[i].target.ws])
      BY <1>3, <2>1 DEF TypeInv, LiveInv
    <3>3. QED
      BY <2>1, <3>1, <3>2
  <2>2. CASE wire'[i] = m
    BY <2>2
  <2>3. QED
    BY <1>1, <2>1, <2>2
<1>4. ASSUME NEW i \in DOMAIN wire', NEW j \in DOMAIN wire', wire'[i].live, wire'[j].live,
             wire'[i].target.ws = wire'[j].target.ws
      PROVE  i = j
  BY <1>1, <1>2, <1>4 DEF TypeInv, LiveInv
<1>5. QED
  BY <1>1, <1>3, <1>4 DEF LiveInv, Awaited

\* Every step of an activity keeps TypeInv.
LEMMA ActivityTypes ==
    ASSUME TypeInv, NEW w \in Workspaces, ActivityStep(w)
    PROVE  TypeInv'
<1>1. /\ op' \in [Workspaces -> Operations] /\ OpShape(op'[w])
      /\ \A u \in Workspaces \ {w} : op'[u] = op[u]
  BY ActivityShape DEF TypeInv, ShapeOK
<1>2. ShapeOK'
  BY <1>1 DEF TypeInv, ShapeOK, OpShape
<1>3. wire' \in Seq(Messages) /\ LiveInv'
  <2>1. CASE UNCHANGED wire /\ Quiet(w)
    BY <1>1, <2>1, QuietStep DEF TypeInv, TypeOK
  <2>2. CASE EnsureSend(w) /\ wire' = Append(wire, EnsureMsg(w))
    <3>1. EnsureMsg(w) \in Messages /\ EnsureMsg(w).target.ws = w
      BY <2>2, EmittedMessages DEF TypeInv, ShapeOK, EnsureMsg, EnsureSend
    <3>2. Awaited(EnsureMsg(w), op'[w])
      BY <2>2 DEF EnsureSend, EnsureMsg, Awaited, TypeInv, TypeOK, Operations
    <3>3. QED
      BY <1>1, <2>2, <3>1, <3>2, SendStep DEF EnsureSend
  <2>3. CASE CloseSend(w) /\ wire' = Append(wire, CloseMsg(w))
    <3>1. CloseMsg(w) \in Messages /\ CloseMsg(w).target.ws = w
      BY <2>3, EmittedMessages DEF TypeInv, ShapeOK, OpShape, Waiting, CloseMsg, CloseSend
    <3>2. Awaited(CloseMsg(w), op'[w])
      BY <2>3 DEF CloseSend, CloseMsg, Awaited, TypeInv, TypeOK, Operations
    <3>3. QED
      BY <1>1, <2>3, <3>1, <3>2, SendStep DEF CloseSend
  <2>4. CASE Abandon(w)
    BY <1>1, <2>4, AbandonStep
  <2>5. QED
    BY <2>1, <2>2, <2>3, <2>4, ActivityEffect
<1>4. state' \in [Workspaces -> States]
  <2>1. CASE Commit(w)
    <3>1. /\ state \in [Workspaces -> States] /\ op[w].result \in Results
      BY DEF TypeInv, TypeOK, Operations
    <3>2. QED
      BY <2>1, <3>1 DEF Commit, States, Results
  <2>2. CASE UNCHANGED state
    BY <2>2 DEF TypeInv, TypeOK
  <2>3. QED
    BY <2>1, <2>2 DEF ActivityStep, ReconcileStart, EnsureSend, EnsureAccepted, EnsureReady,
         EnsureFails, ReconcileDone, CloseStart, CloseNext, CloseSend, CloseAccepted,
         CloseAbsent, CloseFails, CloseDone
<1>5. TypeOK'
  <2>1. /\ managed' \subseteq Workspaces \X Resources
        /\ UNCHANGED <<launcher, wins, closeAsked, nextWin, surf, catalog, used,
                       launches, asked, published>>
    BY ActivityEffect
  <2>2. QED
    BY <1>1, <1>3, <1>4, <2>1 DEF TypeInv, TypeOK
<1>6. QED
  BY <1>2, <1>3, <1>5 DEF TypeInv

\* Every event keeps TypeInv.
LEMMA EventTypes ==
    ASSUME TypeInv, NEW w \in Workspaces, Event(w)
    PROVE  TypeInv'
<1>1. TypeOK /\ op \in [Workspaces -> Operations] /\ ShapeOK
  BY DEF TypeInv, TypeOK
<1>2. /\ op' \in [Workspaces -> Operations] /\ ShapeOK'
      /\ \A u \in Workspaces \ {w} : op'[u] = op[u]
  <2>1. CASE UNCHANGED op
    BY <1>1, <2>1 DEF ShapeOK, OpShape
  <2>2. ASSUME NEW ph \in {"reconcile", "close"},
               op' = [op EXCEPT ![w] = [IdleOp EXCEPT !.phase = ph]]
        PROVE  /\ op' \in [Workspaces -> Operations] /\ ShapeOK'
               /\ \A u \in Workspaces \ {w} : op'[u] = op[u]
    <3>1. ph \in Phases \ Waiting
      BY DEF Phases, Waiting
    <3>2. /\ [IdleOp EXCEPT !.phase = ph] \in Operations
          /\ OpShape([IdleOp EXCEPT !.phase = ph])
      BY <3>1, IdleShape, IdleOpShape
    <3>3. /\ op' \in [Workspaces -> Operations]
          /\ \A u \in Workspaces \ {w} : op'[u] = op[u]
          /\ op'[w] = [IdleOp EXCEPT !.phase = ph]
      BY <1>1, <2>2, <3>2
    <3>4. \A u \in Workspaces : OpShape(op'[u])
      BY <1>1, <3>2, <3>3 DEF ShapeOK
    <3>5. QED
      BY <3>3, <3>4 DEF ShapeOK, OpShape
  <2>3. QED
    BY <1>1, <2>1, <2>2, EventEffect
<1>3. LiveInv'
  BY <1>1, <1>2, EventEffect, QuietStep DEF Quiet
<1>4. TypeOK'
  BY <1>1, <1>2, EventEffect DEF TypeOK
<1>5. QED
  BY <1>2, <1>3, <1>4 DEF TypeInv

\* An answer changes only the reply of the activity that awaits it, which is the
\* one the message belongs to.
LEMMA AnswerStep ==
    ASSUME TypeInv, wire # <<>>, wire' = Tail(wire), NEW c \in BOOLEAN,
           Answer(Head(wire), c) \/ UNCHANGED op
    PROVE  /\ wire' \in Seq(Messages) /\ op' \in [Workspaces -> Operations]
           /\ ShapeOK' /\ LiveInv'
           /\ \A u \in Workspaces :
                /\ op'[u].phase = op[u].phase /\ op'[u].def = op[u].def
                /\ op'[u].todo = op[u].todo /\ op'[u].session = op[u].session
                /\ op'[u].failed = op[u].failed /\ op'[u].result = op[u].result
                /\ op'[u].reply.changed =>
                     \/ op[u].reply.changed
                     \/ /\ c /\ Head(wire).target = [ws |-> u, res |-> First(op[u].todo)]
                        /\ Head(wire).kind = "ensure" \/ op[u].phase = "awaitClose"
<1>1. /\ wire' \in Seq(Messages) /\ 1 \in DOMAIN wire /\ Head(wire) = wire[1]
      /\ wire[1] \in Messages
      /\ \A i \in DOMAIN wire' : i \in Nat /\ i # 0 /\ i + 1 \in DOMAIN wire
                                 /\ wire'[i] = wire[i + 1]
  BY WireTail DEF TypeInv, TypeOK
<1>2. /\ op \in [Workspaces -> Operations] /\ wire[1].target.ws \in Workspaces
      /\ wire[1].target \in Targets /\ wire[1].kind \in {"ensure", "close"}
  BY <1>1 DEF TypeInv, TypeOK, Messages, Targets
<1>3. CASE UNCHANGED op
  <2>1. \A i \in DOMAIN wire' : wire'[i].live =>
           Awaited(wire'[i], op'[wire'[i].target.ws])
    BY <1>1, <1>3 DEF TypeInv, LiveInv
  <2>2. \A i, j \in DOMAIN wire' :
           wire'[i].live /\ wire'[j].live /\ wire'[i].target.ws = wire'[j].target.ws => i = j
    <3> SUFFICES ASSUME NEW i \in DOMAIN wire', NEW j \in DOMAIN wire', wire'[i].live,
                        wire'[j].live, wire'[i].target.ws = wire'[j].target.ws
                 PROVE  i = j
      OBVIOUS
    <3>1. i + 1 = j + 1
      BY <1>1 DEF TypeInv, LiveInv
    <3>2. QED
      BY <1>1, <3>1
  <2>3. LiveInv'
    BY <2>1, <2>2 DEF LiveInv, Awaited
  <2>4. QED
    BY <1>1, <1>2, <1>3, <2>3 DEF TypeInv, ShapeOK, OpShape
<1>4. CASE wire[1].live /\ op' # op
  <2> DEFINE w == wire[1].target.ws
             o == [op[w] EXCEPT !.reply = [ok |-> TRUE, changed |-> c]]
  <2>1. op' = [op EXCEPT ![w] = o] /\ op[w] \in Operations /\ w \in Workspaces
    BY <1>1, <1>2, <1>4 DEF Answer
  <2>2. Awaited(wire[1], op[w])
    BY <1>1, <1>4 DEF TypeInv, LiveInv
  <2>3. o \in Operations /\ OpShape(o)
    BY <1>2, <2>1, <2>2 DEF TypeInv, ShapeOK, OpShape, Awaited, Operations, Replies
  <2>4. /\ o.phase = op[w].phase /\ o.def = op[w].def /\ o.todo = op[w].todo
        /\ o.session = op[w].session /\ o.failed = op[w].failed /\ o.result = op[w].result
        /\ o.reply.changed = c
    BY <2>1 DEF Operations
  <2>5. wire[1].target = [ws |-> w, res |-> First(op[w].todo)]
        /\ (wire[1].kind = "ensure" \/ op[w].phase = "awaitClose")
    BY <1>2, <2>2 DEF Awaited, Targets
  <2> HIDE DEF o, w
  <2>6. op' \in [Workspaces -> Operations] /\ op'[w] = o
        /\ \A u \in Workspaces \ {w} : op'[u] = op[u]
    BY <1>2, <2>1, <2>3
  <2>7. ShapeOK'
    <3>1. \A u \in Workspaces : OpShape(op'[u])
      BY <2>3, <2>6 DEF TypeInv, ShapeOK
    <3>2. QED
      BY <3>1 DEF ShapeOK, OpShape
  <2>8. LiveInv'
    <3>1. ASSUME NEW i \in DOMAIN wire', wire'[i].live
          PROVE  wire'[i].target.ws \in Workspaces \ {w}
      <4>1. wire[i + 1] \in Messages
        BY <1>1 DEF TypeInv, TypeOK
      <4>2. wire[i + 1].target.ws \in Workspaces
        BY <4>1 DEF Messages, Targets
      <4>3. wire[i + 1].target.ws # w
        BY <1>1, <1>4, <3>1 DEF TypeInv, LiveInv, w
      <4>4. QED
        BY <1>1, <4>2, <4>3
    <3>2. ASSUME NEW i \in DOMAIN wire', wire'[i].live
          PROVE  Awaited(wire'[i], op'[wire'[i].target.ws])
      BY <1>1, <2>6, <3>1, <3>2 DEF TypeInv, LiveInv
    <3>3. ASSUME NEW i \in DOMAIN wire', NEW j \in DOMAIN wire', wire'[i].live,
                 wire'[j].live, wire'[i].target.ws = wire'[j].target.ws
          PROVE  i = j
      BY <1>1, <3>3 DEF TypeInv, LiveInv
    <3>4. QED
      BY <3>2, <3>3 DEF LiveInv, Awaited
  <2>9. QED
    BY <1>1, <2>4, <2>5, <2>6, <2>7, <2>8
<1>5. QED
  BY <1>1, <1>3, <1>4 DEF Answer

\* Every step of the shell keeps TypeInv.
LEMMA ShellTypes == TypeInv /\ Shell => TypeInv'
<1> SUFFICES ASSUME TypeInv, Shell PROVE TypeInv'
  OBVIOUS
<1>1. CASE ShellEnsures
  <2> DEFINE m == Head(wire)
  <2>1. /\ wire # <<>> /\ wire' = Tail(wire) /\ Answer(m, launcher[m.app] = "none")
        /\ m.kind = "ensure"
    BY <1>1 DEF ShellEnsures
  <2>2. wire' \in Seq(Messages) /\ op' \in [Workspaces -> Operations] /\ ShapeOK' /\ LiveInv'
    BY <2>1, AnswerStep
  <2>3. m \in Messages
    BY <2>1, WireTail DEF TypeInv, TypeOK
  <2>4. m.target \in Targets /\ m.app \in Apps
    BY <2>1, <2>3 DEF Messages
  <2> HIDE DEF m
  <2>5. launcher' \in [Apps -> {"none", "hws", "user"}]
    BY <1>1, <2>4 DEF ShellEnsures, TypeInv, TypeOK, m
  <2>6. launches' \subseteq [run : Nat, target : Targets, app : Apps]
    <3>1. used["crashes"] \in Nat
      BY DEF TypeInv, TypeOK, Budgets
    <3>2. QED
      BY <1>1, <2>4, <3>1 DEF ShellEnsures, TypeInv, TypeOK, m
  <2>7. TypeOK'
    BY <1>1, <2>2, <2>5, <2>6 DEF ShellEnsures, TypeInv, TypeOK
  <2>8. QED
    BY <2>2, <2>7 DEF TypeInv
<1>2. CASE ShellCloses
  <2> DEFINE m == Head(wire)
             target == {x \in wins : x.id = m.win}
  <2>1. /\ wire # <<>> /\ wire' = Tail(wire) /\ Answer(m, target # {}) /\ m.kind = "close"
    BY <1>2 DEF ShellCloses
  <2>2. wire' \in Seq(Messages) /\ op' \in [Workspaces -> Operations] /\ ShapeOK' /\ LiveInv'
    BY <2>1, AnswerStep
  <2>3. m \in Messages
    BY <2>1, WireTail DEF TypeInv, TypeOK
  <2>4. m.target \in Targets
    BY <2>1, <2>3 DEF Messages
  <2>5. \A x \in wins : /\ x.id \in 1..MaxWindows /\ x.app \in Apps
                        /\ launcher[x.app] \in {"none", "hws", "user"}
    BY DEF TypeInv, TypeOK, Windows
  <2> HIDE DEF m
  <2>6. closeAsked' \subseteq 1..MaxWindows
    BY <1>2, <2>5 DEF ShellCloses, TypeInv, TypeOK
  <2>7. asked' \subseteq [target : Targets, app : Apps, by : {"none", "hws", "user"}]
    BY <1>2, <2>4, <2>5 DEF ShellCloses, TypeInv, TypeOK, m
  <2>8. TypeOK'
    BY <1>2, <2>2, <2>6, <2>7 DEF ShellCloses, TypeInv, TypeOK
  <2>9. QED
    BY <2>2, <2>8 DEF TypeInv
<1>3. CASE ShellDeclines
  <2>1. wire # <<>> /\ wire' = Tail(wire) /\ UNCHANGED op
    BY <1>3 DEF ShellDeclines
  <2>2. wire' \in Seq(Messages) /\ op' \in [Workspaces -> Operations] /\ ShapeOK' /\ LiveInv'
    BY <2>1, AnswerStep
  <2>3. TypeOK'
    BY <1>3, <2>2 DEF ShellDeclines, world, history, TypeInv, TypeOK
  <2>4. QED
    BY <2>2, <2>3 DEF TypeInv
<1>4. QED
  BY <1>1, <1>2, <1>3 DEF Shell

\* A restart leaves no activity waiting and no message awaited.
LEMMA CrashEffect ==
    ASSUME TypeOK, Crash
    PROVE  /\ op' \in [Workspaces -> Operations] /\ ShapeOK' /\ LiveInv'
           /\ \A u \in Workspaces :
                \/ op'[u] = IdleOp
                \/ op'[u] = [IdleOp EXCEPT !.phase = "close"]
                \/ op'[u] = [IdleOp EXCEPT !.phase = "reconcile"]
           /\ wire' \in Seq(Messages) /\ DOMAIN wire' = DOMAIN wire
           /\ \A i \in DOMAIN wire :
                /\ wire'[i].target = wire[i].target /\ wire'[i].kind = wire[i].kind
                /\ wire[i].kind = "ensure" => wire'[i].app = wire[i].app
                /\ wire[i].kind = "close" => wire'[i].win = wire[i].win
           /\ surf' = {} /\ managed' = {} /\ published' = {}
           /\ used' \in [Budgets -> Nat]
           /\ UNCHANGED <<launcher, wins, closeAsked, nextWin, catalog, state, launches, asked>>
<1>1. PICK again \in SUBSET {w \in Workspaces : op[w].phase # "idle"} :
        op' = [w \in Workspaces |->
                 IF w \in again
                 THEN [IdleOp EXCEPT !.phase =
                         IF state[w].status = "closing" THEN "close" ELSE "reconcile"]
                 ELSE IdleOp]
  BY DEF Crash
<1>2. \A u \in Workspaces :
        \/ op'[u] = IdleOp
        \/ op'[u] = [IdleOp EXCEPT !.phase = "close"]
        \/ op'[u] = [IdleOp EXCEPT !.phase = "reconcile"]
  BY <1>1
<1>3. /\ IdleOp \in Operations /\ [IdleOp EXCEPT !.phase = "close"] \in Operations
      /\ [IdleOp EXCEPT !.phase = "reconcile"] \in Operations
      /\ OpShape(IdleOp) /\ OpShape([IdleOp EXCEPT !.phase = "close"])
      /\ OpShape([IdleOp EXCEPT !.phase = "reconcile"])
  <2>1. "close" \in Phases \ Waiting /\ "reconcile" \in Phases \ Waiting
    BY DEF Phases, Waiting
  <2>2. QED
    BY <2>1, IdleShape, IdleOpShape
<1>4. op' \in [Workspaces -> Operations]
  BY <1>1, <1>2, <1>3
<1>5. ShapeOK'
  <2>1. \A u \in Workspaces : OpShape(op'[u])
    BY <1>2, <1>3
  <2>2. QED
    BY <2>1 DEF ShapeOK, OpShape
<1>6. wire' = [i \in DOMAIN wire |->
                IF wire[i].target.ws \in Workspaces
                THEN [wire[i] EXCEPT !.live = FALSE] ELSE wire[i]]
  BY DEF Crash, TypeOK, Messages, Targets
<1>7. /\ wire' \in Seq(Messages) /\ DOMAIN wire' = DOMAIN wire
      /\ \A i \in DOMAIN wire :
           /\ wire'[i].target = wire[i].target /\ wire'[i].kind = wire[i].kind
           /\ wire[i].kind = "ensure" => wire'[i].app = wire[i].app
           /\ wire[i].kind = "close" => wire'[i].win = wire[i].win
           /\ wire'[i].live => wire[i].live /\ wire[i].target.ws \notin Workspaces
  BY <1>6, AbandonShape DEF TypeOK
<1>8. \A i \in DOMAIN wire' : ~wire'[i].live
  BY <1>7 DEF TypeOK, Messages, Targets
<1>9. LiveInv'
  BY <1>8 DEF LiveInv
<1>10. used' \in [Budgets -> Nat]
  BY SpendEffect DEF Crash, Disturb, TypeOK, Budgets
<1>11. QED
  BY <1>2, <1>4, <1>5, <1>7, <1>9, <1>10 DEF Crash, world

\* Every step of the desktop, the user, the catalog and the process keeps TypeInv.
LEMMA EnvironmentTypes == TypeInv /\ Environment => TypeInv'
<1> SUFFICES ASSUME TypeInv, Environment PROVE TypeInv'
  OBVIOUS
<1> USE DEF world, history
<1>1. TypeOK /\ ShapeOK /\ LiveInv
  BY DEF TypeInv
<1>2. ASSUME UNCHANGED <<op, wire>>, TypeOK' PROVE TypeInv'
  BY <1>1, <1>2 DEF TypeInv, ShapeOK, OpShape, LiveInv, Awaited
<1>3. CASE \E a \in Apps : UserLaunches(a)
  <2>1. TypeOK' /\ UNCHANGED <<op, wire>>
    BY <1>1, <1>3 DEF UserLaunches, TypeOK
  <2>2. QED
    BY <1>2, <2>1
<1>4. CASE \E a \in Apps : AppOpensWindow(a)
  <2>1. PICK a \in Apps : AppOpensWindow(a)
    BY <1>4
  <2>2. nextWin \in 1..MaxWindows /\ nextWin + 1 \in 1..(MaxWindows + 1)
    BY <1>1, <2>1, LifecycleAssumption DEF AppOpensWindow, TypeOK
  <2>3. [id |-> nextWin, app |-> a] \in Windows
    BY <2>1, <2>2 DEF Windows
  <2>4. wins' \subseteq Windows /\ nextWin' \in 1..(MaxWindows + 1)
    BY <1>1, <2>1, <2>2, <2>3 DEF AppOpensWindow, TypeOK
  <2>5. TypeOK' /\ UNCHANGED <<op, wire>>
    BY <1>1, <2>1, <2>4 DEF AppOpensWindow, TypeOK
  <2>6. QED
    BY <1>2, <2>5
<1>5. CASE \E a \in Apps : AppEnds(a)
  <2>1. used' \in [Budgets -> Nat]
    BY <1>1, <1>5, SpendEffect DEF AppEnds, Disturb, TypeOK, Budgets
  <2>2. TypeOK' /\ UNCHANGED <<op, wire>>
    BY <1>1, <1>5, <2>1 DEF AppEnds, TypeOK
  <2>3. QED
    BY <1>2, <2>2
<1>6. CASE \E x \in wins : AppClosesWindow(x)
  <2>1. TypeOK' /\ UNCHANGED <<op, wire>>
    BY <1>1, <1>6 DEF AppClosesWindow, TypeOK, Windows
  <2>2. QED
    BY <1>2, <2>1
<1>7. CASE Publish
  <2>1. TypeOK' /\ UNCHANGED <<op, wire>>
    BY <1>1, <1>7 DEF Publish, TypeOK, Windows
  <2>2. QED
    BY <1>2, <2>1
<1>8. CASE Expire
  <2>1. used' \in [Budgets -> Nat]
    BY <1>1, <1>8, SpendEffect DEF Expire, Disturb, TypeOK, Budgets
  <2>2. TypeOK' /\ UNCHANGED <<op, wire>>
    BY <1>1, <1>8, <2>1 DEF Expire, TypeOK
  <2>3. QED
    BY <1>2, <2>2
<1>9. CASE CatalogReload
  <2>1. used' \in [Budgets -> Nat]
    BY <1>1, <1>9, SpendEffect DEF CatalogReload, Disturb, TypeOK, Budgets
  <2>2. TypeOK' /\ UNCHANGED <<op, wire>>
    BY <1>1, <1>9, <2>1 DEF CatalogReload, TypeOK
  <2>3. QED
    BY <1>2, <2>2
<1>10. CASE Crash
  <2>1. TypeOK'
    BY <1>1, <1>10, CrashEffect DEF TypeOK
  <2>2. QED
    BY <1>1, <1>10, <2>1, CrashEffect DEF TypeInv
<1>11. QED
  BY <1>3, <1>4, <1>5, <1>6, <1>7, <1>8, <1>9, <1>10 DEF Environment

LEMMA InitTypes == Init => TypeInv
<1> SUFFICES ASSUME Init PROVE TypeInv
  OBVIOUS
<1>1. IdleOp \in Operations /\ OpShape(IdleOp)
  <2>1. "commit" \in Phases \ Waiting
    BY DEF Phases, Waiting
  <2>2. QED
    BY <2>1, IdleShape, IdleOpShape
<1>2. op \in [Workspaces -> Operations] /\ ShapeOK
  BY <1>1 DEF Init, ShapeOK
<1>3. state \in [Workspaces -> States]
  <2>1. [status |-> "inactive", rev |-> NoRev, reached |-> {}, total |-> {}, code |-> ""]
          \in States
    BY DEF States, Statuses, Codes
  <2>2. QED
    BY <2>1 DEF Init
<1>4. wire \in Seq(Messages) /\ DOMAIN wire = {}
  <2>1. wire = <<>>
    BY DEF Init
  <2>2. QED
    BY <2>1
<1>5. LiveInv
  BY <1>4 DEF LiveInv
<1>6. TypeOK
  <2>1. used \in [Budgets -> Nat] /\ nextWin \in 1..(MaxWindows + 1)
    <3>1. used = [b \in Budgets |-> 0] /\ nextWin = 1
      BY DEF Init
    <3>2. QED
      BY <3>1, LifecycleAssumption
  <2>2. QED
    BY <1>2, <1>3, <1>4, <2>1 DEF Init, TypeOK
<1>7. QED
  BY <1>2, <1>5, <1>6 DEF TypeInv

LEMMA StepTypes == TypeInv /\ [Next]_vars => TypeInv'
<1> SUFFICES ASSUME TypeInv, [Next]_vars PROVE TypeInv'
  OBVIOUS
<1>1. CASE UNCHANGED vars
  BY <1>1 DEF vars, TypeInv, TypeOK, ShapeOK, OpShape, LiveInv, Awaited
<1>2. QED
  BY <1>1, EventTypes, ActivityTypes, ShellTypes, EnvironmentTypes DEF Next

\* Messages, activities and records are well formed in every reachable state, and
\* every message that somebody waits for belongs to the wait its sender is in.
THEOREM TypeCorrect == Spec => []TypeInv
<1>1. QED
  BY InitTypes, StepTypes, PTL DEF Spec

-----------------------------------------------------------------------------
(***************************************************************************)
(* What each group of steps does to the state the other invariants speak   *)
(* about.                                                                  *)
(***************************************************************************)

\* What a step of w's activity does to its own variables.
LEMMA ActivityOp ==
    ASSUME TypeInv, NEW w \in Workspaces, ActivityStep(w)
    PROVE  /\ \A u \in Workspaces \ {w} : op'[u] = op[u]
           /\ op'[w].phase = "awaitEnsure" => op'[w].reply = NoReply
           /\ \/ op'[w].def = op[w].def \/ op'[w].def = NoDefinition
              \/ Resolvable(w) /\ op'[w].def = Resolve(w)
           /\ \/ op'[w].session = op[w].session
              \/ op'[w].session = [r \in Resources |-> {}]
              \/ CloseStart(w) /\ Resolvable(w)
           /\ op'[w].phase = "commit" =>
                \/ ReconcileDone(w) \/ CloseDone(w)
                \/ op'[w].result.status = "failed"
<1>1. /\ op \in [Workspaces -> Operations] /\ op[w] \in Operations
      /\ \A u \in Workspaces \ {w} : op'[u] = op[u]
  BY ActivityShape DEF TypeInv, TypeOK, ShapeOK
<1>2. CASE ReconcileStart(w)
  BY <1>1, <1>2 DEF ReconcileStart, Operations, Outcome
<1>3. CASE EnsureSend(w)
  BY <1>1, <1>3 DEF EnsureSend, Operations
<1>4. CASE EnsureAccepted(w)
  BY <1>1, <1>4 DEF EnsureAccepted, Operations
<1>5. CASE EnsureReady(w)
  BY <1>1, <1>5 DEF EnsureReady, Operations
<1>6. CASE EnsureFails(w)
  BY <1>1, <1>6 DEF EnsureFails, Operations
<1>7. CASE ReconcileDone(w)
  BY <1>1, <1>7 DEF ReconcileDone, Operations
<1>8. CASE CloseStart(w)
  BY <1>1, <1>8 DEF CloseStart, Operations, Outcome
<1>9. CASE CloseNext(w)
  BY <1>1, <1>9 DEF CloseNext, Operations
<1>10. CASE CloseSend(w)
  BY <1>1, <1>10 DEF CloseSend, Operations
<1>11. CASE CloseAccepted(w)
  BY <1>1, <1>11 DEF CloseAccepted, Operations
<1>12. CASE CloseAbsent(w)
  BY <1>1, <1>12 DEF CloseAbsent, Operations
<1>13. CASE CloseFails(w)
  BY <1>1, <1>13 DEF CloseFails, Operations
<1>14. CASE CloseDone(w)
  BY <1>1, <1>14 DEF CloseDone, Operations
<1>15. CASE Commit(w)
  BY <1>1, <1>15 DEF Commit, IdleOp
<1>16. QED
  BY <1>2, <1>3, <1>4, <1>5, <1>6, <1>7, <1>8, <1>9, <1>10, <1>11, <1>12, <1>13, <1>14,
     <1>15 DEF ActivityStep

\* What the shell does: a launch is one an ensure message asks for, a window is
\* asked to close because a close message names it, and an answer "changed" to a
\* waiting Ensure stands for a launch.
LEMMA ShellEffect ==
    ASSUME TypeInv, Shell
    PROVE  /\ UNCHANGED <<wins, nextWin, surf, managed, catalog, state, used, published>>
           /\ launches \subseteq launches'
           /\ \A l \in launches' : l \in launches \/
                \E i \in DOMAIN wire : /\ wire[i].kind = "ensure"
                                       /\ l.target = wire[i].target /\ l.app = wire[i].app
           /\ \A e \in asked' : e \in asked \/
                \E i \in DOMAIN wire, x \in wins :
                    /\ wire[i].kind = "close" /\ x.id = wire[i].win
                    /\ e.target = wire[i].target /\ e.app = x.app
           /\ \A i \in DOMAIN wire' : \E j \in DOMAIN wire : wire'[i] = wire[j]
           /\ \A u \in Workspaces :
                /\ op'[u].phase = op[u].phase /\ op'[u].def = op[u].def
                /\ op'[u].todo = op[u].todo /\ op'[u].session = op[u].session
                /\ op'[u].failed = op[u].failed /\ op'[u].result = op[u].result
                /\ op'[u].phase = "awaitEnsure" /\ op'[u].reply.changed =>
                     \/ op[u].reply.changed
                     \/ \E l \in launches' : /\ l.run = used["crashes"]
                                             /\ l.target = [ws |-> u, res |-> First(op[u].todo)]
<1> DEFINE m == Head(wire)
<1>1. wire # <<>> /\ wire' = Tail(wire)
  BY DEF Shell, ShellEnsures, ShellCloses, ShellDeclines
<1>2. /\ 1 \in DOMAIN wire /\ m = wire[1] /\ m \in Messages
      /\ \A i \in DOMAIN wire' : \E j \in DOMAIN wire : wire'[i] = wire[j]
  BY <1>1, WireTail DEF TypeInv, TypeOK
<1>3. CASE ShellEnsures
  <2>1. m.kind = "ensure" /\ Answer(m, launcher[m.app] = "none")
    BY <1>3 DEF ShellEnsures
  <2> DEFINE new == [run |-> used["crashes"], target |-> m.target, app |-> m.app]
  <2>2. launches' = IF launcher[m.app] = "none" THEN launches \cup {new} ELSE launches
    BY <1>3 DEF ShellEnsures
  <2>3. \A u \in Workspaces :
          /\ op'[u].phase = op[u].phase /\ op'[u].def = op[u].def
          /\ op'[u].todo = op[u].todo /\ op'[u].session = op[u].session
          /\ op'[u].failed = op[u].failed /\ op'[u].result = op[u].result
          /\ op'[u].reply.changed =>
               \/ op[u].reply.changed
               \/ launcher[m.app] = "none" /\ m.target = [ws |-> u, res |-> First(op[u].todo)]
    BY <1>1, <2>1, AnswerStep
  <2>4. new.run = used["crashes"] /\ new.target = m.target /\ new.app = m.app
    OBVIOUS
  <2> HIDE DEF new, m
  <2>5. \A u \in Workspaces : op'[u].reply.changed =>
          \/ op[u].reply.changed
          \/ \E l \in launches' : /\ l.run = used["crashes"]
                                  /\ l.target = [ws |-> u, res |-> First(op[u].todo)]
    BY <2>2, <2>3, <2>4
  <2>6. \A l \in launches' : l \in launches \/
          \E i \in DOMAIN wire : /\ wire[i].kind = "ensure"
                                 /\ l.target = wire[i].target /\ l.app = wire[i].app
    BY <1>2, <2>1, <2>2, <2>4
  <2>7. QED
    BY <1>2, <1>3, <2>2, <2>3, <2>5, <2>6 DEF ShellEnsures
<1>4. CASE ShellCloses
  <2> DEFINE target == {x \in wins : x.id = m.win}
  <2>1. m.kind = "close" /\ Answer(m, target # {})
    BY <1>4 DEF ShellCloses
  <2>2. \A u \in Workspaces :
          /\ op'[u].phase = op[u].phase /\ op'[u].def = op[u].def
          /\ op'[u].todo = op[u].todo /\ op'[u].session = op[u].session
          /\ op'[u].failed = op[u].failed /\ op'[u].result = op[u].result
          /\ op'[u].reply.changed => op[u].reply.changed \/ op[u].phase = "awaitClose"
    BY <1>1, <2>1, AnswerStep
  <2>3. \A e \in asked' : e \in asked \/
          \E x \in wins : x.id = m.win /\ e.target = m.target /\ e.app = x.app
    BY <1>4 DEF ShellCloses
  <2> HIDE DEF m, target
  <2>4. QED
    BY <1>2, <1>4, <2>1, <2>2, <2>3 DEF ShellCloses
<1>5. CASE ShellDeclines
  BY <1>2, <1>5 DEF ShellDeclines, world, history
<1>6. QED
  BY <1>3, <1>4, <1>5 DEF Shell

\* What happens around the daemon, restarts apart: at most one window opens, with
\* the next id, and a snapshot shows what is on the desktop.
LEMMA EnvironmentEffect ==
    ASSUME TypeInv, Environment, ~Crash
    PROVE  /\ UNCHANGED <<op, wire, managed, state, launches, asked>>
           /\ used'["crashes"] = used["crashes"]
           /\ nextWin <= nextWin' /\ nextWin \in Nat /\ nextWin' \in Nat
           /\ \A x \in wins' : x \in wins \/ (x.id = nextWin /\ nextWin < nextWin')
           /\ \A x, y \in wins' \ wins : x = y
           /\ \A x \in surf' : x \in surf \/ (x \in wins /\ x.app \in published')
           /\ published \subseteq published'
           /\ Expire \/ \A x \in wins' : x \in wins /\ x \in surf => x \in surf'
<1>1. nextWin \in Nat /\ "crashes" \in Budgets /\ used \in [Budgets -> Nat]
  <2>1. nextWin \in 1..(MaxWindows + 1) /\ MaxWindows \in Nat
    BY LifecycleAssumption DEF TypeInv, TypeOK
  <2>2. QED
    BY <2>1 DEF TypeInv, TypeOK, Budgets
<1>2. CASE \E a \in Apps : UserLaunches(a)
  <2>1. UNCHANGED <<wins, nextWin, surf, published, op, wire, managed, state, launches, asked, used>>
    BY <1>2 DEF UserLaunches, history
  <2>2. QED
    BY <1>1, <2>1
<1>3. ASSUME NEW a \in Apps, AppOpensWindow(a)
      PROVE  /\ UNCHANGED <<surf, published, op, wire, managed, state, launches, asked, used>>
             /\ nextWin' = nextWin + 1 /\ wins' = wins \cup {[id |-> nextWin, app |-> a]}
  BY <1>3 DEF AppOpensWindow, history
<1>4. CASE \E a \in Apps : AppOpensWindow(a)
  BY <1>1, <1>3, <1>4
<1>5. CASE \E a \in Apps : AppEnds(a)
  <2>1. used'["crashes"] = used["crashes"]
    BY <1>1, <1>5, SpendEffect DEF AppEnds, Disturb, Budgets
  <2>2. /\ UNCHANGED <<nextWin, surf, published, op, wire, managed, state, launches, asked>>
        /\ wins' \subseteq wins
    BY <1>5 DEF AppEnds, history
  <2>3. QED
    BY <1>1, <2>1, <2>2
<1>6. CASE \E x \in wins : AppClosesWindow(x)
  <2>1. /\ UNCHANGED <<nextWin, surf, published, op, wire, managed, state, launches, asked, used>>
        /\ wins' \subseteq wins
    BY <1>6 DEF AppClosesWindow, history
  <2>2. QED
    BY <1>1, <2>1
<1>7. CASE Publish
  <2>1. /\ UNCHANGED <<wins, nextWin, op, wire, managed, state, launches, asked, used>>
        /\ surf' = wins /\ published' = published \cup {x.app : x \in wins}
    BY <1>7 DEF Publish, world
  <2>2. QED
    BY <1>1, <2>1
<1>8. CASE Expire
  <2>1. used'["crashes"] = used["crashes"]
    BY <1>1, <1>8, SpendEffect DEF Expire, Disturb, Budgets
  <2>2. /\ UNCHANGED <<wins, nextWin, published, op, wire, managed, state, launches, asked>>
        /\ surf' = {}
    BY <1>8 DEF Expire, world, history
  <2>3. QED
    BY <1>1, <1>8, <2>1, <2>2
<1>9. CASE CatalogReload
  <2>1. used'["crashes"] = used["crashes"]
    BY <1>1, <1>9, SpendEffect DEF CatalogReload, Disturb, Budgets
  <2>2. UNCHANGED <<wins, nextWin, surf, published, op, wire, managed, state, launches, asked>>
    BY <1>9 DEF CatalogReload, world, history
  <2>3. QED
    BY <1>1, <2>1, <2>2
<1>10. QED
  BY <1>2, <1>4, <1>5, <1>6, <1>7, <1>8, <1>9 DEF Environment

-----------------------------------------------------------------------------
(***************************************************************************)
(* Launch evidence is sound.                                               *)
(***************************************************************************)
LEMMA EvidenceStep == TypeInv /\ EvidenceInv /\ [Next]_vars => EvidenceInv'
<1> SUFFICES ASSUME TypeInv, EvidenceInv, [Next]_vars PROVE EvidenceInv'
  OBVIOUS
<1>1. ASSUME \A w \in Workspaces, r \in Resources : <<w, r>> \in managed' =>
                <<w, r>> \in managed \/ LaunchedNow([ws |-> w, res |-> r]),
             launches \subseteq launches', used'["crashes"] = used["crashes"]
      PROVE  EvidenceSound'
  <2> SUFFICES ASSUME NEW w \in Workspaces, NEW r \in Resources, <<w, r>> \in managed'
               PROVE  \E l \in launches' : /\ l.run = used'["crashes"]
                                          /\ l.target = [ws |-> w, res |-> r]
    BY DEF EvidenceSound
  <2>1. LaunchedNow([ws |-> w, res |-> r])
    BY <1>1 DEF EvidenceInv, EvidenceSound, LaunchedNow
  <2>2. QED
    BY <1>1, <2>1 DEF LaunchedNow
<1>2. CASE UNCHANGED vars
  BY <1>2 DEF vars, EvidenceInv, EvidenceSound, LaunchedNow
<1>3. ASSUME NEW w \in Workspaces, Event(w) PROVE EvidenceInv'
  <2>1. /\ UNCHANGED <<managed, launches>> /\ used'["crashes"] = used["crashes"]
        /\ \/ UNCHANGED op
           \/ \E ph \in {"reconcile", "close"} :
                 op' = [op EXCEPT ![w] = [IdleOp EXCEPT !.phase = ph]]
    BY <1>3, EventEffect DEF TypeInv
  <2>2. \A u \in Workspaces : op'[u] = op[u] \/ op'[u].phase # "awaitEnsure"
    BY <2>1 DEF TypeInv, TypeOK, IdleOp
  <2>3. QED
    BY <2>1, <2>2 DEF EvidenceInv, EvidenceSound, LaunchedNow
<1>4. ASSUME NEW w \in Workspaces, ActivityStep(w) PROVE EvidenceInv'
  <2>1. /\ \A t \in managed' : t \in managed \/
             /\ op[w].phase = "awaitEnsure" /\ op[w].reply.changed
             /\ t = <<w, First(op[w].todo)>>
        /\ UNCHANGED <<launches, used>>
    BY <1>4, ActivityEffect
  <2>2. EvidenceSound'
    BY <1>1, <2>1 DEF EvidenceInv
  <2>3. \A u \in Workspaces : op'[u] = op[u] \/ op'[u].phase # "awaitEnsure"
                              \/ ~op'[u].reply.changed
    BY <1>4, ActivityOp DEF NoReply
  <2>4. QED
    BY <2>1, <2>2, <2>3 DEF EvidenceInv, LaunchedNow
<1>5. CASE Shell
  <2>1. /\ UNCHANGED <<managed, used>> /\ launches \subseteq launches'
        /\ \A u \in Workspaces :
             /\ op'[u].phase = op[u].phase /\ op'[u].todo = op[u].todo
             /\ op'[u].phase = "awaitEnsure" /\ op'[u].reply.changed =>
                  \/ op[u].reply.changed
                  \/ \E l \in launches' : /\ l.run = used["crashes"]
                                          /\ l.target = [ws |-> u, res |-> First(op[u].todo)]
    BY <1>5, ShellEffect
  <2>2. EvidenceSound'
    BY <2>1 DEF EvidenceInv, EvidenceSound
  <2>3. ASSUME NEW u \in Workspaces, op'[u].phase = "awaitEnsure", op'[u].reply.changed
        PROVE  \E l \in launches' : /\ l.run = used'["crashes"]
                                    /\ l.target = [ws |-> u, res |-> First(op'[u].todo)]
    <3>1. CASE op[u].reply.changed
      <4>1. LaunchedNow([ws |-> u, res |-> First(op[u].todo)])
        BY <2>1, <2>3, <3>1 DEF EvidenceInv
      <4>2. QED
        BY <2>1, <4>1 DEF LaunchedNow
    <3>2. CASE ~op[u].reply.changed
      BY <2>1, <2>3, <3>2
    <3>3. QED
      BY <3>1, <3>2
  <2>4. QED
    BY <2>2, <2>3 DEF EvidenceInv, LaunchedNow
<1>6. CASE Crash
  <2>1. managed' = {} /\ \A u \in Workspaces : op'[u].phase # "awaitEnsure"
    BY <1>6, CrashEffect DEF TypeInv, IdleOp
  <2>2. QED
    BY <2>1 DEF EvidenceInv, EvidenceSound
<1>7. CASE Environment /\ ~Crash
  <2>1. UNCHANGED <<op, managed, launches>> /\ used'["crashes"] = used["crashes"]
    BY <1>7, EnvironmentEffect
  <2>2. QED
    BY <2>1 DEF EvidenceInv, EvidenceSound, LaunchedNow
<1>8. QED
  BY <1>2, <1>3, <1>4, <1>5, <1>6, <1>7 DEF Next

\* The adapter holds launch evidence for a resource only if the shell launched an
\* application for exactly that resource in this daemon process (shelldesktop's
\* managed set), whatever answers are lost, late or given to a caller that left.
THEOREM EvidenceCorrect == Spec => []EvidenceSound
<1>1. Init => EvidenceInv
  <2> SUFFICES ASSUME Init PROVE EvidenceInv
    OBVIOUS
  <2>1. managed = {} /\ \A w \in Workspaces : op[w].phase = "idle"
    BY DEF Init, IdleOp
  <2>2. QED
    BY <2>1 DEF EvidenceInv, EvidenceSound
<1>2. TypeInv /\ EvidenceInv /\ [Next]_vars => EvidenceInv'
  BY EvidenceStep
<1>3. EvidenceInv => EvidenceSound
  BY DEF EvidenceInv
<1>4. QED
  BY <1>1, <1>2, <1>3, TypeCorrect, PTL DEF Spec

-----------------------------------------------------------------------------
(***************************************************************************)
(* An active workspace is complete, and what it requires has been seen.    *)
(***************************************************************************)

\* Only the outcome of an activity makes a workspace active.
LEMMA StateStep ==
    ASSUME TypeInv, [Next]_vars, NEW w \in Workspaces
    PROVE  \/ Commit(w)
           \/ /\ state'[w].status = "active" => state[w].status = "active"
              /\ state'[w].reached = state[w].reached /\ state'[w].total = state[w].total
<1>1. CASE UNCHANGED vars
  BY <1>1 DEF vars
<1>2. ASSUME NEW u \in Workspaces, Event(u)
      PROVE  /\ state'[w].status = "active" => state[w].status = "active"
             /\ state'[w].reached = state[w].reached /\ state'[w].total = state[w].total
  BY <1>2, EventEffect DEF TypeInv
<1>3. ASSUME NEW u \in Workspaces, ActivityStep(u)
      PROVE  Commit(w) \/ state'[w] = state[w]
  <2>1. CASE Commit(u)
    BY <2>1 DEF Commit, TypeInv, TypeOK
  <2>2. CASE ~Commit(u)
    BY <1>3, <2>2 DEF ActivityStep, ReconcileStart, EnsureSend, EnsureAccepted, EnsureReady,
         EnsureFails, ReconcileDone, CloseStart, CloseNext, CloseSend, CloseAccepted,
         CloseAbsent, CloseFails, CloseDone
  <2>3. QED
    BY <2>1, <2>2
<1>4. CASE Shell
  BY <1>4, ShellEffect
<1>5. CASE Crash
  BY <1>5, CrashEffect DEF TypeInv
<1>6. CASE Environment /\ ~Crash
  BY <1>6, EnvironmentEffect
<1>7. QED
  BY <1>1, <1>2, <1>3, <1>4, <1>5, <1>6 DEF Next

\* An outcome is computed by ReconcileDone or CloseDone and otherwise kept.
LEMMA OutcomeStep ==
    ASSUME TypeInv, [Next]_vars, NEW w \in Workspaces, op'[w].phase = "commit"
    PROVE  \/ ReconcileDone(w) \/ CloseDone(w)
           \/ op'[w].result.status = "failed"
           \/ /\ op[w].phase = "commit" /\ op'[w].result = op[w].result
              /\ op'[w].def = op[w].def /\ op'[w].session = op[w].session
<1>1. CASE UNCHANGED vars
  BY <1>1 DEF vars
<1>2. ASSUME NEW u \in Workspaces, Event(u) PROVE op'[w] = op[w]
  <2>1. \/ UNCHANGED op
        \/ \E ph \in {"reconcile", "close"} :
              op' = [op EXCEPT ![u] = [IdleOp EXCEPT !.phase = ph]]
    BY <1>2, EventEffect DEF TypeInv
  <2>2. QED
    BY <2>1 DEF TypeInv, TypeOK, IdleOp
<1>3. ASSUME NEW u \in Workspaces, ActivityStep(u)
      PROVE  \/ ReconcileDone(w) \/ CloseDone(w) \/ op'[w].result.status = "failed"
             \/ op'[w] = op[w]
  BY <1>3, ActivityOp
<1>4. CASE Shell
  BY <1>4, ShellEffect
<1>5. CASE Crash
  BY <1>5, CrashEffect DEF TypeInv, IdleOp
<1>6. CASE Environment /\ ~Crash
  BY <1>6, EnvironmentEffect
<1>7. QED
  BY <1>1, <1>2, <1>3, <1>4, <1>5, <1>6 DEF Next

\* The outcome of a reconciliation.
LEMMA ReconcileOutcome ==
    ASSUME TypeInv, NEW w \in Workspaces, ReconcileDone(w)
    PROVE  /\ op'[w].def = op[w].def /\ op'[w].result.status # "inactive"
           /\ op'[w].result.status = "active" =>
                /\ op'[w].result.reached = op'[w].result.total
                /\ RequiredOf(op[w].def) \subseteq Ready(op[w].def)
<1> DEFINE def   == op[w].def
           ready == Ready(def)
           res   == Outcome(TargetStatus(def, ready), ReachedOf(def, ready),
                            RequiredOf(def), FailureCode(def, ready, op[w].failed))
           o     == [op[w] EXCEPT !.phase = "commit", !.result = res]
<1>1. op[w] \in Operations
  BY DEF TypeInv, TypeOK
<1>2. op' = [op EXCEPT ![w] = o]
  BY <1>1 DEF ReconcileDone, TypeInv, TypeOK
<1>3. op'[w].def = def /\ op'[w].result = res
  <2> HIDE DEF res
  <2> QED
    BY <1>1, <1>2 DEF TypeInv, TypeOK, Operations
<1>4. res.status # "inactive" /\ (res.status = "active" =>
         res.reached = res.total /\ RequiredOf(def) \subseteq ready)
  <2>1. /\ res.status = TargetStatus(def, ready) /\ res.reached = ReachedOf(def, ready)
        /\ res.total = RequiredOf(def)
    BY DEF Outcome
  <2> HIDE DEF res, ready, def
  <2>2. QED
    BY <2>1 DEF TargetStatus, ReachedOf
<1>5. QED
  BY <1>3, <1>4

\* The outcome of closing.
LEMMA CloseOutcome ==
    ASSUME TypeInv, NEW w \in Workspaces, CloseDone(w)
    PROVE  /\ op'[w].session = op[w].session /\ op'[w].result.status # "active"
           /\ op'[w].result.status = "inactive" => ~op[w].failed
<1> DEFINE res == Outcome(IF op[w].failed THEN "degraded" ELSE "inactive",
                          state[w].reached, state[w].total,
                          IF op[w].failed THEN "close_failed" ELSE "")
           o   == [op[w] EXCEPT !.phase = "commit", !.result = res]
<1>1. op[w] \in Operations
  BY DEF TypeInv, TypeOK
<1>2. op' = [op EXCEPT ![w] = o]
  BY <1>1 DEF CloseDone, TypeInv, TypeOK
<1>3. op'[w].session = op[w].session /\ op'[w].result = res
  <2> HIDE DEF res
  <2> QED
    BY <1>1, <1>2 DEF TypeInv, TypeOK, Operations
<1>4. res.status = IF op[w].failed THEN "degraded" ELSE "inactive"
  BY DEF Outcome
<1> HIDE DEF res
<1>5. QED
  BY <1>3, <1>4

\* The record of an active workspace shows every required resource reached
\* (workspace.Model's result assignment), through failures and restarts.
THEOREM ActiveCorrect == Spec => []ActiveIsComplete
<1> DEFINE Inv == ActiveInv /\ ActiveIsComplete
<1>1. Init => Inv
  <2> SUFFICES ASSUME Init PROVE Inv
    OBVIOUS
  <2>1. TypeOK
    BY InitTypes DEF TypeInv
  <2>2. QED
    BY <2>1 DEF Init, ActiveInv, ActiveIsComplete, IdleOp
<1>2. TypeInv /\ Inv /\ [Next]_vars => Inv'
  <2> SUFFICES ASSUME TypeInv, Inv, [Next]_vars PROVE Inv'
    OBVIOUS
  <2>1. ActiveInv'
    <3> SUFFICES ASSUME NEW w \in Workspaces, op'[w].phase = "commit",
                        op'[w].result.status = "active"
                 PROVE  op'[w].result.reached = op'[w].result.total
      BY DEF ActiveInv
    <3>1. QED
      BY OutcomeStep, ReconcileOutcome, CloseOutcome DEF ActiveInv
  <2>2. ASSUME NEW w \in Workspaces, state'[w].status = "active"
        PROVE  state'[w].reached = state'[w].total
    <3>1. CASE Commit(w)
      <4>1. /\ state'[w].status = op[w].result.status
            /\ state'[w].reached = op[w].result.reached
            /\ state'[w].total = op[w].result.total /\ op[w].phase = "commit"
        BY <3>1 DEF Commit, TypeInv, TypeOK
      <4>2. QED
        BY <2>2, <4>1 DEF ActiveInv
    <3>2. CASE ~Commit(w)
      BY <2>2, <3>2, StateStep DEF ActiveIsComplete
    <3>3. QED
      BY <3>1, <3>2
  <2>3. TypeOK'
    BY StepTypes DEF TypeInv
  <2>4. QED
    BY <2>1, <2>2, <2>3 DEF ActiveIsComplete
<1>3. QED
  BY <1>1, <1>2, TypeCorrect, PTL DEF Spec

\* Published applications are forgotten by a restart only.
LEMMA PublishedStep == TypeInv /\ PublishedInv /\ [Next]_vars => PublishedInv'
<1> SUFFICES ASSUME TypeInv, PublishedInv, [Next]_vars PROVE PublishedInv'
  OBVIOUS
<1>1. CASE Crash
  <2>1. surf' = {} /\ \A w \in Workspaces : op'[w].phase # "commit"
    BY <1>1, CrashEffect DEF TypeInv, IdleOp
  <2>2. QED
    BY <2>1 DEF PublishedInv
<1>2. CASE ~Crash
  <2>2. published \subseteq published' /\ \A x \in surf' : x.app \in published'
    <3>1. CASE Environment
      BY <1>2, <3>1, EnvironmentEffect DEF PublishedInv
    <3>2. CASE ~Environment
      <4>1. UNCHANGED <<surf, published>>
        BY <3>2, EventEffect, ActivityEffect, ShellEffect DEF Next, vars, TypeInv
      <4>2. QED
        BY <4>1 DEF PublishedInv
    <3>3. QED
      BY <3>1, <3>2
  <2>3. ASSUME NEW w \in Workspaces, op'[w].phase = "commit", op'[w].result.status = "active",
               NEW r \in RequiredOf(op'[w].def)
        PROVE  op'[w].def[r].app \in published'
    <3>1. CASE ReconcileDone(w)
      <4>1. op'[w].def = op[w].def /\ r \in Ready(op[w].def)
        BY <2>3, <3>1, ReconcileOutcome
      <4>2. PICK x \in surf : x.app = op[w].def[r].app
        BY <4>1 DEF Ready, WindowsOf
      <4>3. QED
        BY <2>2, <4>1, <4>2 DEF PublishedInv
    <3>2. CASE op[w].phase = "commit" /\ op'[w].result = op[w].result /\ op'[w].def = op[w].def
      BY <2>2, <2>3, <3>2 DEF PublishedInv
    <3>3. QED
      BY <2>3, <3>1, <3>2, OutcomeStep, CloseOutcome
  <2>4. QED
    BY <2>2, <2>3 DEF PublishedInv
<1>3. QED
  BY <1>1, <1>2

\* A workspace becomes active only after every application it requires was seen
\* with a window in a snapshot of this daemon process (Reconciler.Execute's second
\* observation), not because a command was accepted.
THEOREM ObservedCorrect == Spec => ActiveWasObserved
<1>1. Init => PublishedInv
  <2> SUFFICES ASSUME Init PROVE PublishedInv
    OBVIOUS
  <2>1. surf = {} /\ \A w \in Workspaces : op[w].phase = "idle"
    BY DEF Init, IdleOp
  <2>2. QED
    BY <2>1 DEF PublishedInv
<1>2. TypeInv /\ PublishedInv /\ [Next]_vars => PublishedInv'
  BY PublishedStep
<1>3. ASSUME TypeInv, PublishedInv, [Next]_vars
      PROVE  [\A w \in Workspaces :
                 state[w].status # "active" /\ state'[w].status = "active" =>
                    \A r \in RequiredOf(op[w].def) : op[w].def[r].app \in published]_vars
  <2> SUFFICES ASSUME NEW w \in Workspaces, state[w].status # "active",
                      state'[w].status = "active", NEW r \in RequiredOf(op[w].def)
               PROVE  op[w].def[r].app \in published
    OBVIOUS
  <2>1. Commit(w)
    BY <1>3, StateStep
  <2>2. op[w].phase = "commit" /\ op[w].result.status = "active"
    BY <1>3, <2>1 DEF Commit, TypeInv, TypeOK
  <2>3. QED
    BY <1>3, <2>2 DEF PublishedInv
<1>4. QED
  BY <1>1, <1>2, <1>3, TypeCorrect, PTL DEF Spec, ActiveWasObserved

-----------------------------------------------------------------------------
(***************************************************************************)
(* Windows and sessions                                                    *)
(***************************************************************************)

\* Ids of windows are unique, on the desktop and in the snapshot.
LEMMA WindowStep == TypeInv /\ WindowInv /\ [Next]_vars => WindowInv'
<1> SUFFICES ASSUME TypeInv, WindowInv, [Next]_vars PROVE WindowInv'
  OBVIOUS
<1>1. CASE Crash
  <2>1. UNCHANGED <<wins, nextWin>> /\ surf' = {}
    BY <1>1, CrashEffect DEF TypeInv
  <2>2. QED
    BY <2>1 DEF WindowInv
<1>2. CASE Environment /\ ~Crash
  <2>1. /\ nextWin <= nextWin' /\ nextWin \in Nat /\ nextWin' \in Nat
        /\ \A x \in wins' : x \in wins \/ (x.id = nextWin /\ nextWin < nextWin')
        /\ \A x, y \in wins' \ wins : x = y
        /\ \A x \in surf' : x \in surf \/ x \in wins
    BY <1>2, EnvironmentEffect
  <2>2. \A x \in wins \cup surf : x.id \in Nat
    BY LifecycleAssumption DEF TypeInv, TypeOK, Windows
  <2>3. \A x \in wins' \cup surf' : x.id < nextWin'
    BY <2>1, <2>2 DEF WindowInv
  <2>4. ASSUME NEW x \in wins' \cup surf', NEW y \in wins' \cup surf', x.id = y.id
        PROVE  x = y
    <3>1. CASE x \in wins \cup surf /\ y \in wins \cup surf
      BY <2>4, <3>1 DEF WindowInv
    <3>2. CASE x \in wins' \ wins /\ y \in wins' \ wins
      BY <2>1, <3>2
    <3>3. \A z \in wins \cup surf : z.id < nextWin /\ z.id # nextWin
      BY <2>1, <2>2 DEF WindowInv
    <3>4. QED
      BY <2>1, <2>4, <3>1, <3>2, <3>3
  <2>5. QED
    BY <2>3, <2>4 DEF WindowInv
<1>3. CASE ~Environment
  <2>1. UNCHANGED <<wins, nextWin, surf>>
    BY <1>3, EventEffect, ActivityEffect, ShellEffect DEF Next, vars, TypeInv
  <2>2. QED
    BY <2>1 DEF WindowInv
<1>4. QED
  BY <1>1, <1>2, <1>3

LEMMA WindowsCorrect == Spec => []WindowInv
<1>1. Init => WindowInv
  BY DEF Init, WindowInv
<1>2. TypeInv /\ WindowInv /\ [Next]_vars => WindowInv'
  BY WindowStep
<1>3. QED
  BY <1>1, <1>2, TypeCorrect, PTL DEF Spec

\* The session of a Close: the windows that the snapshot shows for the resources
\* observed as managed.
LEMMA SessionOfClose ==
    ASSUME TypeInv, NEW w \in Workspaces, CloseStart(w), Resolvable(w)
    PROVE  /\ op'[w].todo = ObservedManaged(w, Resolve(w))
           /\ op'[w].phase = "closeNext"
           /\ \A r \in Resources : \A id \in op'[w].session[r] :
                /\ r \in ObservedManaged(w, Resolve(w))
                /\ \E x \in surf : x.app = Resolve(w)[r].app /\ x.id = id
<1> DEFINE def == Resolve(w)
           ses == [r \in Resources |-> IF r \in ObservedManaged(w, def)
                     THEN {x.id : x \in WindowsOf(def[r].app, surf)} ELSE {}]
           o   == [op[w] EXCEPT !.phase = "closeNext", !.def = def,
                     !.todo = ObservedManaged(w, def), !.session = ses]
<1>1. op' = [op EXCEPT ![w] = o]
  BY DEF CloseStart
<1>2. op[w] \in Operations /\ op \in [Workspaces -> Operations]
  BY DEF TypeInv, TypeOK
<1>3. op'[w].todo = ObservedManaged(w, def) /\ op'[w].phase = "closeNext"
      /\ op'[w].session = ses
  <2> HIDE DEF ses, def
  <2> QED
    BY <1>1, <1>2 DEF Operations
<1>4. \A r \in Resources : \A id \in ses[r] :
        /\ r \in ObservedManaged(w, def)
        /\ \E x \in surf : x.app = def[r].app /\ x.id = id
  BY DEF WindowsOf
<1>5. QED
  BY <1>3, <1>4

\* A session is made by CloseStart and otherwise kept or forgotten.
LEMMA SessionStep ==
    ASSUME TypeInv, [Next]_vars, NEW w \in Workspaces
    PROVE  \/ op'[w].session = op[w].session
           \/ op'[w].session = [r \in Resources |-> {}]
           \/ CloseStart(w) /\ Resolvable(w)
<1>1. CASE UNCHANGED vars
  BY <1>1 DEF vars
<1>2. ASSUME NEW u \in Workspaces, Event(u)
      PROVE  op'[w].session = op[w].session \/ op'[w].session = [r \in Resources |-> {}]
  <2>1. \/ UNCHANGED op
        \/ \E ph \in {"reconcile", "close"} :
              op' = [op EXCEPT ![u] = [IdleOp EXCEPT !.phase = ph]]
    BY <1>2, EventEffect DEF TypeInv
  <2>2. QED
    BY <2>1 DEF TypeInv, TypeOK, IdleOp
<1>3. ASSUME NEW u \in Workspaces, ActivityStep(u)
      PROVE  \/ op'[w].session = op[w].session
             \/ op'[w].session = [r \in Resources |-> {}]
             \/ CloseStart(w) /\ Resolvable(w)
  BY <1>3, ActivityOp
<1>4. CASE Shell
  BY <1>4, ShellEffect
<1>5. CASE Crash
  <2>1. \/ op'[w] = IdleOp
        \/ op'[w] = [IdleOp EXCEPT !.phase = "close"]
        \/ op'[w] = [IdleOp EXCEPT !.phase = "reconcile"]
    BY <1>5, CrashEffect DEF TypeInv
  <2>2. /\ [IdleOp EXCEPT !.phase = "close"].session = IdleOp.session
        /\ [IdleOp EXCEPT !.phase = "reconcile"].session = IdleOp.session
    BY DEF IdleOp
  <2>3. IdleOp.session = [r \in Resources |-> {}]
    BY DEF IdleOp
  <2>4. QED
    BY <2>1, <2>2, <2>3
<1>6. CASE Environment /\ ~Crash
  BY <1>6, EnvironmentEffect
<1>7. QED
  BY <1>1, <1>2, <1>3, <1>4, <1>5, <1>6 DEF Next

\* A window that is open after a step was open before, or has a new id.
LEMMA OpenWindows ==
    ASSUME TypeInv, [Next]_vars
    PROVE  /\ nextWin \in Nat /\ nextWin' \in Nat /\ nextWin <= nextWin'
           /\ \A x \in wins' : x \in wins \/ x.id = nextWin
<1>1. nextWin \in Nat
  <2>1. nextWin \in 1..(MaxWindows + 1) /\ MaxWindows \in Nat
    BY LifecycleAssumption DEF TypeInv, TypeOK
  <2>2. QED
    BY <2>1
<1>2. CASE Environment /\ ~Crash
  BY <1>2, EnvironmentEffect
<1>3. CASE Crash \/ ~Environment
  <2>1. UNCHANGED <<wins, nextWin>>
    BY <1>3, CrashEffect, EventEffect, ActivityEffect, ShellEffect DEF Next, vars, TypeInv
  <2>2. QED
    BY <1>1, <2>1
<1>4. QED
  BY <1>2, <1>3

-----------------------------------------------------------------------------
(***************************************************************************)
(* Close asks only for windows of applications that were launched for the  *)
(* resource it closes, if edits do not re-point resources.                 *)
(***************************************************************************)
SameMessage(m, n) ==
    /\ m.target = n.target /\ m.kind = n.kind
    /\ n.kind = "ensure" => m.app = n.app
    /\ n.kind = "close" => m.win = n.win

\* A message is one that was on the wire already or one just emitted.
LEMMA MessageOrigin ==
    ASSUME TypeInv, [Next]_vars, NEW i \in DOMAIN wire'
    PROVE  \/ \E j \in DOMAIN wire : SameMessage(wire'[i], wire[j])
           \/ \E w \in Workspaces : EnsureSend(w) /\ wire'[i] = EnsureMsg(w)
           \/ \E w \in Workspaces : CloseSend(w) /\ wire'[i] = CloseMsg(w)
<1>1. CASE UNCHANGED wire
  BY <1>1 DEF SameMessage
<1>2. ASSUME NEW w \in Workspaces, ActivityStep(w)
      PROVE  \/ \E j \in DOMAIN wire : SameMessage(wire'[i], wire[j])
             \/ EnsureSend(w) /\ wire'[i] = EnsureMsg(w)
             \/ CloseSend(w) /\ wire'[i] = CloseMsg(w)
  <2>1. CASE EnsureSend(w) /\ wire' = Append(wire, EnsureMsg(w))
    <3>1. EnsureMsg(w) \in Messages
      BY <2>1, EmittedMessages DEF TypeInv, ShapeOK, EnsureSend
    <3>2. (i \in DOMAIN wire /\ wire'[i] = wire[i]) \/ wire'[i] = EnsureMsg(w)
      BY <2>1, <3>1, WireAppend DEF TypeInv, TypeOK
    <3>3. QED
      BY <2>1, <3>2 DEF SameMessage
  <2>2. CASE CloseSend(w) /\ wire' = Append(wire, CloseMsg(w))
    <3>1. CloseMsg(w) \in Messages
      BY <2>2, EmittedMessages DEF TypeInv, ShapeOK, OpShape, Waiting, CloseSend
    <3>2. (i \in DOMAIN wire /\ wire'[i] = wire[i]) \/ wire'[i] = CloseMsg(w)
      BY <2>2, <3>1, WireAppend DEF TypeInv, TypeOK
    <3>3. QED
      BY <2>2, <3>2 DEF SameMessage
  <2>3. CASE Abandon(w)
    <3>1. wire' = [k \in DOMAIN wire |->
             IF wire[k].target.ws \in {w} THEN [wire[k] EXCEPT !.live = FALSE] ELSE wire[k]]
      BY <2>3 DEF Abandon
    <3>2. i \in DOMAIN wire /\ SameMessage(wire'[i], wire[i])
      BY <3>1, AbandonShape DEF TypeInv, TypeOK, SameMessage
    <3>3. QED
      BY <3>2
  <2>4. QED
    BY <1>1, <1>2, <2>1, <2>2, <2>3, ActivityEffect DEF SameMessage
<1>3. CASE Shell
  BY <1>3, ShellEffect DEF SameMessage
<1>4. CASE Crash
  BY <1>4, CrashEffect DEF TypeInv, SameMessage
<1>5. CASE ~Crash /\ ~Shell /\ ~(\E w \in Workspaces : ActivityStep(w))
  <2>1. UNCHANGED wire
    BY <1>5, EventEffect, EnvironmentEffect DEF Next, vars, TypeInv
  <2>2. QED
    BY <1>1, <2>1
<1>6. QED
  BY <1>2, <1>3, <1>4, <1>5

\* The definition of an activity is the one resolved from the catalog.
LEMMA DefinitionStep ==
    ASSUME TypeInv, [Next]_vars, NEW w \in Workspaces
    PROVE  \/ op'[w].def = op[w].def \/ op'[w].def = NoDefinition
           \/ Resolvable(w) /\ op'[w].def = Resolve(w)
<1>1. CASE UNCHANGED vars
  BY <1>1 DEF vars
<1>2. /\ IdleOp.def = NoDefinition
      /\ [IdleOp EXCEPT !.phase = "close"].def = NoDefinition
      /\ [IdleOp EXCEPT !.phase = "reconcile"].def = NoDefinition
  BY DEF IdleOp
<1>3. ASSUME NEW u \in Workspaces, Event(u)
      PROVE  op'[w].def = op[w].def \/ op'[w].def = NoDefinition
  <2>1. \/ UNCHANGED op
        \/ \E ph \in {"reconcile", "close"} :
              op' = [op EXCEPT ![u] = [IdleOp EXCEPT !.phase = ph]]
    BY <1>3, EventEffect DEF TypeInv
  <2>2. QED
    BY <1>2, <2>1 DEF TypeInv, TypeOK
<1>4. ASSUME NEW u \in Workspaces, ActivityStep(u)
      PROVE  \/ op'[w].def = op[w].def \/ op'[w].def = NoDefinition
             \/ Resolvable(w) /\ op'[w].def = Resolve(w)
  BY <1>4, ActivityOp
<1>5. CASE Shell
  BY <1>5, ShellEffect
<1>6. CASE Crash
  BY <1>2, <1>6, CrashEffect DEF TypeInv
<1>7. CASE Environment /\ ~Crash
  BY <1>7, EnvironmentEffect
<1>8. QED
  BY <1>1, <1>3, <1>4, <1>5, <1>6, <1>7 DEF Next

\* The launches of a step are of messages on the wire.
LEMMA LaunchStep ==
    ASSUME TypeInv, [Next]_vars
    PROVE  /\ launches \subseteq launches'
           /\ \A l \in launches' : l \in launches \/
                \E i \in DOMAIN wire : /\ wire[i].kind = "ensure"
                                       /\ l.target = wire[i].target /\ l.app = wire[i].app
           /\ \A e \in asked' : e \in asked \/
                \E i \in DOMAIN wire, x \in wins :
                    /\ wire[i].kind = "close" /\ x.id = wire[i].win
                    /\ e.target = wire[i].target /\ e.app = x.app
<1>1. CASE Shell
  BY <1>1, ShellEffect
<1>2. CASE ~Shell
  <2>1. UNCHANGED <<launches, asked>>
    BY <1>2, EventEffect, ActivityEffect, CrashEffect, EnvironmentEffect DEF Next, vars, TypeInv
  <2>2. QED
    BY <2>1
<1>3. QED
  BY <1>1, <1>2

\* Every launch, every ensure message and every definition in use gives a resource
\* the application that all catalogs give it.
LEMMA NamesStep ==
    ASSUME StableApps, TypeInv, NamesInv, [Next]_vars PROVE NamesInv'
<1>1. \A l \in launches' : Names(l.target, l.app)
  BY LaunchStep DEF NamesInv
<1>2. ASSUME NEW i \in DOMAIN wire', wire'[i].kind = "ensure"
      PROVE  Names(wire'[i].target, wire'[i].app)
  <2>1. ASSUME NEW j \in DOMAIN wire, SameMessage(wire'[i], wire[j])
        PROVE  Names(wire'[i].target, wire'[i].app)
    BY <1>2, <2>1 DEF SameMessage, NamesInv
  <2>2. ASSUME NEW w \in Workspaces, EnsureSend(w), wire'[i] = EnsureMsg(w)
        PROVE  Names(wire'[i].target, wire'[i].app)
    <3>1. First(op[w].todo) \in DOMAIN op[w].def
      BY <2>2, FirstTodo DEF TypeInv, ShapeOK, EnsureSend
    <3>2. Names([ws |-> w, res |-> First(op[w].todo)], op[w].def[First(op[w].todo)].app)
      BY <3>1 DEF NamesInv
    <3>3. QED
      BY <2>2, <3>2 DEF EnsureMsg
  <2>3. ASSUME NEW w \in Workspaces, wire'[i] = CloseMsg(w) PROVE FALSE
    BY <1>2, <2>3 DEF CloseMsg
  <2>4. QED
    BY <2>1, <2>2, <2>3, MessageOrigin
<1>3. ASSUME NEW w \in Workspaces, NEW r \in DOMAIN op'[w].def
      PROVE  Names([ws |-> w, res |-> r], op'[w].def[r].app)
  <2>1. CASE op'[w].def = op[w].def
    BY <1>3, <2>1 DEF NamesInv
  <2>2. CASE op'[w].def = NoDefinition
    BY <1>3, <2>2 DEF NoDefinition
  <2>3. CASE Resolvable(w) /\ op'[w].def = Resolve(w)
    <3>1. catalog \in Catalogs
      BY DEF TypeInv, TypeOK
    <3>2. QED
      BY <1>3, <2>3, <3>1 DEF StableApps, Resolvable, Resolve
  <2>4. QED
    BY <2>1, <2>2, <2>3, DefinitionStep
<1>4. QED
  BY <1>1, <1>2, <1>3 DEF NamesInv, Names

\* Being entitled to close a window lasts: no window gets its id again.
LEMMA EntitledStays ==
    ASSUME TypeInv, [Next]_vars
    PROVE  \A t \in Targets, id \in 1..MaxWindows : Entitled(t, id) =>
              /\ id < nextWin'
              /\ \A x \in wins' : x.id = id =>
                   \E l \in launches' : l.target = t /\ l.app = x.app
<1> SUFFICES ASSUME NEW t \in Targets, NEW id \in 1..MaxWindows, Entitled(t, id)
             PROVE  /\ id < nextWin'
                    /\ \A x \in wins' : x.id = id =>
                         \E l \in launches' : l.target = t /\ l.app = x.app
  OBVIOUS
<1>1. id \in Nat
  BY LifecycleAssumption
<1>2. id < nextWin'
  BY <1>1, OpenWindows DEF Entitled
<1>3. ASSUME NEW x \in wins', x.id = id
      PROVE  \E l \in launches' : l.target = t /\ l.app = x.app
  <2>1. x \in wins
    BY <1>1, <1>3, OpenWindows DEF Entitled
  <2>2. QED
    BY <1>3, <2>1, LaunchStep DEF Entitled
<1>4. QED
  BY <1>2, <1>3

LEMMA EntitledStep ==
    ASSUME TypeInv, EvidenceInv, NamesInv, WindowInv, EntitledInv, [Next]_vars
    PROVE  EntitledInv'
<1>1. ASSUME NEW w \in Workspaces, NEW r \in Resources, NEW id \in op'[w].session[r]
      PROVE  Entitled([ws |-> w, res |-> r], id)'
  <2>0. [ws |-> w, res |-> r] \in Targets
    BY DEF Targets
  <2>1. CASE op'[w].session = op[w].session
    <3>1. id \in 1..MaxWindows
      BY <1>1, <2>1 DEF TypeInv, TypeOK, Operations
    <3>2. Entitled([ws |-> w, res |-> r], id)
      BY <1>1, <2>1 DEF EntitledInv
    <3>3. QED
      BY <2>0, <3>1, <3>2, EntitledStays DEF Entitled
  <2>2. CASE op'[w].session = [q \in Resources |-> {}]
    BY <1>1, <2>2
  <2>3. CASE CloseStart(w) /\ Resolvable(w)
    <3>1. PICK x \in surf : x.app = Resolve(w)[r].app /\ x.id = id
      BY <1>1, <2>3, SessionOfClose
    <3>2. r \in ObservedManaged(w, Resolve(w))
      BY <1>1, <2>3, SessionOfClose
    <3>3. r \in DOMAIN Resolve(w) /\ <<w, r>> \in managed
      BY <3>2 DEF ObservedManaged, Ready
    <3>4. PICK l \in launches : l.target = [ws |-> w, res |-> r]
      BY <3>3 DEF EvidenceInv, EvidenceSound
    <3>5. l.app = Resolve(w)[r].app
      <4>1. Names([ws |-> w, res |-> r], l.app) /\ catalog \in Catalogs
        BY <3>4 DEF NamesInv, TypeInv, TypeOK
      <4>2. QED
        BY <2>3, <3>3, <4>1 DEF Names, Resolvable, Resolve
    <3>6. id \in 1..MaxWindows
      BY <3>1 DEF TypeInv, TypeOK, Windows
    <3>7. Entitled([ws |-> w, res |-> r], id)
      BY <3>1, <3>4, <3>5 DEF WindowInv, Entitled
    <3>8. QED
      BY <2>0, <3>6, <3>7, EntitledStays DEF Entitled
  <2>4. QED
    BY <2>1, <2>2, <2>3, SessionStep
<1>2. ASSUME NEW i \in DOMAIN wire', wire'[i].kind = "close"
      PROVE  Entitled(wire[i].target, wire[i].win)'
  <2>1. ASSUME NEW j \in DOMAIN wire, SameMessage(wire'[i], wire[j])
        PROVE  Entitled(wire[i].target, wire[i].win)'
    <3>1. wire[j] \in Messages /\ wire[j].kind = "close"
      BY <1>2, <2>1 DEF TypeInv, TypeOK, SameMessage
    <3>2. wire[j].target \in Targets /\ wire[j].win \in 1..MaxWindows
      BY <3>1 DEF Messages
    <3>3. Entitled(wire[j].target, wire[j].win)
      BY <3>1 DEF EntitledInv
    <3>4. wire'[i].target = wire[j].target /\ wire'[i].win = wire[j].win
      BY <2>1, <3>1 DEF SameMessage
    <3>5. QED
      BY <3>2, <3>3, <3>4, EntitledStays DEF Entitled
  <2>2. ASSUME NEW w \in Workspaces, CloseSend(w), wire'[i] = CloseMsg(w)
        PROVE  Entitled(wire[i].target, wire[i].win)'
    <3> DEFINE r == First(op[w].todo)
               n == First(op[w].left)
    <3>1. OpShape(op[w]) /\ op[w].todo # {} /\ op[w].left # {}
      BY <2>2 DEF TypeInv, ShapeOK, OpShape, Waiting, CloseSend
    <3>2. r \in Resources /\ n \in op[w].left
      BY <3>1, FirstTodo, EmittedMessages DEF TypeInv
    <3>3. n \in op[w].session[r] /\ n \in 1..MaxWindows
      BY <2>2, <3>1, <3>2 DEF OpShape, CloseSend, TypeInv, TypeOK, Operations
    <3>4. Entitled([ws |-> w, res |-> r], n) /\ [ws |-> w, res |-> r] \in Targets
      BY <3>2, <3>3 DEF EntitledInv, Targets
    <3>5. wire'[i].target = [ws |-> w, res |-> r] /\ wire'[i].win = n
      BY <2>2 DEF CloseMsg
    <3> HIDE DEF r, n
    <3>6. QED
      BY <3>3, <3>4, <3>5, EntitledStays DEF Entitled
  <2>3. ASSUME NEW w \in Workspaces, wire'[i] = EnsureMsg(w) PROVE FALSE
    BY <1>2, <2>3 DEF EnsureMsg
  <2>4. QED
    BY <2>1, <2>2, <2>3, MessageOrigin
<1>3. QED
  BY <1>1, <1>2 DEF EntitledInv, Entitled

\* Close asks a window to close on behalf of a resource only if the shell launched
\* that window's application for that resource, so adopted applications survive
\* every Close (shelldesktop.Close, _closeWindow).  This needs StableApps: launch
\* evidence is kept per workspace and resource and survives an edit that gives the
\* resource another application.
THEOREM AskedCorrect ==
    ASSUME StableApps PROVE Spec => []OnlyLaunchedAsked
<1> DEFINE Inv == EvidenceInv /\ NamesInv /\ EntitledInv /\ OnlyLaunchedAsked
<1>1. Init => Inv
  <2> SUFFICES ASSUME Init PROVE Inv
    OBVIOUS
  <2>1. /\ managed = {} /\ launches = {} /\ asked = {} /\ DOMAIN wire = {}
    <3>1. wire = <<>>
      BY DEF Init
    <3>2. DOMAIN wire = {}
      BY <3>1
    <3>3. QED
      BY <3>2 DEF Init
  <2>2. \A w \in Workspaces : op[w] = IdleOp
    BY DEF Init
  <2>3. /\ IdleOp.phase = "idle" /\ IdleOp.def = NoDefinition
        /\ IdleOp.session = [r \in Resources |-> {}]
    BY DEF IdleOp
  <2>4. EvidenceInv
    BY <2>1, <2>2, <2>3 DEF EvidenceInv, EvidenceSound
  <2>5. NamesInv
    BY <2>1, <2>2, <2>3 DEF NamesInv, NoDefinition
  <2>6. EntitledInv
    BY <2>1, <2>2, <2>3 DEF EntitledInv
  <2>7. OnlyLaunchedAsked
    BY <2>1 DEF OnlyLaunchedAsked
  <2>8. QED
    BY <2>4, <2>5, <2>6, <2>7
<1>2. TypeInv /\ WindowInv /\ Inv /\ [Next]_vars => Inv'
  <2> SUFFICES ASSUME TypeInv, WindowInv, Inv, [Next]_vars PROVE Inv'
    OBVIOUS
  <2>1. EvidenceInv' /\ NamesInv' /\ EntitledInv'
    BY EvidenceStep, NamesStep, EntitledStep
  <2>2. OnlyLaunchedAsked'
    BY LaunchStep DEF OnlyLaunchedAsked, EntitledInv, Entitled
  <2>3. QED
    BY <2>1, <2>2
<1>3. QED
  BY <1>1, <1>2, TypeCorrect, WindowsCorrect, PTL DEF Spec

-----------------------------------------------------------------------------
(***************************************************************************)
(* A Close that reports success is confirmed, until a snapshot expires.    *)
(***************************************************************************)
Closing == {"closeNext", "closeWindows", "awaitClose"}

\* A step of a closing activity keeps what is left to do, records a failure, or
\* has seen the windows of the resource disappear.
LEMMA CloseProgress ==
    ASSUME TypeInv, NEW w \in Workspaces, ActivityStep(w), op'[w].phase \in Closing
    PROVE  \/ CloseStart(w) /\ Resolvable(w)
           \/ /\ op[w].phase \in Closing /\ op'[w].session = op[w].session
              /\ \/ op'[w].todo = op[w].todo /\ op'[w].failed = op[w].failed
                 \/ op'[w].failed
                 \/ /\ op'[w].todo = op[w].todo \ {First(op[w].todo)}
                    /\ op'[w].failed = op[w].failed
                    /\ \A x \in surf : x.id \notin op[w].session[First(op[w].todo)]
<1> USE DEF Closing, Operations
<1>1. op \in [Workspaces -> Operations] /\ op[w] \in Operations
  BY DEF TypeInv, TypeOK
<1>2. CASE ReconcileStart(w)
  BY <1>1, <1>2 DEF ReconcileStart
<1>3. CASE EnsureSend(w) \/ EnsureAccepted(w) \/ EnsureReady(w)
  <2>1. CASE EnsureSend(w)
    BY <1>1, <2>1 DEF EnsureSend
  <2>2. CASE EnsureAccepted(w)
    BY <1>1, <2>2 DEF EnsureAccepted
  <2>3. CASE EnsureReady(w)
    BY <1>1, <2>3 DEF EnsureReady
  <2>4. QED
    BY <1>3, <2>1, <2>2, <2>3
<1>4. CASE EnsureFails(w)
  BY <1>1, <1>4 DEF EnsureFails
<1>5. CASE ReconcileDone(w) \/ CloseDone(w)
  <2>1. ASSUME NEW res, op' = [op EXCEPT ![w].phase = "commit", ![w].result = res]
        PROVE  op'[w].phase \notin Closing
    BY <1>1, <2>1
  <2>2. QED
    BY <1>5, <2>1 DEF ReconcileDone, CloseDone
<1>6. CASE CloseStart(w)
  BY <1>1, <1>6 DEF CloseStart
<1>7. CASE CloseNext(w)
  BY <1>1, <1>7 DEF CloseNext
<1>8. CASE CloseSend(w)
  BY <1>1, <1>8 DEF CloseSend
<1>9. CASE CloseAccepted(w)
  BY <1>1, <1>9 DEF CloseAccepted
<1>10. CASE CloseAbsent(w)
  BY <1>1, <1>10 DEF CloseAbsent
<1>11. CASE CloseFails(w)
  BY <1>1, <1>11 DEF CloseFails
<1>12. CASE Commit(w)
  BY <1>1, <1>12 DEF Commit, IdleOp
<1>13. QED
  BY <1>2, <1>3, <1>4, <1>5, <1>6, <1>7, <1>8, <1>9, <1>10, <1>11, <1>12 DEF ActivityStep

\* The same for every step of the system.
LEMMA ClosingStep ==
    ASSUME TypeInv, [Next]_vars, NEW w \in Workspaces, op'[w].phase \in Closing
    PROVE  \/ CloseStart(w) /\ Resolvable(w) /\ UNCHANGED <<wins, surf>>
           \/ /\ op[w].phase \in Closing /\ op'[w].session = op[w].session
              /\ \/ op'[w].todo = op[w].todo /\ op'[w].failed = op[w].failed
                 \/ op'[w].failed
                 \/ /\ op'[w].todo = op[w].todo \ {First(op[w].todo)}
                    /\ op'[w].failed = op[w].failed
                    /\ \A x \in surf : x.id \notin op[w].session[First(op[w].todo)]
                    /\ UNCHANGED <<wins, surf>>
<1>1. CASE op'[w] = op[w]
  BY <1>1
<1>2. ASSUME NEW u \in Workspaces, Event(u) PROVE op'[w] = op[w]
  <2>1. \/ UNCHANGED op
        \/ \E ph \in {"reconcile", "close"} :
              op' = [op EXCEPT ![u] = [IdleOp EXCEPT !.phase = ph]]
    BY <1>2, EventEffect DEF TypeInv
  <2>2. QED
    BY <2>1 DEF TypeInv, TypeOK, IdleOp, Closing
<1>3. ASSUME NEW u \in Workspaces, ActivityStep(u), u # w PROVE op'[w] = op[w]
  BY <1>3, ActivityOp
<1>4. CASE ActivityStep(w)
  BY <1>4, CloseProgress, ActivityEffect
<1>5. CASE Shell
  BY <1>5, ShellEffect
<1>6. CASE Crash
  <2>1. \/ op'[w] = IdleOp
        \/ op'[w] = [IdleOp EXCEPT !.phase = "close"]
        \/ op'[w] = [IdleOp EXCEPT !.phase = "reconcile"]
    BY <1>6, CrashEffect DEF TypeInv
  <2>2. QED
    BY <2>1 DEF IdleOp, Closing
<1>7. CASE Environment /\ ~Crash
  BY <1>1, <1>7, EnvironmentEffect
<1>8. CASE UNCHANGED vars
  BY <1>1, <1>8 DEF vars
<1>9. QED
  BY <1>1, <1>2, <1>3, <1>4, <1>5, <1>6, <1>7, <1>8 DEF Next

\* The expiries so far.
Expiries == used["expiries"]

\* An expiry is counted, and nothing else changes the count.
LEMMA ExpiriesStep ==
    ASSUME TypeInv, [Next]_vars
    PROVE  /\ Expiries \in Nat
           /\ \/ Expiries' = Expiries /\ ~Expire
              \/ Expiries' = Expiries + 1 /\ Expiries < MaxExpiries
<1>0. used \in [Budgets -> Nat] /\ Expiries \in Nat
  BY DEF TypeInv, TypeOK, Budgets, Expiries
<1>1. CASE Expire
  <2>1. Spend("expiries", MaxExpiries)
    BY <1>1 DEF Expire, Disturb
  <2>2. Expiries' = Expiries + 1 /\ Expiries < MaxExpiries
    BY <1>0, <2>1 DEF Spend, Budgets, Expiries
  <2>3. QED
    BY <1>0, <2>2
<1>2. CASE ~Expire
  <2>1. ASSUME NEW w \in Workspaces, Event(w) PROVE Expiries' = Expiries
    <3>1. Spend("ops", MaxOps)
      BY <2>1 DEF Event, Activate, Recover, Resume, Close, Suspend, Begin
    <3>2. QED
      BY <1>0, <3>1, SpendEffect DEF Budgets, Expiries
  <2>2. ASSUME NEW w \in Workspaces, ActivityStep(w) PROVE Expiries' = Expiries
    BY <2>2, ActivityEffect DEF Expiries
  <2>3. ASSUME Shell PROVE Expiries' = Expiries
    BY <2>3, ShellEffect DEF Expiries
  <2>4. ASSUME NEW a \in Apps, AppEnds(a) PROVE Expiries' = Expiries
    BY <1>0, <2>4, SpendEffect DEF AppEnds, Disturb, Budgets, Expiries
  <2>5. ASSUME CatalogReload PROVE Expiries' = Expiries
    BY <1>0, <2>5, SpendEffect DEF CatalogReload, Disturb, Budgets, Expiries
  <2>6. ASSUME Crash PROVE Expiries' = Expiries
    BY <1>0, <2>6, SpendEffect DEF Crash, Disturb, Budgets, Expiries
  <2>7. ASSUME \/ \E a \in Apps : UserLaunches(a) \/ AppOpensWindow(a)
               \/ \E x \in wins : AppClosesWindow(x)
               \/ Publish
        PROVE  Expiries' = Expiries
    BY <2>7 DEF UserLaunches, AppOpensWindow, AppClosesWindow, Publish, Expiries
  <2>8. ASSUME UNCHANGED vars PROVE Expiries' = Expiries
    BY <2>8 DEF vars, Expiries
  <2>9. QED
    BY <1>0, <1>2, <2>1, <2>2, <2>3, <2>4, <2>5, <2>6, <2>7, <2>8 DEF Next, Environment
<1>3. QED
  BY <1>1, <1>2

\* Until a snapshot expires, only a restart takes an open window out of it.
LEMMA SnapshotStep ==
    ASSUME Expiries' = 0, TypeInv, [Next]_vars
    PROVE  \/ \A w \in Workspaces : op'[w].session = [r \in Resources |-> {}]
           \/ \A x \in wins' : x \in wins /\ x \in surf => x \in surf'
<1>1. CASE Crash
  <2>1. \A w \in Workspaces :
          \/ op'[w] = IdleOp
          \/ op'[w] = [IdleOp EXCEPT !.phase = "close"]
          \/ op'[w] = [IdleOp EXCEPT !.phase = "reconcile"]
    BY <1>1, CrashEffect DEF TypeInv
  <2>2. /\ [IdleOp EXCEPT !.phase = "close"].session = IdleOp.session
        /\ [IdleOp EXCEPT !.phase = "reconcile"].session = IdleOp.session
    BY DEF IdleOp
  <2>3. IdleOp.session = [r \in Resources |-> {}]
    BY DEF IdleOp
  <2>4. QED
    BY <2>1, <2>2, <2>3
<1>2. CASE Environment /\ ~Crash
  <2>1. ~Expire
    BY ExpiriesStep
  <2>2. QED
    BY <1>2, <2>1, EnvironmentEffect
<1>3. CASE ~Environment
  <2>1. UNCHANGED <<wins, surf>>
    BY <1>3, EventEffect, ActivityEffect, ShellEffect DEF Next, vars, TypeInv
  <2>2. QED
    BY <2>1
<1>4. QED
  BY <1>1, <1>2, <1>3

LEMMA ClosedStep ==
    ASSUME Expiries' = 0, TypeInv, WindowInv, ClosedInv, [Next]_vars
    PROVE  ClosedInv'
<1>1. ASSUME NEW w \in Workspaces, NEW r \in Resources, NEW id \in op'[w].session[r]
      PROVE  id < nextWin' /\ \A x \in wins' : x.id = id => x \in surf'
  <2>1. CASE op'[w].session = op[w].session
    <3>1. id \in 1..MaxWindows /\ id \in Nat
      BY <1>1, <2>1, LifecycleAssumption DEF TypeInv, TypeOK, Operations
    <3>2. id < nextWin /\ \A x \in wins : x.id = id => x \in surf
      BY <1>1, <2>1 DEF ClosedInv
    <3>3. ASSUME NEW x \in wins', x.id = id PROVE x \in surf'
      <4>1. x \in wins /\ x \in surf
        BY <3>1, <3>2, <3>3, OpenWindows
      <4>2. op'[w].session # [q \in Resources |-> {}]
        BY <1>1
      <4>3. QED
        BY <4>1, <4>2, SnapshotStep
    <3>4. QED
      BY <3>1, <3>2, <3>3, OpenWindows
  <2>2. CASE op'[w].session = [q \in Resources |-> {}]
    BY <1>1, <2>2
  <2>3. CASE CloseStart(w) /\ Resolvable(w)
    <3>1. PICK x \in surf : x.id = id
      BY <1>1, <2>3, SessionOfClose
    <3>2. UNCHANGED <<wins, surf, nextWin>>
      BY <2>3, ActivityEffect DEF ActivityStep
    <3>3. QED
      BY <3>1, <3>2 DEF WindowInv
  <2>4. QED
    BY <2>1, <2>2, <2>3, SessionStep
<1>2. ASSUME NEW w \in Workspaces, NEW r \in Resources, op'[w].session = op[w].session,
             Gone(op[w], r)
      PROVE  \A x \in wins' : x.id \notin op'[w].session[r]
  <2> SUFFICES ASSUME NEW x \in wins', x.id \in op[w].session[r] PROVE FALSE
    BY <1>2
  <2>1. x.id \in 1..MaxWindows /\ x.id \in Nat
    BY LifecycleAssumption DEF TypeInv, TypeOK, Operations
  <2>2. x.id < nextWin
    BY DEF ClosedInv
  <2>3. x \in wins
    BY <2>1, <2>2, OpenWindows
  <2>4. QED
    BY <1>2, <2>3 DEF Gone
<1>3. ASSUME NEW w \in Workspaces, NEW r \in Resources, op'[w].phase \in Closing,
             r \notin op'[w].todo, ~op'[w].failed
      PROVE  \A x \in wins' : x.id \notin op'[w].session[r]
  <2>1. CASE CloseStart(w) /\ Resolvable(w)
    BY <1>3, <2>1, SessionOfClose
  <2>2. CASE /\ op[w].phase \in Closing /\ op'[w].session = op[w].session
             /\ op'[w].todo = op[w].todo /\ op'[w].failed = op[w].failed
    BY <1>2, <1>3, <2>2 DEF ClosedInv, Closing
  <2>3. CASE /\ op[w].phase \in Closing /\ op'[w].session = op[w].session
             /\ op'[w].todo = op[w].todo \ {First(op[w].todo)}
             /\ op'[w].failed = op[w].failed
             /\ \A x \in surf : x.id \notin op[w].session[First(op[w].todo)]
    <3>1. CASE r \notin op[w].todo
      BY <1>2, <1>3, <2>3, <3>1 DEF ClosedInv, Closing
    <3>2. CASE r \in op[w].todo
      <4>1. r = First(op[w].todo)
        BY <1>3, <2>3, <3>2
      <4>2. Gone(op[w], r)
        BY <2>3, <4>1 DEF ClosedInv, Gone
      <4>3. QED
        BY <1>2, <2>3, <4>2
    <3>3. QED
      BY <3>1, <3>2
  <2>4. QED
    BY <1>3, <2>1, <2>2, <2>3, ClosingStep
<1>4. ASSUME NEW w \in Workspaces, NEW r \in Resources, op'[w].phase = "commit",
             op'[w].result.status = "inactive"
      PROVE  \A x \in wins' : x.id \notin op'[w].session[r]
  <2>1. CASE CloseDone(w)
    <3>1. /\ op'[w].session = op[w].session /\ ~op[w].failed
          /\ op[w].phase = "closeNext" /\ op[w].todo = {}
      BY <1>4, <2>1, CloseOutcome DEF CloseDone
    <3>2. Gone(op[w], r)
      BY <3>1 DEF ClosedInv
    <3>3. QED
      BY <1>2, <3>1, <3>2
  <2>2. CASE /\ op[w].phase = "commit" /\ op'[w].result = op[w].result
             /\ op'[w].session = op[w].session
    BY <1>2, <1>4, <2>2 DEF ClosedInv
  <2>3. QED
    BY <1>4, <2>1, <2>2, OutcomeStep, ReconcileOutcome
<1>5. QED
  BY <1>1, <1>3, <1>4 DEF ClosedInv, Gone, Closing

\* When Close reports "inactive", no window of its session is open (shelldesktop's
\* waitWindowsAbsent), as long as no snapshot expired: an expired snapshot shows no
\* window at all, as the run close_expired demonstrates.
THEOREM CloseConfirmedUntilExpiry ==
    Spec => [][Expiries = 0 => CloseIsConfirmed]_vars
<1>1. Init => (Expiries = 0 => ClosedInv)
  <2> SUFFICES ASSUME Init PROVE ClosedInv
    OBVIOUS
  <2>1. wins = {} /\ \A w \in Workspaces : op[w] = IdleOp
    BY DEF Init
  <2>2. IdleOp.session = [r \in Resources |-> {}]
    BY DEF IdleOp
  <2>3. QED
    BY <2>1, <2>2 DEF ClosedInv, Gone
<1>2. TypeInv /\ WindowInv /\ (Expiries = 0 => ClosedInv) /\ [Next]_vars
        => (Expiries = 0 => ClosedInv)'
  <2> SUFFICES ASSUME TypeInv, WindowInv, Expiries = 0 => ClosedInv, [Next]_vars, Expiries' = 0
               PROVE  ClosedInv'
    OBVIOUS
  <2>1. Expiries = 0
    BY ExpiriesStep
  <2>2. QED
    BY <2>1, ClosedStep
<1>3. ASSUME TypeInv, Expiries = 0 => ClosedInv, [Next]_vars
      PROVE  [Expiries = 0 => CloseIsConfirmed]_vars
  <2> SUFFICES ASSUME Expiries = 0, NEW w \in Workspaces, op[w].phase = "commit",
                      state[w].status = "closing", state'[w].status = "inactive",
                      NEW r \in Resources, NEW x \in wins
               PROVE  x.id \notin op[w].session[r]
    BY DEF CloseIsConfirmed
  <2>1. Commit(w)
    <3>1. CASE UNCHANGED state
      BY <3>1
    <3>2. ASSUME NEW u \in Workspaces, Event(u) PROVE state'[w] = state[w]
      BY <1>3, <3>2, EventEffect DEF TypeInv
    <3>3. ASSUME NEW u \in Workspaces, ActivityStep(u), ~Commit(w) PROVE state'[w] = state[w]
      <4>1. CASE Commit(u)
        BY <1>3, <3>3, <4>1 DEF Commit, TypeInv, TypeOK
      <4>2. CASE ~Commit(u)
        BY <3>3, <4>2 DEF ActivityStep, ReconcileStart, EnsureSend, EnsureAccepted, EnsureReady,
             EnsureFails, ReconcileDone, CloseStart, CloseNext, CloseSend, CloseAccepted,
             CloseAbsent, CloseFails, CloseDone
      <4>3. QED
        BY <4>1, <4>2
    <3>4. CASE Shell \/ Environment \/ UNCHANGED vars
      <4>1. UNCHANGED state
        BY <1>3, <3>4, ShellEffect, CrashEffect, EnvironmentEffect DEF vars, TypeInv
      <4>2. QED
        BY <3>1, <4>1
    <3>5. QED
      BY <1>3, <3>2, <3>3, <3>4 DEF Next
  <2>2. op[w].result.status = "inactive"
    BY <1>3, <2>1 DEF Commit, TypeInv, TypeOK
  <2>3. QED
    BY <1>3, <2>2 DEF ClosedInv, Gone
<1>4. QED
  BY <1>1, <1>2, <1>3, TypeCorrect, WindowsCorrect, PTL DEF Spec

\* The same without a condition, when snapshots do not outlive their TTL.
THEOREM CloseCorrect ==
    ASSUME MaxExpiries = 0 PROVE Spec => CloseConfirmed
<1>1. Init => Expiries = 0
  BY DEF Init, Expiries, Budgets
<1>2. TypeInv /\ Expiries = 0 /\ [Next]_vars => (Expiries = 0)'
  BY ExpiriesStep
<1>3. QED
  BY <1>1, <1>2, CloseConfirmedUntilExpiry, TypeCorrect, PTL DEF Spec, CloseConfirmed
-----------------------------------------------------------------------------
(***************************************************************************)
(* The record changes by the rules of the lifecycle only: the machine      *)
(* implements WorkspaceRecord.  The rules do not check the status an       *)
(* activity was started for when they write its outcome, so the invariant  *)
(* ties the two together: while an activity runs, its status stays, and    *)
(* the outcome it has ready is one of its own kind.                        *)
(***************************************************************************)
Reconciles == {"reconcile", "ensure", "awaitEnsure", "waitReady"}
Closes     == {"close", "closeNext", "closeWindows", "awaitClose"}

\* An outcome of ReconcileWorkspace.
ReconcileOut(res) ==
    \/ /\ res.status = "failed" /\ res.reached = {} /\ res.total = {}
       /\ res.code = "definition_not_found"
    \/ /\ res.total \subseteq Resources /\ res.reached \subseteq res.total
       /\ res.status = Record!Verdict(res.reached, res.total)
       /\ res.code \in Record!Reason(res.reached, res.total)

\* An outcome of CloseWorkspace for the record s, whose counts it repeats.
CloseOut(res, s) ==
    /\ res.reached = s.reached /\ res.total = s.total
    /\ \/ res.status = "inactive" /\ res.code = ""
       \/ res.status = "degraded" /\ res.code = "close_failed"
       \/ res.status = "failed" /\ res.code = "definition_not_found"

\* The activity o fits the record s.
FitsRecord(o, s) ==
    /\ o.phase \in Reconciles => s.status \in {"preparing", "recovering"}
    /\ o.phase \in Closes => s.status = "closing"
    /\ o.phase = "commit" =>
         \/ s.status \in {"preparing", "recovering"} /\ ReconcileOut(o.result)
         \/ s.status = "closing" /\ CloseOut(o.result, s)

RecordInv == \A w \in Workspaces : FitsRecord(op[w], state[w])

\* What an activity does before its outcome is written.
LEMMA ActivityKind ==
    ASSUME TypeInv, NEW w \in Workspaces, ActivityStep(w), ~Commit(w)
    PROVE  /\ UNCHANGED state /\ \A u \in Workspaces \ {w} : op'[u] = op[u]
           /\ \/ /\ op[w].phase \in Reconciles
                 /\ \/ op'[w].phase \in Reconciles
                    \/ op'[w].phase = "commit" /\ ReconcileOut(op'[w].result)
              \/ /\ op[w].phase \in Closes
                 /\ \/ op'[w].phase \in Closes
                    \/ op'[w].phase = "commit" /\ CloseOut(op'[w].result, state[w])
<1> USE DEF Reconciles, Closes, Operations
<1>1. /\ op \in [Workspaces -> Operations] /\ op[w] \in Operations
      /\ \A u \in Workspaces \ {w} : op'[u] = op[u]
  BY ActivityOp DEF TypeInv, TypeOK
<1>2. ASSUME NEW res, op' = [op EXCEPT ![w].phase = "commit", ![w].result = res]
      PROVE  op'[w].phase = "commit" /\ op'[w].result = res
  BY <1>1, <1>2
<1>3. CASE ReconcileStart(w)
  <2>1. CASE Resolvable(w)
    BY <1>1, <1>3, <2>1 DEF ReconcileStart
  <2>2. CASE ~Resolvable(w)
    <3> DEFINE res == Outcome("failed", {}, {}, "definition_not_found")
    <3>1. op' = [op EXCEPT ![w].phase = "commit", ![w].result = res]
      BY <1>1, <1>3, <2>2 DEF ReconcileStart
    <3>2. ReconcileOut(res)
      BY DEF ReconcileOut, Outcome
    <3> HIDE DEF res
    <3>3. op[w].phase = "reconcile" /\ UNCHANGED state
      BY <1>3 DEF ReconcileStart
    <3>4. QED
      BY <1>1, <1>2, <3>1, <3>2, <3>3
  <2>3. QED
    BY <2>1, <2>2
<1>4. CASE EnsureSend(w) \/ EnsureAccepted(w) \/ EnsureReady(w) \/ EnsureFails(w)
  <2>1. CASE EnsureSend(w)
    BY <1>1, <2>1 DEF EnsureSend
  <2>2. CASE EnsureAccepted(w)
    BY <1>1, <2>2 DEF EnsureAccepted
  <2>3. CASE EnsureReady(w)
    BY <1>1, <2>3 DEF EnsureReady
  <2>4. CASE EnsureFails(w)
    BY <1>1, <2>4 DEF EnsureFails
  <2>5. QED
    BY <1>4, <2>1, <2>2, <2>3, <2>4
<1>5. CASE ReconcileDone(w)
  <2> DEFINE def   == op[w].def
             ready == Ready(def)
             res   == Outcome(TargetStatus(def, ready), ReachedOf(def, ready),
                              RequiredOf(def), FailureCode(def, ready, op[w].failed))
  <2>1. op' = [op EXCEPT ![w].phase = "commit", ![w].result = res]
    BY <1>5 DEF ReconcileDone
  <2>2. /\ res.status = TargetStatus(def, ready) /\ res.reached = ReachedOf(def, ready)
        /\ res.total = RequiredOf(def) /\ res.code = FailureCode(def, ready, op[w].failed)
    BY DEF Outcome
  <2>3. RequiredOf(def) \subseteq Resources
    BY <1>1, DefinitionShape DEF RequiredOf
  <2> HIDE DEF res, ready, def
  <2>4. ReconcileOut(res)
    BY <2>2, <2>3 DEF ReconcileOut, TargetStatus, FailureCode, ReachedOf, Record!Verdict,
       Record!Reason
  <2>5. op[w].phase = "ensure" /\ UNCHANGED state
    BY <1>5 DEF ReconcileDone
  <2>6. QED
    BY <1>1, <1>2, <2>1, <2>4, <2>5
<1>6. CASE CloseStart(w)
  <2>1. CASE Resolvable(w)
    BY <1>1, <1>6, <2>1 DEF CloseStart
  <2>2. CASE ~Resolvable(w)
    <3> DEFINE res == Outcome("failed", state[w].reached, state[w].total,
                              "definition_not_found")
    <3>1. op' = [op EXCEPT ![w].phase = "commit", ![w].result = res]
      BY <1>1, <1>6, <2>2 DEF CloseStart
    <3>2. CloseOut(res, state[w])
      BY DEF CloseOut, Outcome
    <3> HIDE DEF res
    <3>3. op[w].phase = "close" /\ UNCHANGED state
      BY <1>6 DEF CloseStart
    <3>4. QED
      BY <1>1, <1>2, <3>1, <3>2, <3>3
  <2>3. QED
    BY <2>1, <2>2
<1>7. CASE CloseNext(w) \/ CloseSend(w) \/ CloseAccepted(w) \/ CloseAbsent(w) \/ CloseFails(w)
  <2>1. CASE CloseNext(w)
    BY <1>1, <2>1 DEF CloseNext
  <2>2. CASE CloseSend(w)
    BY <1>1, <2>2 DEF CloseSend
  <2>3. CASE CloseAccepted(w)
    BY <1>1, <2>3 DEF CloseAccepted
  <2>4. CASE CloseAbsent(w)
    BY <1>1, <2>4 DEF CloseAbsent
  <2>5. CASE CloseFails(w)
    BY <1>1, <2>5 DEF CloseFails
  <2>6. QED
    BY <1>7, <2>1, <2>2, <2>3, <2>4, <2>5
<1>8. CASE CloseDone(w)
  <2> DEFINE res == Outcome(IF op[w].failed THEN "degraded" ELSE "inactive",
                            state[w].reached, state[w].total,
                            IF op[w].failed THEN "close_failed" ELSE "")
  <2>1. op' = [op EXCEPT ![w].phase = "commit", ![w].result = res]
    BY <1>8 DEF CloseDone
  <2>2. CloseOut(res, state[w])
    BY DEF CloseOut, Outcome
  <2> HIDE DEF res
  <2>3. op[w].phase = "closeNext" /\ UNCHANGED state
    BY <1>8 DEF CloseDone
  <2>4. QED
    BY <1>1, <1>2, <2>1, <2>2, <2>3
<1>9. QED
  BY <1>3, <1>4, <1>5, <1>6, <1>7, <1>8 DEF ActivityStep

\* What an event does to the record and the activity of its workspace.
LEMMA EventKind ==
    ASSUME TypeInv, NEW w \in Workspaces, Event(w)
    PROVE  /\ op[w].phase = "idle"
           /\ \/ /\ op' = [op EXCEPT ![w] = [IdleOp EXCEPT !.phase = "reconcile"]]
                 /\ state'[w].status \in {"preparing", "recovering"}
              \/ /\ op' = [op EXCEPT ![w] = [IdleOp EXCEPT !.phase = "close"]]
                 /\ state'[w].status = "closing"
              \/ UNCHANGED op
           /\ \A u \in Workspaces \ {w} : state'[u] = state[u]
<1>1. state \in [Workspaces -> States] /\ state[w] \in States
  BY DEF TypeInv, TypeOK
<1>2. CASE Activate(w)
  BY <1>1, <1>2 DEF Activate, Begin, States
<1>3. CASE Recover(w)
  BY <1>1, <1>3 DEF Recover, Begin, States
<1>4. CASE Resume(w)
  BY <1>1, <1>4 DEF Resume, Begin, States
<1>5. CASE Close(w)
  BY <1>1, <1>5 DEF Close, Begin, States
<1>6. CASE Suspend(w)
  BY <1>1, <1>6 DEF Suspend, States
<1>7. QED
  BY <1>2, <1>3, <1>4, <1>5, <1>6 DEF Event

\* A restart runs an activity again as the one of its status, or not at all.
LEMMA CrashKind ==
    ASSUME TypeInv, Crash
    PROVE  /\ UNCHANGED state
           /\ \E again \in SUBSET {w \in Workspaces : op[w].phase # "idle"} :
                 \A w \in Workspaces :
                    op'[w].phase = IF w \notin again THEN "idle"
                                   ELSE IF state[w].status = "closing" THEN "close"
                                   ELSE "reconcile"
<1>1. PICK again \in SUBSET {w \in Workspaces : op[w].phase # "idle"} :
         op' = [w \in Workspaces |->
                  IF w \in again
                  THEN [IdleOp EXCEPT !.phase =
                          IF state[w].status = "closing" THEN "close" ELSE "reconcile"]
                  ELSE IdleOp]
  BY DEF Crash
<1>2. \A w \in Workspaces :
         op'[w].phase = IF w \notin again THEN "idle"
                        ELSE IF state[w].status = "closing" THEN "close" ELSE "reconcile"
  BY <1>1 DEF IdleOp
<1>3. QED
  BY <1>2 DEF Crash

\* An answer of the shell leaves the records alone, and of an activity it writes
\* the reply only.
LEMMA ShellKind ==
    ASSUME TypeInv, Shell, NEW u \in Workspaces
    PROVE  /\ state'[u] = state[u]
           /\ op'[u].phase = op[u].phase /\ op'[u].result = op[u].result
<1>1. op \in [Workspaces -> Operations] /\ op[u] \in Operations
  BY DEF TypeInv, TypeOK
<1>2. ASSUME NEW m, NEW c, Answer(m, c)
      PROVE  op'[u].phase = op[u].phase /\ op'[u].result = op[u].result
  BY <1>1, <1>2 DEF Answer, Operations
<1>3. CASE ShellEnsures
  BY <1>2, <1>3 DEF ShellEnsures
<1>4. CASE ShellCloses
  BY <1>2, <1>4 DEF ShellCloses
<1>5. CASE ShellDeclines
  BY <1>5 DEF ShellDeclines
<1>6. QED
  BY <1>3, <1>4, <1>5 DEF Shell

LEMMA RecordStep == TypeInv /\ RecordInv /\ [Next]_vars => RecordInv'
<1> SUFFICES ASSUME TypeInv, RecordInv, [Next]_vars, NEW u \in Workspaces
             PROVE  FitsRecord(op'[u], state'[u])
  BY DEF RecordInv
<1>1. FitsRecord(op[u], state[u]) /\ op \in [Workspaces -> Operations]
  BY DEF RecordInv, TypeInv, TypeOK
<1>2. \A s : FitsRecord(IdleOp, s)
  BY DEF FitsRecord, IdleOp, Reconciles, Closes
<1>3. ASSUME NEW w \in Workspaces, Event(w)
      PROVE  FitsRecord(op'[u], state'[u])
  <2>1. CASE u # w
    <3>1. op'[u] = op[u] /\ state'[u] = state[u]
      BY <1>3, <2>1, EventKind, <1>1
    <3>2. QED
      BY <1>1, <3>1
  <2>2. CASE u = w
    <3>1. CASE /\ op' = [op EXCEPT ![w] = [IdleOp EXCEPT !.phase = "reconcile"]]
               /\ state'[w].status \in {"preparing", "recovering"}
      <4>1. op'[u].phase = "reconcile"
        BY <1>1, <2>2, <3>1 DEF IdleOp
      <4>2. QED
        BY <2>2, <3>1, <4>1 DEF FitsRecord, Closes
    <3>2. CASE /\ op' = [op EXCEPT ![w] = [IdleOp EXCEPT !.phase = "close"]]
               /\ state'[w].status = "closing"
      <4>1. op'[u].phase = "close"
        BY <1>1, <2>2, <3>2 DEF IdleOp
      <4>2. QED
        BY <2>2, <3>2, <4>1 DEF FitsRecord, Reconciles
    <3>3. CASE UNCHANGED op
      <4>1. op'[u].phase = "idle"
        BY <1>3, <2>2, <3>3, EventKind
      <4>2. QED
        BY <4>1 DEF FitsRecord, Reconciles, Closes
    <3>4. QED
      BY <1>3, <3>1, <3>2, <3>3, EventKind
  <2>3. QED
    BY <2>1, <2>2
<1>4. ASSUME NEW w \in Workspaces, ActivityStep(w), ~Commit(w)
      PROVE  FitsRecord(op'[u], state'[u])
  <2>1. state'[u] = state[u] /\ (u # w => op'[u] = op[u])
    BY <1>4, ActivityKind
  <2>2. CASE u # w
    BY <1>1, <2>1, <2>2
  <2>3. CASE u = w
    <3>1. CASE op[w].phase \in Reconciles
      <4>1. state[u].status \in {"preparing", "recovering"}
        BY <1>1, <2>3, <3>1 DEF FitsRecord
      <4>2. /\ op'[u].phase \in Reconciles \cup {"commit"}
            /\ op'[u].phase = "commit" => ReconcileOut(op'[u].result)
        BY <1>4, <2>3, <3>1, ActivityKind DEF Reconciles, Closes
      <4>3. QED
        BY <2>1, <4>1, <4>2 DEF FitsRecord, Reconciles, Closes
    <3>2. CASE op[w].phase \in Closes
      <4>1. state[u].status = "closing"
        BY <1>1, <2>3, <3>2 DEF FitsRecord
      <4>2. /\ op'[u].phase \in Closes \cup {"commit"}
            /\ op'[u].phase = "commit" => CloseOut(op'[u].result, state[u])
        BY <1>4, <2>3, <3>2, ActivityKind DEF Reconciles, Closes
      <4>3. QED
        BY <2>1, <4>1, <4>2 DEF FitsRecord, Reconciles, Closes
    <3>3. QED
      BY <1>4, <3>1, <3>2, ActivityKind
  <2>4. QED
    BY <2>2, <2>3
<1>5. ASSUME NEW w \in Workspaces, Commit(w)
      PROVE  FitsRecord(op'[u], state'[u])
  <2>1. CASE u = w
    <3>1. op'[u] = IdleOp
      BY <1>1, <1>5, <2>1 DEF Commit
    <3>2. QED
      BY <1>2, <3>1
  <2>2. CASE u # w
    <3>1. op'[u] = op[u] /\ state'[u] = state[u]
      BY <1>1, <1>5, <2>2 DEF Commit, TypeInv, TypeOK
    <3>2. QED
      BY <1>1, <3>1
  <2>3. QED
    BY <2>1, <2>2
<1>6. ASSUME Crash
      PROVE  FitsRecord(op'[u], state'[u])
  <2>1. PICK again \in SUBSET {w \in Workspaces : op[w].phase # "idle"} :
           \A w \in Workspaces :
              op'[w].phase = IF w \notin again THEN "idle"
                             ELSE IF state[w].status = "closing" THEN "close"
                             ELSE "reconcile"
    BY <1>6, CrashKind
  <2>2. state'[u] = state[u] /\ (u \in again => op[u].phase # "idle")
    BY <1>6, CrashKind
  <2>3. op[u].phase \in Phases
    BY <1>1 DEF Operations
  <2>4. op[u].phase # "idle" => state[u].status \in {"preparing", "recovering", "closing"}
    BY <1>1, <2>3 DEF FitsRecord, Reconciles, Closes, Phases
  <2>5. QED
    BY <2>1, <2>2, <2>4 DEF FitsRecord, Reconciles, Closes
<1>7. ASSUME Environment, ~Crash
      PROVE  FitsRecord(op'[u], state'[u])
  <2>1. UNCHANGED state
    BY <1>7 DEF Environment, UserLaunches, AppOpensWindow, AppEnds, AppClosesWindow, Publish,
       Expire, CatalogReload
  <2>2. UNCHANGED op
    BY <1>7, EnvironmentEffect
  <2>3. QED
    BY <1>1, <2>1, <2>2
<1>8. ASSUME Shell
      PROVE  FitsRecord(op'[u], state'[u])
  <2>1. state'[u] = state[u] /\ op'[u].phase = op[u].phase /\ op'[u].result = op[u].result
    BY <1>8, ShellKind
  <2>2. QED
    BY <1>1, <2>1 DEF FitsRecord
<1>9. CASE UNCHANGED vars
  BY <1>1, <1>9 DEF vars
<1>10. QED
  BY <1>3, <1>4, <1>5, <1>6, <1>7, <1>8, <1>9 DEF Next

\* The record's activity of w, from the operation o and the record s.
KindOf(o, s) ==
    IF o.phase = "idle" THEN "none"
    ELSE IF o.phase \in Reconciles THEN "reconcile"
    ELSE IF o.phase \in Closes THEN "close"
    ELSE IF s.status = "closing" THEN "close" ELSE "reconcile"

Activities == [w \in Workspaces |-> ActivityOf(w)]

LEMMA ActivitiesAre ==
    ASSUME TypeInv, TypeInv'
    PROVE  /\ Activities = [w \in Workspaces |-> KindOf(op[w], state[w])]
           /\ Activities' = [w \in Workspaces |-> KindOf(op'[w], state'[w])]
<1>1. ASSUME NEW w \in Workspaces
      PROVE  ActivityOf(w) = KindOf(op[w], state[w])
  <2>1. op[w].phase \in Phases
    BY DEF TypeInv, TypeOK, Operations
  <2>2. QED
    BY <2>1 DEF ActivityOf, KindOf, Reconciles, Closes, Phases
<1>2. ASSUME NEW w \in Workspaces
      PROVE  ActivityOf(w)' = KindOf(op'[w], state'[w])
  <2>1. op'[w].phase \in Phases
    BY DEF TypeInv, TypeOK, Operations
  <2>2. QED
    BY <2>1 DEF ActivityOf, KindOf, Reconciles, Closes, Phases
<1>3. QED
  BY <1>1, <1>2 DEF Activities

\* A step that leaves the other workspaces alone changes the activity of w at most.
LEMMA OneActivity ==
    ASSUME TypeInv, TypeInv', NEW w \in Workspaces,
           \A u \in Workspaces \ {w} : op'[u] = op[u] /\ state'[u] = state[u]
    PROVE  /\ Activities[w] = KindOf(op[w], state[w])
           /\ Activities' = [Activities EXCEPT ![w] = KindOf(op'[w], state'[w])]
BY ActivitiesAre

\* A step that changes no record and no kind of activity.
LEMMA SameRecord ==
    ASSUME TypeInv, TypeInv', UNCHANGED state,
           \A w \in Workspaces : KindOf(op'[w], state[w]) = KindOf(op[w], state[w])
    PROVE  UNCHANGED Record!vars
<1>1. Activities' = Activities
  BY ActivitiesAre
<1>2. QED
  BY <1>1 DEF Record!vars, Activities

LEMMA EventImplements ==
    ASSUME TypeInv, TypeInv', NEW w \in Workspaces, Event(w)
    PROVE  Record!Request(w) \/ Record!Suspend(w)
<1> USE DEF Activities
<1>1. /\ op[w].phase = "idle" /\ op \in [Workspaces -> Operations]
      /\ \A u \in Workspaces \ {w} : op'[u] = op[u] /\ state'[u] = state[u]
  BY EventKind DEF TypeInv, TypeOK
<1>2. /\ Activities[w] = "none"
      /\ Activities' = [Activities EXCEPT ![w] = KindOf(op'[w], state'[w])]
  BY <1>1, OneActivity DEF KindOf
<1>3. ASSUME op' = op
      PROVE  Activities' = Activities
  BY <1>1, <1>2, <1>3 DEF KindOf
<1>4. ASSUME NEW ph \in {"reconcile", "close"}, op' = [op EXCEPT ![w] = [IdleOp EXCEPT !.phase = ph]]
      PROVE  Activities' = [Activities EXCEPT ![w] = ph]
  <2>1. op'[w].phase = ph
    BY <1>1, <1>4 DEF IdleOp
  <2>2. QED
    BY <1>2, <2>1 DEF KindOf, Reconciles, Closes
<1> HIDE DEF Activities
<1>5. ASSUME NEW s, NEW ph \in {"reconcile", "close"}, Begin(w, s, ph)
      PROVE  \/ Activities' = [Activities EXCEPT ![w] = ph]
             \/ state[w].status = s /\ Activities' = Activities
  BY <1>3, <1>4, <1>5 DEF Begin
<1>6. CASE Activate(w)
  <2>1. catalog.active[w] \in Revisions
    <3>1. ValidCatalog(catalog) /\ catalog.active[w] # NoRev
      BY <1>6, LifecycleAssumption DEF TypeInv, TypeOK, Activate
    <3>2. QED
      BY <3>1 DEF ValidCatalog
  <2>2. \/ Activities' = [Activities EXCEPT ![w] = "reconcile"]
        \/ state[w].status = "preparing" /\ Activities' = Activities
    BY <1>5, <1>6 DEF Activate
  <2>3. QED
    BY <1>2, <1>6, <2>1, <2>2 DEF Activate, Record!Request, Record!Started, Activities
<1>7. CASE Recover(w)
  <2>1. \/ Activities' = [Activities EXCEPT ![w] = "reconcile"]
        \/ state[w].status = "recovering" /\ Activities' = Activities
    BY <1>5, <1>7 DEF Recover
  <2>2. QED
    BY <1>2, <1>7, <2>1 DEF Recover, Record!Request, Record!Started, Activities
<1>8. CASE Resume(w)
  <2>1. \/ Activities' = [Activities EXCEPT ![w] = "reconcile"]
        \/ state[w].status = "preparing" /\ Activities' = Activities
    BY <1>5, <1>8 DEF Resume
  <2>2. QED
    BY <1>2, <1>8, <2>1 DEF Resume, Record!Request, Record!Started, Activities
<1>9. CASE Close(w)
  <2>1. \/ Activities' = [Activities EXCEPT ![w] = "close"]
        \/ state[w].status = "closing" /\ Activities' = Activities
    BY <1>5, <1>9 DEF Close
  <2>2. QED
    BY <1>2, <1>9, <2>1 DEF Close, Record!Request, Record!Started, Activities
<1>10. CASE Suspend(w)
  BY <1>2, <1>3, <1>10 DEF Suspend, Record!Suspend, Activities
<1>11. QED
  BY <1>6, <1>7, <1>8, <1>9, <1>10 DEF Event

LEMMA CommitImplements ==
    ASSUME TypeInv, TypeInv', RecordInv, NEW w \in Workspaces, Commit(w)
    PROVE  Record!Reconciled(w) \/ Record!Closed(w)
<1> DEFINE res == op[w].result
<1>1. /\ op[w].phase = "commit" /\ op' = [op EXCEPT ![w] = IdleOp]
      /\ state' = [state EXCEPT ![w] =
            [status |-> res.status, rev |-> @.rev, reached |-> res.reached,
             total |-> res.total, code |-> res.code]]
  BY DEF Commit
<1>2. \A u \in Workspaces \ {w} : op'[u] = op[u] /\ state'[u] = state[u]
  BY <1>1 DEF TypeInv, TypeOK
<1>3. op'[w].phase = "idle"
  BY <1>1 DEF TypeInv, TypeOK, IdleOp
<1>4. /\ Activities[w] = IF state[w].status = "closing" THEN "close" ELSE "reconcile"
      /\ Activities' = [Activities EXCEPT ![w] = "none"]
  BY <1>1, <1>2, <1>3, OneActivity DEF KindOf, Reconciles, Closes
<1> HIDE DEF res
<1>5. CASE state[w].status \in {"preparing", "recovering"} /\ ReconcileOut(res)
  <2>1. CASE /\ res.status = "failed" /\ res.reached = {} /\ res.total = {}
             /\ res.code = "definition_not_found"
    <3>1. Record!Write(w, "failed", {}, {}, "definition_not_found")
      BY <1>1, <2>1 DEF Record!Write
    <3>2. QED
      BY <1>4, <1>5, <3>1 DEF Record!Reconciled, Activities
  <2>2. CASE /\ res.total \subseteq Resources /\ res.reached \subseteq res.total
             /\ res.status = Record!Verdict(res.reached, res.total)
             /\ res.code \in Record!Reason(res.reached, res.total)
    <3>1. Record!Write(w, Record!Verdict(res.reached, res.total), res.reached, res.total,
                       res.code)
      BY <1>1, <2>2 DEF Record!Write
    <3>2. QED
      BY <1>4, <1>5, <2>2, <3>1 DEF Record!Reconciled, Activities
  <2>3. QED
    BY <1>5, <2>1, <2>2 DEF ReconcileOut
<1>6. CASE state[w].status = "closing" /\ CloseOut(res, state[w])
  <2>1. \E end \in {<<"inactive", "">>, <<"degraded", "close_failed">>,
                    <<"failed", "definition_not_found">>} :
           res.status = end[1] /\ res.code = end[2]
    BY <1>6 DEF CloseOut
  <2>2. PICK end \in {<<"inactive", "">>, <<"degraded", "close_failed">>,
                      <<"failed", "definition_not_found">>} :
           res.status = end[1] /\ res.code = end[2]
    BY <2>1
  <2>3. Record!Write(w, end[1], state[w].reached, state[w].total, end[2])
    BY <1>1, <1>6, <2>2 DEF Record!Write, CloseOut
  <2>4. QED
    BY <1>4, <1>6, <2>3 DEF Record!Closed, Activities
<1>7. QED
  BY <1>1, <1>5, <1>6 DEF RecordInv, FitsRecord, res

LEMMA CrashImplements ==
    ASSUME TypeInv, TypeInv', RecordInv, Crash
    PROVE  Record!Restart
<1>1. PICK again \in SUBSET {w \in Workspaces : op[w].phase # "idle"} :
         \A w \in Workspaces :
            op'[w].phase = IF w \notin again THEN "idle"
                           ELSE IF state[w].status = "closing" THEN "close"
                           ELSE "reconcile"
  BY CrashKind
<1>2. UNCHANGED state
  BY CrashKind
<1>3. ASSUME NEW w \in Workspaces
      PROVE  /\ KindOf(op[w], state[w]) # "none" <=> op[w].phase # "idle"
             /\ w \in again => KindOf(op'[w], state'[w]) = KindOf(op[w], state[w])
             /\ w \notin again => KindOf(op'[w], state'[w]) = "none"
  <2>1. FitsRecord(op[w], state[w]) /\ op[w].phase \in Phases
    BY DEF RecordInv, TypeInv, TypeOK, Operations
  <2>2. KindOf(op[w], state[w]) # "none" <=> op[w].phase # "idle"
    BY DEF KindOf
  <2>3. ASSUME w \in again
        PROVE  KindOf(op'[w], state'[w]) = KindOf(op[w], state[w])
    <3>1. op[w].phase # "idle"
      BY <2>3
    <3>2. CASE state[w].status = "closing"
      BY <1>1, <1>2, <2>1, <2>3, <3>1, <3>2 DEF KindOf, FitsRecord, Reconciles, Closes, Phases
    <3>3. CASE state[w].status # "closing"
      BY <1>1, <1>2, <2>1, <2>3, <3>1, <3>3 DEF KindOf, FitsRecord, Reconciles, Closes, Phases
    <3>4. QED
      BY <3>2, <3>3
  <2>4. ASSUME w \notin again
        PROVE  KindOf(op'[w], state'[w]) = "none"
    BY <1>1, <2>4 DEF KindOf
  <2>5. QED
    BY <2>2, <2>3, <2>4
<1>4. again \in SUBSET {w \in Workspaces : Activities[w] # "none"}
  BY <1>3, ActivitiesAre
<1>5. Activities' = [w \in Workspaces |-> IF w \in again THEN Activities[w] ELSE "none"]
  BY <1>3, ActivitiesAre
<1>6. QED
  BY <1>2, <1>4, <1>5 DEF Record!Restart, Activities

LEMMA RecordImplements ==
    ASSUME TypeInv, TypeInv', RecordInv, [Next]_vars
    PROVE  [Record!Next]_(Record!vars)
<1>1. ASSUME NEW w \in Workspaces, Event(w)
      PROVE  Record!Next
  BY <1>1, EventImplements DEF Record!Next
<1>2. ASSUME NEW w \in Workspaces, Commit(w)
      PROVE  Record!Next
  BY <1>2, CommitImplements DEF Record!Next
<1>3. ASSUME NEW w \in Workspaces, ActivityStep(w), ~Commit(w)
      PROVE  UNCHANGED Record!vars
  <2>1. \A u \in Workspaces \ {w} : op'[u] = op[u]
    BY <1>3, ActivityKind
  <2>2. FitsRecord(op[w], state[w])
    BY DEF RecordInv
  <2>3. KindOf(op'[w], state[w]) = KindOf(op[w], state[w])
    <3>1. CASE op[w].phase \in Reconciles
      BY <1>3, <2>2, <3>1, ActivityKind DEF KindOf, FitsRecord, Reconciles, Closes
    <3>2. CASE op[w].phase \in Closes
      BY <1>3, <2>2, <3>2, ActivityKind DEF KindOf, FitsRecord, Reconciles, Closes
    <3>3. QED
      BY <1>3, <3>1, <3>2, ActivityKind
  <2>4. QED
    BY <1>3, <2>1, <2>3, ActivityKind, SameRecord
<1>4. CASE Shell
  <2>1. UNCHANGED state
    BY <1>4, ShellEffect
  <2>2. QED
    BY <1>4, <2>1, ShellKind, SameRecord DEF KindOf
<1>5. ASSUME Environment
      PROVE  Record!Next \/ UNCHANGED Record!vars
  <2>1. CASE Crash
    BY <2>1, CrashImplements DEF Record!Next
  <2>2. CASE ~Crash
    <3>1. UNCHANGED state
      BY <1>5, <2>2 DEF Environment, UserLaunches, AppOpensWindow, AppEnds, AppClosesWindow,
         Publish, Expire, CatalogReload
    <3>2. UNCHANGED op
      BY <1>5, <2>2, EnvironmentEffect
    <3>3. QED
      BY <3>1, <3>2, SameRecord
  <2>3. QED
    BY <2>1, <2>2
<1>6. CASE UNCHANGED vars
  BY <1>6, SameRecord DEF vars
<1>7. QED
  BY <1>1, <1>2, <1>3, <1>4, <1>5, <1>6 DEF Next

\* The machine changes the durable record of a workspace by the rules of the
\* lifecycle only: every event, activity, restart, late answer and edit of the
\* catalog is a step of WorkspaceRecord or changes nothing of it (BuildDefinition
\* in internal/orchestration/workspace/model.go).
THEOREM RecordCorrect == Spec => ImplementsRecord
<1>1. Init => RecordInv
  <2> SUFFICES ASSUME Init, NEW w \in Workspaces
               PROVE  FitsRecord(op[w], state[w])
    BY DEF RecordInv
  <2>1. op[w].phase = "idle"
    BY DEF Init, IdleOp
  <2>2. QED
    BY <2>1 DEF FitsRecord, Reconciles, Closes
<1>2. Init /\ TypeInv => Record!Init
  <2> SUFFICES ASSUME Init, TypeInv
               PROVE  Record!Init
    OBVIOUS
  <2>1. ASSUME NEW w \in Workspaces
        PROVE  ActivityOf(w) = "none"
    BY <2>1 DEF Init, ActivityOf, IdleOp
  <2>2. QED
    BY <2>1 DEF Init, Record!Init
<1>3. Spec => []RecordInv
  BY <1>1, RecordStep, TypeCorrect, PTL DEF Spec
<1>4. QED
  BY <1>2, <1>3, RecordImplements, TypeCorrect, PTL DEF Spec, ImplementsRecord, Record!Spec
=============================================================================
