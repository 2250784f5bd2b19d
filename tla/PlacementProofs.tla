-------------------------- MODULE PlacementProofs --------------------------
(***************************************************************************)
(* What rounding and cutting off do to a rectangle, for any monitor and    *)
(* any intent, and that no stale placement is carried out, for any set of  *)
(* displays, windows and intents and any course of events.                 *)
(***************************************************************************)
EXTENDS Placement, WellFoundedInduction, TLAPS

USE DEF Rects, ValidRect

-----------------------------------------------------------------------------
(***************************************************************************)
(* Geometry.                                                               *)
(***************************************************************************)

\* math.Round of a fraction that is not negative.
LEMMA RoundSpec ==
    ASSUME NEW n \in Nat
    PROVE  /\ Round(n) \in Nat
           /\ 2 * Unit * Round(n) <= 2 * n + Unit
           /\ 2 * n + Unit < 2 * Unit * Round(n) + 2 * Unit
<1> DEFINE d == 2 * Unit
<1>1. d \in Nat \ {0}
  BY GeometryAssumption
<1>2. 2 * n + Unit \in Nat
  BY GeometryAssumption
<1>3. ASSUME NEW a \in Nat, NEW b \in Nat \ {0}
      PROVE  /\ a \div b \in Nat
             /\ b * (a \div b) <= a /\ a < b * (a \div b) + b
  BY <1>3
<1> HIDE DEF d
<1>4. /\ (2 * n + Unit) \div d \in Nat
      /\ d * ((2 * n + Unit) \div d) <= 2 * n + Unit
      /\ 2 * n + Unit < d * ((2 * n + Unit) \div d) + d
  BY <1>1, <1>2, <1>3
<1> QED
  BY <1>4 DEF Round, d

\* A fraction of a length, rounded, is at most the length.
LEMMA RoundBounded ==
    ASSUME NEW length \in Nat, NEW n \in 0..Unit
    PROVE  /\ n * length \in Nat /\ Round(n * length) \in 0..length
<1>1. n * length \in Nat /\ n * length <= Unit * length
  BY GeometryAssumption
<1>2. /\ Round(n * length) \in Nat
      /\ 2 * Unit * Round(n * length) <= 2 * (n * length) + Unit
  BY <1>1, RoundSpec
<1>3. Unit * length \in Nat /\ 2 * Unit * Round(n * length) <= 2 * (Unit * length) + Unit
  BY <1>1, <1>2, GeometryAssumption
<1>4. ASSUME NEW k \in Nat, k > length PROVE 2 * Unit * k > 2 * (Unit * length) + Unit
  <2>1. Unit * k >= Unit * (length + 1)
    BY <1>4, GeometryAssumption
  <2>2. Unit * (length + 1) = Unit * length + Unit
    BY GeometryAssumption
  <2>3. Unit * k \in Nat /\ Unit * length \in Nat /\ 2 * Unit * k = 2 * (Unit * k)
    BY GeometryAssumption
  <2> QED
    BY <2>1, <2>2, <2>3, GeometryAssumption
<1>5. ~(Round(n * length) > length)
  <2> SUFFICES ASSUME Round(n * length) > length PROVE FALSE
    OBVIOUS
  <2>1. 2 * Unit * Round(n * length) > 2 * (Unit * length) + Unit
    BY <1>2, <1>4
  <2>2. 2 * Unit * Round(n * length) \in Int /\ 2 * (Unit * length) + Unit \in Int
    BY <1>2, <1>3, GeometryAssumption
  <2> DEFINE a == 2 * Unit * Round(n * length)
             b == 2 * (Unit * length) + Unit
  <2> HIDE DEF a, b
  <2> QED
    BY <1>3, <2>1, <2>2 DEF a, b
<1> QED
  BY <1>1, <1>2, <1>5

\* One axis: a side begins in the area and ends in it, and it is not empty if the
\* intent is at least one pixel long.
LEMMA AxisInside ==
    ASSUME NEW start \in Int, NEW length \in Nat \ {0},
           NEW n \in 0..Unit, NEW k \in 1..Unit, n + k <= Unit
    PROVE  /\ Begin(start, length, n) \in Int /\ Extent(start, length, n, k) \in Int
           /\ Begin(start, length, n) >= start
           /\ Begin(start, length, n) + Extent(start, length, n, k) <= start + length
           /\ k * length >= Unit => Extent(start, length, n, k) > 0
<1>1. Round(n * length) \in 0..length /\ Round(k * length) \in 0..length
  BY RoundBounded, GeometryAssumption
<1>2. Begin(start, length, n) \in Int /\ Begin(start, length, n) >= start
  BY <1>1 DEF Begin
<1>3. Extent(start, length, n, k) \in Int
  BY <1>1, <1>2 DEF Extent, Fit, AtLeastOne
<1>4. Begin(start, length, n) + Extent(start, length, n, k) <= start + length
  BY <1>1, <1>2 DEF Extent, Fit, AtLeastOne
<1>5. ASSUME k * length >= Unit PROVE Extent(start, length, n, k) > 0
  <2>1. n * length \in Nat /\ k * length \in Nat /\ Unit * length \in Nat
    BY GeometryAssumption
  <2>2. n * length + k * length <= Unit * length
    <3>1. (n + k) * length <= Unit * length
      BY GeometryAssumption
    <3>2. (n + k) * length = n * length + k * length
      OBVIOUS
    <3> QED
      BY <3>1, <3>2
  <2>3. 2 * Unit * Round(n * length) <= 2 * (n * length) + Unit
    BY <2>1, RoundSpec
  <2>4. Unit * Round(n * length) \in Nat
        /\ 2 * Unit * Round(n * length) = 2 * (Unit * Round(n * length))
    BY <1>1, GeometryAssumption
  <2>5. Unit * Round(n * length) < Unit * length
    BY <1>5, <2>1, <2>2, <2>3, <2>4, GeometryAssumption
  <2>6. Round(n * length) < length
    <3>1. Round(n * length) # length
      BY <2>1, <2>4, <2>5
    <3> QED
      BY <1>1, <3>1
  <2> QED
    BY <1>1, <2>6 DEF Extent, Fit, AtLeastOne, Begin
<1> QED
  BY <1>2, <1>3, <1>4, <1>5

\* resolvePlacement stays in the work area, for any monitor and any valid intent,
\* and it does not fail for an intent that is at least a pixel wide and high.
THEOREM RectInside ==
    ASSUME NEW area \in Rects, ValidRect(area), NEW r \in Normalized
    PROVE  /\ ResolveRect(area, r) \in Rects /\ Inside(ResolveRect(area, r), area, 0)
           /\ r.width * area.width >= Unit /\ r.height * area.height >= Unit
                => ValidRect(ResolveRect(area, r))
<1>1. /\ area.width \in Nat \ {0} /\ area.height \in Nat \ {0}
      /\ area.x \in Int /\ area.y \in Int
      /\ r.x \in 0..Unit /\ r.y \in 0..Unit /\ r.width \in 1..Unit /\ r.height \in 1..Unit
      /\ r.x + r.width <= Unit /\ r.y + r.height <= Unit
  BY DEF Normalized
<1> DEFINE x == Begin(area.x, area.width, r.x)
           w == Extent(area.x, area.width, r.x, r.width)
           y == Begin(area.y, area.height, r.y)
           h == Extent(area.y, area.height, r.y, r.height)
<1>2. /\ x \in Int /\ w \in Int /\ x >= area.x /\ x + w <= area.x + area.width
      /\ r.width * area.width >= Unit => w > 0
  BY <1>1, AxisInside
<1>3. /\ y \in Int /\ h \in Int /\ y >= area.y /\ y + h <= area.y + area.height
      /\ r.height * area.height >= Unit => h > 0
  BY <1>1, AxisInside
<1>4. ResolveRect(area, r) = [x |-> x, y |-> y, width |-> w, height |-> h]
  BY DEF ResolveRect
<1> HIDE DEF x, y, w, h
<1> QED
  BY <1>1, <1>2, <1>3, <1>4 DEF Inside

\* A frame that is near a rectangle in the area is in the area, up to the margin.
LEMMA NearInside ==
    ASSUME NEW area \in Rects, NEW rect \in Rects, NEW frame \in Rects,
           Inside(rect, area, 0),
           \A f \in {"x", "y", "width", "height"} : Near(frame[f], rect[f])
    PROVE  Inside(frame, area, 2 * Tolerance)
<1>1. /\ frame.x - rect.x \in (-Tolerance)..Tolerance
      /\ frame.y - rect.y \in (-Tolerance)..Tolerance
      /\ frame.width - rect.width \in (-Tolerance)..Tolerance
      /\ frame.height - rect.height \in (-Tolerance)..Tolerance
  BY DEF Near
<1> QED
  BY <1>1, GeometryAssumption DEF Inside

\* A set of numbers has a smallest one.
LEMMA MinimumExists ==
    ASSUME NEW S \in SUBSET Nat, S # {}
    PROVE  \E m \in S : \A x \in S : m <= x
<1>1. PICK m \in S : \A x \in S : ~(<<x, m>> \in OpToRel(<, Nat))
  BY NatLessThanWellFounded, WFMin
<1>2. \A x \in S : ~(x < m)
  BY <1>1 DEF OpToRel
<1> QED
  BY <1>2

\* anchorWindow finds a window, if there is one.
LEMMA AnchorExists ==
    ASSUME NEW ids \in SUBSET Nat, ids # {}
    PROVE  Anchor(ids) \in ids
  BY MinimumExists DEF Anchor

\* captureTopology reports the monitors there are.
LEMMA TopologyTyped ==
    ASSUME NEW t \in Topologies
    PROVE  /\ DOMAIN t.monitors \subseteq Nat
           /\ \A i \in DOMAIN t.monitors : t.monitors[i].workArea \in Rects
<1>1. PICK d \in DisplaySet : t = CaptureTopology(d)
  BY DEF Topologies
<1>2. IsDisplay(d)
  BY PlacementAssumption
<1>3. /\ d = [primary |-> d.primary, monitors |-> d.monitors]
      /\ DOMAIN d.monitors \subseteq Nat /\ \A i \in DOMAIN d.monitors : d.monitors[i] \in Monitors
  BY <1>2 DEF IsDisplay
<1>4. t.monitors = [i \in DOMAIN d.monitors |->
        IF ValidRect(d.monitors[i].workArea) THEN d.monitors[i]
        ELSE [d.monitors[i] EXCEPT !.workArea = d.monitors[i].geometry]]
  BY <1>1, <1>3 DEF CaptureTopology
<1>5. \A m \in Monitors : /\ m.geometry \in Rects
                          /\ ValidRect(m.workArea) => m.workArea \in Rects
                          /\ [m EXCEPT !.workArea = m.geometry].workArea = m.geometry
  BY DEF Monitors
<1>6. ASSUME NEW i \in DOMAIN d.monitors PROVE t.monitors[i].workArea \in Rects
  <2>1. t.monitors[i] = IF ValidRect(d.monitors[i].workArea) THEN d.monitors[i]
                        ELSE [d.monitors[i] EXCEPT !.workArea = d.monitors[i].geometry]
    BY <1>4
  <2> HIDE DEF ValidRect, Rects
  <2>2. QED
    BY <1>3, <1>5, <2>1
<1> QED
  BY <1>3, <1>4, <1>6

\* resolveMonitor takes a monitor that is there.
LEMMA MonitorExists ==
    ASSUME NEW t \in Topologies, NEW role, Candidates(role, t) # {}
    PROVE  ResolveMonitor(role, t) \in DOMAIN t.monitors
<1>1. Candidates(role, t) \subseteq DOMAIN t.monitors
  BY DEF Candidates
<1>2. Candidates(role, t) \in SUBSET Nat
  BY <1>1, TopologyTyped
<1>3. ResolveMonitor(role, t) \in Candidates(role, t)
  BY <1>2, MinimumExists DEF ResolveMonitor
<1> QED
  BY <1>1, <1>3

\* What resolvePlacement returns, unless it fails.
LEMMA TargetShape ==
    ASSUME NEW i \in Intents, NEW t \in Topologies, ResolvePlacement(i, t) # NoTarget
    PROVE  LET target == ResolvePlacement(i, t) IN
           /\ target.topology = t /\ target.monitor \in DOMAIN t.monitors
           /\ target.workspace \in Nat /\ target.rect \in Rects
           /\ Inside(target.rect, t.monitors[target.monitor].workArea, 0)
<1> DEFINE m == ResolveMonitor(i.role, t)
           area == t.monitors[m].workArea
           rect == ResolveRect(area, i.rect)
<1>1. /\ ValidTopology(t) /\ Candidates(i.role, t) # {}
      /\ ResolvePlacement(i, t) =
           [topology |-> t, monitor |-> m, workspace |-> i.workspace, rect |-> rect]
  BY DEF ResolvePlacement
<1>2. m \in DOMAIN t.monitors
  BY <1>1, MonitorExists
<1>3. area \in Rects /\ ValidRect(area)
  BY <1>1, <1>2, TopologyTyped DEF ValidTopology
<1>4. i.rect \in Normalized /\ i.workspace \in Nat
  BY PlacementAssumption DEF Intent
<1>5. rect \in Rects /\ Inside(rect, area, 0)
  BY <1>3, <1>4, RectInside
<1> HIDE DEF m, rect
<1> QED
  BY <1>1, <1>2, <1>4, <1>5

-----------------------------------------------------------------------------
(***************************************************************************)
(* The protocol.                                                           *)
(***************************************************************************)

USE DEF shell, delivery

\* What remains of a budget is a budget.
LEMMA SpendTyped ==
    ASSUME budget \in Budget,
           NEW e \in {"ensures", "displays", "windows", "workspaces", "deadlines"}, Spend(e)
    PROVE  budget' \in Budget
<1>1. budget[e] \in Nat /\ budget[e] > 0 /\ budget' = [budget EXCEPT ![e] = budget[e] - 1]
  BY DEF Spend, Budget
<1> QED
  BY <1>1 DEF Budget

\* The end of an operation leaves a well-formed one.
LEMMA EndTyped ==
    ASSUME op \in Operations,
           NEW r \in Results, End(r)
    PROVE  op' \in Operations
  BY DEF End, Phases, Operations

\* A target that was found was resolved for the retained snapshot.
LEMMA TargetTyped ==
    ASSUME TypeOK, Target # NoTarget
    PROVE  /\ retained # Nothing /\ IsSnapshot(retained)
           /\ Target = ResolvePlacement(intent, retained.topology)
           /\ Target \in Targets /\ Target.topology = retained.topology
<1>1. /\ retained # Nothing /\ Target = ResolvePlacement(intent, retained.topology)
      /\ IsSnapshot(retained) /\ intent \in Intents
  BY DEF TypeOK, Target
<1>2. retained.topology \in Topologies
  BY <1>1 DEF IsSnapshot
<1>3. ResolvePlacement(intent, retained.topology) \in Targets
  BY <1>1, <1>2 DEF Targets
<1>4. ResolvePlacement(intent, retained.topology).topology = retained.topology
  BY <1>1, <1>2, TargetShape
<1> QED
  BY <1>1, <1>3, <1>4

\* A frame that misses its target by a few pixels is a frame.
LEMMA FrameTyped ==
    ASSUME NEW r \in Rects, NEW n \in Int
    PROVE  [r EXCEPT !.x = @ + n, !.width = @ - n] \in Rects
<1> DEFINE a == r.x + n
           b == r.width - n
<1>1. a \in Int /\ b \in Int
  OBVIOUS
<1> HIDE DEF a, b
<1>2. [r EXCEPT !.x = a, !.width = b] \in Rects
  BY <1>1
<1> QED
  BY <1>2 DEF a, b

\* So does an answer, whoever it is for.
LEMMA AnswerTyped ==
    ASSUME op \in Operations, NEW success \in BOOLEAN, Answer(success)
    PROVE  op' \in Operations
<1>1. CASE UNCHANGED op
  BY <1>1
<1>2. CASE op' = [op EXCEPT !.phase = "placing"]
  BY <1>2 DEF Operations, Phases
<1>3. CASE End("refused")
  BY <1>3, EndTyped DEF Results
<1> QED
  BY <1>1, <1>2, <1>3 DEF Answer

\* The request that the shell handles, and what is left.
LEMMA TailTyped ==
    ASSUME requests \in Seq(Requests), requests # <<>>
    PROVE  Request \in Requests /\ Tail(requests) \in Seq(Requests)
  BY DEF Request

\* Every display, window, snapshot and request is of a shape the code can meet.
THEOREM TypeCorrect == Spec => []TypeOK
<1>1. Init => TypeOK
  <2> SUFFICES ASSUME Init PROVE TypeOK
    OBVIOUS
  <2>1. IsWindows(windows)
    BY DEF Init, IsWindows
  <2>2. /\ budget \in Budget /\ workspaces \in 1..MaxWorkspaces
    BY PlacementAssumption DEF Init
  <2>3. op \in Operations
    BY DEF Init, Phases, Results, Operations
  <2>4. requests \in Seq(Requests)
    BY DEF Init
  <2>5. /\ intent \in Intents /\ display \in DisplaySet /\ surface \subseteq WindowIds
        /\ incoming = Nothing /\ retained = Nothing
    BY DEF Init
  <2>6. published \in BOOLEAN /\ ~published
    BY DEF Init
  <2> QED
    BY <2>1, <2>2, <2>3, <2>4, <2>5, <2>6 DEF TypeOK
<1>2. ASSUME TypeOK, [Next]_vars PROVE TypeOK'
  <2> USE <1>2 DEF TypeOK
  <2>1. CASE DisplayChange
    <3>1. IsWindows(windows')
      <4>1. display'.primary \in Int
        BY <2>1, PlacementAssumption DEF DisplayChange, IsDisplay
      <4>2. \A w \in DOMAIN windows : windows[w] \in Window
        BY DEF IsWindows
      <4>3. \A w \in DOMAIN windows : [windows[w] EXCEPT !.monitor = display'.primary] \in Window
        BY <4>1, <4>2 DEF Window
      <4> QED
        BY <2>1, <4>2, <4>3 DEF DisplayChange, IsWindows
    <3> QED
      BY <2>1, <3>1, SpendTyped DEF DisplayChange, IsWindows
  <2>2. CASE WindowChange
    <3>1. IsWindows(windows')
      <4>1. PICK w \in WindowIds, f \in Frames, i \in DOMAIN display.monitors, p \in BOOLEAN :
              windows' = [x \in DOMAIN windows \cup {w} |->
                IF x = w THEN [monitor |-> i, workspace |-> 0, frame |-> f, placeable |-> p]
                ELSE windows[x]]
        BY <2>2 DEF WindowChange
      <4>2. i \in Int /\ f \in Rects
        BY <4>1, PlacementAssumption DEF IsDisplay
      <4> QED
        BY <4>1, <4>2 DEF IsWindows, Window
    <3> QED
      BY <2>2, <3>1, SpendTyped DEF WindowChange, IsWindows
  <2>3. CASE WindowCloses
    <3>1. IsWindows(windows')
      BY <2>3 DEF WindowCloses, IsWindows
    <3> QED
      BY <2>3, <3>1, SpendTyped DEF WindowCloses, IsWindows
  <2>4. CASE WorkspacesChange
    <3>1. IsWindows(windows')
      <4>1. workspaces' \in Int
        BY <2>4, PlacementAssumption DEF WorkspacesChange
      <4>2. /\ DOMAIN windows' = DOMAIN windows
            /\ \A w \in DOMAIN windows : windows'[w] =
                 [windows[w] EXCEPT !.workspace = IF windows[w].workspace < workspaces'
                    THEN windows[w].workspace ELSE workspaces' - 1]
        BY <2>4 DEF WorkspacesChange
      <4>3. ASSUME NEW w \in Window, NEW n \in Int
            PROVE  [w EXCEPT !.workspace = n] \in Window
        BY DEF Window
      <4>4. \A w \in DOMAIN windows : windows[w] \in Window /\ windows[w].workspace \in Int
        BY DEF IsWindows, Window
      <4>5. ASSUME NEW w \in DOMAIN windows PROVE windows'[w] \in Window
        <5> DEFINE n == IF windows[w].workspace < workspaces'
                        THEN windows[w].workspace ELSE workspaces' - 1
        <5>1. n \in Int
          BY <4>1, <4>4
        <5>2. windows'[w] = [windows[w] EXCEPT !.workspace = n]
          BY <4>2
        <5> HIDE DEF n
        <5> QED
          BY <4>3, <4>4, <5>1, <5>2
      <4> QED
        BY <4>2, <4>5 DEF IsWindows
    <3>2. workspaces' \in 1..MaxWorkspaces
      BY <2>4 DEF WorkspacesChange
    <3> QED
      BY <2>4, <3>1, <3>2, SpendTyped DEF WorkspacesChange, IsWindows
  <2>5. CASE PublishNative
    <3>1. incoming' = Nothing \/ IsSnapshot(incoming')
      BY <2>5 DEF PublishNative, Snapshot, Topologies, IsSnapshot
    <3>2. ~published
      BY <2>5 DEF PublishNative
    <3> QED
      BY <2>5, <3>1, <3>2 DEF PublishNative, IsWindows
  <2>6. CASE Refuse
    BY <2>6 DEF Refuse, IsWindows
  <2>7. CASE ReplaceSurface
    BY <2>7 DEF ReplaceSurface, IsWindows, IsSnapshot
  <2>8. CASE Retain
    BY <2>8 DEF Retain, IsWindows
  <2>9. CASE EnsureBegin
    <3>1. op' \in Operations
      BY <2>9 DEF EnsureBegin, Phases, Results, Operations
    <3> QED
      BY <2>9, <3>1, SpendTyped DEF EnsureBegin, IsWindows
  <2>10. CASE Present
    BY <2>10 DEF Present, Phases, Operations, IsWindows
  <2>11. CASE EnsurePlacement
    <3>1. CASE UNCHANGED requests /\ (End("unresolved") \/ End("unobserved"))
      BY <2>11, <3>1, EndTyped DEF EnsurePlacement, Results, IsWindows
    <3>2. CASE UNCHANGED requests /\ op' = [op EXCEPT !.phase = "final"]
      BY <2>11, <3>2 DEF EnsurePlacement, Phases, Operations, IsWindows
    <3>3. CASE /\ Target # NoTarget /\ DOMAIN retained.windows # {}
               /\ op' = [op EXCEPT !.phase = "asked", !.expected = retained.topology]
               /\ requests' = Append(requests, [op |-> op.number, target |-> Target,
                                                window |-> Anchor(DOMAIN retained.windows)])
      <4>1. /\ Target \in Targets /\ retained.topology \in Topologies
            /\ DOMAIN retained.windows \subseteq WindowIds
        BY <3>3, TargetTyped DEF IsSnapshot, IsWindows
      <4>2. Anchor(DOMAIN retained.windows) \in WindowIds
        BY <3>3, <4>1, AnchorExists, PlacementAssumption
      <4>3. op' \in Operations
        BY <3>3, <4>1 DEF Phases, Operations
      <4>4. [op |-> op.number, target |-> Target, window |-> Anchor(DOMAIN retained.windows)]
               \in Requests
        BY <4>1, <4>2 DEF Requests, Operations
      <4>5. requests' \in Seq(Requests)
        BY <3>3, <4>4
      <4> QED
        BY <2>11, <4>3, <4>5 DEF EnsurePlacement, IsWindows
    <3> QED
      BY <2>11, <3>1, <3>2, <3>3 DEF EnsurePlacement
  <2>12. CASE WaitPlaced
    <3>1. op' \in Operations
      BY <2>12, EndTyped DEF WaitPlaced, Phases, Results, Operations
    <3> QED
      BY <2>12, <3>1 DEF WaitPlaced, IsWindows
  <2>13. CASE WaitReady
    BY <2>13, EndTyped DEF WaitReady, Results, IsWindows
  <2>14. CASE Deadline
    BY <2>14, EndTyped, SpendTyped DEF Deadline, Results, IsWindows
  <2>15. CASE PlaceWindow
    <3>1. Request \in Requests /\ requests' \in Seq(Requests)
      BY <2>15, TailTyped DEF PlaceWindow
    <3>2. op' \in Operations
      BY <2>15, AnswerTyped DEF PlaceWindow
    <3>3. PICK slop \in Slops : Moved(slop)
      BY <2>15 DEF PlaceWindow
    <3>4. /\ Request.target.monitor \in Int /\ Request.target.workspace \in Int
          /\ Request.target.rect \in Rects
      <4>1. PICK i \in Intents, t \in Topologies :
              Request.target = ResolvePlacement(i, t) /\ Request.target # NoTarget
        BY <3>1 DEF Requests, Targets
      <4> QED
        BY <4>1, TargetShape, TopologyTyped
    <3>5. IsWindows(windows')
      <4> DEFINE frame == [Request.target.rect EXCEPT !.x = @ + slop, !.width = @ - slop]
                 old == windows[Request.window]
                 new == [old EXCEPT !.monitor = Request.target.monitor,
                                    !.workspace = Request.target.workspace, !.frame = frame]
      <4>1. frame \in Rects
        BY <3>4, FrameTyped, PlacementAssumption
      <4>2. windows' = [windows EXCEPT ![Request.window] = new]
        BY <3>3 DEF Moved
      <4>3. Request.window \in DOMAIN windows /\ old \in Window
        BY <2>15 DEF PlaceWindow, Accepts, IsWindows
      <4> HIDE DEF frame, old
      <4>4. new \in Window
        BY <3>4, <4>1, <4>3 DEF Window
      <4> HIDE DEF new
      <4> QED
        BY <4>2, <4>4 DEF IsWindows
    <3> QED
      BY <2>15, <3>1, <3>2, <3>5 DEF PlaceWindow, IsWindows
  <2>16. CASE RefuseWindow
    BY <2>16, TailTyped, AnswerTyped DEF RefuseWindow, IsWindows
  <2>17. CASE UNCHANGED vars
    BY <2>17 DEF vars, IsWindows
  <2> QED
    BY <2>1, <2>2, <2>3, <2>4, <2>5, <2>6, <2>7, <2>8, <2>9, <2>10, <2>11, <2>12, <2>13,
       <2>14, <2>15, <2>16, <2>17 DEF Next, Progress
<1> QED
  BY <1>1, <1>2, PTL DEF Spec

-----------------------------------------------------------------------------
\* Every request on its way was resolved from the intent, for the topology it names.
RequestsResolved ==
    \A k \in 1..Len(requests) :
        requests[k].target = ResolvePlacement(intent, requests[k].target.topology)

PlacedInv == PlacedForItsDisplay /\ RequestsResolved

\* I-36: a change of the topology invalidates the placements resolved before it, for
\* any displays and any number of operations and requests.  _placeWindow compares
\* topologies, and a request says which one it was resolved for.
THEOREM PlacedCorrect == Spec => []PlacedForItsDisplay
<1>1. Init => PlacedInv
  BY DEF Init, PlacedInv, PlacedForItsDisplay, RequestsResolved
<1>2. ASSUME TypeOK, PlacedInv, [Next]_vars PROVE PlacedInv'
  <2> USE <1>2
  <2>1. CASE UNCHANGED <<intent, requests, placed>>
    BY <2>1 DEF PlacedInv, PlacedForItsDisplay, RequestsResolved
  <2>2. CASE EnsurePlacement /\ ~UNCHANGED requests
    <3> DEFINE request == [op |-> op.number, target |-> Target,
                           window |-> Anchor(DOMAIN retained.windows)]
    <3>1. /\ Target # NoTarget /\ requests' = Append(requests, request)
          /\ UNCHANGED <<intent, placed>>
      BY <2>2 DEF EnsurePlacement
    <3>2. request.target = ResolvePlacement(intent, request.target.topology)
      BY <3>1, TargetTyped
    <3>3. requests \in Seq(Requests)
      BY DEF TypeOK
    <3> HIDE DEF request
    <3>4. \A k \in 1..Len(requests') : k \in 1..Len(requests) \/ requests'[k] = request
      BY <3>1, <3>3
    <3>5. \A k \in 1..Len(requests) : requests'[k] = requests[k]
      BY <3>1, <3>3
    <3>6. RequestsResolved'
      BY <3>1, <3>2, <3>4, <3>5 DEF PlacedInv, RequestsResolved
    <3> QED
      BY <3>1, <3>6 DEF PlacedInv, PlacedForItsDisplay
  <2>3. ASSUME requests # <<>>, requests' = Tail(requests), UNCHANGED intent
        PROVE  RequestsResolved'
    <3>1. requests \in Seq(Requests)
      BY DEF TypeOK
    <3>2. \A k \in 1..Len(requests') :
            k + 1 \in 1..Len(requests) /\ requests'[k] = requests[k + 1]
      BY <2>3, <3>1
    <3> QED
      BY <2>3, <3>2 DEF PlacedInv, RequestsResolved
  <2>4. CASE PlaceWindow
    <3>1. /\ requests # <<>> /\ requests' = Tail(requests) /\ UNCHANGED intent
          /\ placed' = [target |-> Request.target, display |-> display]
          /\ CaptureTopology(display) = Request.target.topology
      BY <2>4 DEF PlaceWindow, Accepts
    <3>2. Request.target = ResolvePlacement(intent, Request.target.topology)
      <4>1. requests \in Seq(Requests)
        BY DEF TypeOK
      <4>2. 1 \in 1..Len(requests) /\ Request = requests[1]
        BY <3>1, <4>1 DEF Request
      <4> QED
        BY <4>2 DEF PlacedInv, RequestsResolved
    <3> QED
      BY <2>3, <3>1, <3>2 DEF PlacedInv, PlacedForItsDisplay
  <2>5. CASE RefuseWindow
    BY <2>3, <2>5 DEF RefuseWindow, PlacedInv, PlacedForItsDisplay
  <2> QED
    <3>1. CASE EnsurePlacement
      BY <2>1, <2>2, <3>1 DEF EnsurePlacement
    <3>2. CASE PublishNative \/ Refuse \/ ReplaceSurface \/ Retain
      BY <2>1, <3>2 DEF PublishNative, Refuse, ReplaceSurface, Retain
    <3>3. CASE Present \/ WaitPlaced \/ WaitReady \/ EnsureBegin \/ Deadline
      BY <2>1, <3>3 DEF Present, WaitPlaced, WaitReady, EnsureBegin, Deadline
    <3>4. CASE DisplayChange \/ WindowChange \/ WindowCloses \/ WorkspacesChange
      BY <2>1, <3>4 DEF DisplayChange, WindowChange, WindowCloses, WorkspacesChange
    <3>5. CASE UNCHANGED vars
      BY <2>1, <3>5 DEF vars
    <3> QED
      BY <2>4, <2>5, <3>1, <3>2, <3>3, <3>4, <3>5 DEF Next, Progress
<1>3. PlacedInv => PlacedForItsDisplay
  BY DEF PlacedInv
<1> QED
  BY <1>1, <1>2, <1>3, TypeCorrect, PTL DEF Spec

\* A target lies in the work area of its monitor, and a window that is taken to have
\* reached it does too, up to the tolerance: placement.go's rounding, for any monitor
\* and any intent.
THEOREM InsideCorrect == Spec => []PlacementIsInside
<1>1. ASSUME TypeOK PROVE PlacementIsInside
  <2> SUFFICES ASSUME Target # NoTarget
               PROVE  LET area == retained.topology.monitors[Target.monitor].workArea
                      IN /\ Inside(Target.rect, area, 0)
                         /\ Reached =>
                              Inside(retained.windows[Anchor(DOMAIN retained.windows)].frame,
                                     area, 2 * Tolerance)
    BY DEF PlacementIsInside
  <2> DEFINE t == retained.topology
             area == t.monitors[Target.monitor].workArea
             window == retained.windows[Anchor(DOMAIN retained.windows)]
  <2>1. IsSnapshot(retained) /\ Target = ResolvePlacement(intent, t) /\ intent \in Intents
    BY <1>1, TargetTyped DEF TypeOK
  <2>2. t \in Topologies /\ IsWindows(retained.windows)
    BY <2>1 DEF IsSnapshot
  <2>3. /\ Target.monitor \in DOMAIN t.monitors /\ Target.rect \in Rects
        /\ Inside(Target.rect, area, 0)
    BY <2>1, <2>2, TargetShape
  <2>4. area \in Rects
    BY <2>2, <2>3, TopologyTyped
  <2>5. ASSUME Reached PROVE Inside(window.frame, area, 2 * Tolerance)
    <3>1. DOMAIN retained.windows # {} /\ DOMAIN retained.windows \subseteq Nat
      BY <2>2, <2>5, PlacementAssumption DEF Reached, IsWindows
    <3>2. window \in Window
      BY <2>2, <3>1, AnchorExists DEF IsWindows
    <3>3. window.frame \in Rects
      BY <3>2 DEF Window
    <3>4. \A f \in {"x", "y", "width", "height"} : Near(window.frame[f], Target.rect[f])
      BY <2>5 DEF Reached, PlacementReached
    <3> HIDE DEF window, area
    <3> QED
      BY <2>3, <2>4, <3>3, <3>4, NearInside
  <2> QED
    BY <2>3, <2>5
<1> QED
  BY <1>1, TypeCorrect, PTL

-----------------------------------------------------------------------------
\* The two copies of what the shell submitted agree, but between the two stores; an
\* operation has no result before its end.
StoresInv ==
    /\ published => surface = DOMAIN incoming.windows
    /\ ~published => surface = IF retained = Nothing THEN {} ELSE DOMAIN retained.windows
    /\ op.phase # "idle" => op.result = "none"

\* The steps that store snapshots leave the operation alone, and the others the
\* stores.
LEMMA StoresStep == TypeOK /\ StoresInv /\ [Next]_vars => StoresInv'
<1> SUFFICES ASSUME TypeOK, StoresInv, [Next]_vars PROVE StoresInv'
  OBVIOUS
<1> USE DEF shell, delivery
<1>0. op \in Operations
  BY DEF TypeOK
<1>1. CASE UNCHANGED <<incoming, published, surface, retained, op>>
  BY <1>1 DEF StoresInv
<1>2. CASE PublishNative
  <2>1. ~published
    BY <1>2 DEF PublishNative, TypeOK
  <2>2. QED
    BY <1>2, <2>1 DEF PublishNative, StoresInv
<1>3. CASE Refuse
  BY <1>3 DEF Refuse, StoresInv
<1>4. CASE ReplaceSurface
  BY <1>4 DEF ReplaceSurface, StoresInv
<1>5. CASE Retain
  BY <1>5 DEF Retain, StoresInv, TypeOK
<1>6. ASSUME UNCHANGED <<incoming, published, surface, retained>>,
             op'.phase # "idle" => op'.result = "none"
      PROVE  StoresInv'
  BY <1>6 DEF StoresInv
<1>7. \A p \in Phases, e \in Topologies \cup {NoTarget} :
        /\ [op EXCEPT !.phase = p].result = op.result
        /\ [op EXCEPT !.phase = p, !.expected = e].result = op.result
  BY <1>0 DEF Operations
<1>8. \A r \in Results : End(r) => op'.phase = "idle"
  BY <1>0 DEF End, Operations
<1>9. CASE EnsureBegin
  BY <1>6, <1>9 DEF EnsureBegin
<1>10. CASE Present
  BY <1>0, <1>6, <1>10 DEF Present, Operations, StoresInv
<1>11. CASE EnsurePlacement
  <2>1. op'.phase # "idle" => op'.result = op.result
    BY <1>0, <1>8, <1>11 DEF EnsurePlacement, Operations, Results
  <2>2. QED
    BY <1>6, <1>11, <2>1 DEF EnsurePlacement, StoresInv
<1>12. CASE WaitPlaced \/ WaitReady \/ Deadline
  <2>1. op'.phase # "idle" => op'.result = op.result /\ op.phase # "idle"
    BY <1>0, <1>8, <1>12 DEF WaitPlaced, WaitReady, Deadline, Operations, Results
  <2>2. QED
    BY <1>6, <1>12, <2>1 DEF WaitPlaced, WaitReady, Deadline, StoresInv
<1>13. CASE PlaceWindow \/ RefuseWindow
  <2>1. op'.phase # "idle" => op'.result = op.result /\ op.phase # "idle"
    BY <1>0, <1>8, <1>13 DEF PlaceWindow, RefuseWindow, Answer, Operations, Results
  <2>2. QED
    BY <1>6, <1>13, <2>1 DEF PlaceWindow, RefuseWindow, StoresInv
<1>14. QED
  <2>1. CASE DisplayChange \/ WindowChange \/ WindowCloses \/ WorkspacesChange
    BY <1>1, <2>1 DEF DisplayChange, WindowChange, WindowCloses, WorkspacesChange
  <2>2. CASE UNCHANGED vars
    BY <1>1, <2>2 DEF vars
  <2>3. QED
    BY <1>2, <1>3, <1>4, <1>5, <1>9, <1>10, <1>11, <1>12, <1>13, <2>1, <2>2 DEF Next, Progress

\* waitPresent looks in the surface, ensurePlacement in the retained snapshot.  An
\* operation that found the application in the first and not in the second met the
\* moment between ReplaceShellSnapshotJSON's two stores, or its windows are gone.
THEOREM UnobservedCorrect == Spec => UnobservedOnlyInTransit
<1>1. Init => StoresInv
  BY DEF Init, StoresInv
<1>2. TypeOK /\ StoresInv /\ [Next]_vars =>
        [op'.result = "unobserved" /\ op.phase = "resolve" => published \/ surface = {}]_vars
  <2> SUFFICES ASSUME TypeOK, StoresInv, Next, op'.result = "unobserved", op.phase = "resolve"
               PROVE  published \/ surface = {}
    OBVIOUS
  <2> USE DEF shell, delivery
  <2>1. op \in Operations /\ op.result = "none"
    BY DEF TypeOK, StoresInv
  <2>2. CASE EnsurePlacement
    <3>1. CASE Target # NoTarget /\ DOMAIN retained.windows = {}
      BY <3>1 DEF Target, StoresInv
    <3>2. CASE ~(Target # NoTarget /\ DOMAIN retained.windows = {})
      BY <2>1, <2>2, <3>2 DEF EnsurePlacement, End, Operations
    <3>3. QED
      BY <3>1, <3>2
  <2>3. ASSUME UNCHANGED op PROVE FALSE
    BY <2>1, <2>3
  <2>4. CASE PublishNative \/ Refuse \/ ReplaceSurface \/ Retain
    BY <2>3, <2>4 DEF PublishNative, Refuse, ReplaceSurface, Retain
  <2>5. CASE Present \/ WaitPlaced \/ WaitReady \/ EnsureBegin \/ Deadline
    BY <2>5 DEF Present, WaitPlaced, WaitReady, EnsureBegin, Deadline
  <2>6. CASE PlaceWindow \/ RefuseWindow
    BY <2>3, <2>6 DEF PlaceWindow, RefuseWindow, Answer
  <2>7. CASE DisplayChange \/ WindowChange \/ WindowCloses \/ WorkspacesChange
    BY <2>3, <2>7 DEF DisplayChange, WindowChange, WindowCloses, WorkspacesChange
  <2>8. QED
    BY <2>2, <2>4, <2>5, <2>6, <2>7 DEF Next, Progress
<1>3. QED
  BY <1>1, <1>2, StoresStep, TypeCorrect, PTL DEF Spec, UnobservedOnlyInTransit
=============================================================================
