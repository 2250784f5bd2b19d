------------------------- MODULE PlacementGeometry -------------------------
(***************************************************************************)
(* Where a window belongs: the monitors that the extension reports         *)
(* (topologyAdapter.js), and resolvePlacement and placementReached of      *)
(* internal/adapters/shelldesktop/placement.go.                            *)
(*                                                                         *)
(* Normalized coordinates are multiples of 1/Unit of the work area, and    *)
(* their products with its size are exact: where a float64 product falls   *)
(* short of a half, the code rounds the other way.  A topology's revision  *)
(* is a hash of everything in it; here it is the topology itself, without  *)
(* collisions.  The extension names monitors after their index.            *)
(***************************************************************************)
EXTENDS Integers

CONSTANTS
    Unit,        \* the normalized length of a work area
    Tolerance,   \* placementTolerance
    NoTarget     \* resolvePlacement failed

ASSUME GeometryAssumption == Unit \in Nat \ {0} /\ Tolerance \in Nat

Rects == [x : Int, y : Int, width : Int, height : Int]
ValidRect(r) == r.width > 0 /\ r.height > 0

\* NormalizedRect.Valid
Normalized ==
    {r \in [x : 0..Unit, y : 0..Unit, width : 1..Unit, height : 1..Unit] :
        r.x + r.width <= Unit /\ r.y + r.height <= Unit}

Monitors == [geometry : Rects, workArea : Rects, scale : Int]

\* The monitors of a display by their index; there may be none.
IsDisplay(d) ==
    /\ d = [primary |-> d.primary, monitors |-> d.monitors] /\ d.primary \in Int
    /\ DOMAIN d.monitors \subseteq Nat
    /\ d.monitors \in [DOMAIN d.monitors -> Monitors]

\* captureTopology: a monitor whose work area is not known has its geometry.
CaptureTopology(d) ==
    [d EXCEPT !.monitors = [i \in DOMAIN d.monitors |->
        IF ValidRect(d.monitors[i].workArea) THEN d.monitors[i]
        ELSE [d.monitors[i] EXCEPT !.workArea = d.monitors[i].geometry]]]

\* Topology.Validate
ValidTopology(t) ==
    /\ DOMAIN t.monitors # {} /\ t.primary \in DOMAIN t.monitors
    /\ \A i \in DOMAIN t.monitors :
         t.monitors[i].scale > 0 /\ ValidRect(t.monitors[i].geometry)
                                 /\ ValidRect(t.monitors[i].workArea)

\* A role is the index of a monitor ("monitor:1") or one of these.
Primary == -1
Secondary == -2

\* The monitors a role may stand for; resolveMonitor takes the first.
Candidates(role, t) ==
    {i \in DOMAIN t.monitors :
        CASE role = Primary -> i = t.primary
          [] role = Secondary -> i # t.primary
          [] OTHER -> i = role}

ResolveMonitor(role, t) ==
    CHOOSE i \in Candidates(role, t) : \A j \in Candidates(role, t) : i <= j

\* math.Round(n / Unit) for n >= 0.
Round(n) == (2 * n + Unit) \div (2 * Unit)

AtLeastOne(n) == IF n < 1 THEN 1 ELSE n

\* Mutant: the rectangle is not cut off at the end of the area.
FitLong(at, size, end) == size

\* The size of a side that begins at position at, cut off at the area's end.
Fit(at, size, end) == IF at + size > end THEN end - at ELSE size

\* One axis of resolvePlacement: where a side begins, and how long it is.
Begin(start, length, n) == start + Round(n * length)
Extent(start, length, n, k) ==
    Fit(Begin(start, length, n), AtLeastOne(Round(k * length)), start + length)

ResolveRect(area, r) ==
    [x |-> Begin(area.x, area.width, r.x), y |-> Begin(area.y, area.height, r.y),
     width |-> Extent(area.x, area.width, r.x, r.width),
     height |-> Extent(area.y, area.height, r.y, r.height)]

\* resolvePlacement
ResolvePlacement(intent, t) ==
    IF ~ValidTopology(t) \/ Candidates(intent.role, t) = {} THEN NoTarget
    ELSE LET i == ResolveMonitor(intent.role, t)
             rect == ResolveRect(t.monitors[i].workArea, intent.rect)
         IN IF ValidRect(rect)
            THEN [topology |-> t, monitor |-> i, workspace |-> intent.workspace, rect |-> rect]
            ELSE NoTarget

\* Mutant: < for <=.
NearStrict(m, n) == m - n \in (1 - Tolerance)..(Tolerance - 1)

Near(m, n) == m - n \in (-Tolerance)..Tolerance

\* placementReached
PlacementReached(target, window, t) ==
    /\ t = target.topology
    /\ window.monitor = target.monitor /\ window.workspace = target.workspace
    /\ \A f \in {"x", "y", "width", "height"} : Near(window.frame[f], target.rect[f])

\* Frame f lies in area, up to a margin.
Inside(f, area, margin) ==
    /\ f.x >= area.x - margin /\ f.x + f.width <= area.x + area.width + margin
    /\ f.y >= area.y - margin /\ f.y + f.height <= area.y + area.height + margin
=============================================================================
