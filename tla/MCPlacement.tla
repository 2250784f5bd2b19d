---------------------------- MODULE MCPlacement ----------------------------
(* An instance of Placement for TLC.                                       *)
EXTENDS Placement, TLC

R(x, y, width, height) == [x |-> x, y |-> y, width |-> width, height |-> height]
M(geometry, workArea) == [geometry |-> geometry, workArea |-> workArea, scale |-> 1]

Left == M(R(0, 0, 20, 10), R(0, 1, 20, 9))
LeftNoPanel == M(R(0, 0, 20, 10), R(0, 0, 0, 0))
Right == M(R(20, 0, 11, 7), R(20, 0, 11, 7))

\* One monitor, with and without a known work area; two; none.
SomeDisplays ==
    {[primary |-> 0, monitors |-> 0 :> Left],
     [primary |-> 0, monitors |-> 0 :> LeftNoPanel],
     [primary |-> 0, monitors |-> 0 :> Left @@ 1 :> Right],
     [primary |-> -1, monitors |-> <<>>]}

\* The middle third of the primary monitor, and the right half of the other one,
\* which is of an odd width.
SomeIntents ==
    {[role |-> Primary, workspace |-> 0, rect |-> R(2, 0, 2, 6)],
     [role |-> Secondary, workspace |-> 1, rect |-> R(3, 2, 3, 4)]}

\* Somewhere, and close to where the first intent belongs.
SomeFrames == {R(0, 0, 5, 5), R(9, 3, 5, 9)}

B(ensures, displays, windows1, workspaces1, deadlines) ==
    [ensures |-> ensures, displays |-> displays, windows |-> windows1,
     workspaces |-> workspaces1, deadlines |-> deadlines]

SomeBudgets == {B(1, 0, 2, 1, 0), B(2, 1, 1, 0, 1)}
=============================================================================
