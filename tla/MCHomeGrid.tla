----------------------------- MODULE MCHomeGrid -----------------------------
(* An instance of HomeGrid for TLC.                                        *)
EXTENDS HomeGrid, TLC

CONSTANTS r, x, y, w1, w2

\* Two of the nodes have a workspace.
TwoWorkspaces == r :> NoWorkspace @@ x :> w1 @@ y :> w2

\* One leaf; it moves below a new node; and a cycle beside the root.
OneLeaf == r :> NoNode @@ x :> r
SomeFiles == {OneLeaf, r :> NoNode @@ x :> y @@ y :> r, r :> NoNode @@ x :> y @@ y :> x}

B(mutations, others, opens, edits, deaths, failures, reads) ==
    [mutations |-> mutations, others |-> others, opens |-> opens, edits |-> edits,
     deaths |-> deaths, failures |-> failures, reads |-> reads]

\* Overlapping reads while hwsctl or an edit changes what is read; both with a
\* failure; each around a death of the daemon; two operations around a death; an
\* operation with an edit and a failure.
SomeBudgets == {B(0, 1, 1, 0, 0, 0, 2), B(0, 0, 1, 1, 0, 0, 2), B(0, 1, 0, 1, 0, 1, 1),
                B(0, 1, 0, 0, 1, 0, 1), B(0, 0, 0, 1, 1, 0, 1), B(2, 0, 0, 0, 1, 0, 1),
                B(1, 0, 0, 1, 0, 1, 1)}
=============================================================================
