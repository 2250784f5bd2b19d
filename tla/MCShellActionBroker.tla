------------------------ MODULE MCShellActionBroker ------------------------
(* An instance of ShellActionBroker for TLC.                               *)
EXTENDS ShellActionBroker, TLC

CONSTANTS c1, c2, c3, i1, i2

\* Two callers supply the same id, the third has one of its own (randomID).
MixedIds == (c1 :> i1) @@ (c2 :> i1) @@ (c3 :> i2)
=============================================================================
