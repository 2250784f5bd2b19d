-------------------------- MODULE MCShellSnapshots --------------------------
(* Instances of ShellSnapshots for TLC.                                    *)
EXTENDS ShellSnapshots, TLC
=============================================================================
