----------------------------- MODULE MCPanelHub -----------------------------
(* Instances of PanelHub for TLC.                                          *)
EXTENDS PanelHub, TLC
=============================================================================
