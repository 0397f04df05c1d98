-------------------------- MODULE MCToolCallStats --------------------------
(***************************************************************************)
(* Instances of ToolCallStats for TLC.                                     *)
(***************************************************************************)
EXTENDS ToolCallStats

ThreeKeys == 1..3
=============================================================================
