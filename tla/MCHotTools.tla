----------------------------- MODULE MCHotTools -----------------------------
(***************************************************************************)
(* Instances of HotTools for TLC.                                          *)
(***************************************************************************)
EXTENDS HotTools

TwoTools == 1..2
=============================================================================
