---------------------------- MODULE MC_BlockStats ----------------------------
(***************************************************************************)
(* Instantiation of BlockStats for TLC: 3-bit significands, block values   *)
(* 5/8, 3/4 and 7/8, up to seven blocks.                                   *)
(***************************************************************************)
EXTENDS BlockStats

MC_Values == { [m |-> 5, e |-> -3], [m |-> 6, e |-> -3], [m |-> 7, e |-> -3] }
====
