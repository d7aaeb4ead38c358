----------------------------- MODULE MC_PolarSeg -----------------------------
(***************************************************************************)
(* Instantiation of PolarSeg for TLC: three segment and three site        *)
(* addresses, sites at 5/8, shifts of 1 and 3/4, 3-bit significands.      *)
(***************************************************************************)
EXTENDS PolarSeg, TLC

CONSTANTS s1, s2, s3, a1, a2, a3

MC_Segs == {s1, s2, s3}
MC_Sites == {a1, a2, a3}
MC_Coords == { [m |-> 5, e |-> -3] }
MC_Shifts == { [m |-> 4, e |-> -2], [m |-> 6, e |-> -3] }
MC_Symmetry == Permutations(MC_Segs) \cup Permutations(MC_Sites)
====
