-------------------------- MODULE MC_ERDiabatization --------------------------
(***************************************************************************)
(* Instantiation of ERDiabatization for TLC: indices 0 to 4 against files *)
(* of three singlet and two triplet states; a valid non-excitation type   *)
(* and a misspelt one.                                                     *)
(***************************************************************************)
EXTENDS ERDiabatization

MC_IdxOptions == -1 .. 4
MC_TypeOptions == {"Singlet", "Triplet", "Hole", "singlet"}
====
