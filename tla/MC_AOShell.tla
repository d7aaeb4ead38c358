------------------------------ MODULE MC_AOShell ------------------------------
(***************************************************************************)
(* Instantiation of AOShell for TLC: two decay constants, three shells    *)
(* (so the vector reallocates twice: capacity 1, 2, 4), two primitives    *)
(* per shell.                                                              *)
(***************************************************************************)
EXTENDS AOShell
====
