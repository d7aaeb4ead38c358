---------------------------- MODULE MC_HouseholderQ ----------------------------
(***************************************************************************)
(* One spline with n = 1: B_constr has 2 rows and 4 columns.  Reflector    *)
(* tails of -1, 0 and 1 give reflectors that do not commute, and zero      *)
(* tails give tau = 0.                                                     *)
(***************************************************************************)
EXTENDS HouseholderQ

MC_Tails == {-1, 0, 1}
MC_XValues == {0, 1}
====
