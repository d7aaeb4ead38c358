----------------------------- MODULE MC_IMCUpdate -----------------------------
(***************************************************************************)
(* Instantiation of IMCUpdate for TLC: the script called with --help,     *)
(* with a step number and with no argument; matlab writes any table of    *)
(* four lines r, dpot (save -ascii of the grid and the update): r is a    *)
(* grid point, dpot any of num, NaN, Inf.                                  *)
(***************************************************************************)
EXTENDS IMCUpdate

MC_Args == {"--help", "step", ""}
MC_Tables == [1 .. 4 -> {<<"num", v>> : v \in Fields}]
====
