------------------------------ MODULE MC_FMatch ------------------------------
(***************************************************************************)
(* Instantiation of FMatch for TLC: three beads, a bond group of two bonds *)
(* on a spline of two intervals, a non-bonded channel of one interval.     *)
(***************************************************************************)
EXTENDS FMatch

\* One bonded channel "bond" (4 characters), bonds 0-1 and 1-2.
MC_BondedOpts == << [n |-> 2, nameLen |-> 4, inters |-> {<<0, 1>>, <<1, 2>>}] >>

\* One non-bonded channel "CG-SL" between beads of types "CG" and "SL".
MC_NonbondedOpts == << [n |-> 1, nameLen |-> 5, type1 |-> "CG", type2 |-> "SL"] >>

\* Beads 0 and 1 are of type "CG", bead 2 of type "SL".
MC_BeadType == [i \in 0 .. 2 |-> IF i < 2 THEN "CG" ELSE "SL"]
====
