--------------------------- MODULE ERDiabatization ---------------------------
(***************************************************************************)
(* The ERDiabatizationFrame tool (src/src/libxtp/tools/qmsandbox.h, lines  *)
(* 54-169): ParseOptions reads two 1-based state indices and a QM state    *)
(* type, Run reads the orbitals, computes the rotation angle and looks up  *)
(* the adiabatic energies of the two states in the BSE singlet or triplet  *)
(* eigenvalues.  An eigenvalue read is recorded as <<vector, index>>.      *)
(***************************************************************************)
EXTENDS Integers

CONSTANTS
  IdxOptions,    \* values the user can give state_idx_1 and state_idx_2
  TypeOptions,   \* strings the user can give qmtype
  NumSinglets,   \* BSE singlet eigenvalues stored in the orbitals file
  NumTriplets    \* BSE triplet eigenvalues stored in the orbitals file

VARIABLES
  phase,   \* "start", "parsed", "done", or "failed" (an exception)
  opts,    \* _options.state_idx_1, _options.state_idx_2 and _qmtype
  reads    \* eigenvalue reads Run made: <<"singlet" | "triplet", index>>

vars == <<phase, opts, reads>>

\* QMStateType::FromString (votca tools): the names it accepts; any other
\* string throws.
QMStateNames == {"Singlet", "Triplet", "Electron", "Hole", "Gstate", "KSstate",
                 "PQPstate", "DQPstate", "LMOstate"}

\* The eigenvalue vector Run takes for a state type: singlets for Singlet,
\* triplets for every other type.
EnergyVector(t) == IF t = "Singlet" THEN "singlet" ELSE "triplet"
VectorSize(v) == IF v = "singlet" THEN NumSinglets ELSE NumTriplets

Init ==
  /\ phase = "start"
  /\ opts = [state_idx_1 |-> 0, state_idx_2 |-> 0, qmtype |-> "Singlet"]
  /\ reads = {}

\* ParseOptions: read both indices and the type (FromString throws on an
\* unknown name), then throw if either index is below 1.  No upper bound.
ParseOptions ==
  /\ phase = "start"
  /\ \E i1, i2 \in IdxOptions, t \in TypeOptions :
       /\ opts' = [state_idx_1 |-> i1, state_idx_2 |-> i2, qmtype |-> t]
       /\ phase' = IF t \notin QMStateNames \/ i1 < 1 \/ i2 < 1 THEN "failed" ELSE "parsed"
  /\ UNCHANGED reads

\* Run: ReadFromCpt, configure, setUpMatrices and Calculate_angle may
\* throw; otherwise the energies eigenvalues()[idx - 1] of the two states
\* are read from the singlet vector for Singlet, the triplet one otherwise.
Run ==
  /\ phase = "parsed"
  /\ \/ /\ phase' = "failed"
        /\ UNCHANGED reads
     \/ /\ phase' = "done"
        /\ reads' = { <<EnergyVector(opts.qmtype), opts.state_idx_1 - 1>>,
                      <<EnergyVector(opts.qmtype), opts.state_idx_2 - 1>> }
  /\ UNCHANGED opts

\* The tool has returned or thrown.
Terminated == phase \in {"done", "failed"} /\ UNCHANGED vars

Next == ParseOptions \/ Run \/ Terminated

Spec == Init /\ [][Next]_vars

(***************************************************************************)
(* Properties.                                                             *)
(***************************************************************************)
\* Every eigenvalue Run reads exists: the index is below the number of
\* BSE states of that spin stored in the orbitals file.
EigenIndexInRange == \A r \in reads : r[2] \in 0 .. VectorSize(r[1]) - 1
====
