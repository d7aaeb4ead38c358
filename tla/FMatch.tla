------------------------------- MODULE FMatch -------------------------------
(***************************************************************************)
(* The block force-matching engine CGForceMatching (csg_fmatch.cc).        *)
(* BeginCG registers one SplineInfo per interaction and sizes the fit      *)
(* matrix; EvalConfiguration adds one frame's rows and, after every        *)
(* N_frames frames, solves the block (FmatchAccumulateData) and resets the *)
(* matrices; EndCG averages the blocks and names one .force file each.     *)
(*                                                                         *)
(* Data abstraction: a matrix is the set of its written entries, each      *)
(* tagged with the frame it came from (0 for a smoothing condition), the   *)
(* spline and the bead; values, gradients and signs are abstracted away.   *)
(* A least-squares solve is recorded by what it was computed from.         *)
(***************************************************************************)
EXTENDS Integers, Sequences, FiniteSets, Functions, SequencesExt

CONSTANTS
  N,              \* top->BeadCount(): beads of the coarse-grained topology
  BondedOpts,     \* the cg.bonded options, in order: [n, nameLen, inters]
  NonbondedOpts,  \* the cg.non-bonded options: [n, nameLen, type1, type2]
  BeadType,       \* bead id -> bead type (BeadList::Generate filters on it)
  N_frames,       \* cg.fmatch.frames_per_block
  LSModes,        \* values cg.fmatch.constrainedLS may have
  MaxFrames       \* bound on the length of the trajectory

ASSUME N \in Nat \ {0}
ASSUME N_frames \in Nat \ {0}
ASSUME LSModes \subseteq BOOLEAN /\ LSModes # {}
ASSUME \A i \in DOMAIN BondedOpts : BondedOpts[i].n \in Nat \ {0}
ASSUME \A i \in DOMAIN NonbondedOpts : NonbondedOpts[i].n \in Nat \ {0}

VARIABLES
  ConstrLeastSQ,  \* the option ConstrLeastSQ, read once by LoadOptions
  phase,          \* "options" before BeginCG, "running", "done" after EndCG
  Splines,        \* the SplineContainer: sequence of SplineInfo records
  line_cntr,      \* number of smoothing conditions (rows of B_constr)
  col_cntr,       \* number of spline coefficients (columns of _A)
  LeastSQOffset,  \* first force row of _A
  L,              \* frame slot inside the current block
  BlockNum,       \* blocks solved so far
  A,              \* _A: its written entries
  b,              \* _b: its written rows, tagged by frame
  B_constr,       \* B_constr: its written entries
  AUninit,        \* _A still holds bytes never written since its resize
  bUninit,        \* rows of _b never written since its resize
  gslLeaked,      \* gsl vectors allocated by a solve and never freed
  solved,         \* what each block's solve was computed from (history)
  frames,         \* frames evaluated so far (history)
  forceFrames,    \* frames that carried forces (history)
  output,         \* per spline: whether EndCG's mean is finite
  nameOverflow    \* splines whose file name overran file_name[20]

vars == <<ConstrLeastSQ, phase, Splines, line_cntr, col_cntr, LeastSQOffset, L, BlockNum,
          A, b, B_constr, AUninit, bUninit, gslLeaked, solved, frames,
          forceFrames, output, nameOverflow>>

(***************************************************************************)
(* Channel registration (BeginCG, SplineInfo).                             *)
(***************************************************************************)
\* SplineInfo::SplineInfo: n comes from Spline.GenerateGrid(min,max,step)-1,
\* carried in the option record.
SplineInfo(index, bonded_, matr_pos_, options) ==
  [splineIndex |-> index, bonded |-> bonded_, n |-> options.n,
   matr_pos |-> matr_pos_, opt |-> options]

LineCount(sp) == SumFunction([i \in DOMAIN sp |-> sp[i].n + 1])
ColCount(sp)  == SumFunction([i \in DOMAIN sp |-> 2 * (sp[i].n + 1)])

\* One registration step of the loops of BeginCG: the new spline starts at
\* the current col_cntr.
AddSpline(bonded_, sp, options) ==
  Append(sp, SplineInfo(Len(sp), bonded_, ColCount(sp), options))

\* Bonded interactions first, then non-bonded, each in option order.
RegisteredSplines ==
  FoldLeft(LAMBDA sp, o : AddSpline(FALSE, sp, o),
           FoldLeft(LAMBDA sp, o : AddSpline(TRUE, sp, o), <<>>, BondedOpts),
           NonbondedOpts)

SplineOf(idx) == Splines[idx + 1]
SplineColumns(s) == s.matr_pos .. s.matr_pos + 2 * (s.n + 1) - 1

(***************************************************************************)
(* The CubicSpline collaborator (votca tools, not in this repository).     *)
(***************************************************************************)
\* The scalar variable of a sample, by position on the grid: -1 left of
\* the grid, k inside interval k, s.n right of the last inner grid point.
Var(s) == -1 .. s.n

\* Mutants of getInterval: a clamp dropped on either side.
getInterval_noLowerClamp(s, pos) == IF pos > s.n - 1 THEN s.n - 1 ELSE pos
getInterval_noUpperClamp(s, pos) == IF pos < 0 THEN 0 ELSE pos

\* CubicSpline::getInterval: values off the grid fall in the first or the
\* last interval.
getInterval(s, pos) == IF pos < 0 THEN 0 ELSE IF pos > s.n - 1 THEN s.n - 1 ELSE pos

\* CubicSpline::AddToFitMatrix adds to the two grid points of the interval
\* in the left half and in the right half of the spline's 2(n+1) columns.
SplineCols(s, spi) ==
  {s.matr_pos + spi, s.matr_pos + spi + 1,
   s.matr_pos + s.n + 1 + spi, s.matr_pos + s.n + 2 + spi}

\* CubicSpline::AddBCToFitMatrix: n+1 rows per spline, row k couples the
\* coefficients of grid points k-1..k+1 of both halves.
AddBCToFitMatrix(s, line, col) ==
  UNION { { [row |-> line + k, col |-> col + j, frame |-> 0,
              spline |-> s.splineIndex, bead |-> -1] :
              j \in { c \in 0 .. 2 * s.n + 1 : (c % (s.n + 1)) \in k - 1 .. k + 1 } } :
          k \in 0 .. s.n }

\* FmatchAssignSmoothCondsToMatrix (after Matrix.clear()): line_tmp and
\* col_tmp advance by n+1 and 2(n+1) per spline.
FmatchAssignSmoothCondsToMatrix(sp) ==
  UNION { AddBCToFitMatrix(sp[i], LineCount(SubSeq(sp, 1, i - 1)),
                           ColCount(SubSeq(sp, 1, i - 1))) : i \in DOMAIN sp }

(***************************************************************************)
(* Matrix layout and per-frame sampling (EvalConfiguration).               *)
(***************************************************************************)
ARows == IF ConstrLeastSQ THEN 3 * N * N_frames ELSE line_cntr + 3 * N * N_frames

\* Mutant of Row: the frame stride written 3 * L instead of 3 * N * L.
Row_noBeadStride(l, ax, bead) == LeastSQOffset + 3 * l + ax * N + bead

\* Row of bead `bead`, Cartesian axis `ax` of frame slot `l`.
Row(l, ax, bead) == LeastSQOffset + 3 * N * l + ax * N + bead

\* The three SP.AddToFitMatrix calls for one bead of a sample.
FitEntries(s, bead, pos, f) ==
  { [row |-> Row(L, ax, bead), col |-> c, frame |-> f,
     spline |-> s.splineIndex, bead |-> bead] :
      ax \in 0 .. 2, c \in SplineCols(s, getInterval(s, pos)) }

\* EvalBonded: every interaction of the group, every bead of it.
BondedSamples(s) ==
  { { [beads |-> I, var |-> v[I]] : I \in s.opt.inters } :
      v \in [s.opt.inters -> Var(s)] }
EvalBonded(s, samples, f) ==
  UNION { UNION { FitEntries(s, smp.beads[k], smp.var, f) : k \in DOMAIN smp.beads } :
          smp \in samples }

\* EvalNonbonded: the neighbour list of the two bead lists, cut off at
\* fmatch.max, so a pair distance never lies right of the grid.
BeadList(type) == { i \in 0 .. N - 1 : BeadType[i] = type }
PairCandidates(s) ==
  IF s.opt.type1 = s.opt.type2
  THEN { p \in BeadList(s.opt.type1) \X BeadList(s.opt.type1) : p[1] < p[2] }
  ELSE BeadList(s.opt.type1) \X BeadList(s.opt.type2)
NonbondedSamples(s) ==
  UNION { { { [first |-> p[1], second |-> p[2], var |-> v[p]] : p \in P } :
              v \in [P -> -1 .. s.n - 1] } : P \in SUBSET PairCandidates(s) }
EvalNonbonded(s, pairs, f) ==
  UNION { FitEntries(s, p.first, p.var, f) \cup FitEntries(s, p.second, p.var, f) :
          p \in pairs }

Samples(s) == IF s.bonded THEN BondedSamples(s) ELSE NonbondedSamples(s)

EvalSpline(s, smp, f) ==
  IF s.bonded THEN EvalBonded(s, smp, f) ELSE EvalNonbonded(s, smp, f)

\* The loop over the splines of EvalConfiguration: the entries one frame
\* writes, for every choice of samples of every spline.  Samples that write
\* the same entries (values are abstracted) give one set.
RECURSIVE FrameWrites(_, _)
FrameWrites(sp, f) ==
  IF sp = <<>> THEN {{}}
  ELSE { EvalSpline(Head(sp), smp, f) \cup rest :
           smp \in Samples(Head(sp)), rest \in FrameWrites(Tail(sp), f) }

\* The force loop: _b(row) = force component, for every bead of frame f.
ForceRows == { Row(L, ax, i) : ax \in 0 .. 2, i \in 0 .. N - 1 }
AssignForces(f) ==
  { e \in b : e.row \notin ForceRows } \cup
  { [row |-> Row(L, ax, i), frame |-> f, bead |-> i] : ax \in 0 .. 2, i \in 0 .. N - 1 }

(***************************************************************************)
(* The block solve (FmatchAccumulateData).                                 *)
(***************************************************************************)
\* gsl vectors allocated and freed by one solve, per mode.
GslAllocs == IF ConstrLeastSQ THEN {"tau", "x", "tau2", "residual"}
                              ELSE {"x", "tau", "residual"}
GslFrees  == {"x", "tau", "residual"}

\* Observations of a matrix pair _A, _b: every write inside the storage and
\* inside its own spline's columns; no row holding two equations.
WritesInBoundsIn(Am, bm) ==
  /\ \A e \in Am : /\ e.row \in 0 .. ARows - 1
                  /\ e.col \in SplineColumns(SplineOf(e.spline))
  /\ \A e \in bm : e.row \in 0 .. ARows - 1
RowsUnmixedIn(Am, bm) ==
  LET eqs == { [row |-> e.row, frame |-> e.frame, bead |-> e.bead] : e \in Am }
  IN /\ \A q1, q2 \in eqs : q1.row = q2.row => q1 = q2
     /\ \A e1 \in bm, q \in eqs : e1.row = q.row => e1.frame = q.frame /\ e1.bead = q.bead

\* What the solve reads: the frames of _A and _b, the smoothing conditions
\* (B_constr, or the first rows of _A), uninitialised memory among them,
\* and the shape of the matrices it was handed.
SolveInputs(A1, b1, bU1) ==
  [aFrames  |-> { e.frame : e \in A1 } \ {0},
   bFrames  |-> { e.frame : e \in b1 },
   inBounds |-> WritesInBoundsIn(A1, b1),
   unmixed  |-> RowsUnmixedIn(A1, b1),
   conds   |-> IF ConstrLeastSQ THEN B_constr ELSE { e \in A1 : e.frame = 0 },
   uninit  |-> AUninit \/ bU1 # {}]

(***************************************************************************)
(* Actions.                                                                *)
(***************************************************************************)
Init ==
  /\ ConstrLeastSQ \in LSModes
  /\ phase = "options"
  /\ Splines = <<>>
  /\ line_cntr = 0 /\ col_cntr = 0 /\ LeastSQOffset = 0
  /\ L = 0 /\ BlockNum = 0
  /\ A = {} /\ b = {} /\ B_constr = {}
  /\ AUninit = FALSE /\ bUninit = {}
  /\ gslLeaked = {} /\ solved = <<>>
  /\ frames = 0 /\ forceFrames = {}
  /\ output = <<>> /\ nameOverflow = {}

\* BeginCG: register the splines, size the matrices. In constrained mode
\* _A and _b are resized without preserve and never cleared: the memory
\* handed out may be fresh (zero) or reused (garbage).
BeginCG ==
  LET sp == RegisteredSplines IN
  /\ phase = "options"
  /\ phase' = "running"
  /\ Splines' = sp
  /\ line_cntr' = LineCount(sp)
  /\ col_cntr' = ColCount(sp)
  /\ L' = 0 /\ BlockNum' = 0
  /\ IF ConstrLeastSQ
       THEN /\ LeastSQOffset' = 0
            /\ B_constr' = FmatchAssignSmoothCondsToMatrix(sp)
            /\ A' = {}
            /\ b' = {}
            /\ \E reusedA, reusedB \in BOOLEAN :
                 /\ AUninit' = reusedA
                 /\ bUninit' = IF reusedB THEN 0 .. 3 * N * N_frames - 1 ELSE {}
       ELSE /\ LeastSQOffset' = LineCount(sp)
            /\ A' = FmatchAssignSmoothCondsToMatrix(sp)
            /\ b' = {}
            /\ UNCHANGED <<B_constr, AUninit, bUninit>>
  /\ UNCHANGED <<ConstrLeastSQ, gslLeaked, solved, frames, forceFrames, output, nameOverflow>>

\* FmatchAccumulateData: solve the block from _A, _b and the smoothing
\* conditions, leaking the gsl vectors it allocates and does not free.
FmatchAccumulateData(A1, b1, bU1) ==
  /\ solved' = Append(solved, SolveInputs(A1, b1, bU1))
  /\ gslLeaked' = gslLeaked \cup { <<BlockNum + 1, v>> : v \in GslAllocs \ GslFrees }

\* Mutant of BlockReset: the frame counter L is not set back to 0.
BlockReset_noLReset(A1, b1) ==
  /\ L' = L
  /\ b' = {} /\ bUninit' = {} /\ AUninit' = FALSE
  /\ IF ConstrLeastSQ
       THEN /\ A' = {}
            /\ B_constr' = FmatchAssignSmoothCondsToMatrix(Splines)
       ELSE /\ A' = FmatchAssignSmoothCondsToMatrix(Splines)
            /\ UNCHANGED B_constr

\* Mutant of BlockReset: the matrix holding the smoothing conditions is
\* cleared but FmatchAssignSmoothCondsToMatrix is not called again.
BlockReset_noReseed(A1, b1) ==
  /\ L' = 0
  /\ b' = {} /\ bUninit' = {} /\ AUninit' = FALSE
  /\ IF ConstrLeastSQ
       THEN /\ A' = {}
            /\ B_constr' = {}
       ELSE /\ A' = {}
            /\ UNCHANGED B_constr

\* After a block: L = 0, clear _A and _b, re-assign the smoothing
\* conditions (to B_constr, or to the first rows of _A).
BlockReset(A1, b1) ==
  /\ L' = 0
  /\ b' = {} /\ bUninit' = {} /\ AUninit' = FALSE
  /\ IF ConstrLeastSQ
       THEN /\ A' = {}
            /\ B_constr' = FmatchAssignSmoothCondsToMatrix(Splines)
       ELSE /\ A' = FmatchAssignSmoothCondsToMatrix(Splines)
            /\ UNCHANGED B_constr

\* EvalConfiguration: sample every spline, assign the forces if the frame
\* has them, and after every N_frames-th frame solve, accumulate and reset.
EvalConfiguration ==
  /\ phase = "running"
  /\ frames < MaxFrames
  /\ \E w \in FrameWrites(Splines, frames + 1), hasF \in BOOLEAN :
       LET f   == frames + 1
           A1  == A \cup w
           b1  == IF hasF THEN AssignForces(f) ELSE b
           bU1 == IF hasF THEN bUninit \ ForceRows ELSE bUninit
       IN /\ frames' = f
          /\ forceFrames' = IF hasF THEN forceFrames \cup {f} ELSE forceFrames
          /\ IF (L + 1) % N_frames = 0
               THEN /\ BlockNum' = BlockNum + 1
                    /\ FmatchAccumulateData(A1, b1, bU1)
                    /\ BlockReset(A1, b1)
               ELSE /\ L' = L + 1
                    /\ A' = A1 /\ b' = b1 /\ bUninit' = bU1
                    /\ UNCHANGED <<BlockNum, solved, gslLeaked, AUninit, B_constr>>
  /\ UNCHANGED <<ConstrLeastSQ, phase, Splines, line_cntr, col_cntr, LeastSQOffset, output, nameOverflow>>

\* EndCG: result = resSum / BlockNum for every output point, then the file
\* name is built with strcpy/strcat into char file_name[20].
FileNameBuf == 20
ForceSuffixLen == 6   \* ".force"
EndCG ==
  /\ phase = "running"
  /\ phase' = "done"
  /\ output' = [i \in DOMAIN Splines |-> IF BlockNum > 0 THEN "finite" ELSE "nan"]
  /\ nameOverflow' = { i \in DOMAIN Splines :
                         Splines[i].opt.nameLen + ForceSuffixLen + 1 > FileNameBuf }
  /\ UNCHANGED <<ConstrLeastSQ, Splines, line_cntr, col_cntr, LeastSQOffset, L, BlockNum, A, b,
                 B_constr, AUninit, bUninit, gslLeaked, solved, frames, forceFrames>>

\* After EndCG the program has exited.
Terminated == phase = "done" /\ UNCHANGED vars

Next == BeginCG \/ EvalConfiguration \/ EndCG \/ Terminated

Spec == Init /\ [][Next]_vars

(***************************************************************************)
(* Properties.                                                             *)
(***************************************************************************)
Entry == [row : Int, col : Int, frame : Nat, spline : Nat, bead : Int]

TypeOK ==
  /\ phase \in {"options", "running", "done"}
  /\ L \in 0 .. N_frames - 1
  /\ BlockNum \in Nat /\ frames \in 0 .. MaxFrames
  /\ A \subseteq Entry /\ B_constr \subseteq Entry
  /\ b \subseteq [row : Int, frame : Nat, bead : Nat]
  /\ AUninit \in BOOLEAN /\ bUninit \subseteq Nat
  /\ \A e \in A \cup B_constr : e.row \in Nat /\ e.col \in Nat
  /\ forceFrames \subseteq 1 .. frames
  /\ nameOverflow \subseteq DOMAIN Splines

\* Every += of AddToFitMatrix and every smoothing condition lands inside
\* the matrix and inside the 2(n+1) columns of its own spline, and every
\* force assignment inside _b, in _A as it is now and in every block a
\* solve read: no write strays into a neighbouring spline's coefficients
\* or past the end of the ublas storage.
FitWritesInBounds ==
  /\ WritesInBoundsIn(A, b)
  /\ \A k \in DOMAIN solved : solved[k].inBounds
  /\ \A e \in B_constr : /\ e.row \in 0 .. line_cntr - 1
                         /\ e.col \in SplineColumns(SplineOf(e.spline))

\* A row of _A is one equation: a smoothing condition, or one Cartesian
\* force component of one bead in one frame. No row of _A or _b, now or in
\* any block a solve read, mixes two frames, two beads, or a condition
\* with a force, and every force sits in its own bead's equation row.
RowsUnmixed == RowsUnmixedIn(A, b) /\ \A k \in DOMAIN solved : solved[k].unmixed

\* Frames of block k.
BlockFrames(k) == (k - 1) * N_frames + 1 .. k * N_frames

\* Every block's solve is computed from the samples of exactly its own
\* N_frames frames, the forces of exactly those of them that had forces
\* (zero for the others, never a stale force of an earlier block), and
\* the complete smoothing conditions.
BlocksIsolated ==
  \A k \in DOMAIN solved :
    /\ solved[k].aFrames \subseteq BlockFrames(k)
    /\ solved[k].bFrames = BlockFrames(k) \cap forceFrames
    /\ solved[k].conds = FmatchAssignSmoothCondsToMatrix(Splines)

\* No block's solve reads memory never written since the matrices were
\* allocated (the spec: BeginBlock resets rows to zero).
SolveInputsInitialized == \A k \in DOMAIN solved : ~solved[k].uninit

\* Every gsl vector a solve allocates is freed before the next frame.
NoLeakedGslVectors == gslLeaked = {}

\* The engine implements the block accumulator of the specification: seen
\* as the frames consumed, the frames every solve read, and the number of
\* blocks EndCG averages over, every step of CGForceMatching is a step of
\* BlockAccumulator (or leaves that view unchanged).
Accumulator == INSTANCE BlockAccumulator
  WITH consumed   <- frames,
       blocks     <- [k \in DOMAIN solved |-> solved[k].aFrames],
       state      <- IF phase = "done" THEN "finalized" ELSE "accumulating",
       blockCount <- IF phase = "done" THEN BlockNum ELSE 0
RefinesBlockAccumulator == Accumulator!Spec
====
