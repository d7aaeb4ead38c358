------------------------------ MODULE BlockStats ------------------------------
(***************************************************************************)
(* The block statistics of CGForceMatching at one output grid point, in    *)
(* binary floating point: FmatchAccumulateData adds the block's spline     *)
(* value to resSum and its square to resSum2; EndCG takes                 *)
(*   result = resSum / BlockNum                                            *)
(*   error  = sqrt(resSum2 / BlockNum - result * result).                  *)
(* A double is modelled by BinaryFloat: Prec significand bits, rounding   *)
(* to nearest even after every operation.                                 *)
(***************************************************************************)
EXTENDS Integers, Sequences, BinaryFloat

CONSTANTS
  Values,     \* spline values a block can produce at the point: [m, e]
  MaxBlocks   \* bound on the number of blocks

ASSUME MaxBlocks \in Nat \ {0}

VARIABLES
  phase,      \* "running" or "done" (after EndCG)
  BlockNum,   \* blocks accumulated
  resSum,     \* sum of the block values
  resSum2,    \* sum of the squared block values
  blockVals,  \* the value of every block (history)
  result,     \* EndCG's mean
  error       \* EndCG's error: "zero", "positive" or "nan"

vars == <<phase, BlockNum, resSum, resSum2, blockVals, result, error>>

(***************************************************************************)
(* Actions.                                                                *)
(***************************************************************************)
Init ==
  /\ phase = "running"
  /\ BlockNum = 0
  /\ resSum = Zero /\ resSum2 = Zero
  /\ blockVals = <<>>
  /\ result = Zero /\ error = "zero"

\* Mutant of FmatchAccumulateData: the value itself added to resSum2.
FmatchAccumulateData_noSquare ==
  /\ phase = "running"
  /\ BlockNum < MaxBlocks
  /\ \E v \in Values :
       /\ BlockNum' = BlockNum + 1
       /\ resSum' = FAdd(resSum, v)
       /\ resSum2' = FAdd(resSum2, v)
       /\ blockVals' = Append(blockVals, v)
  /\ UNCHANGED <<phase, result, error>>

\* A block is solved: BlockNum++, then FmatchAccumulateData adds the value
\* of the block's spline at the point, and its square, to the sums.
FmatchAccumulateData ==
  /\ phase = "running"
  /\ BlockNum < MaxBlocks
  /\ \E v \in Values :
       /\ BlockNum' = BlockNum + 1
       /\ resSum' = FAdd(resSum, v)
       /\ resSum2' = FAdd(resSum2, FMul(v, v))
       /\ blockVals' = Append(blockVals, v)
  /\ UNCHANGED <<phase, result, error>>

\* EndCG at this point: mean and error of the blocks.
EndCG ==
  /\ phase = "running"
  /\ phase' = "done"
  /\ LET mean == FDivInt(resSum, BlockNum) IN
     /\ result' = mean
     /\ error' = FSqrtClass(FSub(FDivInt(resSum2, BlockNum), FMul(mean, mean)))
  /\ UNCHANGED <<BlockNum, resSum, resSum2, blockVals>>

Terminated == phase = "done" /\ UNCHANGED vars

Next == FmatchAccumulateData \/ EndCG \/ Terminated

Spec == Init /\ [][Next]_vars

(***************************************************************************)
(* Properties.                                                             *)
(***************************************************************************)
\* The spec (testable properties): running N identical blocks yields
\* error == 0 at every output point; EndCG's variance formula in floating
\* point is checked against it.
IdenticalBlocksZeroError ==
  (phase = "done" /\ BlockNum > 0 /\ \A i, j \in DOMAIN blockVals : blockVals[i] = blockVals[j])
    => error = "zero"

\* The spec (end-to-end scenario): after a single block the error is 0;
\* EndCG's formula must give exactly zero when there is one block.
SingleBlockZeroError == (phase = "done" /\ BlockNum = 1) => error = "zero"
====
