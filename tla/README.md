# TLA+ models of VOTCA

This directory holds TLA+ models of the parts of this repository whose
behaviour a model checker can explore:

* the force-matching engine `CGForceMatching` in `src/unnamed/part_000`;
* the XTP classes `AOShell`, `AOGaussianPrimitive` and `PolarSeg` in
  `src/include/votca/xtp/aoshell.h`;
* the `ERDiabatizationFrame` tool in `src/src/libxtp/tools/qmsandbox.h`;
* the IMC update script appended to `aoshell.h` (lines 179-210).

Two abstract specifications state what a component promises:
`BlockAccumulator` for the engine's blocks and `AOShellList` for the
shells.

Each model is a specification, and TLC checks each one under bounded
configurations.

## 1. Inventory of the system

| Part | Source | State | Operations |
|---|---|---|---|
| Channel registration / fit-matrix layout | `part_000` 44-152, 387-407 | `Splines` (order, `matr_pos`, `n`), `line_cntr`, `col_cntr`, `LeastSQOffset`, `_A`, `_b`, `B_constr`, `_x` | `BeginCG`, `SplineInfo`, `FmatchAssignSmoothCondsToMatrix` |
| Frame sampling | `part_000` 195-237, 416-497 | `L` (frame in block), rows of `_A`, `_b` | `EvalConfiguration`, `EvalBonded`, `EvalNonbonded` |
| Block solve | `part_000` 239-363 | gsl workspaces, `_x` | `FmatchAccumulateData` (QR solve, or constrained QR with Householder Q) |
| Block accumulator / output | `part_000` 154-193, 365-385 | `BlockNum`, per spline `resSum`, `resSum2`, `result`, `error` | accumulation, `EndCG` |
| CubicSpline (votca tools, not in this repo) | spec | grid `_r` | `getInterval`, `AddToFitMatrix`, `AddBCToFitMatrix` |
| Shell scripts of the inverse scheme | `part_001` 1-360 | files, option values | initialize step, multistate IIE update, resample target, ... |
| InteractionTensor | `part_001` 361-658 | none between calls | closed-form tensors |
| AOShell, AOGaussianPrimitive | `aoshell.h` 41-174 | primitives with a reference to their shell, cached `_mindecay` | copy constructors, `addGaussian`, `CalcMinDecay`, held in `std::vector` by `AOBasis` |
| PolarSeg | `aoshell.h` 210-363 | owned `APolarSite*` members, `_nbs`, `_pos` | constructors, destructor, `AddPolarNb`, `ClearPolarNbs`, `CalcPos`, `Translate`, `PrintPolarNbPDB`, `CalcIsCharged`, `CalcIsPolarizable`, `WriteMPS` |
| IMC update script | `aoshell.h` 179-210 | `$1`, the files `CG-CG.dpot.new` and `CG_CG.dpot.new` | argument checks, `csg_imc`, matlab, two `sed -ie`, `cp` |
| ERDiabatizationFrame | `qmsandbox.h` 54-169 | options, orbitals read from a file | `ParseOptions`, `Run` |
| Checkpoint, partialcharges, jobcalculator factory | `src/src/libxtp/...`, `src/xtp/...` | files, options | I/O and option parsing |

**How the parts interact.** `BeginCG` registers the splines. For every frame,
`EvalConfiguration` calls `EvalBonded`/`EvalNonbonded` on each spline. These
call `CubicSpline::AddToFitMatrix`, which writes one row per bead and axis.
After `frames_per_block` frames, `FmatchAccumulateData` solves the block and
adds the spline values to the sums. Then the matrices are reset for the next
block. At the end, `EndCG` turns the sums into a mean and an error and writes
one `<name>.force` file per spline.

The XTP parts do not interact with the engine. Inside `aoshell.h`, an
`AOBasis` owns a vector of shells and each shell owns its primitives, which
point back to it. A `PolarSeg` owns its sites, and its neighbour list
points at other segments that it does not own.

**What makes it hard.** The engine is sequential; there is no concurrency in
it. The hard parts are:

* the index arithmetic of the shared matrix, where one stride or offset error
  mixes frames, beads or splines;
* the per-block protocol: reset, reseeding the smoothing conditions, and the
  different treatment of the first block;
* the two modes, which lay the matrices out differently;
* memory: uninitialised storage, leaked gsl vectors, a fixed-size name buffer;
* the floating-point statistics at the end: division by the block count and
  cancellation in the variance.

## 2. Modules

### `FMatch.tla`: the engine, at the level of matrix entries

The matrices are abstracted to the **set of entries written**. Each entry is
a record `[row, col, frame, spline, bead]`:

* `frame` is the frame's global index, or 0 for a smoothing condition;
* `bead` is -1 for a smoothing condition.

A solve is recorded in `solved` as the inputs it read (`SolveInputs`):

* the frames of its entries in `_A`;
* the frames of its non-zero right-hand side;
* whether the smoothing conditions were present;
* whether it read uninitialised memory;
* whether the `_A` and `_b` it was given had every write in bounds and no
  mixed rows. The last frame of a block reaches `_A` only inside the solve,
  so the layout properties must look at what each solve read.

The numerical values are not modelled. Everything the properties tell apart
is in the indices.

| Code | Model |
|---|---|
| option `cg.fmatch.constrainedLS` | variable `ConstrLeastSQ`, chosen in `Init` from `LSModes` and never changed, so one run covers both modes |
| option lists `cg.bonded`, `cg.non-bonded` | constants `BondedOpts`, `NonbondedOpts` (grid size `n`, name length, interactions or bead types) |
| `Splines`, `matr_pos`, `line_cntr`, `col_cntr` | `Splines`, `line_cntr`, `col_cntr` (built by `RegisteredSplines` with `AddSpline`, bonded before non-bonded as in `BeginCG`) |
| `_A`, `_b`, `B_constr` | sets of entries `A`, `b`, `B_constr`; `AUninit`, `bUninit` mark storage that `resize` left uninitialised |
| `BeginCG` | `BeginCG` (both modes; in constrained mode the resized storage is chosen to be reused, possibly garbage, or fresh) |
| `EvalConfiguration` with `EvalBonded`/`EvalNonbonded` | `EvalConfiguration`: the entries the loop over the splines writes (`FrameWrites`, over every choice of `Samples`; samples that write the same entries give one successor), its fit entries (`FitEntries`, `Row`, `SplineCols`, `getInterval`), the forces if `HasF()` (`AssignForces`), and at the end of a block the whole of `BlockNum++`, `FmatchAccumulateData` and the reset (`BlockReset`) |
| gsl vectors allocated and freed in a solve | `GslAllocs`, `GslFrees`, accumulated leak `gslLeaked` |
| `EndCG` | `EndCG`: NaN output when `BlockNum = 0`; name overflow of `file_name[20]` |

### `BlockAccumulator.tla`: what the blocks promise, and the refinement

`BlockAccumulator` is the state machine of spec section 4.4:

* `Accumulate` consumes a frame, and the frame that completes a block of
  `N_frames` consecutive frames solves that block;
* `Finalize` averages over the blocks solved so far.

`FMatch` refines it (`RefinesBlockAccumulator`). The refinement mapping
sends:

* `consumed` to `frames`;
* `blocks` to the frames each recorded solve read;
* `blockCount` to the `BlockNum` that `EndCG` divides by.

Every engine step, the reset included, is therefore an `Accumulate`, a
`Finalize` or a step that leaves this view unchanged.

### `HouseholderQ.tla`: the constrained solve in exact arithmetic

This module models the constrained branch of `FmatchAccumulateData`
(`part_000`:265-334) on one spline with `n = 1`, so `B_constr` is 2x4.

The inputs are the packed output of `gsl_linalg_QR_decomp`: the reflector
tails below the diagonal of `B_t`, R on and above it, and `tau`. `Init`
enumerates all of them. The steps then follow the code:

* `LoopStep` is one pass of `for (k = line_cntr; k > 0; k--)`, building
  `v` and `Q_k` and computing `Q = Q * Q_k`;
* `Transpose` is `Q = trans(Q)`;
* `Solve` keeps the last `col_cntr/2` columns (`A2`), takes any free
  coefficients for `gsl_linalg_QR_lssolve`, zeroes the first half of `_x`
  and computes `_x = Q * _x`.

The arithmetic is exact. A reflector `I - tau v v^T` with
`tau = num/den` is held as the integer matrix `den*I - num*v v^T`.
Products of such matrices are therefore integer multiples of the real
products, and equality and zero are decided exactly, with no rounding
model. The meaning of the packed form, `B^T = Q_0 Q_1 ... Q_(m-1) R`,
is gsl's and is spec-modelled (`ReflectorProduct`, `Bconstr`).

### `BlockStats.tla`: the accumulator at one output point, in floating point

A double is modelled as a binary float of `Prec` significand bits, rounded to
nearest with ties to even after every operation (`Round`, `FAdd`, `FMul`,
`FDivInt`). `FmatchAccumulateData` adds the block's value and its square to
the sums. `EndCG` computes the mean and `sqrt(resSum2/B - mean*mean)`, and the
square root is classified as zero, positive or NaN.

### `BinaryFloat.tla`: the float arithmetic shared by the models

The module holds the float model of BlockStats, taken out so that PolarSeg
can use it too. `FloatOf` converts an integer constant such as the `-1` of
`PrintPolarNbPDB`.

### `PolarSeg.tla`: segments that own their sites and point at neighbours

Memory is modelled explicitly. Every segment address and every site
address is `"free"`, `"live"` or `"deleted"`. Two history variables
record misuse:

* `freedTwice` holds the addresses deleted while already deleted;
* `accessedFreed` holds the deleted addresses that a member function read.

Positions are `BinaryFloat` vectors of one coordinate. Three axes add
nothing, because the arithmetic is per axis.

| Code | Model |
|---|---|
| `new APolarSite` (by the caller) | `NewAPolarSite` |
| `PolarSeg(int, std::vector<APolarSite*>)` | `PolarSegFromSites`: the caller passes sites that nobody owns, in any order |
| `PolarSeg(PolarSeg*, bool)` | `PolarSegCopy`: a fresh `APolarSite` copy of every site of the template |
| `~PolarSeg` | `DeletePolarSeg`: deletes every member site and clears `_nbs` |
| `AddPolarNb`, `ClearPolarNbs` | `AddPolarNb` (bounded by `MaxNbs`), `ClearPolarNbs` |
| `CalcPos`, `Translate` | `CalcPos` (`CalcPosOf`: a float sum divided by the count), `Translate` (`TranslateIn`) |
| `PrintPolarNbPDB` | `PrintPolarNbPDB`: each neighbour is translated by `s`, printed, and translated by `-1*s` |
| `CalcIsCharged`, `CalcIsPolarizable`, `WriteMPS` | the site reads they make; `WriteMPS` may fail to open the file |
| the caller making further calls | `Call`, bounded by `MaxCalls` |

### `ERDiabatization.tla`: option validation against the data it guards

`phase` follows the tool from `"start"` through `"parsed"` to `"done"`
or `"failed"`. A thrown exception is `"failed"`. `reads` records every
eigenvalue lookup as a pair: the vector (singlet or triplet) and the
0-based index. `ParseOptions` is the whole option check, and `Run` is
the rest of the tool, with every step that may throw folded into its
failing branch.

### `IMCUpdate.tla`: the IMC update script

`pc` is the next statement of the script; `"exited"` is `exit 0` and
`"died"` is `die`, a failing `run_or_exit`, or the script ending with
a failing `cp`. A file is a record `[exists, lines]`: `Missing` is no
file, and a table is a sequence of lines of fields `"num"`, `"NaN"` and
`"Inf"`. There is one action per statement. `Solve` is the template
`sed`, the matlab call and the `rm` together. Because matlab's exit
status is not checked, it either writes a table or leaves no file.
`SedSubstituteFirst` is `sed 's/P/0.0/'` without the `g` flag: it
replaces only the first occurrence on each line
(`ReplaceFirstSubSeq` of SequencesExt). `SedInPlace` applies it to
a file; on a missing file it changes nothing.

### `AOShellList.tla` and `AOShell.tla`: shells in a growing vector

`AOShellList` is the abstract specification of what users of a basis see.
It is a sequence of shells, each with a sequence of decays and a cached
`mindecay`. Shells are appended, primitives are appended, and the cache is
recomputed.

`AOShell` is the detailed model of the code. `AOBasis` stores its shells
in a `std::vector<AOShell>`. AOShell declares a copy constructor and no
move constructor, so every reallocation copy-constructs each shell into a
new block and destroys the old one.

The model therefore keeps:

* `heap`, the shell object at every address;
* `basis`, the addresses of the elements;
* `capacity` and `nextAddr`, the vector's growth (capacities 1, 2, 4, ...);
* `alive`, the addresses that hold a live shell.

Each primitive holds the address of its shell (`_aoshell`) and the decay
its `_powfactor` was computed from. The records `Primitive` and
`ShellObject` are the members the model keeps. `addGaussian` and
`CalcMinDecay` act on the last shell, since `AOBasis` fills the shell it
has just added through `back()` (`Filling`).

**Refinement.** `RefinesShellList` is `AOShellList!Spec` under the mapping
that reads every element of `basis` through `heap` and forgets addresses.
It shows that a reallocation is a stuttering step of the abstract list: no
copy loses a primitive, a decay or a cached `mindecay`.

## 3. Runs

| Run | Checks | Result |
|---|---|---|
| `fmatch_layout` | `TypeOK`, `FitWritesInBounds`, `RowsUnmixed`, `BlocksIsolated`, `RefinesBlockAccumulator`, in both modes | pass (4,676 states) |
| `householder_solve` | `QIsReflectorProduct`, `SolutionSatisfiesConstraints` | pass (15,552 states): the Q the code rebuilds last-to-first and transposes is the reflector product, and every returned `_x` satisfies `B_constr * _x = 0`, also for rank-deficient `B_constr` |
| `fmatch_uninit` | `SolveInputsInitialized` | violation: the first constrained block's solve reads uninitialised `_A`/`_b` (`part_000`:94-95) |
| `fmatch_gsl_leak` | `NoLeakedGslVectors` | violation: `tau2` is never freed (`part_000`:320) |
| `blockstats_single` | `SingleBlockZeroError` | pass: after one block the error is exactly 0 |
| `blockstats_identical` | `IdenticalBlocksZeroError` | violation: three identical blocks of 5/8 give a negative rounded variance and a NaN error |
| `polarseg_ownership` | `TypeOK`, `SitesSingleOwner` | pass (7,962 states): no site is deleted twice or read after deletion, and no site has two owners, whatever the caller constructs, copies and deletes |
| `polarseg_dangling` | `NoDanglingNeighbour` | violation: a segment is deleted while it is another segment's neighbour, and `PrintPolarNbPDB` reads it through `_nbs` (`aoshell.h`:321) |
| `polarseg_print` | `PrintKeepsGeometry` | violation: translating by `s` and back by `-1*s` does not restore the position in floating point (5/8 + 1 - 1 = 1/2 with `Prec = 3`) |
| `aoshell_vector` | `PrimitivesReferOwner`, `PowfactorMatchesDecay`, `RefinesShellList` | pass (204,205 states): after every reallocation each primitive refers to its own live shell, and the vector refines `AOShellList` |
| `imc_finite` | `UpdateIsFinite` | pass (112 states): for every table matlab can write, missing file included, no NaN or Inf reaches the published `CG_CG.dpot.new` |
| `erdiab_range` | `EigenIndexInRange` | violation: an index past the stored states is read, e.g. state 4 of three singlets reads `eigenvalues()[3]` (`qmsandbox.h`:151) |

Two defects of `EndCG` are kept in the model but are not given a run,
because each is one step from its input:

* with fewer frames than `frames_per_block`, `BlockNum` is 0 and the output is
  0/0 (`output[i] = "nan"`, `part_000`:176);
* an interaction name of 14 or more characters overruns `char file_name[20]`
  (`nameOverflow`, `part_000`:169).

What the properties say:

* **`BlocksIsolated`** is the main safety property. Every solve reads the
  `_A` entries of its own block's frames only, and the right-hand side of
  exactly those frames of the block that had forces. In the simple mode it
  also reads the smoothing conditions. It relates the history of solves to the
  history of frames, and it fails if the reset forgets a clear or fails to
  reseed the conditions.
* **`RowsUnmixed`** says that no row of `_A` or `_b` holds entries of two
  frames or two beads.
* **`FitWritesInBounds`** says that every fit write lands in its spline's
  column range and in the rows of the matrix.

The float finding in `blockstats_identical` is not an artefact of the small
precision. In IEEE double, three blocks of 0.1 give
`resSum2/3 - mean^2 = -1.7e-18`, and `sqrt` of that is NaN.

### Bounds and why they are enough

The FMatch runs use:

* `N = 3` beads, with bead types "CG" and "SL";
* one bonded spline with `n = 2` (3 grid points) and two bond interactions
  sharing bead 1;
* one non-bonded spline with `n = 1`;
* `N_frames = 2` frames per block, and `MaxFrames = 6` in `fmatch_layout`
  (4 in the violation runs, whose defects show in the first block).

These bounds make every case happen:

* three blocks, so two resets, with a partial last block after four or
  five frames;
* a frame with and a frame without forces;
* samples below, inside and above the grid, so both clamps of `getInterval`
  are used;
* pair candidates that the type filter rejects;
* several beads per row block, so the bead stride matters.

The HouseholderQ run takes reflector tails in {-1, 0, 1}, R entries in
{0, 1} and free coefficients in {0, 1}. Those tails give reflectors that
do not commute, so a wrong order shows, and an all-zero tail gives
`tau = 0`. A zero on R's diagonal makes `B_constr` rank-deficient. The
size is that of one spline with one interval, which is the smallest
layout the code produces, with `line_cntr = col_cntr / 2`.

The PolarSeg runs use three segments, three sites, `MaxNbs = 1`,
`MaxCalls = 5` and `Prec = 3`, with one initial coordinate and two shift
values. Five calls are enough to create two segments, make one a
neighbour of the other, delete it and print, and also to copy a segment
and delete both. Segments and sites are symmetric model values.

The AOShell run uses `MaxShells = 4`, two decays and `MaxGaussians = 2`.
With four shells the vector reallocates at capacities 1, 2 and 4 and also
takes the branch with room (the fourth push_back). Two decays make the
minimum and the powfactor distinguishable.

The IMC run calls the script with `--help`, with a step number and with
no argument. matlab writes a table of four lines `r dpot`, with every
combination of a finite number, NaN and Inf for the `dpot` of each line,
or no file at all. A line of `save -ascii` holds one grid point and one
value, and the grid point is finite. So one substitution per line is
enough, and the run shows that. The mutant whose second `sed` call
substitutes NaN again is caught.

The ERDiabatization run gives the indices -1 to 4 against three singlets
and two triplets, with the type strings `Singlet`, `Triplet`, `Hole` and
the unknown `singlet`. Every index lies below, at or past each bound.

The BlockStats runs use three significands, 5/8, 6/8 and 7/8, with
`Prec = 3` and up to 7 blocks. That is enough for cancellation to occur.

### Fairness

There is none, and no liveness property is checked. Every component here
is a sequential procedure: no step waits on another actor, and every loop
is bounded by its input. Under the only fairness the code would justify,
"a running program takes its next step", termination is immediate from
the model's shape, so it would say nothing about the code. What can go
wrong is what a step computes, and the safety properties and refinements
check that. `Terminated` stutters after
`EndCG`, so a finished run is not reported as a deadlock.

The XTP models have no fairness either. Their operations are called by
whatever code uses the classes, and nothing obliges it to call any of them.
For the same reason the PolarSeg runs turn the deadlock check off: the
caller may stop after any call, and `MaxCalls` ends every behaviour.
ERDiabatization ends in `Terminated` and IMCUpdate in `Ended`. AOShell checks deadlock, because it
can always recompute a cache.

## 4. Not modelled, and why

* `LoadOptions` parses XML; its results are the model's constants.
* In `FMatch`, the solve is abstracted to what it reads. `HouseholderQ`
  models the constrained solve itself, for one spline.
  `gsl_linalg_QR_lssolve` and the simple-mode solve are single gsl calls
  (not in this repository), modelled as a choice of solution.
* The shell scripts and `InteractionTensor` are not modelled. The scripts
  are calls to external programs; `InteractionTensor` is closed-form
  numerics.
* In the IMC update script, `csg_imc`, matlab and the `get_property`
  helpers are external programs. Only their outcomes are modelled:
  success or failure, and the table matlab writes.
* `CheckpointFile` (`checkpoint.cc`) opens an HDF5 file and writes
  datasets. Every state change happens inside the HDF5 library, so a
  model would hold only the library's assumed behaviour.
* `Partialcharges` (`partialcharges.h`) is a straight sequence of calls to
  classes outside this repository (`Orbitals`, `Esp2multipole`,
  `StaticSegment`). It holds no state between them.
* `jobcalculatorfactory.h` holds declarations. The `BGSite` class
  appended to it has a setter and an accumulator, `addToStaticField`,
  whose callers are not in this repository.
* In `AOShell`, the accessors, `normalizeContraction` and the evaluation
  of the functions on a grid are closed-form numerics. Only the members
  that are copied, cached or referred to are modelled.
* In `ERDiabatizationFrame`, the rotation angle and the diabatic energies
  are numerics. The model keeps which data they read and where an
  exception can end the tool.
* `PolarSeg`'s PDB and MPS output is formatting. Only the reads it makes
  and the translations around it are modelled.

## 5. Plan for further work

1. Option checks of the shell scripts: the resample-target dispatch, and the
   typo `$iie_metho` in the multistate IIE update (`part_001`:72).
2. `AOShell`: a shell appended while an earlier one is still being filled
   (the stale `_mindecay` hazard at `aoshell.h`:136), once the filling
   protocol of `AOBasis` can be taken from its source.
3. A larger `HouseholderQ` instance, with two splines (4x8), if the run
   time allows.
