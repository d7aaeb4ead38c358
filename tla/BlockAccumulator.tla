--------------------------- MODULE BlockAccumulator ---------------------------
(***************************************************************************)
(* What the block accumulator of the force-matching engine promises        *)
(* (spec.md, section 4.4): frames are consumed one at a time; every        *)
(* N_frames consecutive frames form a block that is solved once, from      *)
(* exactly those frames; Finalize averages over the blocks solved, and     *)
(* frames of an incomplete last block take no part in it.                  *)
(***************************************************************************)
EXTENDS Integers, Sequences

CONSTANT N_frames

VARIABLES
  consumed,    \* frames consumed so far
  blocks,      \* the frames every solved block was computed from, in order
  state,       \* "accumulating" or "finalized"
  blockCount   \* the number of blocks Finalize divides by (0 before)

Init ==
  /\ consumed = 0 /\ blocks = <<>>
  /\ state = "accumulating" /\ blockCount = 0

\* A frame is appended; when it completes a block, the block is solved.
Accumulate ==
  /\ state = "accumulating"
  /\ consumed' = consumed + 1
  /\ blocks' = IF consumed + 1 - Len(blocks) * N_frames = N_frames
                 THEN Append(blocks, Len(blocks) * N_frames + 1 .. consumed + 1)
                 ELSE blocks
  /\ UNCHANGED <<state, blockCount>>

\* Finalize: the mean and error of every output point over the blocks.
Finalize ==
  /\ state = "accumulating"
  /\ state' = "finalized"
  /\ blockCount' = Len(blocks)
  /\ UNCHANGED <<consumed, blocks>>

Next == Accumulate \/ Finalize

Spec == Init /\ [][Next]_<<consumed, blocks, state, blockCount>>
====
