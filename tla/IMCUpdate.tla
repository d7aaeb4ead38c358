------------------------------ MODULE IMCUpdate ------------------------------
(***************************************************************************)
(* The update step of the Inverse Monte Carlo iteration, a bash script    *)
(* (src/include/votca/xtp/aoshell.h, lines 179-210): it computes the      *)
(* statistics with csg_imc, has matlab solve the linear equations for the *)
(* potential update CG-CG.dpot.new, replaces NaN and Inf in it by 0.0 with *)
(* two sed calls, and publishes the result as CG_CG.dpot.new.             *)
(*                                                                         *)
(* A table is a sequence of lines and a line a sequence of fields; a      *)
(* field is "num" (a finite number), "NaN" or "Inf" ("-Inf" contains Inf   *)
(* and behaves alike).  A file is [exists, lines]; Missing is a file that *)
(* does not exist.                                                         *)
(* The script does not set -e: a command that fails, other than the ones  *)
(* run through run_or_exit or die, does not stop it.                       *)
(***************************************************************************)
EXTENDS Integers, SequencesExt

CONSTANTS
  Args,      \* the first argument the script can be called with ("" if none)
  Tables     \* the tables matlab can write as CG-CG.dpot.new

Fields == {"num", "NaN", "Inf"}

VARIABLES
  pc,         \* the next statement: "start", "args", "stats", "solve",
              \* "nan", "inf", "copy", "exited" (exit 0) or "died"
  arg,        \* $1
  dpotNew,    \* the file CG-CG.dpot.new
  published   \* the file CG_CG.dpot.new the iteration takes as the update

vars == <<pc, arg, dpotNew, published>>

Missing == [exists |-> FALSE, lines |-> <<>>]
File(t) == [exists |-> TRUE, lines |-> t]

\* sed 's/P/0.0/' (no g flag): in every line, the first occurrence of P
\* is replaced and the others are left alone.
SedSubstituteFirst(table, p) ==
  [l \in DOMAIN table |-> ReplaceFirstSubSeq(<<"num">>, <<p>>, table[l])]

\* sed -ie on a file: rewritten in place; on a missing file sed fails and
\* the script goes on.
SedInPlace(file, p) ==
  IF file.exists THEN File(SedSubstituteFirst(file.lines, p)) ELSE Missing

Init ==
  /\ pc = "start"
  /\ arg \in Args
  /\ dpotNew = Missing /\ published = Missing

\* if [ "$1" = "--help" ]; then echo ...; exit 0; fi
CheckHelp ==
  /\ pc = "start"
  /\ pc' = IF arg = "--help" THEN "exited" ELSE "args"
  /\ UNCHANGED <<arg, dpotNew, published>>

\* [[ -n "$1" ]] || die "Missing argument"
CheckArg ==
  /\ pc = "args"
  /\ pc' = IF arg = "" THEN "died" ELSE "stats"
  /\ UNCHANGED <<arg, dpotNew, published>>

\* The three properties are read, then run_or_exit csg_imc: a failure of
\* csg_imc ends the script.
RunImc ==
  /\ pc = "stats"
  /\ pc' \in {"solve", "died"}
  /\ UNCHANGED <<arg, dpotNew, published>>

\* The solver script is generated, matlab runs it and imcsolve.m is
\* removed.  matlab's exit status is not checked: it writes a table, or
\* fails and leaves no CG-CG.dpot.new, and the script goes on.
Solve ==
  /\ pc = "solve"
  /\ dpotNew' \in {File(t) : t \in Tables} \cup {Missing}
  /\ pc' = "nan"
  /\ UNCHANGED <<arg, published>>

\* sed -ie 's/NaN/0.0/' CG-CG.dpot.new
SedNaN ==
  /\ pc = "nan"
  /\ dpotNew' = SedInPlace(dpotNew, "NaN")
  /\ pc' = "inf"
  /\ UNCHANGED <<arg, published>>

\* Mutant of SedInf: the second call copied from the first, NaN again.
SedInf_NaNTwice ==
  /\ pc = "inf"
  /\ dpotNew' = SedInPlace(dpotNew, "NaN")
  /\ pc' = "copy"
  /\ UNCHANGED <<arg, published>>

\* sed -ie 's/Inf/0.0/' CG-CG.dpot.new
SedInf ==
  /\ pc = "inf"
  /\ dpotNew' = SedInPlace(dpotNew, "Inf")
  /\ pc' = "copy"
  /\ UNCHANGED <<arg, published>>

\* cp CG-CG.dpot.new CG_CG.dpot.new: fails on a missing file; the script
\* ends with cp's status.
Copy ==
  /\ pc = "copy"
  /\ published' = dpotNew
  /\ pc' = IF dpotNew.exists THEN "exited" ELSE "died"
  /\ UNCHANGED <<arg, dpotNew>>

Ended == pc \in {"exited", "died"} /\ UNCHANGED vars

Next == CheckHelp \/ CheckArg \/ RunImc \/ Solve \/ SedNaN \/ SedInf \/ Copy \/ Ended

Spec == Init /\ [][Next]_vars

(***************************************************************************)
(* Properties.                                                             *)
(***************************************************************************)
\* The two sed calls ("temporary compatibility issue") are there so that
\* the update the iteration takes contains only finite numbers: no NaN and
\* no Inf is left in a published CG_CG.dpot.new.
UpdateIsFinite ==
  \A l \in DOMAIN published.lines : \A i \in DOMAIN published.lines[l] :
    published.lines[l][i] = "num"
====
