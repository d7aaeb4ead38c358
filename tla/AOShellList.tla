----------------------------- MODULE AOShellList -----------------------------
(***************************************************************************)
(* What a list of AOShells promises its users, with no addresses: a       *)
(* sequence of shells, each a sequence of primitive decays and a cached   *)
(* minimum decay.  Shells are appended empty, primitives are appended to  *)
(* any shell, and CalcMinDecay recomputes a shell's cache.  Nothing else  *)
(* ever changes a shell.                                                   *)
(***************************************************************************)
EXTENDS Integers, Sequences

CONSTANTS Decays, MaxShells, MaxGaussians, NoValue, DblMax

VARIABLE shells   \* Seq([decays : Seq(Decays), mindecay : Decays \cup {NoValue, DblMax}])

MinOf(s) == IF s = <<>> THEN DblMax
            ELSE CHOOSE d \in { s[i] : i \in DOMAIN s } : \A i \in DOMAIN s : d <= s[i]

AppendShell ==
  /\ Len(shells) < MaxShells
  /\ shells' = Append(shells, [decays |-> <<>>, mindecay |-> NoValue])

AppendGaussian ==
  \E i \in DOMAIN shells, d \in Decays :
    /\ Len(shells[i].decays) < MaxGaussians
    /\ shells' = [shells EXCEPT ![i].decays = Append(@, d)]

RecomputeMinDecay ==
  \E i \in DOMAIN shells : shells' = [shells EXCEPT ![i].mindecay = MinOf(shells[i].decays)]

Init == shells = <<>>

Next == AppendShell \/ AppendGaussian \/ RecomputeMinDecay

Spec == Init /\ [][Next]_shells
====
