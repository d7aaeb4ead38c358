------------------------------- MODULE AOShell -------------------------------
(***************************************************************************)
(* AOShell and AOGaussianPrimitive (src/include/votca/xtp/aoshell.h, lines *)
(* 41-174) held, as in AOBasis, in a std::vector<AOShell>.  Every         *)
(* primitive keeps a reference _aoshell to the shell that owns it; when   *)
(* the vector grows, every shell is copy-constructed into a new block     *)
(* (AOShell declares a copy constructor, so it has no move constructor)   *)
(* and the old shells are destroyed.  A shell is modelled at an address;  *)
(* _powfactor, a function of the decay, is modelled by the decay it was   *)
(* computed from.  _l, _scale, the function counts, offsets and position  *)
(* are copied like _mindecay and are left out.                            *)
(***************************************************************************)
EXTENDS Integers, Sequences

CONSTANTS
  Decays,        \* decay constants of the basis-set primitives
  MaxShells,     \* bound on the shells added to the vector
  MaxGaussians,  \* bound on the primitives of one shell
  NoValue,       \* an indeterminate double (a member never assigned)
  DblMax         \* std::numeric_limits<double>::max()

ASSUME Decays \subseteq Nat \ {0}

\* Addresses of the vector's blocks: capacities 1, 2, 4, ... up to MaxShells.
RECURSIVE BlockSum(_)
BlockSum(c) == IF c >= MaxShells THEN c ELSE c + BlockSum(2 * c)
Addrs == 1 .. BlockSum(1)

VARIABLES
  basis,      \* the std::vector<AOShell>: the address of every element
  capacity,   \* its capacity
  heap,       \* the shell object at every address (NoValue: none)
  alive,      \* addresses holding a constructed, not yet destroyed shell
  nextAddr    \* first address of the next block the vector allocates

vars == <<basis, capacity, heap, alive, nextAddr>>

(***************************************************************************)
(* The objects: the members of AOGaussianPrimitive and of AOShell that the *)
(* model keeps.                                                            *)
(***************************************************************************)
Primitive == [decay : Decays, pow : Decays \cup {NoValue}, shell : Addrs]
ShellObject == [gaussians : Seq(Primitive), mindecay : Decays \cup {NoValue, DblMax}]

(***************************************************************************)
(* Constructors.                                                           *)
(***************************************************************************)
\* AOGaussianPrimitive(const GaussianPrimitive&, const AOShell&): decay and
\* contraction from the basis set, _powfactor computed from the decay.
NewPrimitive(d, addr) == [decay |-> d, pow |-> d, shell |-> addr]

\* AOGaussianPrimitive(const AOGaussianPrimitive&, const AOShell&): every
\* member copied, the shell reference bound to the given shell.
CopyPrimitive(g, addr) == [decay |-> g.decay, pow |-> g.pow, shell |-> addr]

\* AOShell(const Shell&, const QMAtom&, Index): no primitives, _mindecay
\* not initialised.
NewShell == [gaussians |-> <<>>, mindecay |-> NoValue]

\* Mutants of AOShellCopy: the primitives copied member-wise (the old
\* shell's reference kept); _powfactor not copied; _mindecay not copied.
AOShellCopy_keepRef(shell, addr) ==
  [gaussians |-> shell.gaussians, mindecay |-> shell.mindecay]
AOShellCopy_noPowfactor(shell, addr) ==
  [gaussians |-> [k \in DOMAIN shell.gaussians |->
                    [decay |-> shell.gaussians[k].decay, pow |-> NoValue, shell |-> addr]],
   mindecay |-> shell.mindecay]
AOShellCopy_noMinDecay(shell, addr) ==
  [gaussians |-> [k \in DOMAIN shell.gaussians |-> CopyPrimitive(shell.gaussians[k], addr)],
   mindecay |-> NoValue]

\* AOShell(const AOShell&): the members copied, then every primitive
\* copied with its shell reference bound to *this.
AOShellCopy(shell, addr) ==
  [gaussians |-> [k \in DOMAIN shell.gaussians |-> CopyPrimitive(shell.gaussians[k], addr)],
   mindecay |-> shell.mindecay]

(***************************************************************************)
(* Member functions.                                                       *)
(***************************************************************************)
\* AOBasis fills the shell it has just added through the reference to
\* back(): the index of that shell.
Filling == IF basis = <<>> THEN {} ELSE {Len(basis)}

\* CalcMinDecay: the smallest decay, or DBL_MAX for a shell without
\* primitives.
CalcMinDecayOf(shell) ==
  LET ds == { shell.gaussians[k].decay : k \in DOMAIN shell.gaussians }
  IN IF ds = {} THEN DblMax ELSE CHOOSE d \in ds : \A e \in ds : d <= e

CalcMinDecay ==
  \E i \in Filling :
    /\ heap' = [heap EXCEPT ![basis[i]].mindecay = CalcMinDecayOf(heap[basis[i]])]
    /\ UNCHANGED <<basis, capacity, alive, nextAddr>>

\* addGaussian: a new primitive bound to *this appended.
addGaussian ==
  \E i \in Filling, d \in Decays :
    /\ Len(heap[basis[i]].gaussians) < MaxGaussians
    /\ heap' = [heap EXCEPT ![basis[i]].gaussians = Append(@, NewPrimitive(d, basis[i]))]
    /\ UNCHANGED <<basis, capacity, alive, nextAddr>>

(***************************************************************************)
(* The vector (AOBasis adds a shell with push_back(AOShell(...))).         *)
(***************************************************************************)

\* push_back: with room, the temporary is copied into the next slot;
\* otherwise a block of twice the capacity is allocated, the new element
\* and every old one are copy-constructed into it and the old destroyed.
PushBackShell ==
  /\ Len(basis) < MaxShells
  /\ IF Len(basis) < capacity
       THEN LET slot == basis[1] + Len(basis) IN
            /\ basis' = Append(basis, slot)
            /\ heap' = [heap EXCEPT ![slot] = AOShellCopy(NewShell, slot)]
            /\ alive' = alive \cup {slot}
            /\ UNCHANGED <<capacity, nextAddr>>
       ELSE LET cap   == IF capacity = 0 THEN 1 ELSE 2 * capacity
                moved == [i \in 1 .. Len(basis) + 1 |-> nextAddr + i - 1]
            IN /\ basis' = moved
               /\ heap' = [a \in Addrs |->
                             IF \E i \in DOMAIN basis : moved[i] = a
                             THEN AOShellCopy(heap[basis[a - nextAddr + 1]], a)
                             ELSE IF a = moved[Len(basis) + 1]
                                  THEN AOShellCopy(NewShell, a)
                                  ELSE heap[a]]
               /\ alive' = (alive \ { basis[i] : i \in DOMAIN basis }) \cup { moved[i] : i \in DOMAIN moved }
               /\ capacity' = cap
               /\ nextAddr' = nextAddr + cap

Init ==
  /\ basis = <<>> /\ capacity = 0
  /\ heap = [a \in Addrs |-> NoValue]
  /\ alive = {} /\ nextAddr = 1

Next == PushBackShell \/ addGaussian \/ CalcMinDecay

Spec == Init /\ [][Next]_vars

(***************************************************************************)
(* Properties.                                                             *)
(***************************************************************************)
\* After any sequence of push_backs, reallocations and additions, every
\* primitive of every shell in the vector refers to that very shell, never
\* to a destroyed copy in an old block.
PrimitivesReferOwner ==
  \A i \in DOMAIN basis :
    \A k \in DOMAIN heap[basis[i]].gaussians :
      /\ heap[basis[i]].gaussians[k].shell = basis[i]
      /\ heap[basis[i]].gaussians[k].shell \in alive

\* Every primitive's _powfactor is the one computed from its own decay,
\* through any number of copies.
PowfactorMatchesDecay ==
  \A i \in DOMAIN basis :
    \A k \in DOMAIN heap[basis[i]].gaussians :
      heap[basis[i]].gaussians[k].pow = heap[basis[i]].gaussians[k].decay

\* The vector of shells, seen without addresses, behaves as AOShellList:
\* a reallocation never changes what any shell holds.
View(shell) == [decays |-> [k \in DOMAIN shell.gaussians |-> shell.gaussians[k].decay],
                mindecay |-> shell.mindecay]
Abstract == INSTANCE AOShellList WITH shells <- [i \in DOMAIN basis |-> View(heap[basis[i]])]
RefinesShellList == Abstract!Spec
====
