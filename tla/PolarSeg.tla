------------------------------ MODULE PolarSeg ------------------------------
(***************************************************************************)
(* votca::ctp::PolarSeg (src/include/votca/xtp/aoshell.h, lines 210-363): *)
(* a vector of raw APolarSite pointers it owns, a centre _pos, and a list *)
(* of PolarNb objects, each a raw pointer to a neighbour segment and a    *)
(* periodic shift s.  The heap is modelled: a segment or a site is        *)
(* "free" (never allocated), "live" or "deleted".  Positions are one      *)
(* Cartesian component (the three are computed alike and independently)  *)
(* in the binary floating point of BinaryFloat.                           *)
(***************************************************************************)
EXTENDS Integers, Sequences, SequencesExt, Functions, BinaryFloat

CONSTANTS
  Segs,      \* addresses a PolarSeg can be allocated at
  Sites,     \* addresses an APolarSite can be allocated at
  Coords,    \* positions a caller gives a new site
  Shifts,    \* shifts passed to Translate and stored in PolarNb
  MaxNbs,    \* bound on the length of a neighbour list
  MaxCalls   \* bound on the number of PolarSeg member calls

VARIABLES
  seg,            \* heap state of every PolarSeg address
  members,        \* the APolarSite* of every segment, in order
  nbs,            \* _nbs: the PolarNb list, records [nb, s]
  segPos,         \* _pos
  site,           \* heap state of every APolarSite address
  sitePos,        \* APolarSite position
  freedTwice,     \* sites deleted a second time (history)
  accessedFreed,  \* deleted sites or segments a call dereferenced (history)
  calls           \* member calls made so far

vars == <<seg, members, nbs, segPos, site, sitePos, freedTwice, accessedFreed, calls>>

Heap == {"free", "live", "deleted"}
Live(p) == seg[p] = "live"

\* Sites no live segment owns: what a caller may hand to the constructor.
Unowned == { a \in Sites : site[a] = "live" /\ \A p \in Segs : Live(p) => a \notin Range(members[p]) }

\* Deleted objects among a set of sites or segments.
DeletedSites(S) == { a \in S : site[a] = "deleted" }
DeletedSegs(S) == { p \in S : seg[p] = "deleted" }

(***************************************************************************)
(* Geometry helpers: a geometry is [site, seg], the position of every     *)
(* site and every segment centre.                                          *)
(***************************************************************************)
\* PolarSeg::CalcPos: sum the site positions in order, divide by the size.
CalcPosOf(mem, sp) ==
  LET sum == FoldLeft(LAMBDA acc, a : FAdd(acc, sp[a]), Zero, mem)
  IN IF Len(mem) > 0 THEN FDivInt(sum, Len(mem)) ELSE sum

\* PolarSeg::Translate on geometry g: every site, then _pos += shift.
TranslateIn(g, p, shift) ==
  [site |-> [a \in Sites |-> IF a \in Range(members[p]) THEN FAdd(g.site[a], shift) ELSE g.site[a]],
   seg  |-> [g.seg EXCEPT ![p] = FAdd(@, shift)]]

Geometry == [site |-> sitePos, seg |-> segPos]

(***************************************************************************)
(* The caller: allocates an APolarSite (new APolarSite at position x).     *)
(***************************************************************************)
NewAPolarSite ==
  \E a \in Sites, x \in Coords :
    /\ site[a] = "free"
    /\ site' = [site EXCEPT ![a] = "live"]
    /\ sitePos' = [sitePos EXCEPT ![a] = x]
    /\ UNCHANGED <<seg, members, nbs, segPos, freedTwice, accessedFreed, calls>>

Call == calls < MaxCalls /\ calls' = calls + 1

(***************************************************************************)
(* The member functions.                                                   *)
(***************************************************************************)
\* PolarSeg(int id, vector<APolarSite*> &psites): push_back every pointer
\* (the segment takes ownership), then CalcPos().
PolarSegFromSites(p) ==
  /\ seg[p] = "free" /\ Call
  /\ \E S \in SUBSET Unowned : \E psites \in SetToSeqs(S) :
       /\ members' = [members EXCEPT ![p] = psites]
       /\ segPos' = [segPos EXCEPT ![p] = CalcPosOf(psites, sitePos)]
  /\ seg' = [seg EXCEPT ![p] = "live"]
  /\ nbs' = [nbs EXCEPT ![p] = <<>>]
  /\ UNCHANGED <<site, sitePos, freedTwice, accessedFreed>>

\* Mutant of PolarSegCopy: the template's pointers pushed instead of copies.
PolarSegCopy_shallow(p, templ) ==
  /\ seg[p] = "free" /\ Live(templ) /\ Call
  /\ members' = [members EXCEPT ![p] = members[templ]]
  /\ segPos' = [segPos EXCEPT ![p] = segPos[templ]]
  /\ seg' = [seg EXCEPT ![p] = "live"]
  /\ nbs' = [nbs EXCEPT ![p] = <<>>]
  /\ accessedFreed' = accessedFreed \cup DeletedSites(Range(members[templ]))
  /\ UNCHANGED <<site, sitePos, freedTwice>>

\* Mutant of PolarSegCopy: the copies placed at addresses never allocated.
PolarSegCopy_noAlloc(p, templ) ==
  /\ seg[p] = "free" /\ Live(templ) /\ Call
  /\ \E fresh \in Injection(DOMAIN members[templ], { a \in Sites : site[a] = "free" }) :
       /\ members' = [members EXCEPT ![p] = fresh]
       /\ UNCHANGED <<site, sitePos>>
  /\ segPos' = [segPos EXCEPT ![p] = segPos[templ]]
  /\ seg' = [seg EXCEPT ![p] = "live"]
  /\ nbs' = [nbs EXCEPT ![p] = <<>>]
  /\ accessedFreed' = accessedFreed \cup DeletedSites(Range(members[templ]))
  /\ UNCHANGED freedTwice

\* PolarSeg(PolarSeg *templ): a new APolarSite copied from every site of
\* the template, _id, _pos and the flags copied; the neighbours are not.
PolarSegCopy(p, templ) ==
  /\ seg[p] = "free" /\ Live(templ) /\ Call
  /\ \E fresh \in Injection(DOMAIN members[templ], { a \in Sites : site[a] = "free" }) :
       /\ members' = [members EXCEPT ![p] = fresh]
       /\ site' = [a \in Sites |-> IF a \in Range(fresh) THEN "live" ELSE site[a]]
       /\ sitePos' = [a \in Sites |->
                        IF a \in Range(fresh)
                        THEN sitePos[members[templ][CHOOSE i \in DOMAIN fresh : fresh[i] = a]]
                        ELSE sitePos[a]]
  /\ segPos' = [segPos EXCEPT ![p] = segPos[templ]]
  /\ seg' = [seg EXCEPT ![p] = "live"]
  /\ nbs' = [nbs EXCEPT ![p] = <<>>]
  /\ accessedFreed' = accessedFreed \cup DeletedSites(Range(members[templ]))
  /\ UNCHANGED freedTwice

\* ~PolarSeg: delete every site, clear(), delete every PolarNb, _nbs.clear().
\* The neighbour segments themselves are not deleted, and no other
\* segment's PolarNb pointing here is touched.
DeletePolarSeg(p) ==
  /\ Live(p) /\ Call
  /\ freedTwice' = freedTwice \cup DeletedSites(Range(members[p]))
  /\ site' = [a \in Sites |-> IF a \in Range(members[p]) THEN "deleted" ELSE site[a]]
  /\ members' = [members EXCEPT ![p] = <<>>]
  /\ nbs' = [nbs EXCEPT ![p] = <<>>]
  /\ seg' = [seg EXCEPT ![p] = "deleted"]
  /\ UNCHANGED <<segPos, sitePos, accessedFreed>>

\* AddPolarNb(pseg): a new PolarNb(pseg) appended; the caller passes a
\* live segment and the shift it belongs at.
AddPolarNb(p) ==
  /\ Live(p) /\ Len(nbs[p]) < MaxNbs /\ Call
  /\ \E q \in Segs, s \in Shifts :
       /\ Live(q)
       /\ nbs' = [nbs EXCEPT ![p] = Append(@, [nb |-> q, s |-> s])]
  /\ UNCHANGED <<seg, members, segPos, site, sitePos, freedTwice, accessedFreed>>

\* ClearPolarNbs: delete every PolarNb, _nbs.clear().
ClearPolarNbs(p) ==
  /\ Live(p) /\ Call
  /\ nbs' = [nbs EXCEPT ![p] = <<>>]
  /\ UNCHANGED <<seg, members, segPos, site, sitePos, freedTwice, accessedFreed>>

\* CalcPos: _pos = mean of the site positions.
CalcPos(p) ==
  /\ Live(p) /\ Call
  /\ segPos' = [segPos EXCEPT ![p] = CalcPosOf(members[p], sitePos)]
  /\ accessedFreed' = accessedFreed \cup DeletedSites(Range(members[p]))
  /\ UNCHANGED <<seg, members, nbs, site, sitePos, freedTwice>>

\* Translate(shift): every site translated, then _pos += shift.
Translate(p) ==
  /\ Live(p) /\ Call
  /\ \E shift \in Shifts :
       LET g == TranslateIn(Geometry, p, shift)
       IN sitePos' = g.site /\ segPos' = g.seg
  /\ accessedFreed' = accessedFreed \cup DeletedSites(Range(members[p]))
  /\ UNCHANGED <<seg, members, nbs, site, freedTwice>>

\* PrintPolarNbPDB: write the own sites ("CEN"); for every PolarNb in
\* order, nb->Translate(s), write its sites ("PNB"), nb->Translate(-1*s).
PrintPolarNbPDB(p) ==
  /\ Live(p) /\ Call
  /\ LET visit(g, n) == TranslateIn(TranslateIn(g, n.nb, n.s), n.nb, FMul(FloatOf(-1), n.s))
         g == FoldLeft(visit, Geometry, nbs[p])
     IN sitePos' = g.site /\ segPos' = g.seg
  /\ accessedFreed' = accessedFreed \cup DeletedSites(Range(members[p]))
                        \cup DeletedSegs({ nbs[p][i].nb : i \in DOMAIN nbs[p] })
                        \cup DeletedSites(UNION { Range(members[nbs[p][i].nb]) : i \in DOMAIN nbs[p] })
  /\ UNCHANGED <<seg, members, nbs, site, freedTwice>>

\* CalcIsCharged, CalcIsPolarizable: _is_charged (_is_polarizable) set
\* when any site is charged (polarizable).  The flags are abstracted away;
\* what is kept is that every site is dereferenced.
CalcIsCharged(p) ==
  /\ Live(p) /\ Call
  /\ accessedFreed' = accessedFreed \cup DeletedSites(Range(members[p]))
  /\ UNCHANGED <<seg, members, nbs, segPos, site, sitePos, freedTwice>>
CalcIsPolarizable(p) == CalcIsCharged(p)

\* WriteMPS: throw if the file cannot be opened; otherwise write the
\* header with CalcTotQ() and one line per site.
WriteMPS(p) ==
  /\ Live(p) /\ Call
  /\ \E opened \in BOOLEAN :
       accessedFreed' = IF opened THEN accessedFreed \cup DeletedSites(Range(members[p]))
                                  ELSE accessedFreed
  /\ UNCHANGED <<seg, members, nbs, segPos, site, sitePos, freedTwice>>

Init ==
  /\ seg = [p \in Segs |-> "free"]
  /\ members = [p \in Segs |-> <<>>]
  /\ nbs = [p \in Segs |-> <<>>]
  /\ segPos = [p \in Segs |-> Zero]
  /\ site = [a \in Sites |-> "free"]
  /\ sitePos = [a \in Sites |-> Zero]
  /\ freedTwice = {} /\ accessedFreed = {}
  /\ calls = 0

Next ==
  \/ NewAPolarSite
  \/ \E p \in Segs :
       \/ PolarSegFromSites(p)
       \/ \E templ \in Segs : PolarSegCopy(p, templ)
       \/ DeletePolarSeg(p)
       \/ AddPolarNb(p)
       \/ ClearPolarNbs(p)
       \/ CalcPos(p)
       \/ Translate(p)
       \/ PrintPolarNbPDB(p)
       \/ CalcIsCharged(p)
       \/ CalcIsPolarizable(p)
       \/ WriteMPS(p)

Spec == Init /\ [][Next]_vars

(***************************************************************************)
(* Properties.                                                             *)
(***************************************************************************)
TypeOK ==
  /\ seg \in [Segs -> Heap] /\ site \in [Sites -> Heap]
  /\ members \in [Segs -> Seq(Sites)]
  /\ \A p \in Segs : \A a \in Range(members[p]) : site[a] # "free"
  /\ \A p \in Segs : \A i \in DOMAIN nbs[p] : nbs[p][i].nb \in Segs /\ nbs[p][i].s \in Shifts
  /\ freedTwice \subseteq Sites /\ accessedFreed \subseteq Sites \cup Segs
  /\ calls \in 0 .. MaxCalls

\* Ownership of the APolarSites: every site belongs to at most one live
\* segment, every site of a live segment is live, no call reads a deleted
\* site and no destructor deletes a site twice, whatever the order of
\* constructions, copies and destructions.  The copy constructor's deep
\* copy is what keeps this.
SitesSingleOwner ==
  /\ freedTwice = {}
  /\ accessedFreed \cap Sites = {}
  /\ \A p, q \in Segs : Live(p) /\ Live(q) /\ p # q =>
       Range(members[p]) \cap Range(members[q]) = {}
  /\ \A p \in Segs : Live(p) => \A a \in Range(members[p]) : site[a] = "live"

\* PolarNb holds a raw pointer: no call of a live segment dereferences a
\* neighbour segment that was deleted after it was added.
NoDanglingNeighbour == accessedFreed \cap Segs = {}

\* PrintPolarNbPDB writes a file: the positions of every segment and site
\* are the same after it as before (it translates each neighbour by s and
\* back by -s).
PrintKeepsGeometry ==
  [][\A p \in Segs : PrintPolarNbPDB(p) => UNCHANGED <<sitePos, segPos>>]_vars
====
