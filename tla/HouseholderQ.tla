----------------------------- MODULE HouseholderQ -----------------------------
(***************************************************************************)
(* The constrained solve of FmatchAccumulateData (src/unnamed/part_000,    *)
(* lines 239-339): gsl_linalg_QR_decomp factors B^T = Q R and leaves the   *)
(* reflectors packed in B_t and tau; the code rebuilds Q from them, keeps  *)
(* the last col_cntr/2 columns of A*Q as A2, solves for the free           *)
(* coefficients and maps them back with _x = Q * [0; x].                   *)
(*                                                                         *)
(* Arithmetic is exact.  A reflector Q_k = I - tau_k v v^T with            *)
(* tau_k = num/den is kept as the integer matrix den*I - num*v v^T, so     *)
(* every matrix is an integer multiple of the real one and a product of    *)
(* them is a multiple of the real product: zero and equality up to scale   *)
(* are decided exactly.  Indices are 0-based as in the code.               *)
(***************************************************************************)
EXTENDS Integers, FiniteSetsExt

CONSTANTS
  col_cntr,     \* columns of B_constr: 2(n+1) per spline
  line_cntr,    \* rows of B_constr: n+1 per spline
  Tails,        \* values a packed reflector entry below the diagonal takes
  RValues,      \* values an entry of R on or above the diagonal takes
  XValues       \* values a free coefficient of the least-squares solve takes

ASSUME col_cntr = 2 * line_cntr /\ line_cntr \in Nat \ {0}

Idx(r) == 0 .. r - 1
Matrix(r, c, f(_, _)) == [p \in Idx(r) \X Idx(c) |-> f(p[1], p[2])]
Identity(r) == Matrix(r, r, LAMBDA i, j : IF i = j THEN 1 ELSE 0)
MatMul(P, R, inner) ==
  LET rows == { p[1] : p \in DOMAIN P }
      cols == { p[2] : p \in DOMAIN R }
  IN [p \in rows \X cols |-> MapThenSumSet(LAMBDA l : P[p[1], l] * R[l, p[2]], Idx(inner))]
Trans(P) == [p \in { <<q[2], q[1]>> : q \in DOMAIN P } |-> P[p[2], p[1]]]
IsZero(P) == \A p \in DOMAIN P : P[p] = 0

VARIABLES
  B_t,     \* the col_cntr x line_cntr matrix gsl_linalg_QR_decomp leaves
  tau,     \* its tau vector, each [num, den]
  Q,       \* the matrix Q of the code, as an integer multiple
  k,       \* the loop counter of the reconstruction
  x,       \* _x, as an integer multiple
  pc       \* "loop", "solve", "done"

vars == <<B_t, tau, Q, k, x, pc>>

(***************************************************************************)
(* The packed form of gsl_linalg_QR_decomp (gsl, not in this repository):  *)
(* reflector k has v(k) = 1, zeros above and B_t(i, k) below; R is the    *)
(* upper triangle of B_t; tau_k = 2 / v^T v, or 0 for an empty tail.       *)
(***************************************************************************)
Reflector(Bt, kk) ==
  [i \in Idx(col_cntr) |-> IF i < kk THEN 0 ELSE IF i = kk THEN 1 ELSE Bt[i, kk]]
TauOf(Bt, kk) ==
  LET v == Reflector(Bt, kk)
      vv == MapThenSumSet(LAMBDA i : v[i] * v[i], Idx(col_cntr))
  IN IF vv = 1 THEN [num |-> 0, den |-> 1] ELSE [num |-> 2, den |-> vv]
RofBt(Bt) == Matrix(col_cntr, line_cntr, LAMBDA i, j : IF i <= j THEN Bt[i, j] ELSE 0)
PackedInputs ==
  { Bt \in [Idx(col_cntr) \X Idx(line_cntr) -> Tails \cup RValues] :
      \A p \in DOMAIN Bt : IF p[1] <= p[2] THEN Bt[p] \in RValues ELSE Bt[p] \in Tails }

\* Q_k = I - tmp * outer_prod(v, v), scaled by the denominator of tmp.
Q_k(kk) ==
  LET v == Reflector(B_t, kk) IN
  Matrix(col_cntr, col_cntr,
         LAMBDA i, j : tau[kk].den * (IF i = j THEN 1 ELSE 0) - tau[kk].num * v[i] * v[j])

\* The meaning of the packed form: B^T = Q_0 Q_1 ... Q_(line_cntr-1) R.
RECURSIVE ReflectorProduct(_)
ReflectorProduct(kk) ==
  IF kk = line_cntr THEN Identity(col_cntr)
  ELSE MatMul(Q_k(kk), ReflectorProduct(kk + 1), col_cntr)
Bconstr == Trans(MatMul(ReflectorProduct(0), RofBt(B_t), col_cntr))

Init ==
  /\ B_t \in PackedInputs
  /\ tau = [kk \in Idx(line_cntr) |-> TauOf(B_t, kk)]
  /\ Q = Identity(col_cntr)
  /\ k = line_cntr
  /\ x = [i \in Idx(col_cntr) |-> 0]
  /\ pc = "loop"

\* Mutant of the loop: Q_k multiplied from the left.
LoopStep_leftMul ==
  /\ pc = "loop" /\ k > 0
  /\ Q' = MatMul(Q_k(k - 1), Q, col_cntr)
  /\ k' = k - 1
  /\ UNCHANGED <<B_t, tau, x, pc>>

\* for (k = line_cntr; k > 0; k--): build v and Q_k, Q = prec_prod(Q, Q_k).
LoopStep ==
  /\ pc = "loop" /\ k > 0
  /\ Q' = MatMul(Q, Q_k(k - 1), col_cntr)
  /\ k' = k - 1
  /\ UNCHANGED <<B_t, tau, x, pc>>

\* Q = trans(Q) once the loop has ended.
Transpose ==
  /\ pc = "loop" /\ k = 0
  /\ Q' = Trans(Q)
  /\ pc' = "solve"
  /\ UNCHANGED <<B_t, tau, k, x>>

\* Mutant of Solve: the zeroing loop stops one short (size/2 - 1).
Solve_zeroOneLess ==
  /\ pc = "solve"
  /\ \E xfree \in [Idx(col_cntr - col_cntr \div 2 + 1) -> XValues] :
       LET xs == [i \in Idx(col_cntr) |->
                    IF i < col_cntr \div 2 - 1 THEN 0 ELSE xfree[i - col_cntr \div 2 + 1]]
       IN x' = [i \in Idx(col_cntr) |->
                  MapThenSumSet(LAMBDA j : Q[i, j] * xs[j], Idx(col_cntr))]
  /\ pc' = "done"
  /\ UNCHANGED <<B_t, tau, Q, k>>

\* A2 is the last _A.size2()/2 columns of _A*Q; QR_lssolve gives its free
\* coefficients (any values here); _x is zero in the first half, the free
\* coefficients in the second, and then _x = prec_prod(Q, _x).
Solve ==
  /\ pc = "solve"
  /\ \E xfree \in [Idx(col_cntr - col_cntr \div 2) -> XValues] :
       LET xs == [i \in Idx(col_cntr) |->
                    IF i < col_cntr \div 2 THEN 0 ELSE xfree[i - col_cntr \div 2]]
       IN x' = [i \in Idx(col_cntr) |->
                  MapThenSumSet(LAMBDA j : Q[i, j] * xs[j], Idx(col_cntr))]
  /\ pc' = "done"
  /\ UNCHANGED <<B_t, tau, Q, k>>

Done == pc = "done" /\ UNCHANGED vars

Next == LoopStep \/ Transpose \/ Solve \/ Done

Spec == Init /\ [][Next]_vars

(***************************************************************************)
(* Properties.                                                             *)
(***************************************************************************)
\* The matrix the code rebuilds from the packed reflectors, multiplying
\* from the last to the first and then transposing, is the Q of
\* B^T = Q R, the product Q_0 Q_1 ... Q_(line_cntr-1) in that order.
QIsReflectorProduct ==
  pc \in {"solve", "done"} => Q = ReflectorProduct(0)

\* Every solution the constrained solve returns satisfies the smoothing
\* conditions exactly: B_constr * _x = 0, whatever the free coefficients,
\* because the last col_cntr/2 columns of Q span the null space of B_constr.
SolutionSatisfiesConstraints ==
  pc = "done" => IsZero(MatMul(Bconstr, [p \in Idx(col_cntr) \X {0} |-> x[p[1]]], col_cntr))
====
