------------------------------- MODULE Losses -------------------------------
(***************************************************************************)
(* The functions liblinear minimizes with TRON: l2r_lr_fun ("lr"),         *)
(* l2r_l2_svc_fun ("svc") and l2r_l2_svr_fun ("svr"), and the sparse       *)
(* vectors they work on.  Numbers are integers: f is twice the objective,  *)
(* and the logistic function is a table in tenths.                         *)
(***************************************************************************)
EXTENDS Integers, Sequences, FiniteSets, FiniteSetsExt, SequencesExt

CONSTANTS
  Features,     \* the features are 1 .. Features
  X,            \* instance -> its row: a sequence of <<index, value>>
  Y, C,         \* instance -> label, cost
  p             \* the insensitive zone of svr

Insts == DOMAIN X
Feats == 1 .. Features

\* The running total of a loop over s, and what it ends with.
Sums(s) ==
  LET sum[n \in 0 .. Len(s)] == IF n = 0 THEN 0 ELSE sum[n - 1] + s[n] IN sum
SumSeq(s) == Sums(s)[Len(s)]

(* sparse_operator *)
nrm2_sq(x)    == SumSeq([k \in DOMAIN x |-> x[k][2] * x[k][2]])
dot(s, x)     == SumSeq([k \in DOMAIN x |-> s[x[k][1]] * x[k][2]])
axpy(a, x, y) == FoldLeft(LAMBDA v, e : [v EXCEPT ![e[1]] = @ + a * e[2]], y, x)

Zero  == [j \in Feats |-> 0]
sq(w) == SumSeq([j \in DOMAIN w |-> w[j] * w[j]])

Xv(v) == [i \in Insts |-> dot(v, X[i])]

\* Sum over the positions k of the sequence I of v[k] * X[I[k]].
subXTv(v, I) == FoldLeft(LAMBDA acc, k : axpy(v[k], X[I[k]], acc), Zero, [k \in 1 .. Len(I) |-> k])

-----------------------------------------------------------------------------
(* Logistic loss.  Soft(m) is log(1 + exp(-m)) for m >= 0, Sigma(m) is *)
(* 1 / (1 + exp(-m)), both in tenths.                                   *)

Soft(m)  == IF m > 2 THEN 0 ELSE <<7, 3, 1>>[m + 1]
Sigma(m) == IF m > 2 THEN 10 ELSE IF m < -2 THEN 0 ELSE <<1, 3, 5, 7, 9>>[m + 3]

LrFun(w) ==
  LET z == Xv(w)
      loss(i) == LET yz == Y[i] * z[i]
                 IN  C[i] * (IF yz >= 0 THEN Soft(yz) ELSE -10 * yz + Soft(-yz))
  IN  [f |-> 10 * sq(w) + 2 * SumSeq([i \in Insts |-> loss(i)]), z |-> z]

\* z is used up: it becomes the factors of the gradient.
LrGrad(w, z) ==
  LET sg == [i \in Insts |-> Sigma(Y[i] * z[i])]
      zz == [i \in Insts |-> C[i] * (sg[i] - 10) * Y[i]]
      XT == subXTv(zz, [k \in Insts |-> k])
  IN  [g |-> [j \in Feats |-> 10 * w[j] + XT[j]], z |-> zz,
       H |-> [i \in Insts |-> sg[i] * (10 - sg[i])]]

LrDiagH(D) ==
  FoldLeft(LAMBDA M, i : FoldLeft(LAMBDA m, e : [m EXCEPT ![e[1]] = @ + e[2] * e[2] * C[i] * D[i]],
                                  M, X[i]),
           [j \in Feats |-> 100], [k \in Insts |-> k])

LrHv(D, s) ==
  LET XT == subXTv([i \in Insts |-> C[i] * D[i] * dot(s, X[i])], [k \in Insts |-> k])
  IN  [j \in Feats |-> 100 * s[j] + XT[j]]

-----------------------------------------------------------------------------
(* Squared hinge loss.  I is the list of the instances within the margin. *)

SvcFun(w) ==
  LET z == [i \in Insts |-> Y[i] * dot(w, X[i])]
      loss(i) == IF 1 - z[i] > 0 THEN C[i] * (1 - z[i]) * (1 - z[i]) ELSE 0
  IN  [f |-> sq(w) + 2 * SumSeq([i \in Insts |-> loss(i)]), z |-> z]

\* The loop writes z[sizeI] for an instance i >= sizeI: z is compacted in place.
SvcGrad(w, z) ==
  LET pick(st, i) == IF st.z[i] < 1
                     THEN [z |-> [st.z EXCEPT ![Len(st.I) + 1] = C[i] * Y[i] * (st.z[i] - 1)],
                           I |-> Append(st.I, i)]
                     ELSE st
      st == FoldLeft(pick, [z |-> z, I |-> <<>>], [k \in Insts |-> k])
      XT == subXTv(st.z, st.I)
  IN  [g |-> [j \in Feats |-> w[j] + 2 * XT[j]], z |-> st.z, H |-> st.I]

SvcDiagH(I) ==
  FoldLeft(LAMBDA M, i : FoldLeft(LAMBDA m, e : [m EXCEPT ![e[1]] = @ + e[2] * e[2] * C[i] * 2],
                                  M, X[i]),
           [j \in Feats |-> 1], I)

SvcHv(I, s) ==
  LET XT == subXTv([k \in 1 .. Len(I) |-> C[I[k]] * dot(s, X[I[k]])], I)
  IN  [j \in Feats |-> s[j] + 2 * XT[j]]

-----------------------------------------------------------------------------
(* Squared epsilon-insensitive loss; get_diagH and Hv are those of svc. *)

Excess(d) == IF d < -p THEN d + p ELSE IF d > p THEN d - p ELSE 0

SvrFun(w) ==
  LET z == Xv(w)
      loss(i) == C[i] * Excess(z[i] - Y[i]) * Excess(z[i] - Y[i])
  IN  [f |-> sq(w) + 2 * SumSeq([i \in Insts |-> loss(i)]), z |-> z]

SvrGrad(w, z) ==
  LET pick(st, i) == LET d == st.z[i] - Y[i] IN
                     IF d < -p \/ d > p
                     THEN [z |-> [st.z EXCEPT ![Len(st.I) + 1] = C[i] * Excess(d)], I |-> Append(st.I, i)]
                     ELSE st
      st == FoldLeft(pick, [z |-> z, I |-> <<>>], [k \in Insts |-> k])
      XT == subXTv(st.z, st.I)
  IN  [g |-> [j \in Feats |-> w[j] + 2 * XT[j]], z |-> st.z, H |-> st.I]

-----------------------------------------------------------------------------
(* The virtual functions. *)

fun(kind, w)     == CASE kind = "lr" -> LrFun(w) [] kind = "svc" -> SvcFun(w) [] kind = "svr" -> SvrFun(w)
grad(kind, w, z) == CASE kind = "lr" -> LrGrad(w, z) [] kind = "svc" -> SvcGrad(w, z) [] kind = "svr" -> SvrGrad(w, z)
get_diagH(kind, H) == IF kind = "lr" THEN LrDiagH(H) ELSE SvcDiagH(H)
Hv(kind, H, s)     == IF kind = "lr" THEN LrHv(H, s) ELSE SvcHv(H, s)

-----------------------------------------------------------------------------
(* What they should be, at w, written without z and I. *)

Feature(i, j) == MapThenSumSet(LAMBDA k : IF X[i][k][1] = j THEN X[i][k][2] ELSE 0, DOMAIN X[i])
Margin(w, i)  == MapThenSumSet(LAMBDA j : w[j] * Feature(i, j), Feats)

\* The derivative of the loss of instance i by its margin, and the factor of its
\* second derivative.
Slope(kind, w, i) ==
  LET m == Margin(w, i) IN
  CASE kind = "lr"  -> C[i] * (Sigma(Y[i] * m) - 10) * Y[i]
    [] kind = "svc" -> IF Y[i] * m < 1 THEN 2 * C[i] * Y[i] * (Y[i] * m - 1) ELSE 0
    [] kind = "svr" -> 2 * C[i] * Excess(m - Y[i])
Curve(kind, w, i) ==
  LET m == Margin(w, i) IN
  CASE kind = "lr"  -> C[i] * Sigma(Y[i] * m) * (10 - Sigma(Y[i] * m))
    [] kind = "svc" -> IF Y[i] * m < 1 THEN 2 * C[i] ELSE 0
    [] kind = "svr" -> IF Excess(m - Y[i]) # 0 THEN 2 * C[i] ELSE 0

TrueGradient(kind, w) ==
  [j \in Feats |-> (IF kind = "lr" THEN 10 ELSE 1) * w[j]
                   + MapThenSumSet(LAMBDA i : Slope(kind, w, i) * Feature(i, j), Insts)]
TrueHv(kind, w, s) ==
  [j \in Feats |-> (IF kind = "lr" THEN 100 ELSE 1) * s[j]
                   + MapThenSumSet(LAMBDA i : Curve(kind, w, i) * Feature(i, j)
                                              * MapThenSumSet(LAMBDA m : s[m] * Feature(i, m), Feats),
                                   Insts)]
TrueDiagonal(kind, w) ==
  [j \in Feats |-> (IF kind = "lr" THEN 100 ELSE 1)
                   + MapThenSumSet(LAMBDA i : Curve(kind, w, i) * Feature(i, j) * Feature(i, j), Insts)]
=============================================================================
