---------------------------- MODULE TrustRegion ----------------------------
(***************************************************************************)
(* TRON of liblinear: a trust region Newton method.  The function object   *)
(* caches z (left by fun, used up by grad) and D or I (left by grad, used  *)
(* by Hv and get_diagH); fun is also called at points that are then        *)
(* rejected.                                                               *)
(*                                                                         *)
(* The step of trpcg and the reduction it predicts are any of a small set; *)
(* delta is a power of two.                                                *)
(***************************************************************************)
EXTENDS Losses

CONSTANTS
  Weights,            \* the values of a weight
  max_iter, MaxDelta  \* the largest power

VARIABLES
  kind, tpc,          \* "w0", "start", "cg", "test", "returned"
  wt, w_new, f, fnew, g, M,
  z, H,               \* the caches of the function object
  prered, reach_boundary,
  gnorm0, delta, delta_adjusted, titer

tronVars == <<kind, tpc, wt, w_new, f, fnew, g, M, z, H, prered, reach_boundary, gnorm0, delta,
              delta_adjusted, titer>>

Points == [Feats -> Weights]

TInit ==
  /\ kind \in {"lr", "svc", "svr"} /\ tpc = "w0"
  /\ wt \in Points /\ w_new = Zero /\ f = 0 /\ fnew = 0
  /\ g = Zero /\ M = Zero /\ z = [i \in Insts |-> 0] /\ H = <<>>
  /\ prered = 0 /\ reach_boundary = FALSE
  /\ gnorm0 = 0 /\ delta = MaxDelta - 1 /\ delta_adjusted = FALSE /\ titer = 1

\* The gradient norm at w = 0, for the stopping condition.
AtZero ==
  /\ tpc = "w0"
  /\ LET r == grad(kind, Zero, fun(kind, Zero).z) IN
       z' = r.z /\ H' = r.H /\ g' = r.g /\ gnorm0' = sq(r.g)
  /\ tpc' = "start"
  /\ UNCHANGED <<kind, wt, w_new, f, fnew, M, prered, reach_boundary, delta, delta_adjusted, titer>>

\* Converged: the gradient is small against the one at 0.
Converged(gr) == 100 * sq(gr) <= gnorm0

Start ==
  /\ tpc = "start"
  /\ LET r == fun(kind, wt)
         q == grad(kind, wt, r.z)
     IN  /\ f' = r.f /\ z' = q.z /\ H' = q.H /\ g' = q.g /\ M' = get_diagH(kind, q.H)
         /\ tpc' = IF Converged(q.g) THEN "returned" ELSE "cg"
  /\ UNCHANGED <<kind, wt, w_new, fnew, prered, reach_boundary, gnorm0, delta, delta_adjusted, titer>>

\* trpcg, external to what is cached: it calls Hv with H as it is.  A step in a
\* region of the smallest size changes nothing.
Trpcg(to, pre, edge) ==
  /\ tpc = "cg" /\ titer <= max_iter
  /\ delta = 0 => to = wt /\ pre = 0
  /\ w_new' = to
  /\ prered' = pre /\ reach_boundary' = edge
  /\ LET r == fun(kind, to) IN fnew' = r.f /\ z' = r.z
  /\ tpc' = "test"
  /\ UNCHANGED <<kind, wt, f, g, M, H, gnorm0, delta, delta_adjusted, titer>>

\* The new size, for a reduction of act where pre was predicted; alpha * sMnorm
\* is free, and on the first step the region shrinks to the step.
NewDelta(act) ==
  LET top == IF titer = 1 /\ ~delta_adjusted THEN 0 .. delta ELSE {delta} IN
  UNION {CASE 10000 * act < prered                             -> 0 .. Max({dl - 1, 0})
           [] 10000 * act >= prered /\ 4 * act < prered        -> Max({dl - 2, 0}) .. Max({dl - 1, 0})
           [] 4 * act >= prered /\ 4 * act < 3 * prered        -> Max({dl - 2, 0}) .. dl + 2
           [] 4 * act >= 3 * prered /\ reach_boundary          -> {Min({dl + 2, MaxDelta})}
           [] 4 * act >= 3 * prered /\ ~reach_boundary         -> dl .. dl + 2
         : dl \in top} \cap (0 .. MaxDelta)

\* "actred and prered too small", "prered <= 0": the loop is left.
TooSmall(act) == prered <= 0 \/ (act = 0 /\ prered = 0)

\* The step is taken or not.  Only when it is, grad is called: z is then still
\* that of fun(w_new).
TestUphill ==
  LET act == fnew - f IN
  /\ tpc = "test" /\ delta' \in NewDelta(act) /\ delta_adjusted' = TRUE
  /\ IF 10000 * act > prered
     THEN LET q == grad(kind, w_new, z) IN
          /\ titer' = titer + 1 /\ wt' = w_new /\ f' = fnew
          /\ g' = q.g /\ z' = q.z /\ H' = q.H /\ M' = get_diagH(kind, q.H)
          /\ tpc' = IF Converged(q.g) \/ TooSmall(act) THEN "returned" ELSE "cg"
     ELSE /\ UNCHANGED <<titer, wt, f, g, z, H, M>>
          /\ tpc' = IF TooSmall(act) THEN "returned" ELSE "cg"
  /\ UNCHANGED <<kind, w_new, fnew, prered, reach_boundary, gnorm0>>

Test ==
  LET act == f - fnew IN
  /\ tpc = "test" /\ delta' \in NewDelta(act) /\ delta_adjusted' = TRUE
  /\ IF 10000 * act > prered
     THEN LET q == grad(kind, w_new, z) IN
          /\ titer' = titer + 1 /\ wt' = w_new /\ f' = fnew
          /\ g' = q.g /\ z' = q.z /\ H' = q.H /\ M' = get_diagH(kind, q.H)
          /\ tpc' = IF Converged(q.g) \/ TooSmall(act) THEN "returned" ELSE "cg"
     ELSE /\ UNCHANGED <<titer, wt, f, g, z, H, M>>
          /\ tpc' = IF TooSmall(act) THEN "returned" ELSE "cg"
  /\ UNCHANGED <<kind, w_new, fnew, prered, reach_boundary, gnorm0>>

TooMany ==
  /\ tpc = "cg" /\ titer > max_iter /\ tpc' = "returned"
  /\ UNCHANGED <<kind, wt, w_new, f, fnew, g, M, z, H, prered, reach_boundary, gnorm0, delta,
                 delta_adjusted, titer>>

TNext ==
  \/ AtZero \/ Start \/ Test \/ TooMany
  \/ \E to \in Points, pre \in {-1, 0, 1, 8}, edge \in BOOLEAN : Trpcg(to, pre, edge)

-----------------------------------------------------------------------------
\* Whenever the conjugate gradients start, f, g, M and the cached D or I are
\* those of the current w, whatever points fun was called at in between; and
\* Hv multiplies by the Hessian at w.
CachesOfW ==
  tpc = "cg" =>
    /\ f = fun(kind, wt).f
    /\ g = TrueGradient(kind, wt)
    /\ M = TrueDiagonal(kind, wt)
    /\ \A j \in Feats : LET e == [Zero EXCEPT ![j] = 1] IN Hv(kind, H, e) = TrueHv(kind, wt, e)

\* A step that is taken lowers the objective, unless none was predicted, which
\* ends the run.
Descends == wt' # wt => f' < f \/ (prered <= 0 /\ tpc' = "returned")
=============================================================================
