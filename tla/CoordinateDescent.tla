------------------------- MODULE CoordinateDescent -------------------------
(***************************************************************************)
(* The coordinate descent solvers of liblinear that shrink by a swap:      *)
(* solve_l2r_l1l2_svr ("svr"), solve_l1r_l2_svc ("l1svc"), solve_l1r_lr    *)
(* ("l1lr") and, without shrinking, solve_l2r_lr_dual ("lrdual").          *)
(*                                                                         *)
(* A coefficient is abstracted to where it is: below zero, zero, above     *)
(* zero, or at its bound (-2, 2, for "svr").  A gradient is any of a few   *)
(* numbers G; violations are computed from it as the code does, with the   *)
(* half width P of the dead zone.  A step of a line search is a number of  *)
(* units that is halved.                                                   *)
(***************************************************************************)
EXTENDS Integers, Sequences, FiniteSets, FiniteSetsExt

CONSTANTS
  N,              \* coordinates
  Gradients, P,   \* the gradients met, and p (1 for the L1-regularized ones)
  Small,          \* eps * Gnorm1_init
  l,              \* instances
  max_iter, max_newton_iter, max_num_linesearch

VARIABLES
  solver, L1Loss, \* which solver, and for svr whether the loss is L1 (bounded)
  level,          \* "main", or in solve_l1r_lr "outer" and "qp"
  phase,          \* "shuffle", "sweep", "search", "linesearch", "done", "exhausted"
  index, active_size, QP_active_size, s,
  iter, newton_iter,
  w, wpd,         \* where the coefficients are; wpd in solve_l1r_lr only
  Gmax_old, Gmax_new, Gnorm1_new,   \* of the level of the sweep
  Gmax_outer,     \* solve_l1r_lr: Gmax_new of the outer sweep, while the level is "qp"
  d, applied, num_linesearch,   \* line search: the step, and the one that b has
  dist, xTd,      \* solve_l1r_lr: units of wpd - w, and those that xTd stands for
  exp_fits,       \* solve_l1r_lr: exp_wTx is that of w
  given_up,       \* history: a line search of solve_l1r_lr was given up
  seen, begun     \* history: looks per coordinate, and those active at the start of the sweep

searchVars  == <<d, applied, num_linesearch>>
newtonVars  == <<wpd, Gmax_outer, dist, xTd, exp_fits, given_up>>
descentVars == <<solver, L1Loss, level, phase, index, active_size, QP_active_size, s, iter, newton_iter,
                 w, Gmax_old, Gmax_new, Gnorm1_new, searchVars, newtonVars, seen, begun>>

INF   == 1000
Units == 2^max_num_linesearch
Coord == 1 .. N
Swap(f, i, j) == [f EXCEPT ![i] = f[j], ![j] = f[i]]
Prefix(k)     == {index[i] : i \in 1 .. k}
Abs(x)        == IF x < 0 THEN -x ELSE x

\* The size the sweep goes by.
Size == IF level = "qp" THEN QP_active_size ELSE active_size

\* swap(index[i], index[i + rand_int(size - i)]) for every i: any order of the
\* first Size positions.
Shuffles ==
  {f \in [Coord -> Coord] :
     /\ \A i \in Coord : i > Size => f[i] = index[i]
     /\ {f[i] : i \in 1 .. Size} = Prefix(Size)}

-----------------------------------------------------------------------------
(* Where each solver starts. *)

\* All coefficients are zero; L2 loss has no upper bound.
SvrInit == solver = "svr" /\ L1Loss \in BOOLEAN /\ level = "main" /\ w = [j \in Coord |-> 0]

\* b = 1 for all instances is that of w = 0.
L1SvcInit == solver = "l1svc" /\ L1Loss = FALSE /\ level = "main" /\ w = [j \in Coord |-> 0]

\* exp_wTx is computed from w, and wpd = w.
L1LrInit == solver = "l1lr" /\ L1Loss = FALSE /\ level = "outer" /\ w = [j \in Coord |-> 0]

\* alpha starts inside (0, C).
LrDualInit == solver = "lrdual" /\ L1Loss = FALSE /\ level = "main" /\ w = [j \in Coord |-> 1]

DInit ==
  /\ SvrInit \/ L1SvcInit \/ L1LrInit \/ LrDualInit
  /\ phase = "shuffle"
  /\ index = [i \in Coord |-> i] /\ active_size = N /\ QP_active_size = N
  /\ s = 1 /\ iter = 0 /\ newton_iter = 0
  /\ wpd = w /\ Gmax_old = INF /\ Gmax_new = 0 /\ Gnorm1_new = 0
  /\ d = 0 /\ applied = 0 /\ num_linesearch = 0
  /\ Gmax_outer = 0 /\ dist = 0 /\ xTd = 0 /\ exp_fits = TRUE /\ given_up = FALSE
  /\ seen = [i \in Coord |-> 0] /\ begun = Coord

-----------------------------------------------------------------------------
(* A sweep. *)

NewSweep ==
  /\ s' = 1 /\ Gmax_new' = 0 /\ Gnorm1_new' = 0 /\ seen' = [i \in Coord |-> 0]
  /\ phase' = "sweep"
  /\ UNCHANGED <<solver, L1Loss, level, iter, newton_iter, w, Gmax_old, searchVars, newtonVars>>

Shuffle ==
  /\ phase = "shuffle" /\ level \in {"main", "qp"} /\ iter < max_iter
  /\ index' \in Shuffles /\ begun' = Prefix(Size)
  /\ NewSweep /\ UNCHANGED <<active_size, QP_active_size>>

\* The outer sweep of solve_l1r_lr takes all coordinates in the order they are.
OuterSweep ==
  /\ phase = "shuffle" /\ level = "outer" /\ newton_iter < max_newton_iter
  /\ active_size' = N /\ begun' = Coord
  /\ NewSweep /\ UNCHANGED <<index, QP_active_size>>

\* The bound on sweeps is reached: solve_l1r_lr goes on with its line search.
TooManySweeps ==
  /\ phase = "shuffle"
  /\ \/ level = "main" /\ iter >= max_iter /\ phase' = "exhausted"
     \/ level = "qp" /\ iter >= max_iter /\ phase' = "linesearch"
     \/ level = "outer" /\ newton_iter >= max_newton_iter /\ phase' = "exhausted"
  /\ UNCHANGED <<solver, L1Loss, level, index, active_size, QP_active_size, s, iter, newton_iter, w,
                 Gmax_old, Gmax_new, Gnorm1_new, searchVars, newtonVars, seen, begun>>

\* How far a coordinate violates optimality, or -1 if it is so far from moving
\* that it is shrunk: at zero between Gn and Gp, with m = Gmax_old.
L1Verdict(x, G, m) ==
  CASE x = 0 /\ G + P < 0                                -> -(G + P)
    [] x = 0 /\ G - P > 0                                -> G - P
    [] x = 0 /\ G \in -P .. P /\ l * (G + P) > m /\ l * (G - P) < -m -> -1
    [] x = 0 /\ G \in -P .. P /\ ~(l * (G + P) > m /\ l * (G - P) < -m) -> 0
    [] x > 0                                             -> Abs(G + P)
    [] x < 0                                             -> Abs(G - P)

\* The same for svr, where a coefficient may also be at a bound.
SvrVerdict(x, G, m) ==
  CASE x = 2                -> IF G + P > 0 THEN G + P ELSE IF G + P < -m THEN -1 ELSE 0
    [] x = -2               -> IF G - P < 0 THEN P - G ELSE IF G - P > m THEN -1 ELSE 0
    [] x = 0 /\ G + P < 0   -> -(G + P)
    [] x = 0 /\ G - P > 0   -> G - P
    [] x = 0 /\ G \in -P .. P -> IF G + P > m /\ G - P < -m THEN -1 ELSE 0
    [] x = 1                -> Abs(G + P)
    [] x = -1               -> Abs(G - P)

\* Where a Newton step may take it: -Gp / H keeps or makes it positive, -Gn / H
\* negative, and else it becomes zero; without violation it stays.
NewtonTo(x, G, v) ==
  IF v = 0 THEN {x}
  ELSE {to \in -1 .. 1 : \/ to = 1 /\ (x > 0 \/ G + P < 0)
                         \/ to = -1 /\ (x < 0 \/ G - P > 0)
                         \/ to = 0 /\ ((x > 0 /\ G + P > 0) \/ (x < 0 /\ G - P < 0))}

\* min(max(beta[i] + d, -upper_bound), upper_bound)
Clamped(x) == IF L1Loss /\ x \in {-1, 1} THEN {x, 2 * x} ELSE {x}

Look      == seen' = [seen EXCEPT ![index[s]] = @ + 1]
Violate(v) == Gmax_new' = Max({Gmax_new, v}) /\ Gnorm1_new' = Min({Gnorm1_new + v, Small + 1})

\* The coordinate goes behind the active ones, and its position is looked at again.
ShrinkSkipping ==
  /\ Look
  /\ index' = Swap(index, s, Size) /\ s' = s + 1
  /\ IF level = "qp" THEN QP_active_size' = QP_active_size - 1 /\ UNCHANGED active_size
                     ELSE active_size' = active_size - 1 /\ UNCHANGED QP_active_size
  /\ UNCHANGED <<phase, w, wpd, dist, xTd, Gmax_new, Gnorm1_new, searchVars>>

Shrink ==
  /\ Look
  /\ index' = Swap(index, s, Size) /\ UNCHANGED s
  /\ IF level = "qp" THEN QP_active_size' = QP_active_size - 1 /\ UNCHANGED active_size
                     ELSE active_size' = active_size - 1 /\ UNCHANGED QP_active_size
  /\ UNCHANGED <<phase, w, wpd, dist, xTd, Gmax_new, Gnorm1_new, searchVars>>

InSweep(which, at) ==
  /\ solver = which /\ level = at /\ phase = "sweep" /\ s <= Size
  /\ UNCHANGED <<solver, L1Loss, level, iter, newton_iter, Gmax_old, Gmax_outer, exp_fits, given_up, begun>>

Advance == s' = s + 1 /\ UNCHANGED <<phase, index, active_size, QP_active_size>>

\* solve_l2r_l1l2_svr: measure, shrink or move one coordinate.
SvrExamine(G) ==
  LET x == w[index[s]]
      v == SvrVerdict(x, G, Gmax_old)
  IN
  /\ InSweep("svr", "main")
  /\ \/ v < 0 /\ Shrink
     \/ /\ v >= 0 /\ Look /\ Violate(v) /\ Advance
        /\ \E to \in NewtonTo(x, G, v) : \E c \in Clamped(to) : w' = [w EXCEPT ![index[s]] = c]
        /\ UNCHANGED <<searchVars, wpd, dist, xTd>>

\* solve_l2r_lr_dual: an inner Newton method keeps alpha inside (0, C).
LrDualExamine(G) ==
  /\ InSweep("lrdual", "main")
  /\ Look /\ Violate(Abs(G)) /\ Advance
  /\ UNCHANGED <<w, searchVars, wpd, dist, xTd>>

\* solve_l1r_l2_svc: the step is found by a line search.
L1SvcExamine(G) ==
  LET x == w[index[s]]
      v == L1Verdict(x, G, Gmax_old)
  IN
  /\ InSweep("l1svc", "main")
  /\ \/ v < 0 /\ Shrink
     \/ /\ v = 0 /\ Look /\ Violate(v) /\ Advance
        /\ UNCHANGED <<w, searchVars, wpd, dist, xTd>>
     \/ /\ v > 0 /\ Look /\ Violate(v) /\ phase' = "search"
        /\ \E to \in NewtonTo(x, G, v) : w' = [w EXCEPT ![index[s]] = to]
        /\ d' = Units /\ applied' = 0 /\ num_linesearch' = 0
        /\ UNCHANGED <<s, index, active_size, QP_active_size, wpd, dist, xTd>>

\* One round of it.  b is moved from the last step to this one; w[j] moves by
\* the step once one is good enough.
TryStep(good) ==
  /\ phase = "search" /\ num_linesearch < max_num_linesearch
  /\ applied' = d
  /\ IF good THEN phase' = "sweep" /\ s' = s + 1 /\ UNCHANGED <<d, num_linesearch>>
             ELSE d' = d \div 2 /\ num_linesearch' = num_linesearch + 1 /\ UNCHANGED <<phase, s>>
  /\ UNCHANGED <<solver, L1Loss, level, index, active_size, QP_active_size, iter, newton_iter, w,
                 Gmax_old, Gmax_new, Gnorm1_new, newtonVars, seen, begun>>

\* No step was good: w[j] moves by the last one all the same, and b is
\* computed again from w.
GiveUp ==
  /\ phase = "search" /\ num_linesearch >= max_num_linesearch
  /\ phase' = "sweep" /\ s' = s + 1 /\ applied' = d
  /\ UNCHANGED <<solver, L1Loss, level, index, active_size, QP_active_size, iter, newton_iter, w,
                 Gmax_old, Gmax_new, Gnorm1_new, d, num_linesearch, newtonVars, seen, begun>>

\* The outer sweep of solve_l1r_lr measures and shrinks.
OuterExamine(G) ==
  LET v == L1Verdict(w[index[s]], G, Gmax_old) IN
  /\ InSweep("l1lr", "outer")
  /\ \/ v < 0 /\ Shrink
     \/ v >= 0 /\ Look /\ Violate(v) /\ Advance /\ UNCHANGED <<w, searchVars, wpd, dist, xTd>>

\* Its quadratic problem moves wpd, and xTd along.
QPExamine(G) ==
  LET x == wpd[index[s]]
      v == L1Verdict(x, G, Gmax_old)
  IN
  /\ InSweep("l1lr", "qp")
  /\ \/ v < 0 /\ Shrink
     \/ /\ v >= 0 /\ Look /\ Violate(v) /\ Advance
        /\ \E to \in NewtonTo(x, G, v) : wpd' = [wpd EXCEPT ![index[s]] = to]
        /\ IF v = 0 THEN UNCHANGED <<dist, xTd>>
           ELSE LET z == Units - xTd IN dist' = dist + z /\ xTd' = xTd + z
        /\ UNCHANGED <<w, searchVars>>

-----------------------------------------------------------------------------
(* The end of a sweep. *)

\* solve_l2r_lr_dual goes by the largest gradient, the others by their sum.
WithinEps == (IF solver = "lrdual" THEN Gmax_new ELSE Gnorm1_new) <= Small

SweepOver(at) ==
  /\ phase = "sweep" /\ s > Size /\ level = at
  /\ UNCHANGED <<solver, L1Loss, index, s, newton_iter, w, Gmax_new, Gnorm1_new, searchVars, wpd, dist,
                 exp_fits, given_up, seen, begun>>

\* Small violations end the run if no coordinate is shrunk; else all come back
\* and none may be shrunk in the next sweep.
EndSweep ==
  /\ SweepOver("main") /\ iter' = iter + 1
  /\ CASE WithinEps /\ active_size = N ->
            phase' = "done" /\ UNCHANGED <<active_size, Gmax_old>>
       [] WithinEps /\ active_size # N ->
            phase' = "shuffle" /\ active_size' = N /\ Gmax_old' = INF
       [] ~WithinEps ->
            phase' = "shuffle" /\ Gmax_old' = Gmax_new /\ UNCHANGED active_size
  /\ UNCHANGED <<level, QP_active_size, Gmax_outer, xTd>>

\* solve_l1r_lr: stop, or solve the quadratic problem on what is left active.
EndOuter ==
  /\ SweepOver("outer")
  /\ IF WithinEps
     THEN phase' = "done" /\ UNCHANGED <<level, iter, QP_active_size, Gmax_old, Gmax_outer, xTd>>
     ELSE /\ phase' = "shuffle" /\ level' = "qp" /\ iter' = 0
          /\ QP_active_size' = active_size /\ Gmax_old' = INF /\ Gmax_outer' = Gmax_new /\ xTd' = 0
  /\ UNCHANGED active_size

EndQP ==
  /\ SweepOver("qp") /\ iter' = iter + 1
  /\ CASE WithinEps /\ QP_active_size = active_size ->
            phase' = "linesearch" /\ UNCHANGED <<QP_active_size, Gmax_old>>
       [] WithinEps /\ QP_active_size # active_size ->
            phase' = "shuffle" /\ QP_active_size' = active_size /\ Gmax_old' = INF
       [] ~WithinEps ->
            phase' = "shuffle" /\ Gmax_old' = Gmax_new /\ UNCHANGED QP_active_size
  /\ UNCHANGED <<level, active_size, Gmax_outer, xTd>>

-----------------------------------------------------------------------------
(* The line search of solve_l1r_lr over all of wpd, after k halvings. *)

Halved(x, k) == x \div 2^k

\* Where (w[j] + wpd[j]) / 2, taken k times, may be.
Between(j, k) ==
  CASE k = 0 \/ w[j] \in {0, wpd[j]}        -> {wpd[j]}
    [] k > 0 /\ wpd[j] = 0 /\ w[j] # 0       -> {w[j]}
    [] k > 0 /\ w[j] * wpd[j] < 0             -> {w[j], 0, wpd[j]}
Halfway(k) == {f \in [Coord -> -1 .. 1] : \A j \in Coord : f[j] \in Between(j, k)}

NextNewton ==
  /\ newton_iter' = newton_iter + 1 /\ level' = "outer" /\ phase' = "shuffle"
  /\ Gmax_old' = Gmax_outer
  /\ UNCHANGED <<solver, L1Loss, index, active_size, QP_active_size, s, iter, Gmax_new, Gnorm1_new,
                 Gmax_outer, searchVars, seen, begun>>

\* Good enough: w becomes wpd, and exp_wTx is multiplied by exp(xTd), which is
\* that of w if xTd stood for all of wpd - w.
Accept(k) ==
  /\ phase = "linesearch" /\ k < max_num_linesearch
  /\ wpd' \in Halfway(k) /\ w' = wpd' /\ xTd' = Halved(xTd, k) /\ dist' = 0
  /\ exp_fits' = (exp_fits /\ dist = xTd)
  /\ NextNewton /\ UNCHANGED given_up

\* None was: w stays, wpd remains a little way off, and exp_wTx is computed
\* again by loops that share `x` and add to exp_wTx from several threads.
NewtonGiveUp(raced) ==
  /\ phase = "linesearch" /\ wpd' \in Halfway(max_num_linesearch)
  /\ dist' = Halved(dist, max_num_linesearch) /\ xTd' = Halved(xTd, max_num_linesearch)
  /\ exp_fits' = ~raced /\ given_up' = TRUE
  /\ NextNewton /\ UNCHANGED w

DNext ==
  \/ Shuffle \/ OuterSweep \/ TooManySweeps
  \/ \E G \in Gradients : \/ SvrExamine(G) \/ LrDualExamine(G) \/ L1SvcExamine(G)
                          \/ OuterExamine(G) \/ QPExamine(G)
  \/ \E good \in BOOLEAN : TryStep(good)
  \/ GiveUp \/ EndSweep \/ EndOuter \/ EndQP
  \/ \E k \in 0 .. max_num_linesearch - 1 : Accept(k)
  \/ \E raced \in BOOLEAN : NewtonGiveUp(raced)

-----------------------------------------------------------------------------
(* Properties. *)

\* Swapping a coordinate out and looking again at its position neither skips
\* nor repeats one: a sweep looks once at each coordinate active at its start.
LooksOnce ==
  /\ Prefix(N) = Coord
  /\ \A i \in Coord : seen[i] <= (IF i \in begun THEN 1 ELSE 0)
  /\ (phase = "sweep" /\ s > Size) => \A i \in begun : seen[i] = 1

\* A solver that stops before its bound has just swept over all coordinates, and
\* found them violating by no more than eps together.
StopsOnAll == phase = "done" => begun = Coord /\ WithinEps

\* What is cached belongs to the point: between coordinates b has the step that
\* w[j] was given.  In solve_l1r_lr exp_wTx is that of w, wpd is w where the outer
\* sweep measures and xTd stands for wpd - w where the quadratic problem is solved;
\* the last three only until a line search is given up: then wpd stays a little way
\* from w, and exp_wTx may be wrong (linear.cpp:2236-2274).
CacheFits ==
  /\ phase = "sweep" => applied = d
  /\ ~given_up => /\ exp_fits
                  /\ level = "outer" => wpd = w /\ dist = 0
                  /\ level = "qp" => dist = xTd
=============================================================================
