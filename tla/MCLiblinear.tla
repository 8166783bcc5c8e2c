---------------------------- MODULE MCLiblinear ----------------------------
(***************************************************************************)
(* Model checking of liblinear.  One part of it runs in each behaviour;    *)
(* the parts share the variables that have the same name.                  *)
(***************************************************************************)
EXTENDS Integers, Sequences, FiniteSets, FiniteSetsExt

CONSTANTS
  N, Gradients, P, Small, l,
  max_iter, max_newton_iter, max_num_linesearch,
  L, init_candidates_size, max_candidates_size, BlockGrads, One, InitialEps1, Eps,
  XL, nr_class, Labels,
  Features, X, Y, C, p, Weights, MaxDelta, Threads,
  NrFold, MaxTry

VARIABLES
  part,
  solver, L1Loss, level, phase, index, active_size, QP_active_size, s, iter, newton_iter, w, wpd,
  Gmax_old, Gmax_new, Gnorm1_new, Gmax_outer, d, applied, num_linesearch, dist, xTd, exp_fits, given_up,
  seen, begun,
  t, send, Grad, workingset, candidates_size, alpha, eps1, PGmax_old, PGmin_old, PGmax_new, PGmin_new,
  updated, met,
  alpha_index, active_size_i, y_index, G, eps_shrink, start_from_all, stopping, full,
  kind, tpc, wt, w_new, f, fnew, g, M, z, H, prered, reach_boundary, gnorm0, delta, delta_adjusted, titer,
  call, team, todo, at, zs, d_shared, d_private, f_private, tmp_array, v, result,
  job, stage, param, prob, sub, gc, model, cv_fold, model_file, targets, answers,
  try, fold, prev_w, num_unchanged_w, best, searching, now, same, tried

\* The solvers' sizes.  linear.cpp starts with blocks of 256 candidates, of 4096 at
\* most; a block of 1 could be halved to nothing.
ASSUME SizesAssumption ==
  /\ N \in Nat /\ L \in Nat /\ XL \in Nat \ {0} /\ nr_class \in Nat
  /\ init_candidates_size \in Nat \ {0, 1} /\ max_candidates_size \in Nat \ {0}
  /\ Labels \in [1 .. XL -> 1 .. nr_class]

\* Tolerances and gradients are whole numbers of one unit.
\* Every gradient is a number, which the INF of linear.cpp (HUGE_VAL) exceeds.
ASSUME TolerancesAssumption ==
  /\ BlockGrads \subseteq {x \in Int : x < 10000000} /\ One \in Nat \ {0}
  /\ InitialEps1 \in Nat \ {0} /\ Eps \in Nat

\* The rows of X are sparse: pairs of a feature and its value.
ASSUME RowsAssumption ==
  /\ Features \in Nat /\ Weights \subseteq Int /\ p \in Int
  /\ X \in Seq(Seq((1 .. Features) \X Int))
  /\ Y \in [DOMAIN X -> Int] /\ C \in [DOMAIN X -> Int]

FiveGradients == {-4, -3, -2, 0, 3}
FourGradients == {-1000, -60, 5, 1000}
LabelsInTurn  == [i \in 1 .. XL |-> 1 + (i % nr_class)]

\* Three instances with two features, and the w at which the loops are run.
ThreeRows    == << <<<<1, 1>>>>, <<<<1, 2>>, <<2, -1>>>>, <<<<2, 2>>>> >>
ThreeSigns   == <<1, -1, 1>>
ThreeCosts   == <<1, 2, 1>>
ThreeWeights == -1 .. 1
Point        == <<1, -1>>
Rates        == 0 .. 2

\* Training files: every labelling of a few sets of rows; command lines for every
\* kind of solver, with and without bias and weights, and for cross validation.
Rows == { << <<<<1, 1>>>>, <<<<2, 1>>>>, <<<<1, -1>>, <<2, 2>>>> >>,
          << <<>>, <<<<1, 1>>, <<2, 1>>>>, <<<<2, -1>>>> >>,
          << <<<<2, 1>>>>, <<<<2, 2>>, <<1, 1>>>>, <<>> >> }
Tests == << <<0, <<<<1, 1>>, <<3, 5>>>>>>, <<0, <<<<2, 1>>>>>>, <<0, <<>>>>, <<0, <<<<2, 1>>, <<1, 1>>>>>> >>
Options == { <<<<"s", 0>>, <<"w", <<1, 2>>>>, <<"B", 1>>>>, <<<<"s", 2>>>>, <<<<"s", 11>>, <<"B", 2>>>>,
             <<<<"B", 0>>>>, <<<<"v", 2>>>>, <<<<"v", 4>>, <<"s", 1>>, <<"B", 1>>>>, <<<<"C", 0>>>>,
             <<<<"s", 4>>>>, <<<<"s", 9>>>>, <<<<"v", 1>>>>, <<<<"C", 0>>, <<"s", 1>>>>, <<<<"e", 0>>>>,
             <<<<"c", 0>>>>, <<<<"s", 3>>, <<"w", <<5, 2>>>>, <<"w", <<-1, 3>>>>>> }
Jobs == {[options |-> o, lines |-> [i \in 1 .. 3 |-> <<y[i], r[i]>>], tests |-> Tests, perm |-> q] :
           o \in Options, y \in [1 .. 3 -> {-1, 1, 2}], r \in Rows, q \in {<<1, 2, 3>>, <<3, 1, 2>>}}

TR == INSTANCE TrustRegion
PS == INSTANCE ParallelSums
TP == INSTANCE TrainPredict
CD == INSTANCE CoordinateDescent
BD == INSTANCE BlockDescent
XD == INSTANCE MulticlassDescent WITH L <- XL

sharedVars == <<phase, index, active_size, s, iter, seen, begun>>
cdVars == <<solver, L1Loss, level, QP_active_size, newton_iter, w, wpd, Gmax_old, Gmax_new, Gnorm1_new,
            Gmax_outer, d, applied, num_linesearch, dist, xTd, exp_fits, given_up>>
bdVars == <<t, send, Grad, workingset, candidates_size, alpha, eps1, PGmax_old, PGmin_old, PGmax_new,
            PGmin_new, updated, met>>
xdVars == <<alpha_index, active_size_i, y_index, G, eps_shrink, start_from_all, stopping, full>>
trVars == <<kind, tpc, wt, w_new, f, fnew, g, M, z, H, prered, reach_boundary, gnorm0, delta,
            delta_adjusted, titer>>
psVars == <<call, team, todo, at, zs, d_shared, d_private, f_private, tmp_array, v, result>>
tpVars == <<job, stage, param, prob, sub, gc, model, cv_fold, model_file, targets, answers>>
fcVars == <<try, fold, prev_w, num_unchanged_w, best, searching, now, same, tried>>
vars   == <<part, sharedVars, cdVars, bdVars, xdVars, trVars, psVars, tpVars, fcVars>>

NoCD == /\ solver = "-" /\ L1Loss = FALSE /\ level = "-" /\ QP_active_size = 0 /\ newton_iter = 0
        /\ w = <<>> /\ wpd = <<>> /\ Gmax_old = 0 /\ Gmax_new = 0 /\ Gnorm1_new = 0 /\ Gmax_outer = 0
        /\ d = 0 /\ applied = 0 /\ num_linesearch = 0 /\ dist = 0 /\ xTd = 0 /\ exp_fits = TRUE
        /\ given_up = FALSE
NoBD == /\ t = 0 /\ send = 0 /\ Grad = <<>> /\ workingset = <<>> /\ candidates_size = 0 /\ alpha = <<>>
        /\ eps1 = 0 /\ PGmax_old = 0 /\ PGmin_old = 0 /\ PGmax_new = 0 /\ PGmin_new = 0
        /\ updated = FALSE /\ met = <<>>
NoXD == /\ alpha_index = <<>> /\ active_size_i = <<>> /\ y_index = <<>> /\ G = <<>> /\ eps_shrink = 0
        /\ start_from_all = FALSE /\ stopping = 0 /\ full = FALSE

NoShared == /\ phase = "-" /\ index = <<>> /\ active_size = 0 /\ s = 0 /\ iter = 0 /\ seen = <<>> /\ begun = {}
NoTR == /\ kind = "-" /\ tpc = "-" /\ wt = <<>> /\ w_new = <<>> /\ f = 0 /\ fnew = 0 /\ g = <<>> /\ M = <<>>
        /\ z = <<>> /\ H = <<>> /\ prered = 0 /\ reach_boundary = FALSE /\ gnorm0 = 0 /\ delta = 0
        /\ delta_adjusted = FALSE /\ titer = 0
NoPS == /\ call = "-" /\ team = {} /\ todo = {} /\ at = <<>> /\ zs = <<>> /\ d_shared = 0 /\ d_private = <<>>
        /\ f_private = <<>> /\ tmp_array = <<>> /\ v = <<>> /\ result = <<>>
NoTP == job = <<>> /\ stage = "-" /\ param = <<>> /\ prob = <<>> /\ sub = <<>> /\ gc = <<>> /\ model = <<>> /\ cv_fold = 0 /\ model_file = <<>> /\ targets = <<>> /\ answers = <<>>
NoFC == /\ try = 0 /\ fold = 0 /\ prev_w = <<>> /\ num_unchanged_w = 0 /\ best = <<>> /\ searching = FALSE
        /\ now = <<>> /\ same = {} /\ tried = <<>>
NoSolver == NoCD /\ NoBD /\ NoXD /\ NoShared

MCInit ==
  \/ part = "descent" /\ CD!DInit /\ NoBD /\ NoXD /\ NoTR /\ NoPS /\ NoTP /\ NoFC
  \/ part = "blocks" /\ BD!BInit /\ NoCD /\ NoXD /\ NoTR /\ NoPS /\ NoTP /\ NoFC
  \/ part = "multiclass" /\ XD!XInit /\ NoCD /\ NoBD /\ NoTR /\ NoPS /\ NoTP /\ NoFC
  \/ part = "tron" /\ TR!TInit /\ NoSolver /\ NoPS /\ NoTP /\ NoFC
  \/ part = "loops" /\ PS!PInit /\ NoSolver /\ NoTR /\ NoTP /\ NoFC
  \/ part = "programs" /\ TP!KInit /\ NoSolver /\ NoTR /\ NoPS /\ NoFC
  \/ part = "search" /\ TP!CInit /\ NoSolver /\ NoTR /\ NoPS /\ NoTP

Ended ==
  /\ \/ phase \in {"done", "exhausted"} \/ tpc = "returned" \/ (part = "loops" /\ result # <<>>)
     \/ stage \in TP!Ends
     \/ (part = "search" /\ ~searching)
  /\ UNCHANGED vars

MCNext ==
  \/ part = "descent" /\ CD!DNext /\ UNCHANGED <<part, bdVars, xdVars, trVars, psVars, tpVars, fcVars>>
  \/ part = "blocks" /\ BD!BNext /\ UNCHANGED <<part, cdVars, xdVars, trVars, psVars, tpVars, fcVars>>
  \/ part = "multiclass" /\ XD!XNext /\ UNCHANGED <<part, cdVars, bdVars, trVars, psVars, tpVars, fcVars>>
  \/ part = "tron" /\ TR!TNext /\ UNCHANGED <<part, sharedVars, cdVars, bdVars, xdVars, psVars, tpVars, fcVars>>
  \/ part = "loops" /\ PS!PNext /\ UNCHANGED <<part, sharedVars, cdVars, bdVars, xdVars, trVars, tpVars, fcVars>>
  \/ part = "programs" /\ TP!KNext /\ UNCHANGED <<part, sharedVars, cdVars, bdVars, xdVars, trVars, psVars, fcVars>>
  \/ part = "search" /\ TP!CNext /\ UNCHANGED <<part, sharedVars, cdVars, bdVars, xdVars, trVars, psVars, tpVars>>
  \/ Ended

MCSpec == MCInit /\ [][MCNext]_vars

\* Every sweep of a solver looks once at each coordinate that is active, and a
\* solver stops, short of its bounds, only after a sweep over all coordinates that
\* passed its stop test: the violations are within eps (of -s 4, 5, 6, 7, 12 and 13), or,
\* in the solver of -s 1 and 3, the projected gradients are within eps of each other.
SweepsComplete ==
  CASE part = "descent"    -> CD!LooksOnce /\ CD!StopsOnAll
    [] part = "blocks"     -> BD!LooksOnce /\ BD!StopsOnAll
    [] part = "multiclass" -> XD!LooksOnce /\ XD!StopsOnAll
    [] OTHER               -> TRUE

\* What a solver has cached belongs to the point it is at: b, exp_wTx, xTd, and the
\* gradients of a block or an instance.  exp_wTx and xTd are excepted once a line
\* search of solve_l1r_lr was given up.
CachesFit ==
  CASE part = "descent"    -> CD!CacheFits
    [] part = "blocks"     -> BD!OwnGradient
    [] part = "multiclass" -> XD!OwnGradient
    [] OTHER               -> TRUE

\* A step that TRON takes lowers the objective.
StepsDescend == [][part = "tron" => TR!Descends]_vars

\* The parallel loops add up what one thread would, TRON's function object answers
\* for the point TRON is at, the search for C reports the best it tried, and the
\* programs predict what the files say and refuse what they should.
AnswersRight ==
  CASE part = "loops"    -> PS!SumsAsOne
    [] part = "tron"     -> TR!CachesOfW
    [] part = "search"   -> TP!SearchSound
    [] part = "programs" -> TP!PredictsFromFiles /\ TP!RefusesBadInput /\ TP!CoefficientsAgree
    [] OTHER             -> TRUE
=============================================================================
