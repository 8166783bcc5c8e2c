---------------------------- MODULE BlockDescent ----------------------------
(***************************************************************************)
(* solve_l2r_l1l2_svc, the multi-core dual coordinate descent of           *)
(* liblinear: gradients of a block of candidates are computed in parallel, *)
(* some candidates are shrunk, and those that violate are updated one by   *)
(* one.  An alpha is abstracted to where it is: 0, between the bounds (1)  *)
(* or at the upper one (2).  Gradients and tolerances are whole numbers of *)
(* one unit.  A gradient is any of a few numbers, except that as long as   *)
(* every alpha is 0, so that w is, it is that of w = 0.                    *)
(***************************************************************************)
EXTENDS Integers, Sequences, FiniteSets, SequencesExt

CONSTANTS
  L,                    \* instances
  max_iter,
  init_candidates_size, max_candidates_size,
  BlockGrads, One,      \* the gradients met; that of w = 0 is -One for every instance
  InitialEps1, Eps      \* the tolerances: eps1 at its start, and eps

VARIABLES
  phase,                \* "shuffle", "block", "select", "update", "end", "done"
  index, active_size, t, send, s, iter,
  Grad,                 \* Grad[u]: the instance whose gradient slot u holds
  workingset, candidates_size,
  alpha,                \* where it is, for each instance
  eps1, PGmax_old, PGmin_old, PGmax_new, PGmin_new,
  updated,              \* num_updates_one_iter > 0
  met,                  \* history: the projected gradients selected from in this sweep
  seen, begun           \* history, as in CoordinateDescent

tolerances == <<eps1, PGmax_old, PGmin_old>>
extremes   == <<PGmax_new, PGmin_new, met>>

\* Positions count from 0, as in the code.
Pos == 0 .. L - 1
INF == 10000000
MinOf(a, b) == IF a < b THEN a ELSE b
MaxOf(a, b) == IF a > b THEN a ELSE b
Abs(x)      == IF x < 0 THEN -x ELSE x
Prefix(k)   == {index[i] : i \in 0 .. k - 1}

BInit ==
  /\ phase = "shuffle" /\ index = [i \in Pos |-> i] /\ active_size = L
  /\ t = 0 /\ send = 0 /\ s = 0 /\ iter = 0
  /\ Grad = [u \in 0 .. max_candidates_size - 1 |-> 0] /\ workingset = <<>>
  /\ candidates_size = MinOf(init_candidates_size, max_candidates_size)
  /\ alpha = [i \in Pos |-> 0]
  /\ eps1 = InitialEps1 /\ PGmax_old = INF /\ PGmin_old = -INF
  /\ PGmax_new = -INF /\ PGmin_new = INF /\ met = [i \in Pos |-> INF] /\ updated = FALSE
  /\ seen = [i \in Pos |-> 0] /\ begun = Pos

Shuffle ==
  /\ phase = "shuffle" /\ iter < max_iter
  /\ index' \in {f \in [Pos -> Pos] : /\ \A i \in Pos : i >= active_size => f[i] = index[i]
                                      /\ {f[i] : i \in 0 .. active_size - 1} = Prefix(active_size)}
  /\ PGmax_new' = -INF /\ PGmin_new' = INF /\ met' = [i \in Pos |-> INF]
  /\ t' = 0 /\ updated' = FALSE /\ phase' = "block"
  /\ seen' = [i \in Pos |-> 0] /\ begun' = Prefix(active_size)
  /\ UNCHANGED <<active_size, send, s, iter, Grad, workingset, candidates_size, alpha, tolerances>>

TooManySweeps ==
  /\ phase = "shuffle" /\ iter >= max_iter /\ phase' = "exhausted"
  /\ UNCHANGED <<index, active_size, t, send, s, iter, Grad, workingset, candidates_size, alpha,
                 tolerances, extremes, updated, seen, begun>>

\* The parallel loop over the block.
BlockGradients ==
  /\ phase = "block" /\ t < active_size
  /\ send' = MinOf(candidates_size, active_size - t)
  /\ Grad' = [u \in DOMAIN Grad |-> IF u < send' THEN index[t + u] ELSE Grad[u]]
  /\ s' = 0 /\ workingset' = <<>> /\ phase' = "select"
  /\ UNCHANGED <<index, active_size, t, iter, candidates_size, alpha, tolerances, extremes, updated,
                 seen, begun>>

\* y[i] * dot(w, x[i]) - 1 + alpha[i] * diag[...]
Met == IF \A i \in Pos : alpha[i] = 0 THEN {-One} ELSE BlockGrads

\* Whether alpha[i] may follow its gradient; at a bound, whether the gradient
\* keeps it there by more than any instance violated in the sweep before.
Free(i, G)    == (alpha[i] # 2 /\ G < 0) \/ (alpha[i] # 0 /\ G > 0)
AtBound(i, G) == (alpha[i] = 0 /\ G > PGmax_old) \/ (alpha[i] = 2 /\ G < PGmin_old)

Look == seen' = [seen EXCEPT ![index[t + s]] = @ + 1]

\* A candidate at its bound leaves the block and the active instances: the
\* last of the block takes its place, and the last active one the block's.
Candidates(kept, last) ==
  IF t + kept = last
  THEN [index EXCEPT ![t + s] = index[t + kept], ![t + kept] = index[t + s]]
  ELSE [index EXCEPT ![last] = index[t + s], ![t + s] = index[t + kept], ![t + kept] = index[last]]

Shrink(G) ==
  /\ phase = "select" /\ s < send
  /\ ~Free(index[t + s], G) /\ AtBound(index[t + s], G)
  /\ Look
  /\ active_size' = active_size - 1 /\ send' = send - 1
  /\ index' = Candidates(send', active_size')
  /\ Grad' = [Grad EXCEPT ![s] = Grad[send']]
  /\ UNCHANGED <<phase, t, s, iter, workingset, candidates_size, alpha, tolerances, extremes,
                 updated, begun>>

\* Its projected gradient counts, and puts it in the working set if it is
\* at least 0.1 * eps1.
Select(G) ==
  LET i  == index[t + s]
      PG == IF Free(i, G) THEN G ELSE 0
  IN
  /\ phase = "select" /\ s < send
  /\ Free(i, G) \/ ~AtBound(i, G)
  /\ Look
  /\ PGmax_new' = MaxOf(PGmax_new, PG) /\ PGmin_new' = MinOf(PGmin_new, PG)
  /\ met' = [met EXCEPT ![i] = PG]
  /\ workingset' = IF 10 * Abs(PG) >= eps1 THEN Append(workingset, i) ELSE workingset
  /\ s' = s + 1
  /\ UNCHANGED <<phase, index, active_size, t, send, iter, Grad, candidates_size, alpha, tolerances,
                 updated, begun>>

\* Where the updates may take the alphas.  The first of the working set finds
\* the gradient it was selected by, and moves; the others may no longer have to.
Updates ==
  {a \in [Pos -> 0 .. 2] :
     /\ \A i \in Pos \ ToSet(workingset) : a[i] = alpha[i]
     /\ workingset # <<>> /\ alpha[Head(workingset)] # 1 =>
          a[Head(workingset)] # alpha[Head(workingset)]}

\* The size of the next block, and the updates of the working set.
Update ==
  /\ phase = "select" /\ s >= send
  /\ candidates_size' =
       CASE Len(workingset) = 0 -> MinOf((candidates_size * 3) \div 2, max_candidates_size)
         [] Len(workingset) >= init_candidates_size -> candidates_size \div 2
         [] OTHER -> candidates_size
  /\ alpha' \in Updates
  /\ updated' = (updated \/ workingset # <<>>)
  /\ t' = t + send /\ phase' = "block"
  /\ UNCHANGED <<index, active_size, send, s, iter, Grad, workingset, tolerances, extremes, seen, begun>>

\* max(0.1 * eps1, min_eps1), where min_eps1 = min(0.01 * eps, the first eps1).
Lower(e) == MaxOf(e \div 10, MinOf(Eps \div 100, InitialEps1))
Reset    == active_size' = L /\ PGmax_old' = INF /\ PGmin_old' = -INF /\ phase' = "shuffle"

SweepOver ==
  /\ phase = "block" /\ t >= active_size /\ iter' = iter + 1
  /\ UNCHANGED <<index, t, send, s, Grad, workingset, candidates_size, alpha, extremes, updated,
                 seen, begun>>

\* The end of a sweep without updates.
EndIdle ==
  /\ SweepOver /\ ~updated
  /\ IF active_size = L /\ eps1 <= Eps
     THEN phase' = "done" /\ UNCHANGED <<active_size, tolerances>>
     ELSE Reset /\ eps1' = Lower(eps1)

\* The end of a sweep with updates.  What decides is how far the projected
\* gradients are from each other, not how large they are.  Within eps it ends
\* the run, or brings all instances back (unless very few are left and the gap
\* is not small enough).
Gap == PGmax_new - PGmin_new
End ==
  /\ SweepOver /\ updated
  /\ eps1' = IF Gap <= eps1 THEN Lower(eps1) ELSE eps1
  /\ \/ /\ Gap <= Eps /\ active_size = L
        /\ phase' = "done" /\ UNCHANGED <<active_size, PGmax_old, PGmin_old>>
     \/ /\ Gap <= Eps /\ active_size # L /\ (10 * Gap <= 9 * Eps \/ 20 * active_size >= L)
        /\ Reset
     \/ /\ Gap > Eps \/ (active_size # L /\ 10 * Gap > 9 * Eps /\ 20 * active_size < L)
        /\ PGmax_old' = (IF PGmax_new <= 0 THEN INF ELSE PGmax_new)
        /\ PGmin_old' = (IF PGmin_new >= 0 THEN -INF ELSE PGmin_new)
        /\ phase' = "shuffle" /\ UNCHANGED active_size

BNext ==
  \/ Shuffle \/ TooManySweeps \/ BlockGradients \/ Update \/ EndIdle \/ End
  \/ \E G \in Met : Shrink(G) \/ Select(G)

-----------------------------------------------------------------------------
\* The gradient looked at is that of the instance looked at, also after
\* candidates changed places; a block fits its arrays and is never empty.
OwnGradient ==
  /\ phase = "select" => \A u \in s .. send - 1 : Grad[u] = index[t + u]
  /\ candidates_size \in 1 .. max_candidates_size
  /\ Len(workingset) <= max_candidates_size

\* A sweep looks once at each instance active at its start.
LooksOnce ==
  /\ Prefix(L) = Pos
  /\ \A i \in Pos : seen[i] <= (IF i \in begun THEN 1 ELSE 0)
  /\ (phase = "block" /\ t >= active_size) => \A i \in begun : seen[i] = 1

\* Done, short of max_iter, only after a sweep that looked at all instances,
\* shrank none, and found their projected gradients within eps of each other
\* (linear.cpp:1104-1124).  They need not be within eps of 0.
StopsOnAll == phase = "done" => begun = Pos /\ \A i, j \in Pos : met[i] - met[j] <= Eps /\ met[i] # INF
=============================================================================
