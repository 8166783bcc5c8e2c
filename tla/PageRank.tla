------------------------------ MODULE PageRank ------------------------------
(***************************************************************************)
(* gapbs PageRank (pr.cc).  Two parallel loops per iteration: the first    *)
(* divides every score among the out-edges, the second pulls the parts     *)
(* along the in-edges.  An iteration of either loop writes entries of its  *)
(* own vertex only.  Scores are numbers of units of 1 / Unit.              *)
(***************************************************************************)
EXTENDS Integers, Sequences, SequencesExt, FiniteSetsExt, CommandLine

CONSTANTS
  Graphs,   \* sequences of out-neighbour sequences; vertex v is index v + 1
  Args,     \* command lines of pr; a tolerance is in units
  Unit

VARIABLES g, cli, scores, outgoing_contrib, error, iter, phase, todo

vars == <<g, cli, scores, outgoing_contrib, error, iter, phase, todo>>

Vertex == 0 .. Len(g) - 1
out_neigh(v) == g[v + 1]
in_neigh(u)  == {v \in Vertex : Contains(out_neigh(v), u)}
kDamp(x) == (17 * x) \div 20                   \* 0.85
init_score == Unit \div Len(g)
base_score == (Unit - kDamp(Unit)) \div Len(g)
Inf == -1                                      \* a score divided by 0 edges
Abs(x) == IF x < 0 THEN -x ELSE x

Init ==
  /\ g \in Graphs
  /\ \E a \in Args : cli = ParseArgs("CLPageRank", a).cli
  /\ scores = [v \in Vertex |-> init_score]
  /\ outgoing_contrib = [v \in Vertex |-> 0]
  /\ error = 0 /\ iter = 0
  /\ phase = "contrib" /\ todo = Vertex

Contribute ==
  /\ phase = "contrib"
  /\ \E n \in todo :
       /\ todo' = todo \ {n}
       /\ outgoing_contrib' = [outgoing_contrib EXCEPT ![n] =
            IF out_neigh(n) = <<>> THEN Inf ELSE scores[n] \div Len(out_neigh(n))]
  /\ UNCHANGED <<g, cli, scores, error, iter, phase>>

StartPull ==
  /\ phase = "contrib" /\ todo = {}
  /\ phase' = "pull" /\ todo' = Vertex
  /\ UNCHANGED <<g, cli, scores, outgoing_contrib, error, iter>>

incoming_total(u) == MapThenSumSet(LAMBDA v : outgoing_contrib[v], in_neigh(u))
New(u) == base_score + kDamp(incoming_total(u))

Pull ==
  /\ phase = "pull"
  /\ \E u \in todo :
       /\ todo' = todo \ {u}
       /\ scores' = [scores EXCEPT ![u] = New(u)]
       /\ error' = error + Abs(New(u) - scores[u])
  /\ UNCHANGED <<g, cli, outgoing_contrib, iter, phase>>

\* if (error < epsilon) break; and iter < max_iters.
EndIteration ==
  /\ phase = "pull" /\ todo = {}
  /\ iter' = iter + 1
  /\ IF error < cli.tolerance \/ iter + 1 = cli.max_iters
     THEN phase' = "done" /\ UNCHANGED <<error, todo>>
     ELSE phase' = "contrib" /\ todo' = Vertex /\ error' = 0
  /\ UNCHANGED <<g, cli, scores, outgoing_contrib>>

Main == Contribute \/ StartPull \/ Pull \/ EndIteration
Next == Main
Spec == Init /\ [][Next]_vars /\ WF_vars(Main)

-----------------------------------------------------------------------------
\* PRVerifier: one serial iteration in the push direction.
incomming_sums(s) ==
  FoldSet(LAMBDA u, sums : [v \in Vertex |->
            IF Contains(out_neigh(u), v) THEN sums[v] + s[u] \div Len(out_neigh(u)) ELSE sums[v]],
          [v \in Vertex |-> 0], Vertex)

Pushed(s) == [n \in Vertex |-> base_score + kDamp(incomming_sums(s)[n])]

PRVerifier ==
  MapThenSumSet(LAMBDA n : Abs(Pushed(scores)[n] - scores[n]), Vertex) < cli.tolerance

\* The scores after k serial push iterations.
Serial(k) ==
  LET s[i \in 0 .. k] == IF i = 0 THEN [v \in Vertex |-> init_score] ELSE Pushed(s[i - 1]) IN s[k]

\* Under every schedule the pull along the in-edges gives what serial pushes
\* along the out-edges give, the infinite part of a vertex without out-edges
\* goes nowhere, and the push iteration of PRVerifier has an error below the
\* tolerance whenever PageRankPull stopped because its own had (pr.cc:55, 92).
PRAccepted ==
  phase = "done" =>
    /\ \A v \in Vertex : scores[v] = Serial(iter)[v]
    /\ error < cli.tolerance => PRVerifier
=============================================================================
