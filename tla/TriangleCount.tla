--------------------------- MODULE TriangleCount ---------------------------
(***************************************************************************)
(* gapbs triangle counting (tc.cc), on CSR graphs as the builder makes     *)
(* them.  An iteration of the parallel loop reads the graph only and adds  *)
(* to a reduction.                                                         *)
(***************************************************************************)
EXTENDS CSR

CONSTANTS
  Graphs,
  MinDegree   \* the average degree from which relabelling is considered (10 in the code)

VARIABLES
  g,
  h,          \* the graph that is counted: g or g relabelled
  total,      \* triangles counted so far
  overrun,    \* an iterator went past the end of its row
  phase, todo

vars == <<g, h, total, overrun, phase, todo>>

Init ==
  /\ g \in Graphs
  /\ h = g /\ total = 0 /\ overrun = FALSE
  /\ phase = "start" /\ todo = {}

\* WorthRelabelling: samples of the degrees of vertices with edges decide.
Worth(samples) ==
  LET sorted == SortSeq(samples, LAMBDA a, b : a < b)
      sum    == FoldLeft(LAMBDA a, b : a + b, 0, samples)
      n      == Len(samples)
  IN 10 * sum > 13 * sorted[n \div 2 + 1] * n

WorthRelabelling ==
  LET num_samples == Min({1000, g.num_nodes})
      picked == {out_degree(g, v) : v \in vertices(g)} \ {0}
  IN IF g.num_edges \div g.num_nodes < MinDegree THEN {FALSE}
     ELSE {Worth(s) : s \in [1 .. num_samples -> picked]}

\* main and Hybrid
Start ==
  /\ phase = "start"
  /\ IF g.directed
     THEN phase' = "exit" /\ UNCHANGED <<h, todo>>
     ELSE /\ \E worth \in WorthRelabelling : h' = IF worth THEN RelabelByDegree(g) ELSE g
          /\ phase' = "count"
          /\ todo' = vertices(g)
  /\ UNCHANGED <<g, total, overrun>>

\* The neighbours before the first that is greater: the loops' breaks.
UpTo(row, x) ==
  LET greater == {i \in DOMAIN row : row[i].v > x}
  IN IF greater = {} THEN row ELSE SubSeq(row, 1, Min(greater) - 1)

\* while (*it < w) it++, from it; Len(row) + 1 is past the end.
Advance(row, it, w) == Min({i \in it .. Len(row) : row[i].v >= w} \cup {Len(row) + 1})

\* The iterator starts again at the row's begin for every v.
CountPair(row, v) ==
  FoldLeft(LAMBDA acc, a :
             LET i == Advance(row, acc.it, a.v) IN
             [it |-> i,
              n |-> acc.n + (IF i <= Len(row) /\ row[i].v = a.v THEN 1 ELSE 0)],
           [it |-> 1, n |-> 0], UpTo(Neigh(h.out, v), v))

OrderedCount(u) ==
  LET row == Neigh(h.out, u) IN
  {<<a.v, CountPair(row, a.v)>> : a \in ToSet(UpTo(row, u))}

Count ==
  /\ phase = "count"
  /\ \E u \in todo :
       LET pairs == OrderedCount(u) IN
       /\ todo' = todo \ {u}
       /\ total' = total + MapThenSumSet(LAMBDA p : p[2].n, pairs)
       /\ overrun' = (overrun \/ \E p \in pairs : p[2].it > Len(Neigh(h.out, u)))
  /\ UNCHANGED <<g, h, phase>>

Return ==
  /\ phase = "count" /\ todo = {}
  /\ phase' = "done"
  /\ UNCHANGED <<g, h, total, overrun, todo>>

Main == Start \/ Count \/ Return
Next == Main
Spec == Init /\ [][Next]_vars /\ WF_vars(Main)

-----------------------------------------------------------------------------
\* TCVerifier: every triangle is found six times, on the graph as it was.
TCVerifier ==
  LET Row(u) == {a.v : a \in ToSet(Neigh(g.out, u))}
  IN total = MapThenSumSet(LAMBDA u : MapThenSumSet(LAMBDA v : Cardinality(Row(u) \cap Row(v)),
                                                    Row(u)), vertices(g)) \div 6

\* Each triangle is counted once, relabelled or not, and the scan of a row
\* relies on finding v itself in it: it never runs past the end (tc.cc:54-61).
TCAccepted == ~overrun /\ (phase = "done" => TCVerifier)
=============================================================================
