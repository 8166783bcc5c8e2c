----------------------------- MODULE Components -----------------------------
(***************************************************************************)
(* The two connected-components kernels of gapbs, Afforest (cc.cc) and     *)
(* Shiloach-Vishkin (cc_sv.cc).  Both keep the labels comp[n] as a forest  *)
(* of parent pointers that the threads of an OpenMP team hook together and *)
(* compress; a step is one access to a shared comp entry.  Iterations of a *)
(* parallel loop may go to any thread in any order.                        *)
(***************************************************************************)
EXTENDS Integers, SequencesExt, FiniteSetsExt

CONSTANTS
  Thread,
  Graphs,          \* records: directed, out and inn (neighbour sequences, vertex v is index v + 1)
  Rounds           \* values of Afforest's parameter neighbor_rounds (2 by default)

\* Neighbours are vertices, inn has the edges of out the other way round, and
\* an undirected graph has one array for both.
ASSUME GraphsAssumption ==
  \A h \in Graphs :
    /\ h.directed \in BOOLEAN
    /\ h.out \in Seq(Seq(0 .. Len(h.out) - 1)) /\ h.inn \in Seq(Seq(0 .. Len(h.out) - 1))
    /\ Len(h.inn) = Len(h.out)
    /\ \A m, n \in 0 .. Len(h.out) - 1 :
         (\E i \in DOMAIN h.out[m + 1] : h.out[m + 1][i] = n) <=> (\E i \in DOMAIN h.inn[n + 1] : h.inn[n + 1][i] = m)
    /\ ~h.directed => h.inn = h.out

ASSUME RoundsAssumption == Rounds \subseteq Nat \ {0}

VARIABLES
  kernel, g, neighbor_rounds,
  comp,            \* the labels
  phase,           \* the parallel loop that runs
  round,           \* Afforest: r, the sampling rounds done
  c,               \* Afforest: the label whose vertices are skipped
  change,          \* Shiloach-Vishkin: some vertex was hooked in this iteration
  todo,            \* iterations of the loop not yet started
  pc, work,        \* per thread: its step, the neighbours left to link,
  u, lab           \* its vertex, and p1, p2 and p_high of the edge it is at

config == <<kernel, g, neighbor_rounds>>
locals == <<work, u, lab>>
vars   == <<config, comp, phase, round, c, change, todo, pc, locals>>

-----------------------------------------------------------------------------
Vertex == 0 .. Len(g.out) - 1
out_neigh(n) == g.out[n + 1]
in_neigh(n)  == g.inn[n + 1]

\* A neighbourhood from an offset on, empty when the offset is past its end.
FromOffset(s, k) == SubSeq(s, k + 1, Len(s))

NoLabels == [p1 |-> 0, p2 |-> 0, ph |-> 0]

Kernels == {"afforest", "sv"}

Init ==
  /\ kernel \in Kernels
  /\ g \in Graphs
  /\ neighbor_rounds \in (IF kernel = "afforest" THEN Rounds ELSE {0})
  /\ comp = [n \in Vertex |-> n]
  /\ phase = (IF kernel = "afforest" THEN "sample" ELSE "hook")
  /\ round = 0
  /\ c = 0
  /\ change = FALSE
  /\ todo = Vertex
  /\ pc = [t \in Thread |-> "loop"]
  /\ work = [t \in Thread |-> <<>>]
  /\ u  = [t \in Thread |-> 0]
  /\ lab = [t \in Thread |-> NoLabels]

Goto(t, to) == pc' = [pc EXCEPT ![t] = to]
Set(t, f, v) == [f EXCEPT ![t] = v]

\* The neighbours that an iteration for vertex n links, and where it starts.
\* The final loop of Afforest skips the vertices labelled c; for a directed
\* graph it also follows the edges into n.
Neighbours(n) ==
  CASE phase = "sample" ->
         LET ns == FromOffset(out_neigh(n), round) IN
         IF ns = <<>> THEN <<>> ELSE <<ns[1]>>
    [] phase = "final" ->
         IF comp[n] = c THEN <<>>
         ELSE FromOffset(out_neigh(n), neighbor_rounds)
                \o (IF g.directed THEN in_neigh(n) ELSE <<>>)
    [] phase = "hook" -> out_neigh(n)
    [] phase = "compress" -> <<>>

\* A thread takes an iteration of the loop.
Take(t) ==
  /\ pc[t] = "loop"
  /\ \E n \in todo :
       /\ todo' = todo \ {n}
       /\ u' = Set(t, u, n)
       /\ work' = Set(t, work, Neighbours(n))
       /\ Goto(t, CASE phase = "compress" -> "compress"
                    [] phase # "compress" /\ Neighbours(n) = <<>> -> "loop"
                    [] OTHER -> "load1")
  /\ UNCHANGED <<config, comp, phase, round, c, change, lab>>

\* Link and the hooking loop both begin by reading the labels of the edge.
LoadU(t) ==
  /\ pc[t] = "load1"
  /\ lab' = [lab EXCEPT ![t].p1 = comp[u[t]]]
  /\ Goto(t, "load2")
  /\ UNCHANGED <<config, comp, phase, round, c, change, todo, work, u>>

high(t) == IF lab[t].p1 > lab[t].p2 THEN lab[t].p1 ELSE lab[t].p2
low(t)  == IF lab[t].p1 > lab[t].p2 THEN lab[t].p2 ELSE lab[t].p1

\* The next edge of the iteration, or the next iteration.
NextEdge(t) ==
  /\ lab' = Set(t, lab, NoLabels)
  /\ work' = Set(t, work, Tail(work[t]))
  /\ Goto(t, IF Len(work[t]) = 1 THEN "loop" ELSE "load1")

\* Reads the second label: of the neighbour, or of low when Link goes round
\* again.  Equal labels end the edge.
LoadV(t) ==
  /\ pc[t] \in {"load2", "reload2"}
  /\ LET p == comp[IF pc[t] = "load2" THEN Head(work[t]) ELSE low(t)] IN
     LET q == IF pc[t] = "load2" THEN lab[t].p1 ELSE lab[t].ph IN
     IF p = q
     THEN NextEdge(t)
     ELSE /\ lab' = [lab EXCEPT ![t].p1 = q, ![t].p2 = p]
          /\ Goto(t, "high")
          /\ UNCHANGED work
  /\ UNCHANGED <<config, comp, phase, round, c, change, todo, u>>

-----------------------------------------------------------------------------
(* Link (cc.cc). *)

\* p_high = comp[high]: done when it is low already, a compare-and-swap when
\* high is a root, another round otherwise.
LinkHigh(t) ==
  /\ kernel = "afforest" /\ pc[t] = "high"
  /\ LET p == comp[high(t)] IN
     IF p = low(t)
     THEN NextEdge(t)
     ELSE /\ Goto(t, IF p = high(t) THEN "cas" ELSE "reload")
          /\ UNCHANGED <<work, lab>>
  /\ UNCHANGED <<config, comp, phase, round, c, change, todo, u>>

\* The swap without the comparison.
LinkBlind(t) ==
  /\ pc[t] = "cas"
  /\ comp' = [comp EXCEPT ![high(t)] = low(t)]
  /\ NextEdge(t)
  /\ UNCHANGED <<config, phase, round, c, change, todo, u>>

\* The edge is given up when the swap fails.
LinkOnce(t) ==
  /\ pc[t] = "cas"
  /\ comp' = IF comp[high(t)] = high(t) THEN [comp EXCEPT ![high(t)] = low(t)] ELSE comp
  /\ NextEdge(t)
  /\ UNCHANGED <<config, phase, round, c, change, todo, u>>

\* compare_and_swap(comp[high], high, low)
LinkCas(t) ==
  /\ pc[t] = "cas"
  /\ IF comp[high(t)] = high(t)
     THEN comp' = [comp EXCEPT ![high(t)] = low(t)] /\ NextEdge(t)
     ELSE Goto(t, "reload") /\ UNCHANGED <<comp, work, lab>>
  /\ UNCHANGED <<config, phase, round, c, change, todo, u>>

\* p1 = comp[comp[high]]: two reads, the new p1 kept in ph until low is read.
LinkParent(t) ==
  /\ pc[t] = "reload"
  /\ lab' = [lab EXCEPT ![t].ph = comp[high(t)]]
  /\ Goto(t, "reload1")
  /\ UNCHANGED <<config, comp, phase, round, c, change, todo, work, u>>

LinkGrandparent(t) ==
  /\ pc[t] = "reload1"
  /\ lab' = [lab EXCEPT ![t].ph = comp[lab[t].ph]]
  /\ Goto(t, "reload2")
  /\ UNCHANGED <<config, comp, phase, round, c, change, todo, work, u>>

-----------------------------------------------------------------------------
(* The hooking loop of ShiloachVishkin: a test and a store, not one atomic *)
(* step.                                                                   *)

HookTest(t) ==
  /\ kernel = "sv" /\ pc[t] = "high"
  /\ IF comp[high(t)] = high(t)
     THEN Goto(t, "store") /\ UNCHANGED <<work, lab>>
     ELSE NextEdge(t)
  /\ UNCHANGED <<config, comp, phase, round, c, change, todo, u>>

\* The hook in the direction of the edge.
HookByEdge(t) ==
  /\ pc[t] = "store"
  /\ change' = TRUE
  /\ comp' = [comp EXCEPT ![lab[t].p1] = lab[t].p2]
  /\ NextEdge(t)
  /\ UNCHANGED <<config, phase, round, c, todo, u>>

HookStore(t) ==
  /\ pc[t] = "store"
  /\ change' = TRUE
  /\ comp' = [comp EXCEPT ![high(t)] = low(t)]
  /\ NextEdge(t)
  /\ UNCHANGED <<config, phase, round, c, todo, u>>

-----------------------------------------------------------------------------
(* Compress: while (comp[n] != comp[comp[n]]) comp[n] = comp[comp[n]].  The *)
(* thread that has n is the only one that writes comp[n].                  *)

CompressTest(t) ==
  /\ pc[t] = "compress"
  /\ Goto(t, IF comp[u[t]] = comp[comp[u[t]]] THEN "loop" ELSE "jump")
  /\ UNCHANGED <<config, comp, phase, round, c, change, todo, locals>>

CompressJump(t) ==
  /\ pc[t] = "jump"
  /\ comp' = [comp EXCEPT ![u[t]] = comp[comp[u[t]]]]
  /\ Goto(t, "compress")
  /\ UNCHANGED <<config, phase, round, c, change, todo, locals>>

-----------------------------------------------------------------------------
(* The main thread, at the end of a parallel loop. *)

LoopDone == todo = {} /\ \A t \in Thread : pc[t] = "loop"

Enter(p) == phase' = p /\ todo' = Vertex /\ UNCHANGED <<config, comp, pc, locals>>

StartCompress ==
  /\ phase \in {"sample", "final", "hook"} /\ LoopDone
  /\ Enter("compress")
  /\ round' = IF phase = "hook" THEN round ELSE round + 1
  /\ UNCHANGED <<c, change>>

NextRound ==
  /\ kernel = "afforest" /\ phase = "compress" /\ LoopDone
  /\ round < neighbor_rounds
  /\ Enter("sample")
  /\ UNCHANGED <<round, c, change>>

\* SampleFrequentElement: an estimate from random samples, so any label.
SampleFrequentElement ==
  /\ kernel = "afforest" /\ phase = "compress" /\ LoopDone
  /\ round = neighbor_rounds
  /\ c' \in {comp[n] : n \in Vertex}
  /\ Enter("final")
  /\ UNCHANGED <<round, change>>

NextIteration ==
  /\ kernel = "sv" /\ phase = "compress" /\ LoopDone
  /\ change
  /\ change' = FALSE
  /\ Enter("hook")
  /\ UNCHANGED <<round, c>>

Return ==
  /\ phase = "compress" /\ LoopDone
  /\ IF kernel = "sv" THEN ~change ELSE round = neighbor_rounds + 1
  /\ phase' = "done"
  /\ UNCHANGED <<config, comp, round, c, change, todo, pc, locals>>

-----------------------------------------------------------------------------
Step(t) ==
  \/ Take(t) \/ LoadU(t) \/ LoadV(t)
  \/ LinkHigh(t) \/ LinkCas(t) \/ LinkParent(t) \/ LinkGrandparent(t)
  \/ HookTest(t) \/ HookStore(t)
  \/ CompressTest(t) \/ CompressJump(t)

Main == StartCompress \/ NextRound \/ SampleFrequentElement \/ NextIteration \/ Return

Next == (\E t \in Thread : Step(t)) \/ Main

\* The OpenMP runtime runs every thread of the team to the end of the loop.
Fairness == WF_vars(Main) /\ \A t \in Thread : WF_vars(Step(t))

Spec == Init /\ [][Next]_vars /\ Fairness

-----------------------------------------------------------------------------
\* A set of vertices that no edge leaves or enters.
Closed(S) == \A n \in Vertex : \A i \in DOMAIN out_neigh(n) : n \in S <=> out_neigh(n)[i] \in S

\* The vertices that an undirected search from n reaches, what the frontier of
\* CCVerifier holds in the end: the smallest such set with n in it.
Search(n) == {m \in Vertex : \A S \in SUBSET Vertex : n \in S /\ Closed(S) => m \in S}

\* CCVerifier: each label has as its source the last vertex that carries it.
\* The search from there meets no other label, and the searches visit all.
CCVerifier ==
  LET sources == {n \in Vertex : \A m \in Vertex : comp[m] = comp[n] => m <= n}
  IN  /\ \A s \in sources : \A m \in Search(s) : comp[m] = comp[s]
      /\ UNION {Search(s) : s \in sources} = Vertex

\* m and n are in one tree of the parent pointers f: no union of trees has the
\* one without the other.
Saturated(f, S) == \A n \in Vertex : n \in S <=> f[n] \in S
InOneTree(f, m, n) == \A S \in SUBSET Vertex : Saturated(f, S) => (m \in S <=> n \in S)

\* At every moment, with threads in the middle of their hooks and jumps, a
\* label is no greater than its vertex, so that the parent pointers form a
\* forest and Link and Compress cannot go round a cycle, and it lies in the
\* vertex's own component (cc.cc:46-54, cc_sv.cc:67-71).
LabelsDescend ==
  kernel \in Kernels => \A n \in Vertex : comp[n] <= n /\ comp[n] \in Search(n)

\* A step of Afforest never takes apart what was linked: two vertices in one
\* tree stay in one tree.  Afforest looks at each edge once, so a lost
\* link would not be made again (cc.cc:50-52).  (Shiloach-Vishkin does lose
\* hooks, and repeats until nothing changes.)
LinksKept ==
  [][kernel = "afforest" /\ comp' # comp =>
       \A m, n \in Vertex : InOneTree(comp, m, n) => InOneTree(comp', m, n)]_vars

\* When a kernel returns, CCVerifier accepts its labels: "Asserts search does
\* not reach a vertex with a different component label" (cc.cc:172), whatever
\* label was sampled and whatever hooks were overwritten.
CCAccepted == kernel \in Kernels /\ phase = "done" => CCVerifier

\* The kernel returns: no thread chases parents for ever, and the hooking
\* loop reaches an iteration without a change.
CCReturns == <>(phase = "done")
=============================================================================
