--------------------------- MODULE DeltaStepping ---------------------------
(***************************************************************************)
(* gapbs single-source shortest paths (sssp.cc): delta-stepping with a     *)
(* frontier shared by the threads of an OpenMP team and bins local to each *)
(* thread.  An iteration has two phases, each ended by a barrier: in the   *)
(* first the threads relax the edges of the current bin and vote on the    *)
(* next one, in the second they copy their part of it to the frontier.     *)
(* The current and next bin index and frontier tail are double-buffered by *)
(* the parity of the iteration.                                            *)
(***************************************************************************)
EXTENDS Integers, SequencesExt, FiniteSetsExt

CONSTANTS
  Thread,
  Graphs,      \* per vertex (index v + 1) the sequence of its edges [v, w]
  Deltas,      \* values of the parameter delta
  kDistInf,    \* greater than every distance
  kMaxBin      \* greater than every bin index

\* Weights are not negative, and the two infinities are those of sssp.cc:52-53:
\* no distance reaches kDistInf, and no distance has a bin as high as kMaxBin.
WGraph(h) == h \in Seq(Seq([v : 0 .. Len(h) - 1, w : Nat]))

ConstantsSound ==
  /\ Thread # {}
  /\ \A h \in Graphs : WGraph(h)
  /\ Deltas \subseteq Nat \ {0}
  /\ kDistInf \in Nat /\ kMaxBin \in Nat /\ kDistInf <= kMaxBin

VARIABLES
  g, source, delta,
  oracle_dist,       \* the distances that SSSPVerifier compares with
  dist,
  frontier,          \* the slots of the shared frontier written so far
  shared_indexes, frontier_tails,
  iter,              \* parity of the iteration
  nextSlot,          \* the dynamic loop: first slot not given to a thread
  single,            \* the single region of this iteration is still free
  pc, local_bins,
  work, u, relax     \* per thread: edges left, their source, the relaxation it is in

config == <<g, source, delta, oracle_dist>>
shared == <<shared_indexes, frontier_tails>>
locals == <<work, u, relax>>
vars   == <<config, dist, frontier, shared, iter, nextSlot, single, pc, local_bins, locals>>

-----------------------------------------------------------------------------
Vertex == 0 .. Len(g) - 1
out_neigh(n) == g[n + 1]
num_edges_directed == FoldLeft(LAMBDA n, s : n + Len(s), 0, g)

curr == iter
next == 1 - iter

Bin(d) == d \div delta

\* A thread's bins: a sequence of sequences, bin b at index b + 1.
PushBin(bins, b, v) ==
  [i \in 1 .. Max({b + 1, Len(bins)}) |->
     (IF i <= Len(bins) THEN bins[i] ELSE <<>>) \o (IF i = b + 1 THEN <<v>> ELSE <<>>)]

\* The oracle of SSSPVerifier: the length of the shortest walk to each vertex
\* that has no more edges than the graph has vertices.
Extend(walks) ==
  walks \cup UNION {{[v |-> e.v, d |-> p.d + e.w] : e \in ToSet(out_neigh(p.v))} : p \in walks}
Walks ==
  LET at[k \in 0 .. Len(g)] == IF k = 0 THEN {[v |-> source, d |-> 0]} ELSE Extend(at[k - 1])
  IN  at
Oracle ==
  [n \in Vertex |-> Min({kDistInf} \cup {p.d : p \in {q \in Walks[Len(g)] : q.v = n}})]

NoRelax == [old |-> 0, new |-> 0]

Init ==
  /\ g \in Graphs
  /\ source \in {n \in Vertex : out_neigh(n) # <<>>}
  /\ delta \in Deltas
  /\ oracle_dist = Oracle
  /\ dist = [n \in Vertex |-> IF n = source THEN 0 ELSE kDistInf]
  /\ frontier = <<source>>
  /\ shared_indexes = [i \in {0, 1} |-> IF i = 0 THEN 0 ELSE kMaxBin]
  /\ frontier_tails = [i \in {0, 1} |-> IF i = 0 THEN 1 ELSE 0]
  /\ iter = 0
  /\ nextSlot = 1
  /\ single = TRUE
  /\ pc = [t \in Thread |-> "loop"]
  /\ local_bins = [t \in Thread |-> <<>>]
  /\ work = [t \in Thread |-> <<>>]
  /\ u = [t \in Thread |-> source]
  /\ relax = [t \in Thread |-> NoRelax]

Goto(t, to) == pc' = [pc EXCEPT ![t] = to]

-----------------------------------------------------------------------------
(* First phase. *)

\* The test made strict.
InBinStrict(n) == dist[n] > delta * shared_indexes[curr]

\* The test that drops a vertex from a bin it has left.
InBin(n) == dist[n] >= delta * shared_indexes[curr]

\* schedule(dynamic): the next slot of the frontier.
Take(t) ==
  /\ pc[t] = "loop" /\ nextSlot <= frontier_tails[curr]
  /\ nextSlot' = nextSlot + 1
  /\ LET n == frontier[nextSlot] IN
     /\ u' = [u EXCEPT ![t] = n]
     /\ work' = [work EXCEPT ![t] = IF InBin(n) THEN out_neigh(n) ELSE <<>>]
     /\ Goto(t, IF InBin(n) /\ out_neigh(n) # <<>> THEN "old" ELSE "loop")
  /\ UNCHANGED <<config, dist, frontier, shared, iter, single, local_bins, relax>>

NextEdge(t) ==
  /\ work' = [work EXCEPT ![t] = Tail(@)]
  /\ relax' = [relax EXCEPT ![t] = NoRelax]
  /\ Goto(t, IF Len(work[t]) = 1 THEN "loop" ELSE "old")

LoadOld(t) ==
  /\ pc[t] = "old"
  /\ relax' = [relax EXCEPT ![t].old = dist[Head(work[t]).v]]
  /\ Goto(t, "new")
  /\ UNCHANGED <<config, dist, frontier, shared, iter, nextSlot, single, local_bins, work, u>>

LoadNew(t) ==
  /\ pc[t] = "new"
  /\ LET new == dist[u[t]] + Head(work[t]).w IN
     IF new < relax[t].old
     THEN /\ relax' = [relax EXCEPT ![t].new = new]
          /\ Goto(t, "cas")
          /\ UNCHANGED work
     ELSE NextEdge(t)
  /\ UNCHANGED <<config, dist, frontier, shared, iter, nextSlot, single, local_bins, u>>

\* compare_and_swap(dist[v], old_dist, new_dist), and the push when it succeeds.
Cas(t) ==
  /\ pc[t] = "cas"
  /\ LET v == Head(work[t]).v IN
     IF dist[v] = relax[t].old
     THEN /\ dist' = [dist EXCEPT ![v] = relax[t].new]
          /\ local_bins' = [local_bins EXCEPT ![t] = PushBin(@, Bin(relax[t].new), v)]
          /\ NextEdge(t)
     ELSE Goto(t, "reload") /\ UNCHANGED <<dist, local_bins, work, relax>>
  /\ UNCHANGED <<config, frontier, shared, iter, nextSlot, single, u>>

\* A failed swap is not tried again.
ReloadGiveUp(t) ==
  /\ pc[t] = "reload"
  /\ NextEdge(t)
  /\ UNCHANGED <<config, dist, frontier, shared, iter, nextSlot, single, local_bins, u>>

\* A failed swap is given up when the distance is good enough already.
Reload(t) ==
  /\ pc[t] = "reload"
  /\ LET old == dist[Head(work[t]).v] IN
     IF old <= relax[t].new
     THEN NextEdge(t)
     ELSE /\ relax' = [relax EXCEPT ![t].old = old]
          /\ Goto(t, "cas")
          /\ UNCHANGED work
  /\ UNCHANGED <<config, dist, frontier, shared, iter, nextSlot, single, local_bins, u>>

\* The smallest of the thread's bins from the current one on that is not empty.
NonEmpty(t) ==
  {b \in shared_indexes[curr] .. Len(local_bins[t]) - 1 : local_bins[t][b + 1] # <<>>}

\* Out of slots, without waiting for the others: the vote, a critical section.
Vote(t) ==
  /\ pc[t] = "loop" /\ nextSlot > frontier_tails[curr]
  /\ shared_indexes' =
       [shared_indexes EXCEPT ![next] = Min({@} \cup NonEmpty(t))]
  /\ Goto(t, "voted")
  /\ UNCHANGED <<config, dist, frontier, frontier_tails, iter, nextSlot, single,
                 local_bins, locals>>

-----------------------------------------------------------------------------
(* Second phase. *)

\* The barrier after the vote.
Elected ==
  /\ \A t \in Thread : pc[t] = "voted"
  /\ pc' = [t \in Thread |-> "single"]
  /\ UNCHANGED <<config, dist, frontier, shared, iter, nextSlot, single, local_bins, locals>>

\* The current bin index is not cleared.
SingleKeepsIndex(t) ==
  /\ pc[t] = "single"
  /\ single' = FALSE
  /\ frontier_tails' = [frontier_tails EXCEPT ![curr] = IF single THEN 0 ELSE @]
  /\ Goto(t, "reserve")
  /\ UNCHANGED <<config, dist, frontier, shared_indexes, iter, nextSlot, local_bins, locals>>

\* single nowait: the first thread here clears the current entries.
Single(t) ==
  /\ pc[t] = "single"
  /\ single' = FALSE
  /\ IF single
     THEN /\ shared_indexes' = [shared_indexes EXCEPT ![curr] = kMaxBin]
          /\ frontier_tails' = [frontier_tails EXCEPT ![curr] = 0]
     ELSE UNCHANGED shared
  /\ Goto(t, "reserve")
  /\ UNCHANGED <<config, dist, frontier, iter, nextSlot, local_bins, locals>>

Elect(t) == shared_indexes[next] < Len(local_bins[t])
Share(t) == local_bins[t][shared_indexes[next] + 1]

\* fetch_and_add(next_frontier_tail, size): relax.old holds copy_start.
Reserve(t) ==
  /\ pc[t] = "reserve"
  /\ IF Elect(t)
     THEN /\ relax' = [relax EXCEPT ![t].old = frontier_tails[next]]
          /\ frontier_tails' = [frontier_tails EXCEPT ![next] = @ + Len(Share(t))]
          /\ Goto(t, "copy")
     ELSE Goto(t, "copied") /\ UNCHANGED <<relax, frontier_tails>>
  /\ UNCHANGED <<config, dist, frontier, shared_indexes, iter, nextSlot, single,
                 local_bins, work, u>>

\* The frontier has num_edges_directed() slots.  A copy past its end has no
\* defined effect, and the model stops before it.
Copy(t) ==
  /\ pc[t] = "copy"
  /\ LET start == relax[t].old
         top   == start + Len(Share(t)) IN
     /\ top <= num_edges_directed
     /\ frontier' =
          [i \in 1 .. Max({top, Len(frontier)}) |->
             IF i \in start + 1 .. top THEN Share(t)[i - start]
             ELSE IF i <= Len(frontier) THEN frontier[i] ELSE source]
  /\ local_bins' = [local_bins EXCEPT ![t][shared_indexes[next] + 1] = <<>>]
  /\ relax' = [relax EXCEPT ![t] = NoRelax]
  /\ Goto(t, "copied")
  /\ UNCHANGED <<config, dist, shared, iter, nextSlot, single, work, u>>

\* iter++, the barrier, and the test of the while loop.
EndIteration ==
  /\ \A t \in Thread : pc[t] = "copied"
  /\ iter' = next
  /\ nextSlot' = 1
  /\ single' = TRUE
  /\ pc' = [t \in Thread |-> IF shared_indexes[next] # kMaxBin THEN "loop" ELSE "done"]
  /\ UNCHANGED <<config, dist, frontier, shared, local_bins, locals>>

-----------------------------------------------------------------------------
Step(t) ==
  \/ Take(t) \/ LoadOld(t) \/ LoadNew(t) \/ Cas(t) \/ Reload(t) \/ Vote(t)
  \/ Single(t) \/ Reserve(t) \/ Copy(t)

Barriers == Elected \/ EndIteration

Next == (\E t \in Thread : Step(t)) \/ Barriers

Done == \A t \in Thread : pc[t] = "done"

\* The OpenMP runtime runs every thread of the team to the next barrier.
Fairness == WF_vars(Barriers) /\ \A t \in Thread : WF_vars(Step(t))

Spec == Init /\ [][Next]_vars /\ Fairness

-----------------------------------------------------------------------------
\* Delta-stepping settles bin by bin: while a bin is processed, every vertex
\* whose true distance lies below the bin already has it, and none is ever
\* given less than its true distance, although threads vote on the next bin
\* before the others have finished (sssp.cc:101-116).
SettledBelow ==
  \A n \in Vertex :
    /\ dist[n] >= oracle_dist[n]
    /\ single /\ oracle_dist[n] < delta * shared_indexes[curr] => dist[n] = oracle_dist[n]

\* Where vertex m waits for its edge to v to be relaxed: a slot not yet taken,
\* a thread on its way to the edge, or the bin of its present distance, which
\* is not behind the current one.
Pending(m, v) ==
  \/ \E i \in nextSlot .. frontier_tails[curr] : single /\ frontier[i] = m /\ InBin(m)
  \/ \E t \in Thread : u[t] = m /\ \E e \in ToSet(work[t]) : e.v = v
  \/ \E t \in Thread :
       /\ Bin(dist[m]) < Len(local_bins[t])
       /\ Contains(local_bins[t][Bin(dist[m]) + 1], m)
       /\ Bin(dist[m]) >= shared_indexes[IF single THEN curr ELSE next]
  \/ /\ ~single /\ Bin(dist[m]) = shared_indexes[next]
     /\ \E i \in 1 .. Min({frontier_tails[next], Len(frontier)}) : frontier[i] = m

\* An edge that still improves a distance is never forgotten, whatever swaps
\* fail and whatever stale entries are dropped from the bins: its source waits
\* somewhere (sssp.cc:76-99, 117-123).
NoLostRelaxation ==
  \A m \in Vertex : \A e \in ToSet(out_neigh(m)) :
    dist[m] + e.w < dist[e.v] => Pending(m, e.v)

\* When the loop ends, SSSPVerifier accepts: the distances are those of the
\* serial algorithm.
SSSPAccepted == Done => dist = oracle_dist

\* The loop ends: some iteration leaves every bin empty.
SSSPReturns == <>Done
=============================================================================
