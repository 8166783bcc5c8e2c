---------------------------- MODULE Betweenness ----------------------------
(***************************************************************************)
(* gapbs betweenness centrality (bc.cc): from each picked source a         *)
(* parallel search that counts shortest paths and marks the edges to       *)
(* successors, then a sweep back over the levels kept in the queue.        *)
(***************************************************************************)
EXTENDS SlidingQueue, FiniteSetsExt, CommandLine

CONSTANTS
  Graphs,   \* sequences of out-neighbour sequences; vertex v is index v + 1
  Args,     \* command lines of bc
  One       \* the scores are fixed-point numbers in units of 1 / One

NaN == -1

VARIABLES
  g, cli,
  iter, sources,       \* Brandes: the iteration, the sources picked
  depths, path_counts, depth, depth_index,
  succ,                \* the positions <<u, i>> of edges to successors
  deltas, scores,
  phase, todo,
  pc, work, val        \* per thread: step, positions left of out_neigh(u), u

config  == <<g, cli>>
results == <<iter, sources, deltas, scores>>
search  == <<depths, path_counts, depth, depth_index, succ>>
vars    == <<config, results, search, phase, todo, pc, work, val, queueVars>>

NumNodes == Len(g)
Vertex == 0 .. NumNodes - 1
out_neigh(u) == g[u + 1]
Positions(u) == [i \in DOMAIN out_neigh(u) |-> i]

Init ==
  /\ g \in Graphs
  /\ \E a \in Args : cli = ParseArgs("CLIterApp", a).cli
  /\ iter = 0 /\ sources = <<>>
  /\ depths = [v \in Vertex |-> -1]
  /\ path_counts = [v \in Vertex |-> 0]
  /\ depth = 0 /\ depth_index = <<>> /\ succ = {}
  /\ deltas = [v \in Vertex |-> 0]
  /\ scores = [v \in Vertex |-> 0]
  /\ phase = "next" /\ todo = {}
  /\ pc = [t \in Thread |-> "idle"]
  /\ work = [t \in Thread |-> <<>>]
  /\ val = [t \in Thread |-> 0]
  /\ QueueInit

\* SourcePicker::PickNext: the given vertex, or random ones until one has an
\* out-edge.
PickNext == IF cli.start_vertex # -1 THEN {cli.start_vertex}
            ELSE {v \in Vertex : out_neigh(v) # <<>>}

\* The next iteration resets everything, and PBFS puts the source in the
\* queue: the begin of the queue is noted before the window slides.
NextSource ==
  /\ phase = "next" /\ iter < cli.num_iters
  /\ \E s \in PickNext :
       /\ sources' = Append(sources, s)
       /\ depths' = [v \in Vertex |-> IF v = s THEN 0 ELSE -1]
       /\ path_counts' = [v \in Vertex |-> IF v = s THEN 1 ELSE 0]
       /\ SeedQueue(s)
  /\ depth_index' = <<0>>
  /\ depth' = 0 /\ succ' = {}
  /\ phase' = "while"
  /\ UNCHANGED <<config, iter, deltas, scores, todo, pc, work, val>>

\* while (!queue.empty()): every thread counts the depth up.
StartLevel ==
  /\ phase = "while" /\ ~QueueEmpty
  /\ depth_index' = Append(depth_index, outStart)
  /\ depth' = depth + 1
  /\ phase' = "level"
  /\ todo' = outStart .. outEnd - 1
  /\ pc' = [t \in Thread |-> "loop"]
  /\ UNCHANGED <<config, results, depths, path_counts, succ, work, val, queueVars>>

Goto(t, to) == pc' = [pc EXCEPT ![t] = to]

Take(t) ==
  /\ phase = "level" /\ pc[t] = "loop" /\ work[t] = <<>>
  /\ \E i \in todo :
       /\ todo' = todo \ {i}
       /\ val' = [val EXCEPT ![t] = slots[i]]
       /\ work' = [work EXCEPT ![t] = Positions(slots[i])]
  /\ UNCHANGED <<config, results, search, phase, pc, queueVars>>

Target(t) == out_neigh(val[t])[Head(work[t])]

\* A vertex found by another one is passed over.
TestDepthOnce(t) ==
  /\ phase = "level" /\ pc[t] = "loop" /\ work[t] # <<>>
  /\ IF depths[Target(t)] = -1
     THEN Goto(t, "cas") /\ UNCHANGED work
     ELSE work' = [work EXCEPT ![t] = Tail(@)] /\ UNCHANGED pc
  /\ UNCHANGED <<config, results, search, phase, todo, val, queueVars>>

\* depths[v] == -1
TestDepth(t) ==
  /\ phase = "level" /\ pc[t] = "loop" /\ work[t] # <<>>
  /\ Goto(t, IF depths[Target(t)] = -1 THEN "cas" ELSE "same")
  /\ UNCHANGED <<config, results, search, phase, todo, work, val, queueVars>>

\* compare_and_swap(depths[v], -1, depth)
CasDepth(t) ==
  /\ phase = "level" /\ pc[t] = "cas"
  /\ IF depths[Target(t)] = -1
     THEN depths' = [depths EXCEPT ![Target(t)] = depth] /\ Goto(t, "push")
     ELSE Goto(t, "same") /\ UNCHANGED depths
  /\ UNCHANGED <<config, results, path_counts, depth, depth_index, succ, phase, todo,
                 work, val, queueVars>>

Push(t) ==
  /\ phase = "level" /\ pc[t] = "push" /\ copyStart[t] = -1
  /\ BufferPush(t, Target(t))
  /\ Goto(t, "same")
  /\ UNCHANGED <<config, results, search, phase, todo, work, val>>

\* depths[v] == depth: set_bit_atomic for the edge ...
Mark(t) ==
  /\ phase = "level" /\ pc[t] = "same"
  /\ IF depths[Target(t)] = depth
     THEN succ' = succ \cup {<<val[t], Head(work[t])>>} /\ Goto(t, "count") /\ UNCHANGED work
     ELSE Goto(t, "loop") /\ work' = [work EXCEPT ![t] = Tail(@)] /\ UNCHANGED succ
  /\ UNCHANGED <<config, results, depths, path_counts, depth, depth_index, phase, todo,
                 val, queueVars>>

\* ... and fetch_and_add(path_counts[v], path_counts[u]).
CountPaths(t) ==
  /\ phase = "level" /\ pc[t] = "count"
  /\ path_counts' = [path_counts EXCEPT ![Target(t)] = @ + path_counts[val[t]]]
  /\ work' = [work EXCEPT ![t] = Tail(@)]
  /\ Goto(t, "loop")
  /\ UNCHANGED <<config, results, depths, depth, depth_index, succ, phase, todo, val, queueVars>>

\* The for loop's barrier, then flush.
LeaveLoop(t) ==
  /\ phase = "level" /\ pc[t] = "loop" /\ work[t] = <<>> /\ todo = {}
  /\ \A u \in Thread : pc[u] \in {"loop", "flush", "through"} /\ work[u] = <<>>
  /\ Goto(t, "flush")
  /\ UNCHANGED <<config, results, search, phase, todo, work, val, queueVars>>

Flush(t) ==
  /\ phase = "level"
  /\ pc[t] = "flush" \/ (pc[t] = "push" /\ BufferFull(t))
  /\ FlushReserve(t)
  /\ UNCHANGED <<config, results, search, phase, todo, pc, work, val>>

FlushDone(t) ==
  /\ phase = "level"
  /\ FlushCopy(t)
  /\ Goto(t, IF pc[t] = "flush" THEN "through" ELSE pc[t])
  /\ UNCHANGED <<config, results, search, phase, todo, work, val>>

EndLevel ==
  /\ phase = "level" /\ \A t \in Thread : pc[t] = "through"
  /\ SlideWindow
  /\ phase' = "while"
  /\ UNCHANGED <<config, results, search, todo, pc, work, val>>

-----------------------------------------------------------------------------
\* The levels of the sweep: depth_index[d] .. depth_index[d + 1] - 1.
Level(index, d) == index[d] .. index[d + 1] - 1

EndSearch ==
  /\ phase = "while" /\ QueueEmpty
  /\ depth_index' = Append(depth_index, outStart)
  /\ deltas' = [v \in Vertex |-> 0]
  /\ phase' = "back"
  /\ depth' = Len(depth_index)
  /\ todo' = Level(depth_index', depth')
  /\ UNCHANGED <<config, iter, sources, scores, depths, path_counts, succ, pc, work, val, queueVars>>

\* path_counts[u] / path_counts[v] * (1 + deltas[v])
Share(paths, d, u, v) == (((paths[u] * One) \div paths[v]) * (One + d[v])) \div One

\* An iteration of the parallel loop over a level writes only entries of its
\* own vertex and reads those of the level below.
Dependency(u) ==
  MapThenSumSet(LAMBDA i : Share(path_counts, deltas, u, out_neigh(u)[i]),
                {i \in DOMAIN out_neigh(u) : <<u, i>> \in succ})

Accumulate ==
  /\ phase = "back"
  /\ \E i \in todo :
       /\ deltas' = [deltas EXCEPT ![slots[i]] = Dependency(slots[i])]
       /\ scores' = [scores EXCEPT ![slots[i]] = @ + Dependency(slots[i])]
       /\ todo' = todo \ {i}
  /\ UNCHANGED <<config, iter, sources, search, phase, pc, work, val, queueVars>>

NextLevelBack ==
  /\ phase = "back" /\ todo = {}
  /\ depth' = depth - 1
  /\ IF depth > 1
     THEN todo' = Level(depth_index, depth - 1) /\ UNCHANGED <<phase, iter>>
     ELSE phase' = "next" /\ iter' = iter + 1 /\ UNCHANGED todo
  /\ UNCHANGED <<config, sources, deltas, scores, depths, path_counts, depth_index, succ,
                 pc, work, val, queueVars>>

\* Division of every score by the biggest: not a number if that is 0.
Normalized(s) ==
  LET biggest_score == Max({s[n] : n \in DOMAIN s})
  IN [n \in DOMAIN s |-> IF biggest_score = 0 THEN NaN ELSE (s[n] * One) \div biggest_score]

Normalize ==
  /\ phase = "next" /\ iter = cli.num_iters
  /\ scores' = Normalized(scores)
  /\ phase' = "done"
  /\ UNCHANGED <<config, iter, sources, deltas, search, todo, pc, work, val, queueVars>>

Step(t) ==
  \/ Take(t) \/ TestDepth(t) \/ CasDepth(t) \/ Push(t) \/ Mark(t) \/ CountPaths(t)
  \/ LeaveLoop(t) \/ Flush(t) \/ FlushDone(t)

Main == NextSource \/ StartLevel \/ EndLevel \/ EndSearch \/ Accumulate \/ NextLevelBack
        \/ Normalize

Next == (\E t \in Thread : Step(t)) \/ Main

Fairness == WF_vars(Main) /\ \A t \in Thread : WF_vars(Step(t))

Spec == Init /\ [][Next]_vars /\ Fairness

-----------------------------------------------------------------------------
\* BCVerifier: the levels of a serial search, then the paths level by level,
\* and the dependencies from the farthest level back.
SerialLevels(s) ==
  FoldLeft(LAMBDA levels, k : Append(levels, UNION {ToSet(out_neigh(u)) : u \in Last(levels)}
                                             \ UNION ToSet(levels)),
           <<{s}>>, g)

SerialPaths(s, levels) ==
  FoldLeft(LAMBDA paths, k :
             FoldSet(LAMBDA v, p : [p EXCEPT ![v] =
                       MapThenSumSet(LAMBDA u : paths[u],
                                     {u \in levels[k] : Contains(out_neigh(u), v)})],
                     paths, levels[k + 1]),
           [v \in Vertex |-> IF v = s THEN 1 ELSE 0], [k \in 1 .. NumNodes |-> k])

SerialDeltas(s) ==
  LET levels == SerialLevels(s)
      paths  == SerialPaths(s, levels)
      sum(delta, k, u) ==
        MapThenSumSet(LAMBDA v : Share(paths, delta, u, v), ToSet(out_neigh(u)) \cap levels[k + 1])
  IN FoldRight(LAMBDA k, delta : FoldSet(LAMBDA u, d : [d EXCEPT ![u] = sum(delta, k, u)],
                                         delta, levels[k]),
               [k \in 1 .. NumNodes |-> k], [v \in Vertex |-> 0])

BCVerifier ==
  LET all == FoldLeft(LAMBDA sum, s : LET d == SerialDeltas(s)
                                      IN [v \in Vertex |-> sum[v] + d[v]],
                      [v \in Vertex |-> 0], sources)
      scores_ok == Normalized(all)
  IN \A n \in Vertex : scores_ok[n] = scores[n] /\ scores[n] # NaN

\* The verifier, which compares the scores with `!=`, accepts what Brandes
\* returns, whatever thread found a vertex and counted its paths first --
\* unless every source is a given vertex without edges: then the scores are
\* 0 / 0, and no verifier accepts them (bc.cc:139-141, 213-221).
BCAccepted ==
  phase = "done" => (BCVerifier <=> \E i \in DOMAIN sources : out_neigh(sources[i]) # <<>>)

\* The sweep back reads a level only when the level below it is complete, and
\* the queue still holds every level: no vertex is swept twice in an iteration
\* or left out (bc.cc:116-130).
LevelsKept ==
  phase = "back" =>
    /\ \A i \in todo : depths[slots[i]] >= 0
    /\ \A v \in Vertex : depths[v] >= 0 =>
         Cardinality({i \in 0 .. sharedIn - 1 : slots[i] = v}) = 1
    /\ \A i, j \in 0 .. sharedIn - 1 : i < j => depths[slots[i]] <= depths[slots[j]]
=============================================================================
