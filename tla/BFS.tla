-------------------------------- MODULE BFS --------------------------------
(***************************************************************************)
(* gapbs direction-optimizing breadth-first search (bfs.cc), on a graph,   *)
(* a source and tuning parameters alpha and beta chosen at the start.  The *)
(* main thread runs DOBFS; its parallel loops are run by the threads of    *)
(* the OpenMP team, one shared-memory access per step where two threads    *)
(* can touch the same word.                                                *)
(***************************************************************************)
EXTENDS SlidingQueue, FiniteSetsExt

CONSTANTS
  Graphs,        \* sequences of out-neighbour sequences; vertex v is index v + 1
  Alphas, Betas, \* the values of DOBFS's parameters alpha and beta
  BitsPerWord,   \* bitmap.h kBitsPerWord (64 in the code)
  ChunkWords     \* BUStep's chunk in bitmap words: schedule(dynamic, 1024)

\* What the proofs assume of the constants.
ConstantsSound ==
  /\ Thread # {}
  /\ \A h \in Graphs : h \in Seq(Seq(0 .. Len(h) - 1))
  /\ BitsPerWord \in Nat \ {0} /\ ChunkWords \in Nat \ {0}

VARIABLES
  g, source, alpha, beta,
  parent,        \* the BFS tree
  front, curr,   \* the bitmaps: the bits set in each word
  edgesToCheck, scoutCount, awakeCount, oldAwakeCount,
  phase,         \* where DOBFS is
  todo,          \* iterations of the current parallel loop not yet started
  pc, work,      \* per thread: step, rest of its iteration,
  val, word      \* the vertex it expands, the bitmap word it read

config    == <<g, source, alpha, beta>>
heuristic == <<edgesToCheck, scoutCount, awakeCount, oldAwakeCount>>
team      == <<pc, work, val, word>>
vars      == <<config, parent, front, curr, heuristic, phase, todo, team, queueVars>>

-----------------------------------------------------------------------------
(* The graph. *)
NumNodes == Len(g)
Vertex   == 0 .. NumNodes - 1

out_neigh(u) == g[u + 1]
out_degree(u) == Len(out_neigh(u))
num_edges_directed == FoldLeft(LAMBDA n, s : n + Len(s), 0, g)

(* Bitmap (bitmap.h). *)
word_offset(v) == v \div BitsPerWord
NoBits == [w \in 0 .. (NumNodes - 1) \div BitsPerWord |-> {}]
get_bit(bm, v) == v \in bm[word_offset(v)]

\* schedule(dynamic, 1024): a thread takes a whole chunk of vertices.
ChunkSizeUnaligned == ChunkWords * BitsPerWord - 1
ChunkSize == ChunkWords * BitsPerWord
Chunks    == {c \in Vertex : c * ChunkSize < NumNodes}
Chunk(c)  == [k \in 1 .. Min({ChunkSize, NumNodes - c * ChunkSize}) |-> c * ChunkSize + k - 1]

-----------------------------------------------------------------------------
\* InitParent: minus the out-degree, -1 for a vertex without out-edges.
InitParent(v) == IF out_degree(v) # 0 THEN -out_degree(v) ELSE -1

Init ==
  /\ g \in Graphs
  /\ source \in Vertex
  /\ alpha \in Alphas /\ beta \in Betas
  /\ parent = [v \in Vertex |-> IF v = source THEN source ELSE InitParent(v)]
  /\ front = NoBits /\ curr = NoBits
  /\ edgesToCheck = num_edges_directed
  /\ scoutCount = out_degree(source)
  /\ awakeCount = 0 /\ oldAwakeCount = 0
  /\ phase = "seed"
  /\ todo = {}
  /\ pc = [t \in Thread |-> "idle"]
  /\ work = [t \in Thread |-> <<>>]
  /\ val = [t \in Thread |-> 0]
  /\ word = [t \in Thread |-> {}]
  /\ QueueInit

\* A parallel region is entered with the iterations of its loop, and left by
\* the implicit barrier when every thread is through.
Enter(p, iterations) ==
  /\ phase' = p
  /\ todo' = iterations
  /\ pc' = [t \in Thread |-> "loop"]
  /\ UNCHANGED <<work, val, word>>

AllThrough == \A t \in Thread : pc[t] = "through"

Seed ==
  /\ phase = "seed"
  /\ SeedQueue(source)
  /\ phase' = "while"
  /\ UNCHANGED <<config, parent, front, curr, heuristic, todo, team>>

\* while (!queue.empty()), with the choice of direction.
ChooseBottomUp == scoutCount > edgesToCheck \div alpha

StartTopDown ==
  /\ phase = "while" /\ ~QueueEmpty /\ ~ChooseBottomUp
  /\ edgesToCheck' = edgesToCheck - scoutCount
  /\ scoutCount' = 0
  /\ Enter("td", outStart .. outEnd - 1)
  /\ UNCHANGED <<config, parent, front, curr, awakeCount, oldAwakeCount, queueVars>>

StartQueueToBitmap ==
  /\ phase = "while" /\ ~QueueEmpty /\ ChooseBottomUp
  /\ Enter("q2b", outStart .. outEnd - 1)
  /\ UNCHANGED <<config, parent, front, curr, heuristic, queueVars>>

\* After the loop: parent[n] < -1 becomes -1.
Finish ==
  /\ phase = "while" /\ QueueEmpty
  /\ parent' = [v \in Vertex |-> IF parent[v] < -1 THEN -1 ELSE parent[v]]
  /\ phase' = "done"
  /\ UNCHANGED <<config, front, curr, heuristic, todo, team, queueVars>>

-----------------------------------------------------------------------------
Goto(t, to) == pc' = [pc EXCEPT ![t] = to]
SetWork(t, w) == work' = [work EXCEPT ![t] = w]

\* A thread takes an iteration: a queue slot, a chunk or a vertex.
Take(t) ==
  /\ pc[t] = "loop" /\ todo # {}
  /\ \E i \in todo :
       /\ todo' = todo \ {i}
       /\ val' = [val EXCEPT ![t] = IF phase \in {"td", "q2b"} THEN slots[i] ELSE i]
       /\ SetWork(t, CASE phase = "td"  -> out_neigh(slots[i])
                       [] phase = "q2b" -> <<slots[i]>>
                       [] phase = "bu"  -> Chunk(i)
                       [] phase = "b2q" -> <<i>>)
  /\ Goto(t, phase)
  /\ UNCHANGED <<config, parent, front, curr, heuristic, phase, word, queueVars>>

\* Its loop is over, at the barrier that ends it: the two loops with a
\* QueueBuffer go on to flush it.
LeaveLoop(t) ==
  /\ pc[t] = "loop" /\ todo = {}
  /\ \A u \in Thread : pc[u] \in {"loop", "flush", "through"}
  /\ Goto(t, IF phase \in {"td", "b2q"} THEN "flush" ELSE "through")
  /\ UNCHANGED <<config, parent, front, curr, heuristic, phase, todo, work, val, word, queueVars>>

\* The iteration is over when its work is.
EndIteration(t) ==
  /\ pc[t] \in {"td", "q2b", "bu", "b2q"} /\ work[t] = <<>>
  /\ Goto(t, "loop")
  /\ UNCHANGED <<config, parent, front, curr, heuristic, phase, todo, work, val, word, queueVars>>

\* flush(), at the end or because push_back found the buffer full.
Flush(t) ==
  /\ \/ pc[t] = "flush"
     \/ pc[t] = "push" /\ BufferFull(t)
     \/ pc[t] = "b2q" /\ work[t] # <<>> /\ BufferFull(t) /\ get_bit(front, Head(work[t]))
  /\ FlushReserve(t)
  /\ UNCHANGED <<config, parent, front, curr, heuristic, phase, todo, team>>

FlushDone(t) ==
  /\ FlushCopy(t)
  /\ Goto(t, IF pc[t] = "flush" THEN "through" ELSE pc[t])
  /\ UNCHANGED <<config, parent, front, curr, heuristic, phase, todo, work, val, word>>

-----------------------------------------------------------------------------
(* TDStep.  val is u; the work is the rest of out_neigh(u). *)

\* curr_val = parent[v]: visited vertices are passed over.
TDSkip(t) ==
  /\ pc[t] = "td" /\ work[t] # <<>>
  /\ parent[Head(work[t])] >= 0
  /\ SetWork(t, Tail(work[t]))
  /\ UNCHANGED <<config, parent, front, curr, heuristic, phase, todo, pc, val, word, queueVars>>

TDLoad(t) ==
  /\ pc[t] = "td" /\ work[t] # <<>>
  /\ parent[Head(work[t])] < 0
  /\ Goto(t, "cas")
  /\ UNCHANGED <<config, parent, front, curr, heuristic, phase, todo, work, val, word, queueVars>>

\* compare_and_swap(parent[v], curr_val, u).  An unvisited vertex has the same
\* negative value until it is visited, so the CAS fails exactly if it was.
TDCas(t) ==
  LET v == Head(work[t]) IN
  /\ pc[t] = "cas"
  /\ IF parent[v] = InitParent(v)
     THEN /\ parent' = [parent EXCEPT ![v] = val[t]]
          /\ scoutCount' = scoutCount - parent[v]
          /\ Goto(t, "push")
          /\ UNCHANGED work
     ELSE /\ Goto(t, "td")
          /\ SetWork(t, Tail(work[t]))
          /\ UNCHANGED <<parent, scoutCount>>
  /\ UNCHANGED <<config, front, curr, edgesToCheck, awakeCount, oldAwakeCount,
                 phase, todo, val, word, queueVars>>

TDPush(t) ==
  /\ pc[t] = "push"
  /\ copyStart[t] = -1
  /\ BufferPush(t, Head(work[t]))
  /\ SetWork(t, Tail(work[t]))
  /\ Goto(t, "td")
  /\ UNCHANGED <<config, parent, front, curr, heuristic, phase, todo, val, word>>

EndTopDown ==
  /\ phase = "td" /\ AllThrough
  /\ SlideWindow
  /\ phase' = "while"
  /\ UNCHANGED <<config, parent, front, curr, heuristic, todo, team>>

-----------------------------------------------------------------------------
(* QueueToBitmap: set_bit_atomic in `front`, a load and a CAS. *)
SetBitAtomicLoad(t) ==
  /\ pc[t] = "q2b" /\ work[t] # <<>>
  /\ word' = [word EXCEPT ![t] = front[word_offset(Head(work[t]))]]
  /\ Goto(t, "casbit")
  /\ UNCHANGED <<config, parent, front, curr, heuristic, phase, todo, work, val, queueVars>>

SetBitAtomicCas(t) ==
  LET w == word_offset(Head(work[t])) IN
  /\ pc[t] = "casbit"
  /\ IF front[w] = word[t]
     THEN /\ front' = [front EXCEPT ![w] = word[t] \cup {Head(work[t])}]
          /\ SetWork(t, Tail(work[t]))
     ELSE UNCHANGED <<front, work>>
  /\ Goto(t, "q2b")
  /\ UNCHANGED <<config, parent, curr, heuristic, phase, todo, val, word, queueVars>>

\* The queue is emptied and the first bottom-up step starts: next.reset().
StartBottomUp ==
  /\ phase = "q2b" /\ AllThrough
  /\ oldAwakeCount' = QueueSize
  /\ awakeCount' = 0
  /\ SlideWindow
  /\ curr' = NoBits
  /\ Enter("bu", Chunks)
  /\ UNCHANGED <<config, parent, front, edgesToCheck, scoutCount>>

-----------------------------------------------------------------------------
(* BUStep.  The work is the rest of the thread's chunk; in_neigh(u) is sorted, *)
(* and its first vertex in the front becomes the parent.                      *)
FrontNeighbours(u) == {v \in Vertex : Contains(out_neigh(v), u) /\ get_bit(front, v)}

BUSkip(t) ==
  LET u == Head(work[t]) IN
  /\ pc[t] = "bu" /\ work[t] # <<>>
  /\ parent[u] >= 0 \/ FrontNeighbours(u) = {}
  /\ SetWork(t, Tail(work[t]))
  /\ UNCHANGED <<config, parent, front, curr, heuristic, phase, todo, pc, val, word, queueVars>>

\* parent[u] = v, and set_bit(u) reads its word of `next`, without atomicity.
BUVisit(t) ==
  LET u == Head(work[t]) IN
  /\ pc[t] = "bu" /\ work[t] # <<>>
  /\ parent[u] < 0 /\ FrontNeighbours(u) # {}
  /\ parent' = [parent EXCEPT ![u] = Min(FrontNeighbours(u))]
  /\ awakeCount' = awakeCount + 1
  /\ word' = [word EXCEPT ![t] = curr[word_offset(u)]]
  /\ Goto(t, "setbit")
  /\ UNCHANGED <<config, front, curr, edgesToCheck, scoutCount, oldAwakeCount,
                 phase, todo, work, val, queueVars>>

BUSetBit(t) ==
  LET u == Head(work[t]) IN
  /\ pc[t] = "setbit"
  /\ curr' = [curr EXCEPT ![word_offset(u)] = word[t] \cup {u}]
  /\ SetWork(t, Tail(work[t]))
  /\ Goto(t, "bu")
  /\ UNCHANGED <<config, parent, front, heuristic, phase, todo, val, word, queueVars>>

\* front.swap(curr), then the while of the do loop: another bottom-up step
\* (whose next.reset() clears the old front) ...
StayBottomUp ==
  awakeCount >= oldAwakeCount \/ awakeCount > NumNodes \div beta

NextBottomUp ==
  /\ phase = "bu" /\ AllThrough /\ StayBottomUp
  /\ front' = curr
  /\ curr' = NoBits
  /\ oldAwakeCount' = awakeCount
  /\ awakeCount' = 0
  /\ Enter("bu", Chunks)
  /\ UNCHANGED <<config, parent, edgesToCheck, scoutCount, queueVars>>

\* ... or BitmapToQueue and back to the queue.
StartBitmapToQueue ==
  /\ phase = "bu" /\ AllThrough /\ ~StayBottomUp
  /\ front' = curr /\ curr' = front
  /\ Enter("b2q", Vertex)
  /\ UNCHANGED <<config, parent, heuristic, queueVars>>

B2QPush(t) ==
  /\ pc[t] = "b2q" /\ work[t] # <<>>
  /\ copyStart[t] = -1
  /\ IF get_bit(front, Head(work[t]))
     THEN BufferPush(t, Head(work[t]))
     ELSE UNCHANGED queueVars
  /\ SetWork(t, <<>>)
  /\ UNCHANGED <<config, parent, front, curr, heuristic, phase, todo, pc, val, word>>

EndBitmapToQueue ==
  /\ phase = "b2q" /\ AllThrough
  /\ SlideWindow
  /\ scoutCount' = 1
  /\ phase' = "while"
  /\ UNCHANGED <<config, parent, front, curr, edgesToCheck, awakeCount,
                 oldAwakeCount, todo, team>>

-----------------------------------------------------------------------------
Step(t) ==
  \/ Take(t) \/ LeaveLoop(t) \/ EndIteration(t) \/ Flush(t) \/ FlushDone(t)
  \/ TDSkip(t) \/ TDLoad(t) \/ TDCas(t) \/ TDPush(t)
  \/ SetBitAtomicLoad(t) \/ SetBitAtomicCas(t)
  \/ BUSkip(t) \/ BUVisit(t) \/ BUSetBit(t) \/ B2QPush(t)

DOBFS ==
  \/ Seed \/ StartTopDown \/ EndTopDown \/ StartQueueToBitmap \/ StartBottomUp
  \/ NextBottomUp \/ StartBitmapToQueue \/ EndBitmapToQueue \/ Finish

Terminated == phase = "done" /\ UNCHANGED vars

Next == (\E t \in Thread : Step(t)) \/ DOBFS \/ Terminated

\* The OpenMP runtime runs every thread of the team to the barrier.
Fairness == WF_vars(DOBFS) /\ \A t \in Thread : WF_vars(Step(t))

Spec == Init /\ [][Next]_vars /\ Fairness

-----------------------------------------------------------------------------
\* The serial BFS of BFSVerifier: the vertices first reached in round d.
Levels ==
  LET level[d \in 0 .. NumNodes] ==
        IF d = 0 THEN <<{source}, {source}>>
        ELSE LET prev == level[d - 1]
                 new  == (UNION {ToSet(out_neigh(u)) : u \in prev[1]}) \ prev[2]
             IN <<new, prev[2] \cup new>>
  IN [d \in 0 .. NumNodes |-> level[d]]
depth(levels, v) == CHOOSE d \in 0 .. NumNodes : v \in levels[d][1]
Depths ==
  LET levels == Levels
  IN [v \in Vertex |-> IF v \in levels[NumNodes][2] THEN depth(levels, v) ELSE -1]

\* What makes a depth per vertex, -1 if it is not reached, that of a BFS.
IsLevels(lv) ==
  /\ lv \in [Vertex -> Nat \cup {-1}]
  /\ \A v \in Vertex : lv[v] = 0 <=> v = source
  /\ \A u, v \in Vertex : Contains(out_neigh(u), v) /\ lv[u] >= 0 => lv[v] \in 0 .. lv[u] + 1
  /\ \A v \in Vertex : lv[v] > 0 =>
       \E u \in Vertex : Contains(out_neigh(u), v) /\ lv[v] = lv[u] + 1 /\ lv[u] >= 0

\* The frontier lies in the queue's array: its capacity is num_nodes(), and no
\* schedule of the threads' flushes goes past it (sliding_queue.h:103-108,
\* bfs.cc:131).  A window never shows a slot before it is copied.
QueueFits ==
  /\ sharedIn <= NumNodes
  /\ phase = "while" => outStart .. outEnd - 1 \subseteq DOMAIN slots

\* Every tree edge found so far, top-down or bottom-up, is an edge of the graph
\* that goes one level down: "parent[v] = u => depth[v] = depth[u] + 1"
\* (bfs.cc:192), at any moment and with what earlier phases left in the
\* bitmaps.
Descends(lv) ==
  \A v \in Vertex : parent[v] >= 0 /\ v # source =>
    /\ parent[v] \in Vertex /\ Contains(out_neigh(parent[v]), v)
    /\ lv[parent[v]] >= 0 /\ lv[v] = lv[parent[v]] + 1

TreeEdgesDescend == Descends(Depths)

\* What BFSVerifier accepts at the end: "all vertices reachable from source
\* have a parent" (bfs.cc:194) and no other does.
Accepts(lv) ==
  /\ parent[source] = source
  /\ \A v \in Vertex : parent[v] >= -1 /\ (parent[v] >= 0 <=> lv[v] >= 0)

\* With the depths of the verifier's serial BFS.
VerifierAccepts == phase = "done" => Accepts(Depths)

\* The search ends, also when it changes direction several times.
Ends == <>(phase = "done")
=============================================================================
