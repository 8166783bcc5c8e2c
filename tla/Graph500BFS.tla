---------------------------- MODULE Graph500BFS ----------------------------
(***************************************************************************)
(* graph500's OpenMP breadth-first search, make_bfs_tree (omp-csr.c), on a *)
(* graph already built.  Each thread of the team runs the whole loop.      *)
(*                                                                         *)
(* The OpenMP constructs behave as in libgomp, which the Makefile's gcc    *)
(* links: every barrier, implicit or explicit and wherever it stands, is   *)
(* the one barrier of the team, and a thread executes a `single` when it   *)
(* is the first to reach its n-th one.  This matters because threads can   *)
(* disagree about the branch they take: edges_to_check is private and its  *)
(* update races with `omp single scout_count = 0`.                         *)
(*                                                                         *)
(* Between two barriers a thread's share of a loop is one step when no     *)
(* other thread touches what it reads and writes; the top-down step, where *)
(* threads compete for vertices, goes edge by edge.                        *)
(***************************************************************************)
EXTENDS Integers, Sequences, FiniteSets, SequencesExt

CONSTANTS
  Graphs,      \* sequences of adjacency sequences; vertex v is index v + 1
  NT,          \* omp_get_num_threads()
  ALPHA, BETA,
  THREAD_BUF_LEN,
  MINVECT_SIZE \* the least room a vertex has in xadj

ASSUME ThreadsAssumption == NT \in Nat \ {0}
ASSUME TuningAssumption ==
  ALPHA \in Nat \ {0} /\ BETA \in Nat \ {0} /\ THREAD_BUF_LEN \in Nat \ {0} /\ MINVECT_SIZE \in Nat

Thread == 0 .. NT - 1

VARIABLES
  g, srcvtx,
  bfs_tree, vlist, k1, k2, scout_count,
  past, next,                \* bitmaps, as sets of vertices
  awake,                     \* the static awake_count of bfs_bottom_up_step
  pc, atBarrier,             \* where a thread is; whether it waits there first
  edges, awake_count, oldk2, \* private to a thread
  todo, buf,                 \* its loop's remaining edges; nbuf
  lag,                       \* how many `single`s of the team a thread has yet to meet
  raced                      \* history: a thread read scout_count after it was cleared

graph   == <<g, srcvtx>>
shared  == <<bfs_tree, vlist, k1, k2, scout_count, past, next, awake>>
private == <<edges, awake_count, oldk2, todo, buf>>
omp     == <<pc, atBarrier, lag>>
vars    == <<graph, shared, private, omp, raced>>

nv == Len(g)
Vertex == 0 .. nv - 1
Adj(v) == g[v + 1]
Degree(v) == Len(Adj(v))
Sum(s) == FoldLeft(LAMBDA x, y : x + y, 0, s)
\* XOFF(nv), with the room setup_deg_off gives every vertex.
XoffEnd == Sum([i \in 1 .. nv |-> IF Len(g[i]) < MINVECT_SIZE THEN MINVECT_SIZE ELSE Len(g[i])])

\* The iterations of [lo, hi) that a static `omp for` gives to thread t.
Share(t, lo, hi) ==
  LET n == IF hi > lo THEN hi - lo ELSE 0
      q == n \div NT
      r == n % NT
      first == lo + t * q + (IF t < r THEN t ELSE r)
      count == IF t < r THEN q + 1 ELSE q
  IN [i \in 1 .. count |-> first + i - 1]

-----------------------------------------------------------------------------
\* make_bfs_tree up to the loop; the two loops over bfs_tree end in barriers.
Init ==
  /\ g \in Graphs
  /\ srcvtx \in {v \in Vertex : Degree(v) > 0}
  /\ bfs_tree = [v \in Vertex |-> IF v = srcvtx THEN srcvtx ELSE -1]
  /\ vlist = [i \in Vertex |-> IF i = 0 THEN srcvtx ELSE -1]
  /\ k1 = 0 /\ k2 = 1
  /\ scout_count = Degree(srcvtx)
  /\ past = {} /\ next = {} /\ awake = 0
  /\ pc = [t \in Thread |-> "while"]
  /\ atBarrier = [t \in Thread |-> FALSE]
  /\ edges = [t \in Thread |-> XoffEnd]
  /\ awake_count = [t \in Thread |-> 1]
  /\ oldk2 = [t \in Thread |-> 0]
  /\ todo = [t \in Thread |-> <<>>]
  /\ buf = [t \in Thread |-> <<>>]
  /\ lag = [t \in Thread |-> 0]
  /\ raced = FALSE

-----------------------------------------------------------------------------
(* libgomp. *)
At(t, p) == pc[t] = p /\ ~atBarrier[t]
Goto(t, p) == pc' = [pc EXCEPT ![t] = p] /\ UNCHANGED <<atBarrier, lag>>
\* Go on at p after a barrier.
Barrier(t, p) ==
  /\ pc' = [pc EXCEPT ![t] = p]
  /\ atBarrier' = [atBarrier EXCEPT ![t] = TRUE]
  /\ UNCHANGED lag

Release ==
  /\ \A t \in Thread : atBarrier[t]
  /\ atBarrier' = [t \in Thread |-> FALSE]
  /\ UNCHANGED <<graph, raced, shared, private, pc, lag>>

First(t) == lag[t] = 0
\* The end of a `single`: its implicit barrier, then p.
EndSingle(t, p) ==
  /\ pc' = [pc EXCEPT ![t] = p]
  /\ atBarrier' = [atBarrier EXCEPT ![t] = TRUE]
  /\ lag' = IF First(t) THEN [u \in Thread |-> IF u = t THEN 0 ELSE lag[u] + 1]
            ELSE [lag EXCEPT ![t] = @ - 1]

\* An explicit barrier on its own: from p to q.
ExplicitBarrier(t, p, q) ==
  /\ At(t, p) /\ Barrier(t, q)
  /\ UNCHANGED <<graph, raced, shared, private>>

-----------------------------------------------------------------------------
(* The loop of make_bfs_tree. *)
TopDown(t) == scout_count < (edges[t] - scout_count) \div ALPHA

While(t) ==
  /\ At(t, "while")
  /\ IF awake_count[t] = 0 THEN Barrier(t, "end") /\ UNCHANGED <<oldk2, buf>>
     ELSE IF TopDown(t)
     THEN /\ oldk2' = [oldk2 EXCEPT ![t] = k2]
          /\ buf' = [buf EXCEPT ![t] = <<>>]
          /\ Barrier(t, "td")
     ELSE Goto(t, "fill") /\ UNCHANGED <<oldk2, buf>>
  /\ UNCHANGED <<graph, raced, shared, edges, awake_count, todo>>

\* bfs_top_down_step: the edges of the thread's share of the frontier ...
EdgesFrom(v) == [i \in DOMAIN Adj(v) |-> <<v, Adj(v)[i]>>]

TDStart(t) ==
  /\ At(t, "td")
  /\ LET mine == Share(t, k1, oldk2[t])
     IN todo' = [todo EXCEPT ![t] = FlattenSeq([i \in DOMAIN mine |-> EdgesFrom(vlist[mine[i]])])]
  /\ Goto(t, "edge")
  /\ UNCHANGED <<graph, raced, shared, edges, awake_count, oldk2, buf>>

\* fetch_add on k2, then the copy into vlist; the assert is QueueFits.
Flushed(t) ==
  [i \in Vertex |-> IF i \in k2 .. k2 + Len(buf[t]) - 1 THEN buf[t][i - k2 + 1] ELSE vlist[i]]
FlushBuf(t) ==
  /\ k2' = k2 + Len(buf[t])
  /\ vlist' = Flushed(t)

\* ... one by one: the load only filters what the CAS would refuse.
TDEdgeBlind(t) ==
  LET v == Head(todo[t])[1]
      j == Head(todo[t])[2]
  IN
  /\ At(t, "edge") /\ todo[t] # <<>>
  /\ todo' = [todo EXCEPT ![t] = Tail(@)]
  /\ bfs_tree' = [bfs_tree EXCEPT ![j] = v]
  /\ IF Len(buf[t]) < THREAD_BUF_LEN
     THEN buf' = [buf EXCEPT ![t] = Append(@, j)] /\ UNCHANGED <<k2, vlist>>
     ELSE buf' = [buf EXCEPT ![t] = <<j>>] /\ FlushBuf(t)
  /\ UNCHANGED <<graph, raced, k1, scout_count, past, next, awake, edges, awake_count, oldk2, omp>>

TDEdge(t) ==
  LET v == Head(todo[t])[1]
      j == Head(todo[t])[2]
  IN
  /\ At(t, "edge") /\ todo[t] # <<>>
  /\ todo' = [todo EXCEPT ![t] = Tail(@)]
  /\ IF bfs_tree[j] # -1 THEN UNCHANGED <<bfs_tree, buf, k2, vlist>>
     ELSE /\ bfs_tree' = [bfs_tree EXCEPT ![j] = v]
          /\ IF Len(buf[t]) < THREAD_BUF_LEN
             THEN buf' = [buf EXCEPT ![t] = Append(@, j)] /\ UNCHANGED <<k2, vlist>>
             ELSE buf' = [buf EXCEPT ![t] = <<j>>] /\ FlushBuf(t)
  /\ UNCHANGED <<graph, raced, k1, scout_count, past, next, awake, edges, awake_count, oldk2, omp>>

TDLoopEnd(t) ==
  /\ At(t, "edge") /\ todo[t] = <<>>
  /\ Barrier(t, "tdflush")
  /\ UNCHANGED <<graph, raced, shared, private>>

TDFlush(t) ==
  /\ At(t, "tdflush")
  /\ FlushBuf(t)
  /\ buf' = [buf EXCEPT ![t] = <<>>]
  /\ Goto(t, "advance")
  /\ UNCHANGED <<graph, raced, bfs_tree, k1, scout_count, past, next, awake, edges, awake_count, oldk2, todo>>

TDAdvance(t) ==      \* omp single: *k1_p = oldk2
  /\ At(t, "advance")
  /\ k1' = IF First(t) THEN oldk2[t] ELSE k1
  /\ EndSingle(t, "tdend")
  /\ UNCHANGED <<graph, raced, bfs_tree, vlist, k2, scout_count, past, next, awake, private>>

\* edges_to_check -= scout_count, with no barrier between it and the `single`
\* that clears scout_count for the next round.
AfterTopDown(t) ==
  /\ At(t, "after")
  /\ edges' = [edges EXCEPT ![t] = @ - scout_count]
  /\ awake_count' = [awake_count EXCEPT ![t] = k2 - k1]
  /\ raced' = (raced \/ \E u \in Thread : pc[u] = "sum")
  /\ Goto(t, "count")
  /\ UNCHANGED <<graph, shared, oldk2, todo, buf>>

-----------------------------------------------------------------------------
(* Bottom-up. *)
FillBitmap(t) ==     \* fill_bitmap_from_queue
  /\ At(t, "fill")
  /\ next' = next \cup {vlist[i] : i \in ToSet(Share(t, k1, k2))}
  /\ Barrier(t, "swap")
  /\ UNCHANGED <<graph, raced, bfs_tree, vlist, k1, k2, scout_count, past, awake, private>>

Swap(t) ==           \* omp single: bm_swap(past, next)
  /\ At(t, "swap")
  /\ IF First(t) THEN past' = next /\ next' = past ELSE UNCHANGED <<past, next>>
  /\ EndSingle(t, "swapped")
  /\ UNCHANGED <<graph, raced, bfs_tree, vlist, k1, k2, scout_count, awake, private>>

Reset(t) ==          \* bm_reset(next), the thread's share of it
  /\ At(t, "reset")
  /\ next' = next \ ToSet(Share(t, 0, nv))
  /\ Barrier(t, "zero")
  /\ UNCHANGED <<graph, raced, bfs_tree, vlist, k1, k2, scout_count, past, awake, private>>

Zero(t) ==           \* omp single: awake_count = 0
  /\ At(t, "zero")
  /\ awake' = IF First(t) THEN 0 ELSE awake
  /\ EndSingle(t, "zeroed")
  /\ UNCHANGED <<graph, raced, bfs_tree, vlist, k1, k2, scout_count, past, next, private>>

\* The unvisited vertices of the share with a neighbour in `past`, each with the
\* first such neighbour as parent.
ParentInEither(v) == SelectInSeq(Adj(v), LAMBDA j : j \in past \cup next)
ParentInPast(v) == SelectInSeq(Adj(v), LAMBDA j : j \in past)
BottomUp(t) ==
  LET found == {v \in ToSet(Share(t, 0, nv)) : bfs_tree[v] = -1 /\ ParentInPast(v) # 0} IN
  /\ At(t, "bu")
  /\ bfs_tree' = [v \in Vertex |-> IF v \in found THEN Adj(v)[ParentInPast(v)] ELSE bfs_tree[v]]
  /\ next' = next \cup found
  /\ awake' = awake + Cardinality(found)
  /\ Barrier(t, "buend")
  /\ UNCHANGED <<graph, raced, vlist, k1, k2, scout_count, past, private>>

StayUntilCutoff == awake # nv \div BETA
StayBottomUp == awake > nv \div BETA    \* awake_count > down_cutoff

BottomUpAgain(t) ==
  /\ At(t, "bureturn")
  /\ awake_count' = [awake_count EXCEPT ![t] = awake]
  /\ Goto(t, IF StayBottomUp THEN "swap" ELSE "restart")
  /\ UNCHANGED <<graph, raced, shared, edges, oldk2, todo, buf>>

Restart(t) ==        \* fill_queue_from_bitmap: omp single: *out = 0, *in = 0
  /\ At(t, "restart")
  /\ IF First(t) THEN k1' = 0 /\ k2' = 0 ELSE UNCHANGED <<k1, k2>>
  /\ EndSingle(t, "restarted")
  /\ UNCHANGED <<graph, raced, bfs_tree, vlist, scout_count, past, next, awake, private>>

\* The thread's range of the bitmap, written behind one reservation.
NodesPerThread == (nv + NT - 1) \div NT
\* Without the bit at the start of the range.
MyBitsAfterFirst(t) ==
  SelectSeq([i \in 1 .. nv |-> i - 1],
            LAMBDA v : v \in next /\ v > NodesPerThread * t /\ v < NodesPerThread * (t + 1))
MyBits(t) ==
  SelectSeq([i \in 1 .. nv |-> i - 1],
            LAMBDA v : v \in next /\ v >= NodesPerThread * t /\ v < NodesPerThread * (t + 1))
FillQueue(t) ==
  LET mine == MyBits(t) IN
  /\ At(t, "scan")
  /\ k2' = k2 + Len(mine)
  /\ vlist' = [i \in Vertex |-> IF i \in k2 .. k2 + Len(mine) - 1 THEN mine[i - k2 + 1] ELSE vlist[i]]
  /\ Barrier(t, "count")
  /\ UNCHANGED <<graph, raced, bfs_tree, k1, scout_count, past, next, awake, private>>

-----------------------------------------------------------------------------
(* The edges of the new frontier. *)
CountStart(t) ==     \* omp single: scout_count = 0
  /\ At(t, "count")
  /\ scout_count' = IF First(t) THEN 0 ELSE scout_count
  /\ EndSingle(t, "sum")
  /\ UNCHANGED <<graph, raced, bfs_tree, vlist, k1, k2, past, next, awake, private>>

Count(t) ==          \* the reduction: each thread adds its part at the end
  LET mine == Share(t, k1, k2) IN
  /\ At(t, "sum")
  /\ scout_count' = scout_count + Sum([i \in DOMAIN mine |-> Degree(vlist[mine[i]])])
  /\ Barrier(t, "while")
  /\ UNCHANGED <<graph, raced, bfs_tree, vlist, k1, k2, past, next, awake, private>>

Leave(t) ==          \* the end of the parallel region
  /\ At(t, "end")
  /\ Goto(t, "left")
  /\ UNCHANGED <<graph, raced, shared, private>>

-----------------------------------------------------------------------------
Step(t) ==
  \/ While(t) \/ TDStart(t) \/ TDEdge(t) \/ TDLoopEnd(t) \/ TDFlush(t) \/ TDAdvance(t)
  \/ ExplicitBarrier(t, "tdend", "after") \/ AfterTopDown(t)
  \/ FillBitmap(t) \/ Swap(t) \/ ExplicitBarrier(t, "swapped", "reset")
  \/ Reset(t) \/ Zero(t) \/ ExplicitBarrier(t, "zeroed", "bu")
  \/ BottomUp(t) \/ ExplicitBarrier(t, "buend", "bureturn") \/ BottomUpAgain(t)
  \/ Restart(t) \/ ExplicitBarrier(t, "restarted", "scan") \/ FillQueue(t)
  \/ CountStart(t) \/ Count(t) \/ Leave(t)

Returned == \A t \in Thread : pc[t] = "left"
Terminated == Returned /\ UNCHANGED vars

\* The program aborts when an assert fails; past the end of vlist its behaviour
\* is undefined and the model stops.
InBounds == k2 <= nv

Next ==
  \/ InBounds /\ ((\E t \in Thread : Step(t)) \/ Release)
  \/ Terminated

\* The scheduler runs every thread that does not wait at a barrier.
Fairness == WF_vars(InBounds /\ Release) /\ \A t \in Thread : WF_vars(InBounds /\ Step(t))

Spec == Init /\ [][Next]_vars /\ Fairness

-----------------------------------------------------------------------------
Levels ==
  LET level[d \in 0 .. nv] ==
        IF d = 0 THEN <<{srcvtx}, {srcvtx}>>
        ELSE LET prev == level[d - 1]
                 new  == (UNION {ToSet(Adj(u)) : u \in prev[1]}) \ prev[2]
             IN <<new, prev[2] \cup new>>
  IN [d \in 0 .. nv |-> level[d]]
Depth(levels, v) == CHOOSE d \in 0 .. nv : v \in levels[d][1]

TreeEdgesDescend ==
  LET levels == Levels IN
  \A v \in Vertex : bfs_tree[v] >= 0 /\ v # srcvtx =>
    /\ Contains(Adj(bfs_tree[v]), v)
    /\ Depth(levels, v) = Depth(levels, bfs_tree[v]) + 1
AllReached == {v \in Vertex : bfs_tree[v] >= 0} = Levels[nv][2]

\* While the threads agree on edges_to_check, the queue never outgrows vlist:
\* the asserts of bfs_top_down_step (omp-csr.c:361, 373) hold in every
\* schedule, also after the queue was rebuilt from the bitmap.
QueueAssertsHold == ~raced => InBounds

\* While the threads agree, every tree edge joins a vertex to one of the level
\* above, in the middle of a step too and whatever bits an earlier bottom-up
\* phase has left in `next` (fill_bitmap_from_queue does not clear it).
LevelsRight == ~raced => TreeEdgesDescend

\* If the threads agree to the end, the tree has every vertex of the source's
\* component and no other.
ComponentCovered == Returned /\ ~raced => AllReached

\* The search ends, unless the race makes the threads disagree.
EndsUnlessRaced == <>(Returned \/ raced)

\* "For each search key, the routine must return an array containing valid
\* breadth-first search parent information (per vertex)" (Graph500.org:382):
\* under a fair scheduler make_bfs_tree returns, and what it returns is such
\* an array.
ReturnsValidTree == <>(Returned /\ TreeEdgesDescend /\ AllReached)
=============================================================================
