--------------------------- MODULE Graph500Build ---------------------------
(***************************************************************************)
(* graph500's OpenMP create_graph_from_edgelist (omp-csr.c): the largest   *)
(* vertex, the room of every vertex in xadj by a parallel prefix sum, the  *)
(* edges scattered into the rooms, and the rooms sorted and packed.        *)
(*                                                                         *)
(* All threads of the team run every region.  A thread's share of a loop   *)
(* is one step where no other thread touches what it reads, or where all   *)
(* do is add atomically; the CAS loop of find_nv and the reservations of   *)
(* scatter_edge go one memory access at a time.                            *)
(***************************************************************************)
EXTENDS Integers, Sequences, FiniteSets, SequencesExt, FiniteSetsExt

CONSTANTS
  EdgeLists,    \* sequences of edges <<i, j>>
  NT,           \* omp_get_num_threads()
  MINVECT_SIZE  \* the least room a vertex has in xadj

VARIABLES
  IJ, maxvtx, XOFF, XENDOFF, buf, xadj,
  pc, tmaxvtx, gmaxvtx,   \* per thread
  scatter, where          \* its edges yet to scatter; the slot it has reserved

shared == <<maxvtx, XOFF, XENDOFF, buf, xadj>>
vars   == <<IJ, shared, pc, tmaxvtx, gmaxvtx, scatter, where>>

Thread == 0 .. NT - 1
nv     == maxvtx + 1
Vertex == 0 .. nv - 1

\* The part of [0, n) of thread t: slice_begin and slice_end of prefix_sum, and
\* the static schedule of `omp for`.
Slice(t, n) ==
  LET t1 == n \div NT
      t2 == n % NT
  IN t1 * t + Min({t, t2}) .. t1 * (t + 1) + Min({t + 1, t2}) - 1
MyEdges(t) == {k + 1 : k \in Slice(t, Len(IJ))}

Init ==
  /\ IJ \in EdgeLists
  /\ maxvtx = -1
  /\ XOFF = <<>> /\ XENDOFF = <<>> /\ xadj = <<>>
  /\ buf = [t \in Thread |-> 0]
  /\ pc = [t \in Thread |-> "scan"]
  /\ tmaxvtx = [t \in Thread |-> -1]
  /\ gmaxvtx = [t \in Thread |-> -1]
  /\ scatter = [t \in Thread |-> <<>>]
  /\ where = [t \in Thread |-> -1]

At(t, p)    == pc[t] = p
Goto(t, p)  == pc' = [pc EXCEPT ![t] = p]
AllAt(p)    == \A t \in Thread : pc[t] = p
AllGoto(p)  == pc' = [t \in Thread |-> p]

-----------------------------------------------------------------------------
(* find_nv *)

\* The loop over its edges; the loop ends with a barrier.
ScanMax(t) ==
  /\ At(t, "scan")
  /\ tmaxvtx' = [tmaxvtx EXCEPT ![t] = Max({-1} \cup {IJ[k][1] : k \in MyEdges(t)}
                                               \cup {IJ[k][2] : k \in MyEdges(t)})]
  /\ Goto(t, "scanned")
  /\ UNCHANGED <<IJ, shared, gmaxvtx, scatter, where>>

ReadMax(t) ==
  /\ At(t, "read")
  /\ gmaxvtx' = [gmaxvtx EXCEPT ![t] = maxvtx]
  /\ Goto(t, "cas")
  /\ UNCHANGED <<IJ, shared, tmaxvtx, scatter, where>>

\* int64_casval, the value it returns becoming the next one expected.
CasMax(t) ==
  /\ At(t, "cas") /\ tmaxvtx[t] > gmaxvtx[t]
  /\ gmaxvtx' = [gmaxvtx EXCEPT ![t] = maxvtx]
  /\ maxvtx' = IF maxvtx = gmaxvtx[t] THEN tmaxvtx[t] ELSE maxvtx
  /\ UNCHANGED <<IJ, XOFF, XENDOFF, buf, xadj, pc, tmaxvtx, scatter, where>>

LeaveMax(t) ==
  /\ At(t, "cas") /\ tmaxvtx[t] <= gmaxvtx[t]
  /\ Goto(t, "found")
  /\ UNCHANGED <<IJ, shared, tmaxvtx, gmaxvtx, scatter, where>>

\* alloc_graph, after the region of find_nv, and the first loop of
\* setup_deg_off.  An allocation that fails ends the program.
Alloc ==
  /\ AllAt("found")
  /\ \/ /\ XOFF' = [v \in 0 .. nv |-> 0]
        /\ XENDOFF' = [v \in 0 .. nv |-> 0]
        /\ AllGoto("degree")
     \/ AllGoto("exit") /\ UNCHANGED <<XOFF, XENDOFF>>
  /\ UNCHANGED <<IJ, maxvtx, buf, xadj, tmaxvtx, gmaxvtx, scatter, where>>

-----------------------------------------------------------------------------
(* setup_deg_off *)

Proper(e) == e[1] # e[2]     \* not a self-edge
Ends(v, ks) == Cardinality({k \in ks : Proper(IJ[k]) /\ IJ[k][1] = v})
               + Cardinality({k \in ks : Proper(IJ[k]) /\ IJ[k][2] = v})

CountDegrees(t) ==
  /\ At(t, "degree")
  /\ XOFF' = [v \in 0 .. nv |-> XOFF[v] + Ends(v, MyEdges(t))]
  /\ Goto(t, "counted")
  /\ UNCHANGED <<IJ, maxvtx, XENDOFF, buf, xadj, tmaxvtx, gmaxvtx, scatter, where>>

LeastRoom(t) ==
  /\ At(t, "room")
  /\ XOFF' = [v \in 0 .. nv |-> IF v \in Slice(t, nv) THEN Max({XOFF[v], MINVECT_SIZE}) ELSE XOFF[v]]
  /\ Goto(t, "roomy")
  /\ UNCHANGED <<IJ, maxvtx, XENDOFF, buf, xadj, tmaxvtx, gmaxvtx, scatter, where>>

Total(f, S) == MapThenSumSet(LAMBDA x : f[x], S)

SumSlice(t) ==
  /\ At(t, "sum")
  /\ buf' = [buf EXCEPT ![t] = Total(XOFF, Slice(t, nv))]
  /\ Goto(t, "summed")
  /\ UNCHANGED <<IJ, maxvtx, XOFF, XENDOFF, xadj, tmaxvtx, gmaxvtx, scatter, where>>

\* The `single` of prefix_sum, by any one thread, and its barrier.
PrefixBuf ==
  /\ AllAt("single")
  /\ buf' = [t \in Thread |-> Total(buf, 0 .. t)]
  /\ AllGoto("place")
  /\ UNCHANGED <<IJ, maxvtx, XOFF, XENDOFF, xadj, tmaxvtx, gmaxvtx, scatter, where>>

\* t1, where the slice of thread t starts.
SliceStartOwn(t) == buf[t]
SliceStart(t) == IF t > 0 THEN buf[t - 1] ELSE 0

PlaceSlice(t) ==
  /\ At(t, "place")
  /\ XOFF' = [v \in 0 .. nv |->
                IF v \in Slice(t, nv)
                THEN SliceStart(t) + Total(XOFF, {u \in Slice(t, nv) : u < v}) ELSE XOFF[v]]
  /\ Goto(t, "placed")
  /\ UNCHANGED <<IJ, maxvtx, XENDOFF, buf, xadj, tmaxvtx, gmaxvtx, scatter, where>>

CopyEnds(t) ==
  /\ At(t, "ends")
  /\ XENDOFF' = [v \in 0 .. nv |-> IF v \in Slice(t, nv) THEN XOFF[v] ELSE XENDOFF[v]]
  /\ Goto(t, "copied")
  /\ UNCHANGED <<IJ, maxvtx, XOFF, buf, xadj, tmaxvtx, gmaxvtx, scatter, where>>

\* The last `single`: XOFF(nv) = accum, and xadj with MINVECT_SIZE slots in
\* front, all -1, unless the allocation fails; then gather_edges' loop.
Scatters(t) ==
  LET proper == SelectSeq(SetToSortSeq(MyEdges(t), <), LAMBDA k : Proper(IJ[k]))
  IN FlattenSeq([n \in DOMAIN proper |-> <<IJ[proper[n]], Reverse(IJ[proper[n]])>>])

AllocAdj ==
  /\ AllAt("store")
  /\ XOFF' = [XOFF EXCEPT ![nv] = buf[NT - 1]]
  /\ \/ /\ xadj' = [k \in -MINVECT_SIZE .. buf[NT - 1] - 1 |-> -1]
        /\ scatter' = [t \in Thread |-> Scatters(t)]
        /\ AllGoto("gather")
     \/ AllGoto("exit") /\ UNCHANGED <<xadj, scatter>>
  /\ UNCHANGED <<IJ, maxvtx, XENDOFF, buf, tmaxvtx, gmaxvtx, where>>

-----------------------------------------------------------------------------
(* gather_edges *)

\* scatter_edge: int64_fetch_add, then the store.
Reserve(t) ==
  /\ At(t, "gather") /\ scatter[t] # <<>>
  /\ LET i == Head(scatter[t])[1] IN
     /\ where' = [where EXCEPT ![t] = XENDOFF[i]]
     /\ XENDOFF' = [XENDOFF EXCEPT ![i] = @ + 1]
  /\ Goto(t, "put")
  /\ UNCHANGED <<IJ, maxvtx, XOFF, buf, xadj, tmaxvtx, gmaxvtx, scatter>>

Put(t) ==
  /\ At(t, "put")
  /\ xadj' = [xadj EXCEPT ![where[t]] = Head(scatter[t])[2]]
  /\ scatter' = [scatter EXCEPT ![t] = Tail(@)]
  /\ Goto(t, "gather")
  /\ UNCHANGED <<IJ, maxvtx, XOFF, XENDOFF, buf, tmaxvtx, gmaxvtx, where>>

Gathered(t) ==
  /\ At(t, "gather") /\ scatter[t] = <<>>
  /\ Goto(t, "gathered")
  /\ UNCHANGED <<IJ, shared, tmaxvtx, gmaxvtx, scatter, where>>

\* pack_vtx_edges: the room of v sorted, the first of equal neighbours kept and
\* moved forward, the rest -1.  A room of at most one edge is left alone.
Room(v)   == XOFF[v] .. XENDOFF[v] - 1
Packed(v) == SetToSortSeq({xadj[k] : k \in Room(v)}, <)

PackVtxEdges(t) ==
  /\ At(t, "pack")
  /\ LET mine == {v \in Slice(t, nv) : Cardinality(Room(v)) > 1} IN
     /\ xadj' = [k \in DOMAIN xadj |->
          IF \E v \in mine : k \in Room(v)
          THEN LET v == CHOOSE v \in mine : k \in Room(v)
                   n == k - XOFF[v] + 1
               IN IF n <= Len(Packed(v)) THEN Packed(v)[n] ELSE -1
          ELSE xadj[k]]
     /\ XENDOFF' = [v \in 0 .. nv |-> IF v \in mine THEN XOFF[v] + Len(Packed(v)) ELSE XENDOFF[v]]
  /\ Goto(t, "packed")
  /\ UNCHANGED <<IJ, maxvtx, XOFF, buf, tmaxvtx, gmaxvtx, scatter, where>>

\* The barriers that end a loop, a `single` or a region.
Barriers == {<<"scanned", "read">>, <<"counted", "room">>, <<"roomy", "sum">>,
             <<"summed", "single">>, <<"placed", "ends">>, <<"copied", "store">>,
             <<"gathered", "pack">>, <<"packed", "return">>}
Barrier ==
  /\ \E b \in Barriers : AllAt(b[1]) /\ AllGoto(b[2])
  /\ UNCHANGED <<IJ, shared, tmaxvtx, gmaxvtx, scatter, where>>

Step(t) ==
  \/ ScanMax(t) \/ ReadMax(t) \/ CasMax(t) \/ LeaveMax(t)
  \/ CountDegrees(t) \/ LeastRoom(t) \/ SumSlice(t) \/ PlaceSlice(t) \/ CopyEnds(t)
  \/ Reserve(t) \/ Put(t) \/ Gathered(t) \/ PackVtxEdges(t)
Team == Alloc \/ PrefixBuf \/ AllocAdj \/ Barrier

Built == AllAt("return")
Ended == Built \/ AllAt("exit")

Next == (\E t \in Thread : Step(t)) \/ Team
Spec == Init /\ [][Next]_vars

-----------------------------------------------------------------------------
Neighbours(v) == {e[2] : e \in {e \in ToSet(IJ) : Proper(e) /\ e[1] = v}}
                 \cup {e[1] : e \in {e \in ToSet(IJ) : Proper(e) /\ e[2] = v}}

\* While the threads scatter, every reservation stays within the room of its
\* vertex; and whatever slots they got, the graph has for each vertex each of
\* its neighbours once, in ascending order, and nothing behind them in the room
\* (omp-csr.c:188-250).
GraphOfEdges ==
  /\ pc[0] \in {"gather", "put", "gathered", "pack"} =>
       \A v \in Vertex : XENDOFF[v] <= XOFF[v + 1]
  /\ Built =>
       /\ nv = Max({e[1] : e \in ToSet(IJ)} \cup {e[2] : e \in ToSet(IJ)}) + 1
       /\ \A v \in Vertex :
            /\ {xadj[k] : k \in Room(v)} = Neighbours(v)
            /\ \A k \in Room(v) : k + 1 \in Room(v) => xadj[k] < xadj[k + 1]
            /\ \A k \in XENDOFF[v] .. XOFF[v + 1] - 1 : xadj[k] = -1
=============================================================================
