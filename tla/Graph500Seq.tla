---------------------------- MODULE Graph500Seq ----------------------------
(***************************************************************************)
(* graph500's sequential versions: create_graph_from_edgelist and          *)
(* make_bfs_tree of seq-csr.c, with rows in one array, and of seq-list.c,  *)
(* with the ends of the edges chained into lists.                          *)
(***************************************************************************)
EXTENDS Integers, Sequences, FiniteSets, SequencesExt, FiniteSetsExt

CONSTANTS EdgeLists, MINVECT_SIZE

VARIABLES
  version,             \* "seq-csr" or "seq-list"
  IJ, srcvtx, maxvtx,
  XOFF, XENDOFF, xadj, \* seq-csr
  head, chain, deg,    \* seq-list; chain is `next`
  bfs_tree, vlist, k1, k2, newk2, k, p,
  pc

rows   == <<XOFF, XENDOFF, xadj>>
lists  == <<head, chain, deg>>
search == <<bfs_tree, vlist, k1, k2, newk2, k, p>>
vars   == <<version, IJ, srcvtx, maxvtx, rows, lists, search, pc>>

Vertex == 0 .. maxvtx
LargestVertex(es) == Max({-1} \cup {e[1] : e \in ToSet(es)} \cup {e[2] : e \in ToSet(es)})
Proper(e) == e[1] # e[2]

\* find_nv, or the first loop of seq-list's create_graph_from_edgelist.
Init ==
  /\ version \in {"seq-csr", "seq-list"}
  /\ IJ \in EdgeLists
  /\ maxvtx = LargestVertex(IJ)
  /\ srcvtx \in 0 .. maxvtx
  /\ XOFF = <<>> /\ XENDOFF = <<>> /\ xadj = <<>>
  /\ head = <<>> /\ chain = <<>> /\ deg = <<>>
  /\ bfs_tree = <<>> /\ vlist = <<>> /\ k1 = 0 /\ k2 = 0 /\ newk2 = 0 /\ k = 0 /\ p = 0
  /\ pc = "create"

-----------------------------------------------------------------------------
(* seq-csr: create_graph_from_edgelist. *)

\* The ends of the edges in the order of the list: <<vertex, other end>>.
Halves == FlattenSeq([i \in DOMAIN IJ |-> IF Proper(IJ[i]) THEN <<IJ[i], Reverse(IJ[i])>> ELSE <<>>])
HalvesOf(v) == SelectSeq(Halves, LAMBDA h : h[1] = v)

RoomOf(v)  == Max({Len(HalvesOf(v)), MINVECT_SIZE})
Offset(v)  == MapThenSumSet(RoomOf, 0 .. v - 1)

\* setup_deg_off: the room of each vertex, and nothing in it.
SetupDegOff ==
  /\ pc = "create" /\ version = "seq-csr"
  /\ XOFF' = [v \in 0 .. maxvtx + 1 |-> Offset(v)]
  /\ XENDOFF' = [v \in Vertex |-> Offset(v)]
  /\ xadj' = [i \in -MINVECT_SIZE .. Offset(maxvtx + 1) - 1 |-> -1]
  /\ pc' = "gather" /\ k' = 1
  /\ UNCHANGED <<version, IJ, srcvtx, maxvtx, lists, bfs_tree, vlist, k1, k2, newk2, p>>

\* scatter_edge, for one half of an edge after the other.
ScatterEdge ==
  /\ pc = "gather" /\ k <= Len(Halves)
  /\ LET h == Halves[k] IN
     /\ xadj' = [xadj EXCEPT ![XENDOFF[h[1]]] = h[2]]
     /\ XENDOFF' = [XENDOFF EXCEPT ![h[1]] = @ + 1]
  /\ k' = k + 1
  /\ UNCHANGED <<version, IJ, srcvtx, maxvtx, XOFF, lists, bfs_tree, vlist, k1, k2, newk2, pc, p>>

\* pack_edges: each row sorted, and the first of equal neighbours kept.
Row(v) == SetToSortSeq({xadj[i] : i \in XOFF[v] .. XENDOFF[v] - 1}, <)
PackEdges ==
  /\ pc = "gather" /\ k > Len(Halves)
  /\ XENDOFF' = [v \in Vertex |-> XOFF[v] + Len(Row(v))]
  /\ xadj' = [i \in DOMAIN xadj |->
                IF \E v \in Vertex : i \in XOFF[v] .. XOFF[v] + Len(Row(v)) - 1
                THEN LET v == CHOOSE v \in Vertex : i \in XOFF[v] .. XOFF[v] + Len(Row(v)) - 1
                     IN Row(v)[i - XOFF[v] + 1]
                ELSE -1]
  /\ pc' = "search"
  /\ UNCHANGED <<version, IJ, srcvtx, maxvtx, XOFF, lists, search>>

-----------------------------------------------------------------------------
(* seq-list: create_graph_from_edgelist. *)

AllocLists ==
  /\ pc = "create" /\ version = "seq-list"
  /\ head' = [v \in Vertex |-> -1]
  /\ deg' = [v \in Vertex |-> 0]
  /\ chain' = [i \in 0 .. 2 * Len(IJ) - 1 |-> -1]
  /\ pc' = "link" /\ k' = 0
  /\ UNCHANGED <<version, IJ, srcvtx, maxvtx, rows, bfs_tree, vlist, k1, k2, newk2, p>>

\* End 2k + 1 of edge k, its second vertex, goes in front of the list of its
\* first vertex, and end 2k in front of the list of the second.
LinkEdge ==
  /\ pc = "link" /\ k < Len(IJ)
  /\ LET e == IJ[k + 1] IN
     IF Proper(e)
     THEN /\ chain' = [chain EXCEPT ![2 * k + 1] = head[e[1]], ![2 * k] = head[e[2]]]
          /\ head' = [head EXCEPT ![e[1]] = 2 * k + 1, ![e[2]] = 2 * k]
          /\ deg' = [deg EXCEPT ![e[1]] = @ + 1, ![e[2]] = @ + 1]
     ELSE UNCHANGED lists
  /\ k' = k + 1
  /\ UNCHANGED <<version, IJ, srcvtx, maxvtx, rows, bfs_tree, vlist, k1, k2, newk2, pc, p>>

Linked ==
  /\ pc = "link" /\ k = Len(IJ)
  /\ pc' = "search"
  /\ UNCHANGED <<version, IJ, srcvtx, maxvtx, rows, lists, search>>

-----------------------------------------------------------------------------
(* make_bfs_tree. *)

StartSearch ==
  /\ pc = "search"
  /\ bfs_tree' = [v \in Vertex |-> IF v = srcvtx THEN srcvtx ELSE -1]
  /\ vlist' = <<srcvtx>>
  /\ k1' = 0 /\ k2' = 1 /\ newk2' = 1 /\ k' = 0
  /\ pc' = "while"
  /\ UNCHANGED <<version, IJ, srcvtx, maxvtx, rows, lists, p>>

\* seq-csr keeps the old k2 as the end of the round, seq-list copies it to newk2.
Round ==
  /\ pc = "while" /\ k1 # k2
  /\ k' = k1 /\ newk2' = k2
  /\ pc' = "level"
  /\ UNCHANGED <<version, IJ, srcvtx, maxvtx, rows, lists, bfs_tree, vlist, k1, k2, p>>

\* The loop over the neighbours of vlist[k]: p is an index into xadj, or an
\* end of an edge.  In seq-csr newk2 holds oldk2, the end of the round.
InRound == k < (IF version = "seq-csr" THEN newk2 ELSE k2)
Current == vlist[k + 1]
More == IF version = "seq-csr" THEN p < XENDOFF[Current] ELSE p >= 0
Neighbour == IF version = "seq-csr" THEN xadj[p] ELSE IJ[(p \div 2) + 1][(p % 2) + 1]

StartVertex ==
  /\ pc = "level" /\ InRound
  /\ p' = IF version = "seq-csr" THEN XOFF[Current] ELSE head[Current]
  /\ pc' = "adjacent"
  /\ UNCHANGED <<version, IJ, srcvtx, maxvtx, rows, lists, bfs_tree, vlist, k1, k2, newk2, k>>

\* The end of the queue is k2 in seq-csr and newk2 in seq-list.
VisitNeighbour ==
  /\ pc = "adjacent" /\ More
  /\ IF bfs_tree[Neighbour] = -1
     THEN /\ bfs_tree' = [bfs_tree EXCEPT ![Neighbour] = Current]
          /\ vlist' = Append(vlist, Neighbour)
          /\ k2' = IF version = "seq-csr" THEN k2 + 1 ELSE k2
          /\ newk2' = IF version = "seq-list" THEN newk2 + 1 ELSE newk2
     ELSE UNCHANGED <<bfs_tree, vlist, k2, newk2>>
  /\ p' = IF version = "seq-csr" THEN p + 1 ELSE chain[p]
  /\ UNCHANGED <<version, IJ, srcvtx, maxvtx, rows, lists, k1, k, pc>>

\* In seq-list the loop over the round moves its own end: k1 = k2 and
\* k2 = newk2 stand inside it.
EndVertex ==
  /\ pc = "adjacent" /\ ~More
  /\ IF version = "seq-list" THEN k1' = k2 /\ k2' = newk2 ELSE UNCHANGED <<k1, k2>>
  /\ k' = k + 1
  /\ pc' = "level"
  /\ UNCHANGED <<version, IJ, srcvtx, maxvtx, rows, lists, bfs_tree, vlist, newk2, p>>

EndRound ==
  /\ pc = "level" /\ ~InRound
  /\ k1' = IF version = "seq-csr" THEN newk2 ELSE k1
  /\ pc' = "while"
  /\ UNCHANGED <<version, IJ, srcvtx, maxvtx, rows, lists, bfs_tree, vlist, k2, newk2, k, p>>

EndSearch ==
  /\ pc = "while" /\ k1 = k2
  /\ pc' = "done"
  /\ UNCHANGED <<version, IJ, srcvtx, maxvtx, rows, lists, search>>

Main == \/ SetupDegOff \/ ScatterEdge \/ PackEdges \/ AllocLists \/ LinkEdge \/ Linked
        \/ StartSearch \/ Round \/ StartVertex \/ VisitNeighbour \/ EndVertex \/ EndRound \/ EndSearch

Spec == Init /\ [][Main]_vars

-----------------------------------------------------------------------------
Joined(u, v) == u # v /\ \E e \in ToSet(IJ) : {e[1], e[2]} = {u, v}

\* The vertices within each distance of srcvtx.
Within ==
  FoldLeft(LAMBDA q, n : Append(q, Last(q) \cup {v \in Vertex : \E u \in Last(q) : Joined(u, v)}),
           << {srcvtx} >>, [n \in 1 .. maxvtx + 1 |-> n])
Level(within, v) == Min({i \in DOMAIN within : v \in within[i]})

\* When a search returns its tree has every vertex of the component of srcvtx
\* and no other, each below a neighbour one level nearer, and vlist has each of
\* them once: in seq-list too, whose loop runs past the end of its round.
SearchRight ==
  pc = "done" =>
    LET within == Within
        component == Last(within)
    IN /\ {v \in Vertex : bfs_tree[v] # -1} = component
       /\ \A v \in component \ {srcvtx} :
            /\ Joined(bfs_tree[v], v)
            /\ Level(within, v) = Level(within, bfs_tree[v]) + 1
       /\ Len(vlist) = Cardinality(component)
=============================================================================
