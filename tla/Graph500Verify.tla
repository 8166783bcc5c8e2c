--------------------------- MODULE Graph500Verify ---------------------------
(***************************************************************************)
(* graph500's verify_bfs_tree (verify.c): compute_levels walks up the tree *)
(* from every vertex and writes levels on the way down again, in parallel  *)
(* and without locks ("this permits benign races"); then the edges and the *)
(* tree are checked against each other.                                    *)
(*                                                                         *)
(* In compute_levels every access to `level` of another iteration is a     *)
(* step.  The later loops take one iteration as a step: they only share    *)
(* `err`, which never becomes 0 again, and flags that are only set.        *)
(***************************************************************************)
EXTENDS Integers, Sequences, FiniteSets, SequencesExt, FiniteSetsExt

CONSTANTS
  Cases,  \* [IJ, tree, root]: an edge list, an array for the tree, a root
  NT

VARIABLES
  IJ, bfs_tree, root,
  err, level, seen_edge, rc,
  pc, todo, terr, parent, nhop, lastlvl, \* per thread
  nedge_traversed                        \* per thread, for the reduction

input  == <<IJ, bfs_tree, root>>
mine   == <<terr, parent, nhop, lastlvl, nedge_traversed>>
vars   == <<input, err, level, seen_edge, rc, pc, todo, mine>>

Thread == 0 .. NT - 1
max_bfsvtx == Cardinality(DOMAIN bfs_tree) - 1
nv     == max_bfsvtx + 1
Vertex == 0 .. max_bfsvtx

\* The iterations of [0, n) that a static `omp for` gives to thread t.
Share(t, n) ==
  LET q == n \div NT
      r == n % NT
  IN [i \in 1 .. (IF t < r THEN q + 1 ELSE q) |-> t * q + Min({t, r}) + i - 1]

\* verify_bfs_tree up to compute_levels, and the first loop of that.
Init ==
  /\ \E c \in Cases : IJ = c.IJ /\ bfs_tree = c.tree /\ root = c.root
  /\ err = 0
  /\ level = [v \in Vertex |-> IF v = root THEN 0 ELSE -1]
  /\ seen_edge = {}
  /\ IF bfs_tree[root] # root THEN rc = -999 /\ pc = [t \in Thread |-> "return"]
     ELSE rc = 0 /\ pc = [t \in Thread |-> "level"]
  /\ todo = [t \in Thread |-> Share(t, nv)]
  /\ terr = [t \in Thread |-> 0]
  /\ parent = [t \in Thread |-> -1]
  /\ nhop = [t \in Thread |-> 0]
  /\ lastlvl = [t \in Thread |-> 0]
  /\ nedge_traversed = [t \in Thread |-> 0]

At(t, p)   == pc[t] = p
Goto(t, p) == pc' = [pc EXCEPT ![t] = p]
AllAt(p)   == \A t \in Thread : pc[t] = p
AllGoto(p) == pc' = [t \in Thread |-> p]
NextIteration(t) == todo' = [todo EXCEPT ![t] = Tail(@)]

-----------------------------------------------------------------------------
(* compute_levels *)

\* An iteration that has nothing to do: the vertex has its level, is not in the
\* tree, or an error was met.
SkipVertex(t) ==
  /\ At(t, "level") /\ todo[t] # <<>>
  /\ \/ level[Head(todo[t])] >= 0
     \/ err # 0
     \/ bfs_tree[Head(todo[t])] < 0
  /\ NextIteration(t)
  /\ UNCHANGED <<input, err, level, seen_edge, rc, pc, mine>>

StartUp(t) ==
  /\ At(t, "level") /\ todo[t] # <<>>
  /\ level[Head(todo[t])] < 0 /\ err = 0 /\ bfs_tree[Head(todo[t])] >= 0
  /\ parent' = [parent EXCEPT ![t] = Head(todo[t])]
  /\ nhop' = [nhop EXCEPT ![t] = 0]
  /\ Goto(t, "up")
  /\ UNCHANGED <<input, err, level, seen_edge, rc, todo, terr, lastlvl, nedge_traversed>>

Climbing(t) == parent[t] >= 0 /\ level[parent[t]] < 0 /\ nhop[t] < nv

\* The assert of the climb: a parent that is its own parent aborts the program.
Climb(t) ==
  /\ At(t, "up") /\ Climbing(t)
  /\ IF bfs_tree[parent[t]] = parent[t]
     THEN AllGoto("aborted") /\ UNCHANGED <<parent, nhop>>
     ELSE /\ parent' = [parent EXCEPT ![t] = bfs_tree[parent[t]]]
          /\ nhop' = [nhop EXCEPT ![t] = @ + 1]
          /\ UNCHANGED pc
  /\ UNCHANGED <<input, err, level, seen_edge, rc, todo, terr, lastlvl, nedge_traversed>>

\* The end of the climb: a cycle, off the end, or a vertex with a level.
ClimbError(t) == IF parent[t] < 0 THEN -2 ELSE IF nhop[t] >= nv THEN -1 ELSE 0

Climbed(t) ==
  /\ At(t, "up") /\ ~Climbing(t)
  /\ IF ClimbError(t) # 0
     THEN /\ err' = ClimbError(t)
          /\ NextIteration(t) /\ Goto(t, "level")
          /\ UNCHANGED <<parent, nhop>>
     ELSE /\ nhop' = [nhop EXCEPT ![t] = @ + level[parent[t]]]
          /\ parent' = [parent EXCEPT ![t] = Head(todo[t])]
          /\ Goto(t, "down")
          /\ UNCHANGED <<err, todo>>
  /\ UNCHANGED <<input, level, seen_edge, rc, terr, lastlvl, nedge_traversed>>

\* The test of the second loop, and the assert behind it.
Descend(t) ==
  /\ At(t, "down")
  /\ IF level[parent[t]] < 0 THEN Goto(t, "assign") /\ UNCHANGED <<parent, lastlvl>>
     ELSE IF nhop[t] # level[parent[t]] THEN AllGoto("aborted") /\ UNCHANGED <<parent, lastlvl>>
     ELSE /\ parent' = [parent EXCEPT ![t] = Head(todo[t])]
          /\ lastlvl' = [lastlvl EXCEPT ![t] = level[Head(todo[t])] + 1]
          /\ Goto(t, "recheck")
  /\ UNCHANGED <<input, err, level, seen_edge, rc, todo, terr, nhop, nedge_traversed>>

Assign(t) ==
  /\ At(t, "assign")
  /\ IF nhop[t] <= 0 THEN AllGoto("aborted") /\ UNCHANGED <<level, nhop, parent>>
     ELSE /\ level' = [level EXCEPT ![parent[t]] = nhop[t]]
          /\ nhop' = [nhop EXCEPT ![t] = @ - 1]
          /\ parent' = [parent EXCEPT ![t] = bfs_tree[parent[t]]]
          /\ Goto(t, "down")
  /\ UNCHANGED <<input, err, seen_edge, rc, todo, terr, lastlvl, nedge_traversed>>

\* "Internal check to catch mistakes in races": levels fall by one to the root.
Recheck(t) ==
  /\ At(t, "recheck")
  /\ IF level[parent[t]] <= 0
     THEN Goto(t, "level") /\ NextIteration(t) /\ UNCHANGED <<parent, lastlvl>>
     ELSE IF lastlvl[t] # 1 + level[parent[t]]
     THEN AllGoto("aborted") /\ UNCHANGED <<todo, parent, lastlvl>>
     ELSE /\ lastlvl' = [lastlvl EXCEPT ![t] = level[parent[t]]]
          /\ parent' = [parent EXCEPT ![t] = bfs_tree[parent[t]]]
          /\ UNCHANGED <<pc, todo>>
  /\ UNCHANGED <<input, err, level, seen_edge, rc, terr, nhop, nedge_traversed>>

EndLevels(t) ==
  /\ At(t, "level") /\ todo[t] = <<>>
  /\ Goto(t, "leveled")
  /\ UNCHANGED <<input, err, level, seen_edge, rc, todo, mine>>

\* The end of the region; the error is returned at once.
Leveled ==
  /\ AllAt("leveled")
  /\ IF err # 0 THEN rc' = err /\ AllGoto("return") /\ UNCHANGED todo
     ELSE /\ todo' = [t \in Thread |-> Share(t, Len(IJ))]
          /\ AllGoto("edge") /\ UNCHANGED rc
  /\ UNCHANGED <<input, err, level, seen_edge, mine>>

-----------------------------------------------------------------------------
(* The second region of verify_bfs_tree. *)

InTree(v) == bfs_tree[v] >= 0

\* An edge with one end beyond the tree's array, and one with one end in the tree.
SideError(i, j) == IF i > max_bfsvtx /\ j <= max_bfsvtx THEN -10
                   ELSE IF j > max_bfsvtx /\ i <= max_bfsvtx THEN -11 ELSE 0
TreeError(i, j) == IF InTree(i) /\ ~InTree(j) THEN -12
                   ELSE IF InTree(j) /\ ~InTree(i) THEN -13 ELSE 0
\* Without taking the absolute value of the difference.
TooFarDown(i, j) == level[i] - level[j] > 1
TooFar(i, j) == level[i] - level[j] \notin {-1, 0, 1}

\* With an error so far the edge is not looked at.
CheckEdge(t) ==
  /\ At(t, "edge") /\ todo[t] # <<>>
  /\ LET e == IJ[Head(todo[t]) + 1]
         i == e[1]
         j == e[2]
         side == SideError(i, j)
         early == IF side # 0 THEN side
                  ELSE IF err # 0 \/ i > max_bfsvtx THEN err ELSE TreeError(i, j)
         stop == early # 0 \/ i > max_bfsvtx \/ ~InTree(i)
         found == IF ~stop /\ TooFar(i, j) THEN -14 ELSE early
     IN /\ terr' = [terr EXCEPT ![t] = found]
        /\ err' = IF found # 0 THEN found ELSE err
        /\ nedge_traversed' = [nedge_traversed EXCEPT ![t] = IF stop THEN @ ELSE @ + 1]
        /\ seen_edge' = IF stop \/ i = j THEN seen_edge
                        ELSE seen_edge \cup {v \in {i, j} : bfs_tree[v] \in {i, j} \ {v}}
  /\ NextIteration(t)
  /\ UNCHANGED <<input, level, rc, pc, parent, nhop, lastlvl>>

EndEdges(t) ==
  /\ At(t, "edge") /\ todo[t] = <<>>
  /\ Goto(t, "edged")
  /\ UNCHANGED <<input, err, level, seen_edge, rc, todo, mine>>

\* Behind the barrier each thread goes by its own terr: only those without an
\* error enter the last loop and its barrier.
Branch ==
  /\ AllAt("edged")
  /\ pc' = [t \in Thread |-> IF terr[t] = 0 THEN "tree" ELSE "end"]
  /\ todo' = [t \in Thread |-> Share(t, nv)]
  /\ UNCHANGED <<input, err, level, seen_edge, rc, mine>>

CheckTree(t) ==
  /\ At(t, "tree") /\ todo[t] # <<>>
  /\ LET k == Head(todo[t])
         found == CASE err # 0 -> err
                    [] err = 0 /\ k # root /\ bfs_tree[k] = k -> -16
                    [] err = 0 /\ k # root /\ bfs_tree[k] # k /\ InTree(k) /\ k \notin seen_edge -> -15
                    [] OTHER -> 0
     IN /\ terr' = [terr EXCEPT ![t] = found]
        /\ err' = IF found # 0 THEN found ELSE err
  /\ NextIteration(t)
  /\ UNCHANGED <<input, level, seen_edge, rc, pc, parent, nhop, lastlvl, nedge_traversed>>

EndTree(t) ==
  /\ At(t, "tree") /\ todo[t] = <<>>
  /\ Goto(t, "treed")
  /\ UNCHANGED <<input, err, level, seen_edge, rc, todo, mine>>

\* The barrier of the loop lets only the whole team pass, and so does the end of
\* the region: threads at the one wait for ever for threads at the other.
EndRegion ==
  /\ AllAt("treed") \/ AllAt("end")
  /\ rc' = IF err # 0 THEN err ELSE MapThenSumSet(LAMBDA t : nedge_traversed[t], Thread)
  /\ AllGoto("return")
  /\ UNCHANGED <<input, err, level, seen_edge, todo, mine>>

Step(t) == \/ SkipVertex(t) \/ StartUp(t) \/ Climb(t) \/ Climbed(t) \/ Descend(t) \/ Assign(t)
           \/ Recheck(t) \/ EndLevels(t)
           \/ CheckEdge(t) \/ EndEdges(t) \/ CheckTree(t) \/ EndTree(t)
Team == Leveled \/ Branch \/ EndRegion

Returned == AllAt("return")
Aborted  == AllAt("aborted")
Parted   == \E t, u \in Thread : At(t, "end") /\ pc[u] \in {"tree", "treed"}

Next == (\E t \in Thread : Step(t)) \/ Team
Spec == Init /\ [][Next]_vars

-----------------------------------------------------------------------------
Joined(u, v) == u # v /\ \E e \in ToSet(IJ) : {e[1], e[2]} = {u, v}

\* The vertices within each distance of the root.
Within ==
  FoldLeft(LAMBDA q, n : Append(q, Last(q) \cup {v \in Vertex : \E u \in Last(q) : Joined(u, v)}),
           << {root} >>, [n \in 1 .. nv |-> n])
Level(within, v) == Min({i \in DOMAIN within : v \in within[i]})

\* A breadth-first tree of the root's component.
BFSTree ==
  LET within == Within
      component == Last(within)
  IN /\ bfs_tree[root] = root
     /\ {v \in Vertex : InTree(v)} = component
     /\ \A v \in component \ {root} :
          /\ Joined(bfs_tree[v], v)
          /\ Level(within, v) = Level(within, bfs_tree[v]) + 1

TraversedEdges == Cardinality({k \in DOMAIN IJ : IJ[k][1] \in Last(Within)})

\* Whatever the schedule, verify_bfs_tree returns the number of edges in the
\* component for the breadth-first trees of the root, and a negative code for
\* every other array.
VerdictRight ==
  Returned => IF BFSTree THEN rc = TraversedEdges ELSE rc < 0

\* The races of compute_levels are benign: an assert fails only for an array
\* with a second root.
RacesBenign == Aborted => \E v \in Vertex \ {root} : bfs_tree[v] = v
=============================================================================
