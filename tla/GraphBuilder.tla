---------------------------- MODULE GraphBuilder ----------------------------
(***************************************************************************)
(* gapbs converter (converter.cc): BuilderBase::MakeGraph on a file or on  *)
(* generated edges, and WriteGraph.  The loops of CountDegrees and MakeCSR *)
(* are run by the threads of an OpenMP team; their fetch_and_adds are      *)
(* atomic, the store into the reserved slot is a step of its own.          *)
(***************************************************************************)
EXTENDS CSR, CommandLine

CONSTANTS
  Thread, None, Comment,
  Inputs,      \* the command lines, with the file or the generated edges
  WeightRange  \* the weights of InsertWeights ([1, 255] in the code)

VARIABLES
  input, cli,
  needs_weights, el, num_nodes,
  transpose,             \* the side that MakeCSR is making
  degrees, offsets, index, neighs, made,
  graph, disk,
  phase,                 \* where the main thread is
  todo, pc, work, slot   \* iterations left; per thread: step, ends, reserved slot

source == <<input, cli>>
edges  == <<needs_weights, el, num_nodes>>
csr    == <<transpose, degrees, offsets, index, neighs, made>>
team   == <<todo, pc, work, slot>>
vars   == <<source, edges, csr, graph, disk, phase, team>>

-----------------------------------------------------------------------------
(* Reader (reader.h): a file, told by its suffix, read into a list of edges *)
(* [u, v] whose v is a NodeWeight.  A file is the sequence of its lines; a  *)
(* comment line is Comment, a line of numbers is their sequence.  A file    *)
(* that the reader refuses gives the exit status.                           *)

Edge(u, v)         == [u |-> u, v |-> [v |-> v, w |-> 1]]    \* NodeWeight(v)
WEdge(u, v, w)     == [u |-> u, v |-> [v |-> v, w |-> w]]
Read(list, needs)  == [el |-> list, needs_weights |-> needs, exit |-> 0]
Refused(status)    == [el |-> <<>>, needs_weights |-> FALSE, exit |-> status]

Lines(f) == SelectSeq(f, LAMBDA l : l # Comment)

ReadInEL(f)  == [i \in DOMAIN f |-> Edge(f[i][1], f[i][2])]
ReadInWEL(f) == [i \in DOMAIN f |-> WEdge(f[i][1], f[i][2], f[i][3])]

\* .gr vertices taken as they are numbered in the file.
ReadInGROneBased(f) ==
  LET arcs == SelectSeq(f, LAMBDA l : l # Comment /\ l[1] = "a")
  IN [i \in DOMAIN arcs |-> WEdge(arcs[i][2], arcs[i][3], arcs[i][4])]

\* Lines "a u v w"; the others are skipped.  Vertices 1..N become 0..N-1.
ReadInGR(f) ==
  LET arcs == SelectSeq(f, LAMBDA l : l # Comment /\ l[1] = "a")
  IN [i \in DOMAIN arcs |-> WEdge(arcs[i][2] - 1, arcs[i][3] - 1, arcs[i][4])]

\* METIS: the header num_nodes, num_edges and possibly fmt, then the row of
\* each vertex: neighbours, or neighbours and weights by turns.
ReadInMetis(f) ==
  LET rows   == Lines(f)
      header == rows[1]
      fmt    == IF Len(header) > 2 THEN header[3] ELSE 0
      read_weights == fmt = 1
      row(u) == rows[u + 2]
      arcs(u) ==
        IF read_weights
        THEN [k \in 1 .. Len(row(u)) \div 2 |->
                WEdge(u, row(u)[2 * k - 1] - 1, row(u)[2 * k])]
        ELSE [k \in DOMAIN row(u) |-> Edge(u, row(u)[k] - 1)]
  IN IF fmt \notin {0, 1, 100} THEN Refused(-20)
     ELSE Read(FlattenSeq([i \in 1 .. header[1] |-> arcs(i - 1)]), ~read_weights)

\* Matrix Market: the banner, the dimensions, then a line per entry.  The
\* reverse of a symmetric entry is Edge(v, u - 1), whose second argument is
\* converted to a NodeWeight of weight 1.
ReadInMTX(f) ==
  LET banner == f[1]
      rows   == Lines(Tail(f))
      read_weights == banner.field \in {"real", "double", "integer"}
      undirected   == banner.symmetry = "symmetric"
      entry(l) == LET e == IF read_weights THEN WEdge(l[1] - 1, l[2] - 1, l[3])
                                           ELSE Edge(l[1] - 1, l[2] - 1)
                  IN IF undirected THEN <<e, Edge(e.v.v, e.u)>> ELSE <<e>>
  IN IF banner.start # "%%MatrixMarket" THEN Refused(-21)
     ELSE IF banner.object # "matrix" \/ banner.format # "coordinate" THEN Refused(-22)
     ELSE IF banner.field = "complex" THEN Refused(-23)
     ELSE IF ~read_weights /\ banner.field # "pattern" THEN Refused(-24)
     ELSE IF ~undirected /\ banner.symmetry \notin {"general", "skew-symmetric"} THEN Refused(-25)
     ELSE IF rows[1][1] # rows[1][2] THEN Refused(-26)
     ELSE Read(FlattenSeq([i \in 1 .. Len(rows) - 1 |-> entry(rows[i + 1])]), ~read_weights)

\* ReadFile(needs_weights): .el leaves the flag alone.
ReadFile(file, needs) ==
  CASE file.suffix = ".el"    -> Read(ReadInEL(file.lines), needs)
    [] file.suffix = ".wel"   -> Read(ReadInWEL(file.lines), FALSE)
    [] file.suffix = ".gr"    -> Read(ReadInGR(file.lines), FALSE)
    [] file.suffix = ".graph" -> ReadInMetis(file.lines)
    [] file.suffix = ".mtx"   -> ReadInMTX(file.lines)
    [] file.suffix = ""       -> Refused(-1)
    [] OTHER -> Refused(-3)

-----------------------------------------------------------------------------
(* The converter. *)

Weighted == cli.out_weighted
NoSide == [index |-> <<>>, neighs |-> <<>>]
Empty == [v |-> -1, w |-> -1]    \* a slot of `neighs` that nobody has written

Init ==
  /\ input \in Inputs
  /\ cli = ParseArgs("CLConvert", input.args).cli
  /\ needs_weights = cli.out_weighted
  /\ el = <<>> /\ num_nodes = -1
  /\ transpose = FALSE
  /\ degrees = <<>> /\ offsets = <<>> /\ index = <<>> /\ neighs = <<>>
  /\ made = [side \in BOOLEAN |-> NoSide]
  /\ graph = None /\ disk = None
  /\ phase = IF cli.exited THEN "exit" ELSE "load"
  /\ todo = {}
  /\ pc = [t \in Thread |-> "idle"]
  /\ work = [t \in Thread |-> <<>>]
  /\ slot = [t \in Thread |-> None]

\* MakeGraph: a serialized file is the graph, of the type it was written for;
\* other files and the generator give an edge list.
LoadSerialized ==
  /\ phase = "load" /\ cli.filename # "" /\ input.suffix \in {".sg", ".wsg"}
  /\ IF Weighted = (input.suffix = ".wsg")
     THEN graph' = ReadSerializedGraph(input.lines) /\ phase' = "write"
     ELSE phase' = "exit" /\ UNCHANGED graph
  /\ UNCHANGED <<source, edges, csr, disk, team>>

\* An unweighted builder's edges have no weight.
Typed(e) == IF Weighted THEN e ELSE Edge(e.u, e.v.v)

LoadFile ==
  /\ phase = "load" /\ cli.filename # "" /\ input.suffix \notin {".sg", ".wsg"}
  /\ LET r == ReadFile(input, needs_weights) IN
     /\ el' = [i \in DOMAIN r.el |-> Typed(r.el[i])]
     /\ needs_weights' = r.needs_weights
     /\ phase' = IF r.exit = 0 THEN "size" ELSE "exit"
  /\ UNCHANGED <<source, num_nodes, csr, graph, disk, team>>

\* The generator makes 2^scale * degree edges.  Its random numbers are the
\* same for every schedule, since each block of edges has its own seed: they
\* are part of the input.  An edge of MakeRMatEL takes a quadrant per bit.
MakeUniformEL == [i \in DOMAIN input.draws |-> Edge(input.draws[i][1], input.draws[i][2])]

RMatEdge(quadrants) ==
  FoldLeft(LAMBDA e, q : Edge(2 * e.u + (IF q \in {"C", "D"} THEN 1 ELSE 0),
                              2 * e.v.v + (IF q \in {"B", "D"} THEN 1 ELSE 0)),
           Edge(0, 0), quadrants)

\* PermuteIDs: std::shuffle gives any permutation of the vertices.
PermuteIDs(list, permutation) ==
  [i \in DOMAIN list |-> Edge(permutation[list[i].u], permutation[list[i].v.v])]

LoadGenerated ==
  /\ phase = "load" /\ cli.filename = "" /\ cli.scale # -1
  /\ \E permutation \in {p \in [0 .. 2 ^ cli.scale - 1 -> 0 .. 2 ^ cli.scale - 1] : IsInjective(p)} :
       el' = IF cli.uniform THEN MakeUniformEL
             ELSE PermuteIDs([i \in DOMAIN input.draws |-> RMatEdge(input.draws[i])], permutation)
  /\ phase' = "size"
  /\ UNCHANGED <<source, needs_weights, num_nodes, csr, graph, disk, team>>

\* MakeGraphFromEL: FindMaxNodeID and InsertWeights.
FindMaxNodeID == Max({0} \cup UNION {{el[i].u, el[i].v.v} : i \in DOMAIN el})

Size ==
  /\ phase = "size"
  /\ num_nodes' = FindMaxNodeID + 1
  /\ \E w \in [DOMAIN el -> WeightRange] :
       IF needs_weights /\ Weighted
       THEN el' = [i \in DOMAIN el |-> [el[i] EXCEPT !.v.w = w[i]]]
       ELSE w = [i \in DOMAIN el |-> Min(WeightRange)] /\ UNCHANGED el
  /\ phase' = "make"
  /\ UNCHANGED <<source, needs_weights, csr, graph, disk, team>>

-----------------------------------------------------------------------------
(* MakeCSR. *)

\* What an edge adds: to the row of u, of v, or of both.  GetSource keeps the
\* weight of the edge.
Ends(e) ==
  LET forward  == <<e.u, e.v>>
      backward == <<e.v.v, [v |-> e.u, w |-> e.v.w]>>
  IN IF cli.symmetrize THEN <<forward, backward>>
     ELSE IF transpose THEN <<backward>> ELSE <<forward>>

Loop(p) ==
  /\ phase' = p
  /\ todo' = DOMAIN el
  /\ pc' = [t \in Thread |-> "loop"]
  /\ UNCHANGED <<work, slot>>

LoopDone == todo = {} /\ \A t \in Thread : pc[t] = "loop" /\ work[t] = <<>>

StartCount ==
  /\ phase = "make"
  /\ degrees' = [v \in 0 .. num_nodes - 1 |-> 0]
  /\ Loop("count")
  /\ UNCHANGED <<source, edges, transpose, offsets, index, neighs, made, graph, disk>>

Take(t) ==
  /\ pc[t] = "loop" /\ work[t] = <<>>
  /\ \E i \in todo :
       /\ todo' = todo \ {i}
       /\ work' = [work EXCEPT ![t] = Ends(el[i])]
  /\ UNCHANGED <<source, edges, csr, graph, disk, phase, pc, slot>>

\* fetch_and_add(degrees[...], 1)
CountEnd(t) ==
  /\ phase = "count" /\ work[t] # <<>>
  /\ degrees' = [degrees EXCEPT ![Head(work[t])[1]] = @ + 1]
  /\ work' = [work EXCEPT ![t] = Tail(@)]
  /\ UNCHANGED <<source, edges, transpose, offsets, index, neighs, made, graph, disk,
                 phase, todo, pc, slot>>

\* The offsets go on in MakeCSR's loop; the index is made before it.
StartFill ==
  /\ phase = "count" /\ LoopDone
  /\ offsets' = ParallelPrefixSum(degrees, num_nodes)
  /\ index' = offsets'
  /\ neighs' = [i \in 0 .. offsets'[num_nodes] - 1 |-> Empty]
  /\ Loop("fill")
  /\ UNCHANGED <<source, edges, transpose, degrees, made, graph, disk>>

\* The offset read and written back in two steps.
ReserveRacy(t) ==
  LET v == Head(work[t])[1] IN
  /\ phase = "fill" /\ pc[t] = "loop" /\ work[t] # <<>>
  /\ slot' = [slot EXCEPT ![t] = offsets[v]]
  /\ pc' = [pc EXCEPT ![t] = "store"]
  /\ offsets' = [offsets EXCEPT ![v] =
       IF \E u \in Thread : pc[u] = "store" /\ Head(work[u])[1] = v THEN @ ELSE @ + 1]
  /\ UNCHANGED <<source, edges, transpose, degrees, index, neighs, made, graph, disk,
                 phase, todo, work>>

\* fetch_and_add(offsets[...], 1)
Reserve(t) ==
  LET v == Head(work[t])[1] IN
  /\ phase = "fill" /\ pc[t] = "loop" /\ work[t] # <<>>
  /\ slot' = [slot EXCEPT ![t] = offsets[v]]
  /\ offsets' = [offsets EXCEPT ![v] = @ + 1]
  /\ pc' = [pc EXCEPT ![t] = "store"]
  /\ UNCHANGED <<source, edges, transpose, degrees, index, neighs, made, graph, disk,
                 phase, todo, work>>

Store(t) ==
  /\ pc[t] = "store"
  /\ neighs' = [neighs EXCEPT ![slot[t]] = Head(work[t])[2]]
  /\ work' = [work EXCEPT ![t] = Tail(@)]
  /\ slot' = [slot EXCEPT ![t] = None]
  /\ pc' = [pc EXCEPT ![t] = "loop"]
  /\ UNCHANGED <<source, edges, transpose, degrees, offsets, index, made, graph, disk,
                 phase, todo>>

\* The side is made; a directed graph gets its inverse too.
EndFill ==
  /\ phase = "fill" /\ LoopDone
  /\ made' = [made EXCEPT ![transpose] = [index |-> index, neighs |-> neighs]]
  /\ transpose' = TRUE
  /\ phase' = IF ~cli.symmetrize /\ ~transpose THEN "make" ELSE "squish"
  /\ UNCHANGED <<source, edges, degrees, offsets, index, neighs, graph, disk, team>>

-----------------------------------------------------------------------------
\* SquishGraph(g), at the end of MakeGraph.
Squish ==
  /\ phase = "squish"
  /\ graph' = SquishGraph(IF cli.symmetrize THEN Undirected(num_nodes, made[FALSE])
                          ELSE Directed(num_nodes, made[FALSE], made[TRUE]))
  /\ phase' = "write"
  /\ UNCHANGED <<source, edges, csr, disk, team>>

\* WriteGraph(out_filename, out_sg)
WriteGraph ==
  /\ phase = "write"
  /\ IF cli.out_filename = ""
     THEN phase' = "exit" /\ UNCHANGED disk
     ELSE /\ phase' = "done"
          /\ disk' = IF cli.out_sg THEN WriteSerializedGraph(graph) ELSE WriteEL(graph, Weighted)
  /\ UNCHANGED <<source, edges, csr, graph, team>>

Main == LoadSerialized \/ LoadFile \/ LoadGenerated \/ Size \/ StartCount \/ StartFill
        \/ EndFill \/ Squish \/ WriteGraph

Step(t) == Take(t) \/ CountEnd(t) \/ Reserve(t) \/ Store(t)

Terminated == phase \in {"done", "exit"} /\ UNCHANGED vars

Next == Main \/ (\E t \in Thread : Step(t)) \/ Terminated

Spec == Init /\ [][Next]_vars

-----------------------------------------------------------------------------
\* The edges that join v to x, in the direction of the graph.
Joining(v, x) ==
  {i \in DOMAIN el : \/ el[i].u = v /\ el[i].v.v = x
                     \/ cli.symmetrize /\ el[i].u = x /\ el[i].v.v = v}

Pairs == {p \in vertices(graph) \X vertices(graph) : p[1] # p[2] /\ Joining(p[1], p[2]) # {}}
Lightest(v, x) == [u |-> v, v |-> [v |-> x, w |-> Min({el[k].v.w : k \in Joining(v, x)})]]

Row(side, v) == side.index[v] .. side.index[v + 1] - 1
Ascending(side) ==
  \A v \in vertices(graph) : \A i \in Row(side, v) :
    i + 1 \in Row(side, v) => side.neighs[i].v < side.neighs[i + 1].v
SideEdges(side) ==
  UNION {{[u |-> v, v |-> side.neighs[i]] : i \in Row(side, v)} : v \in vertices(graph)}

\* Whatever slots the threads got, the graph that MakeGraph returns has for
\* each vertex its neighbours in ascending order, once each, with the lightest
\* parallel edge, and the incoming side is the exact inverse of the outgoing
\* side, weights included ("Removes self-loops and redundant edges",
\* builder.h:129, 225-247).
BuildsGraph ==
  phase \in {"write", "done"} /\ el # <<>> =>
    /\ Ascending(graph.out) /\ Ascending(graph.inn)
    /\ SideEdges(graph.out) = {Lightest(p[1], p[2]) : p \in Pairs}
    /\ SideEdges(graph.inn) =
         {[u |-> e.v.v, v |-> [v |-> e.u, w |-> e.v.w]] : e \in SideEdges(graph.out)}

EdgesOf(list) == {list[i] : i \in DOMAIN list}

\* The edges that the reader takes a listed one to imply: the reverse, if the file
\* is symmetric.  It departs from the format twice: the reverse has weight 1
\* whatever the entry's weight (reader.h:206-207), and a skew-symmetric file is read
\* as if it were general (reader.h:176).
Implied(e) == IF input.symmetry = "symmetric" THEN {Edge(e.v.v, e.u)} ELSE {}

\* A file of any format is read as the edges that its lines list, with their
\* weights, and those they imply, with the two exceptions above.  What the
\* converter writes is read back as the graph it had: a serialized graph exactly,
\* an edge list edge by edge (writer.h:33-66, reader.h:51-223).
FilesFaithful ==
  /\ phase = "size" /\ cli.filename # "" =>
       EdgesOf(el) = {Typed(e) : e \in input.listed \cup UNION {Implied(x) : x \in input.listed}}
  /\ phase = "done" =>
       IF cli.out_sg THEN ReadSerializedGraph(disk) = graph
       ELSE EdgesOf(IF Weighted THEN ReadInWEL(disk) ELSE ReadInEL(disk)) = SideEdges(graph.out)
=============================================================================
