-------------------------------- MODULE CSR --------------------------------
(***************************************************************************)
(* gapbs CSRGraph (graph.h) and the sequential operations that the builder *)
(* makes it with (builder.h).  A neighbour is a NodeWeight [v, w]; in an   *)
(* unweighted graph w is 1.  A side of the graph is the pair of an index,  *)
(* 0 .. num_nodes to offsets, and the array of neighbours those point in.  *)
(***************************************************************************)
EXTENDS Integers, Sequences, SequencesExt, FiniteSetsExt, Folds

CONSTANT BlockSize   \* ParallelPrefixSum's block_size, positive (2^20 in the code)

\* NodeWeight::operator< and operator==, which does not look at the weight.
Less(a, b) == IF a.v = b.v THEN a.w < b.w ELSE a.v < b.v
Same(a, b) == a.v = b.v

SumTo(f, from, to) == FoldFunctionOnSet(LAMBDA x, y : x + y, 0, f, from .. to - 1)

\* The blocks' own sums, then their bulk prefix, then each block on its own.
ParallelPrefixSum(degrees, n) ==
  LET num_blocks == (n + BlockSize - 1) \div BlockSize
      block_end(b) == Min({(b + 1) * BlockSize, n})
      local_sums  == [b \in 0 .. num_blocks - 1 |-> SumTo(degrees, b * BlockSize, block_end(b))]
      bulk_prefix == [b \in 0 .. num_blocks |-> SumTo(local_sums, 0, b)]
      block(i)    == i \div BlockSize
  IN [i \in 0 .. n |->
        IF i = n THEN bulk_prefix[num_blocks]
        ELSE bulk_prefix[block(i)] + SumTo(degrees, block(i) * BlockSize, i)]

\* Neighborhood(n, index, start_offset): the start is cut off at the end.
Neighborhood(side, n, start) ==
  LET b == side.index[n]
      e == side.index[n + 1]
      s == Min({start, e - b})
  IN [i \in 1 .. e - b - s |-> side.neighs[b + s + i - 1]]

Neigh(side, n) == Neighborhood(side, n, 0)

\* The constructors: an undirected graph has one side for both directions.
Undirected(n, out)    == [directed |-> FALSE, num_nodes |-> n, out |-> out, inn |-> out,
                          num_edges |-> (out.index[n] - out.index[0]) \div 2]
Directed(n, out, inn) == [directed |-> TRUE, num_nodes |-> n, out |-> out, inn |-> inn,
                          num_edges |-> out.index[n] - out.index[0]]

num_edges_directed(g) == IF g.directed THEN g.num_edges ELSE 2 * g.num_edges
out_degree(g, v) == g.out.index[v + 1] - g.out.index[v]
vertices(g) == 0 .. g.num_nodes - 1

\* A side from its rows, one after the other: GenIndex on the prefix sums of
\* their lengths, and the copies.
FromRows(rows, n) ==
  LET offsets == ParallelPrefixSum([v \in 0 .. n - 1 |-> Len(rows[v])], n)
      owner(i) == CHOOSE v \in 0 .. n - 1 : offsets[v] <= i /\ i < offsets[v + 1]
  IN [index  |-> offsets,
      neighs |-> [i \in 0 .. offsets[n] - 1 |-> rows[owner(i)][i - offsets[owner(i)] + 1]]]

\* std::unique keeps the first of equal neighbours, so the lightest edge;
\* std::remove then takes out the self-loops.
Unique(row) ==
  LET keep == {i \in DOMAIN row : i = 1 \/ ~Same(row[i - 1], row[i])}
  IN [i \in 1 .. Cardinality(keep) |->
        row[CHOOSE k \in keep : Cardinality({j \in keep : j <= k}) = i]]

SquishRow(row, n) ==
  SelectSeq(Unique(SortSeq(row, Less)), LAMBDA a : a.v # n)

SquishCSR(g, side) ==
  FromRows([n \in vertices(g) |-> SquishRow(Neigh(side, n), n)], g.num_nodes)

SquishGraph(g) ==
  IF g.directed
  THEN Directed(g.num_nodes, SquishCSR(g, g.out), SquishCSR(g, g.inn))
  ELSE Undirected(g.num_nodes, SquishCSR(g, g.out))

\* Pairs (degree, vertex) in decreasing order give the new ids.
RelabelByDegree(g) ==
  LET n == g.num_nodes
      Before(u, v) == \/ out_degree(g, u) > out_degree(g, v)
                      \/ out_degree(g, u) = out_degree(g, v) /\ u > v
      new_ids == [v \in vertices(g) |-> Cardinality({u \in vertices(g) : Before(u, v)})]
      old(i)  == CHOOSE v \in vertices(g) : new_ids[v] = i
      row(i)  == [k \in 1 .. out_degree(g, old(i)) |->
                    LET a == Neigh(g.out, old(i))[k] IN [v |-> new_ids[a.v], w |-> 1]]
  IN Undirected(n, FromRows([i \in 0 .. n - 1 |-> SortSeq(row(i), Less)], n))

-----------------------------------------------------------------------------
(* The serialized image (writer.h, reader.h): the fields in the order they *)
(* are written, and read back by.                                          *)

VertexOffsets(side, n) == [i \in 0 .. n |-> side.index[i] - side.index[0]]

WriteSerializedGraph(g) ==
  LET image(side) == <<VertexOffsets(side, g.num_nodes), side.neighs>>
      head == <<g.directed, num_edges_directed(g), g.num_nodes>>
  IN head \o image(g.out) \o (IF g.directed THEN image(g.inn) ELSE <<>>)

ReadSerializedGraph(f) ==
  LET num_edges == f[2]
      num_nodes == f[3]
      side(k) == [index |-> f[k], neighs |-> [i \in 0 .. num_edges - 1 |-> f[k + 1][i]]]
  IN IF f[1] THEN Directed(num_nodes, side(4), side(6)) ELSE Undirected(num_nodes, side(4))

\* WriteEL: a line for every out-edge, an undirected one from both ends.
WriteEL(g, weighted) ==
  LET line(u, a) == IF weighted THEN <<u, a.v, a.w>> ELSE <<u, a.v>>
      lines(u)   == [k \in 1 .. out_degree(g, u) |-> line(u, Neigh(g.out, u)[k])]
  IN FlattenSeq([i \in 1 .. g.num_nodes |-> lines(i - 1)])
=============================================================================
