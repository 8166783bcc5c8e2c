-------------------------- MODULE Graph500Generate --------------------------
(***************************************************************************)
(* graph500's edge lists.  rmat_edgelist (rmat.c) draws the edges, then    *)
(* permutes the labels of the vertices and then the edges, in place and in *)
(* parallel: a thread takes the two cells it swaps, which hold -1 as long  *)
(* as they are taken.  generate_kronecker_range (graph_generator.c) draws  *)
(* edges above the diagonal and scrambles the vertices by arithmetic.      *)
(*                                                                         *)
(* What the random numbers decide is a choice: the quadrants of an edge    *)
(* (Draws), the places of a permutation, the two scrambling values.        *)
(***************************************************************************)
EXTENDS Integers, Sequences, FiniteSets, SequencesExt, FiniteSetsExt, Bags

CONSTANTS
  NT, SCALE,
  Draws,           \* per edge and level a quadrant: sequences of sequences of 0 .. 3
  WordBits,        \* the width of uint64_t
  Values,          \* val0 and val1
  Odd0, Odd1       \* the low bits of scramble's two odd constants

VARIABLES
  generator, draws, val0, val1,
  edges, newlabel,
  stage,                       \* what is being permuted: "labels", then "edges"
  pc, todo, place, Ak, Aplace  \* per thread

source == <<generator, draws, val0, val1>>
hold   == <<place, Ak, Aplace>>
vars   == <<source, edges, newlabel, stage, pc, todo, hold>>

Thread == 0 .. NT - 1
nedge  == Len(draws)
Label  == 0 .. 2^SCALE - 1

Share(t, n) ==
  LET q == n \div NT
      r == n % NT
  IN [i \in 1 .. (IF t < r THEN q + 1 ELSE q) |-> t * q + Min({t, r}) + i - 1]

-----------------------------------------------------------------------------
(* Drawing an edge. *)

Bit(level) == 2^(SCALE - level)

\* rmat_edge: quadrants 2 and 3 are the other ones, 4 has both bits; here 0 is
\* quadrant 1.  The drift of A, B, C and D decides the quadrants drawn.
Quadrant(q) == <<IF q >= 2 THEN 1 ELSE 0, q % 2>>
RmatEdge(qs) == << SumSet({Bit(n) * Quadrant(qs[n])[1] : n \in DOMAIN qs}),
                   SumSet({Bit(n) * Quadrant(qs[n])[2] : n \in DOMAIN qs}) >>

\* make_one_edge: below the diagonal only once the edge has left it ("clip-and-
\* flip").
OneEdgeLevel(base, q, n) ==
  LET src == q \div 2
      tgt == q % 2
      flip == base[1] = base[2] /\ src > tgt
  IN << base[1] + Bit(n) * (IF flip THEN tgt ELSE src),
        base[2] + Bit(n) * (IF flip THEN src ELSE tgt) >>
OneEdgeUpTo(qs, level) ==
  FoldLeft(LAMBDA base, n : OneEdgeLevel(base, qs[n], n), <<0, 0>>, [n \in 1 .. level |-> n])

\* bitreverse(x) >> (WordBits - SCALE): the low SCALE bits, reversed.
LowReversed(x) == SumSet({2^(SCALE - 1 - b) * ((x \div 2^b) % 2) : b \in 0 .. SCALE - 1})

\* x | m
OrOdd(x, m) == SumSet({IF (x \div 2^b) % 2 = 1 \/ (m \div 2^b) % 2 = 1 THEN 2^b ELSE 0 :
                         b \in 0 .. WordBits - 1})

Scramble(v0) ==
  LET v1 == (v0 + val0 + val1) % 2^WordBits
      v2 == LowReversed((v1 * OrOdd(val0, Odd0)) % 2^WordBits)
  IN LowReversed((v2 * OrOdd(val1, Odd1)) % 2^WordBits)

-----------------------------------------------------------------------------
Init ==
  /\ generator \in {"rmat", "kronecker"}
  /\ draws \in Draws
  /\ IF generator = "rmat" THEN val0 = 0 /\ val1 = 0 ELSE val0 \in Values /\ val1 \in Values
  /\ edges = [k \in 0 .. nedge - 1 |-> <<0, 0>>]
  /\ newlabel = [k \in Label |-> 0]
  /\ stage = "labels"
  /\ pc = [t \in Thread |-> "draw"]
  /\ todo = [t \in Thread |-> Share(t, nedge)]
  /\ place = [t \in Thread |-> 0]
  /\ Ak = [t \in Thread |-> <<>>]
  /\ Aplace = [t \in Thread |-> <<>>]

At(t, p)   == pc[t] = p
Goto(t, p) == pc' = [pc EXCEPT ![t] = p]
AllAt(p)   == \A t \in Thread : pc[t] = p
AllGoto(p) == pc' = [t \in Thread |-> p]
InShare(t, k, n) == Contains(Share(t, n), k)

\* The loop over the thread's edges.
DrawRmat(t) ==
  /\ At(t, "draw") /\ generator = "rmat"
  /\ edges' = [k \in DOMAIN edges |-> IF InShare(t, k, nedge) THEN RmatEdge(draws[k + 1]) ELSE edges[k]]
  /\ Goto(t, "drawn")
  /\ UNCHANGED <<source, newlabel, stage, todo, hold>>

DrawKronecker(t) ==
  /\ At(t, "draw") /\ generator = "kronecker"
  /\ edges' = [k \in DOMAIN edges |->
       IF InShare(t, k, nedge)
       THEN LET base == OneEdgeUpTo(draws[k + 1], SCALE) IN <<Scramble(base[1]), Scramble(base[2])>>
       ELSE edges[k]]
  /\ Goto(t, "done")
  /\ UNCHANGED <<source, newlabel, stage, todo, hold>>

\* permute_vertex_labels: newlabel[k] = k, the permutation, and the new labels.
NumberLabels(t) ==
  /\ At(t, "number")
  /\ newlabel' = [k \in Label |-> IF InShare(t, k, 2^SCALE) THEN k ELSE newlabel[k]]
  /\ Goto(t, "numbered")
  /\ UNCHANGED <<source, edges, stage, todo, hold>>

Relabel(t) ==
  /\ At(t, "relabel")
  /\ edges' = [k \in DOMAIN edges |->
       IF InShare(t, k, nedge) THEN <<newlabel[edges[k][1]], newlabel[edges[k][2]]>> ELSE edges[k]]
  /\ Goto(t, "relabelled")
  /\ UNCHANGED <<source, newlabel, stage, todo, hold>>

\* The barriers, the `single`s that move the generator on included; behind some
\* of them the permutation of an array starts.
StartPermute(s, n) ==
  /\ stage' = s
  /\ todo' = [t \in Thread |-> Share(t, n)]
  /\ AllGoto("take")
NoPermute == UNCHANGED <<stage, todo>>
Barrier ==
  /\ \/ AllAt("drawn") /\ AllGoto("number") /\ NoPermute
     \/ AllAt("numbered") /\ StartPermute("labels", 2^SCALE)
     \/ AllAt("permuted") /\ stage = "labels" /\ AllGoto("relabel") /\ NoPermute
     \/ AllAt("relabelled") /\ StartPermute("edges", nedge)
     \/ AllAt("permuted") /\ stage = "edges" /\ AllGoto("done") /\ NoPermute
  /\ UNCHANGED <<source, edges, newlabel, hold>>

-----------------------------------------------------------------------------
(* randpermute_int64_t and randpermute_packed_edge. *)

\* A cell is the sequence of its numbers: one label, or the two ends of an edge.
Taken == IF stage = "labels" THEN <<-1>> ELSE <<-1, -1>>
Cell(k) == IF stage = "labels" THEN <<newlabel[k]>> ELSE edges[k]
SetCells(new) ==    \* new: a function on the cells to write
  IF stage = "labels"
  THEN newlabel' = [k \in DOMAIN newlabel |-> IF k \in DOMAIN new THEN new[k][1] ELSE newlabel[k]] /\ UNCHANGED edges
  ELSE edges' = [k \in DOMAIN edges |-> IF k \in DOMAIN new THEN new[k] ELSE edges[k]] /\ UNCHANGED newlabel
SetCell(k, x) == SetCells([c \in {k} |-> x])

\* take_i64 and take_pe spin until the cell is not taken.
Free(k) == Cell(k) # Taken

TakeFirst(t) ==
  /\ At(t, "take") /\ todo[t] # <<>>
  /\ LET k == Head(todo[t]) IN
     /\ Free(k)
     /\ Ak' = [Ak EXCEPT ![t] = Cell(k)]
     /\ SetCell(k, Taken)
  /\ Goto(t, "place")
  /\ UNCHANGED <<source, stage, todo, place, Aplace>>

\* place = k + floor(random * (nelem - k))
Places(k) == {p \in (IF stage = "labels" THEN Label ELSE DOMAIN edges) : p >= k}
DrawPlace(t) ==
  /\ At(t, "place")
  /\ \E p \in Places(Head(todo[t])) :
       /\ place' = [place EXCEPT ![t] = p]
       /\ Goto(t, IF p = Head(todo[t]) THEN "releaseK" ELSE "takePlace")
  /\ UNCHANGED <<source, edges, newlabel, stage, todo, Ak, Aplace>>

TakePlace(t) ==
  /\ At(t, "takePlace") /\ Free(place[t])
  /\ Aplace' = [Aplace EXCEPT ![t] = Cell(place[t])]
  /\ SetCell(place[t], Taken)
  /\ Goto(t, "swap")
  /\ UNCHANGED <<source, stage, todo, place, Ak>>

\* The cells themselves are swapped too, while both are taken.
Swap(t) ==
  /\ At(t, "swap")
  /\ LET k == Head(todo[t])
         p == place[t]
     IN SetCells([c \in {k, p} |-> IF c = k THEN Cell(p) ELSE Cell(k)])
  /\ Ak' = [Ak EXCEPT ![t] = Aplace[t]]
  /\ Aplace' = [Aplace EXCEPT ![t] = Ak[t]]
  /\ Goto(t, "releasePlace")
  /\ UNCHANGED <<source, stage, todo, place>>

\* release_i64 and release_pe assert that the cell is taken.
ReleasePlace(t) ==
  /\ At(t, "releasePlace")
  /\ IF Free(place[t]) THEN AllGoto("aborted") /\ UNCHANGED <<edges, newlabel>>
     ELSE SetCell(place[t], Aplace[t]) /\ Goto(t, "releaseK")
  /\ UNCHANGED <<source, stage, todo, hold>>

ReleaseK(t) ==
  /\ At(t, "releaseK")
  /\ IF Free(Head(todo[t])) THEN AllGoto("aborted") /\ UNCHANGED <<edges, newlabel, todo>>
     ELSE /\ SetCell(Head(todo[t]), Ak[t])
          /\ todo' = [todo EXCEPT ![t] = Tail(@)]
          /\ Goto(t, "take")
  /\ UNCHANGED <<source, stage, hold>>

Permuted(t) ==
  /\ At(t, "take") /\ todo[t] = <<>>
  /\ Goto(t, "permuted")
  /\ UNCHANGED <<source, edges, newlabel, stage, todo, hold>>

Step(t) == \/ DrawRmat(t) \/ DrawKronecker(t) \/ NumberLabels(t) \/ Relabel(t)
           \/ TakeFirst(t) \/ DrawPlace(t) \/ TakePlace(t) \/ Swap(t)
           \/ ReleasePlace(t) \/ ReleaseK(t) \/ Permuted(t)

Done    == AllAt("done")
Aborted == AllAt("aborted")

Next == (\E t \in Thread : Step(t)) \/ Barrier
Spec == Init /\ [][Next]_vars

-----------------------------------------------------------------------------
BagOf(f) == [x \in {f[k] : k \in DOMAIN f} |-> Cardinality({k \in DOMAIN f : f[k] = x})]
Drawn(k) == IF generator = "rmat" THEN RmatEdge(draws[k + 1]) ELSE OneEdgeUpTo(draws[k + 1], SCALE)
NewLabel(v) == IF generator = "rmat" THEN newlabel[v] ELSE Scramble(v)

\* The edge list that a generator returns is the one drawn, with the vertices
\* renamed by a permutation of the labels: the threads lose and duplicate
\* nothing when they swap in parallel (rmat.c:83-125), and the arithmetic of
\* scramble is one to one (graph_generator.c:128-140).
EdgesRenamed ==
  Done => /\ {NewLabel(v) : v \in Label} = Label
          /\ BagOf(edges) = BagOf([k \in DOMAIN edges |-> <<NewLabel(Drawn(k)[1]), NewLabel(Drawn(k)[2])>>])

\* The asserts: a cell that is released is taken (rmat.c:241, 261), and an edge
\* under construction is never below the diagonal (graph_generator.c:150).
GeneratorAssertsHold ==
  /\ ~Aborted
  /\ generator = "kronecker" =>
       \A k \in DOMAIN edges : \A level \in 0 .. SCALE :
         OneEdgeUpTo(draws[k + 1], level)[1] <= OneEdgeUpTo(draws[k + 1], level)[2]
=============================================================================
