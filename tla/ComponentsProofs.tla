-------------------------- MODULE ComponentsProofs --------------------------
(***************************************************************************)
(* Proofs about Components for any graphs, threads and sampling rounds:    *)
(* labels descend within a component at every moment, Afforest never takes *)
(* apart what it has linked, and the labels that a kernel returns are the  *)
(* connected components.                                                   *)
(*                                                                         *)
(* Trees and components are spoken of through sets of vertices: a set is   *)
(* saturated when no parent pointer crosses its border, and closed when no *)
(* edge does.  Every closed set is saturated from the beginning to the end *)
(* (labels stay in their component); Afforest makes ever fewer sets        *)
(* saturated, and is done when only the closed ones are left.              *)
(***************************************************************************)
EXTENDS Components, WellFoundedInduction, TLAPS

Phases     == {"sample", "final", "hook", "compress", "done"}
EdgeSteps  == {"load1", "load2", "high", "cas", "store", "reload", "reload1", "reload2"}
TwoLabels  == {"high", "cas", "store", "reload", "reload1", "reload2"}
Steps      == {"loop", "compress", "jump"} \cup EdgeSteps
Labels     == [p1 : Nat, p2 : Nat, ph : Nat]

TypeOK ==
  /\ kernel \in Kernels /\ g \in Graphs
  /\ neighbor_rounds \in Nat /\ (kernel = "afforest" => neighbor_rounds # 0)
  /\ comp \in [Vertex -> Vertex]
  /\ phase \in Phases /\ round \in Nat /\ c \in Nat /\ change \in BOOLEAN
  /\ todo \in SUBSET Vertex
  /\ pc \in [Thread -> Steps]
  /\ work \in [Thread -> Seq(Vertex)]
  /\ u \in [Thread -> Nat]
  /\ lab \in [Thread -> Labels]

\* What a thread is at, and that no other is at the same vertex.
Busy(t) == pc[t] # "loop"

ThreadOK(t) ==
  /\ Busy(t) => u[t] \in Vertex /\ u[t] \notin todo
  /\ pc[t] \in {"compress", "jump"} => phase = "compress"
  /\ pc[t] \in EdgeSteps => phase \in {"sample", "final", "hook"} /\ work[t] # <<>>
  /\ pc[t] \in {"cas", "reload", "reload1", "reload2"} => kernel = "afforest"
  /\ pc[t] = "store" => kernel = "sv"
  /\ pc[t] \in EdgeSteps \ {"load1"} => lab[t].p1 \in Vertex
  /\ pc[t] \in TwoLabels => lab[t].p2 \in Vertex /\ lab[t].p1 # lab[t].p2
  /\ pc[t] \in {"reload1", "reload2"} => lab[t].ph \in Vertex

Control ==
  /\ kernel = "afforest" => phase # "hook"
  /\ kernel = "sv" => phase \in {"hook", "compress", "done"}
  /\ phase = "done" => LoopDone /\ (kernel = "sv" => ~change)
  /\ \A t \in Thread : ThreadOK(t)
  /\ \A s, t \in Thread : s # t /\ Busy(s) /\ Busy(t) => u[s] # u[t]

\* Parent pointers go down.
Descend == \A n \in Vertex : comp[n] <= n

\* m is in the list s.
Lists(s, m) == \E i \in DOMAIN s : s[i] = m

\* n and m are on the same side of the border of S.
Same(S, m, n) == m \in S <=> n \in S

\* Nothing crosses the border of a closed set: neither the parent pointers nor
\* what a thread has read or is going to read.
Inside(S, t) ==
  /\ pc[t] \in EdgeSteps => \A m \in Vertex : Lists(work[t], m) => Same(S, m, u[t])
  /\ pc[t] \in EdgeSteps \ {"load1"} => Same(S, lab[t].p1, u[t])
  /\ pc[t] \in TwoLabels => Same(S, lab[t].p2, u[t])
  /\ pc[t] \in {"reload1", "reload2"} => Same(S, lab[t].ph, u[t])

Within == \A S \in SUBSET Vertex : Closed(S) => Saturated(comp, S) /\ \A t \in Thread : Inside(S, t)

\* A vertex whose pointer goes to a root.
Flat(n) == comp[comp[n]] = comp[n]

\* In the loop that compresses, the vertices done are flat, and a thread that
\* is about to jump is not at a root.
Compressed ==
  /\ phase = "compress" =>
       /\ \A n \in Vertex \ todo : Flat(n) \/ \E t \in Thread : Busy(t) /\ u[t] = n
       /\ \A t \in Thread : pc[t] = "jump" => comp[u[t]] # u[t]
  /\ phase = "done" => \A n \in Vertex : Flat(n)

-----------------------------------------------------------------------------
(* Afforest. *)

\* Somebody has the edge from n to m in his list.
Pending(n, m) == \E t \in Thread : Busy(t) /\ u[t] = n /\ Lists(work[t], m)

\* The edge that a thread is at will be linked when its two labels are, and the
\* label it goes up to is in the tree of the higher one.
Linking(S, t) ==
  /\ pc[t] = "load2" => Same(S, lab[t].p1, u[t])
  /\ pc[t] \in TwoLabels =>
       (Same(S, lab[t].p1, lab[t].p2) => Same(S, u[t], Head(work[t])))
  /\ pc[t] \in {"reload1", "reload2"} => Same(S, lab[t].ph, high(t))

\* Position k of every list was linked by the sampling rounds.
Sampled(S, k) == \A n \in Vertex : k < Len(out_neigh(n)) => Same(S, n, out_neigh(n)[k + 1])

\* The neighbours of n that the final loop is there for.
Targets(n) ==
  {out_neigh(n)[i] : i \in neighbor_rounds + 1 .. Len(out_neigh(n))}
    \cup (IF g.directed THEN {in_neigh(n)[i] : i \in DOMAIN in_neigh(n)} ELSE {})

\* What is linked so far, in a set that is a union of trees.
Linked(S) ==
  /\ \A t \in Thread : Linking(S, t)
  /\ phase \in {"sample", "final"} \/ (phase = "compress" /\ round <= neighbor_rounds)
       => \A k \in 0 .. round - 1 : Sampled(S, k)
  /\ phase = "sample" =>
       \A n \in Vertex \ todo :
         round < Len(out_neigh(n)) =>
           Same(S, n, out_neigh(n)[round + 1]) \/ Pending(n, out_neigh(n)[round + 1])
  /\ phase = "final" =>
       \A n \in Vertex \ todo :
         Same(S, n, c) \/ \A m \in Targets(n) : Same(S, n, m) \/ Pending(n, m)
  /\ (phase = "compress" /\ round > neighbor_rounds) \/ phase = "done" => Closed(S)

Afforest ==
  kernel = "afforest" =>
    /\ phase = "sample" => round < neighbor_rounds
    /\ phase = "final" => round = neighbor_rounds
    /\ \A S \in SUBSET Vertex : Saturated(comp, S) => Linked(S)

-----------------------------------------------------------------------------
(* Shiloach-Vishkin: as long as nothing was hooked in this iteration, the   *)
(* labels are those that the last compression left.                        *)

Settled(n) == \A i \in DOMAIN out_neigh(n) : comp[n] = comp[out_neigh(n)[i]]

Hooking(t) ==
  /\ pc[t] # "jump"
  /\ pc[t] \in {"load2", "high", "store"} => lab[t].p1 = comp[u[t]]
  /\ pc[t] \in {"high", "store"} => lab[t].p2 = comp[Head(work[t])]

ShiloachVishkin ==
  kernel = "sv" /\ ~change =>
    /\ \A n \in Vertex : Flat(n)
    /\ \A t \in Thread : Hooking(t)
    /\ phase = "hook" =>
         \A n \in Vertex \ todo : \A i \in DOMAIN out_neigh(n) :
           comp[n] = comp[out_neigh(n)[i]] \/ Pending(n, out_neigh(n)[i])
    /\ phase \in {"compress", "done"} => \A n \in Vertex : Settled(n)

IInv == TypeOK /\ Control /\ Descend /\ Within /\ Compressed /\ Afforest /\ ShiloachVishkin

-----------------------------------------------------------------------------
(* Natural numbers, graphs and forests. *)

LEMMA Least ==
  ASSUME NEW T \in SUBSET Nat, T # {}
  PROVE  \E x \in T : \A y \in T : x <= y
<1>. DEFINE R == OpToRel(<, Nat)
<1>1. PICK x \in T : \A y \in T : <<y, x>> \notin R
  <2>1. IsWellFoundedOn(R, Nat)
    BY NatLessThanWellFounded
  <2>. HIDE DEF R
  <2>. QED
    BY <2>1, WFMin
<1>2. \A y \in T : ~(y < x)
  BY <1>1 DEF OpToRel
<1>. QED
  BY <1>2

LEMMA Largest ==
  ASSUME NEW N \in Nat, NEW T \in SUBSET (0 .. N), T # {}
  PROVE  \E x \in T : \A y \in T : y <= x
<1>. DEFINE U == {k \in Nat : N - k \in T}
<1>1. U # {}
  <2>1. PICK x \in T : TRUE
    OBVIOUS
  <2>2. N - (N - x) = x /\ N - x \in Nat
    BY <2>1
  <2>. QED
    BY <2>1, <2>2
<1>2. PICK k \in U : \A y \in U : k <= y
  <2>. HIDE DEF U
  <2>1. U \in SUBSET Nat
    BY DEF U
  <2>. QED
    BY <1>1, <2>1, Least
<1>3. \A y \in T : y <= N - k
  <2>. TAKE y \in T
  <2>1. N - y \in U
    OBVIOUS
  <2>. QED
    BY <1>2, <2>1
<1>. QED
  BY <1>2, <1>3

\* Lists and the operations on them.
LEMMA TailLists ==
  ASSUME NEW V, NEW s \in Seq(V), s # <<>>
  PROVE  /\ Head(s) \in V /\ Tail(s) \in Seq(V) /\ Lists(s, Head(s))
         /\ Len(s) = 1 <=> Tail(s) = <<>>
         /\ \A m : Lists(s, m) <=> m = Head(s) \/ Lists(Tail(s), m)
<1>1. Head(s) \in V /\ Tail(s) \in Seq(V) /\ Len(Tail(s)) = Len(s) - 1 /\ Head(s) = s[1] /\ 1 \in DOMAIN s
  OBVIOUS
<1>2. \A i \in DOMAIN s : i = 1 \/ (i - 1 \in DOMAIN Tail(s) /\ Tail(s)[i - 1] = s[i])
  OBVIOUS
<1>3. \A i \in DOMAIN Tail(s) : i + 1 \in DOMAIN s /\ Tail(s)[i] = s[i + 1]
  OBVIOUS
<1>4. Len(s) = 1 <=> Tail(s) = <<>>
  BY <1>1
<1>5. ASSUME NEW m, Lists(s, m) PROVE m = Head(s) \/ Lists(Tail(s), m)
  BY <1>1, <1>2, <1>5 DEF Lists
<1>6. ASSUME NEW m, m = Head(s) \/ Lists(Tail(s), m) PROVE Lists(s, m)
  BY <1>1, <1>3, <1>6 DEF Lists
<1>. QED
  BY <1>1, <1>4, <1>5, <1>6

LEMMA ConcatLists ==
  ASSUME NEW V, NEW s \in Seq(V), NEW t \in Seq(V)
  PROVE  /\ s \o t \in Seq(V)
         /\ \A m : Lists(s \o t, m) <=> Lists(s, m) \/ Lists(t, m)
<1>1. s \o t \in Seq(V) /\ Len(s \o t) = Len(s) + Len(t)
  OBVIOUS
<1>2. \A i \in 1 .. Len(s) + Len(t) : (s \o t)[i] = IF i <= Len(s) THEN s[i] ELSE t[i - Len(s)]
  OBVIOUS
<1>3. /\ Len(s) \in Nat /\ Len(t) \in Nat /\ DOMAIN s = 1 .. Len(s) /\ DOMAIN t = 1 .. Len(t)
      /\ DOMAIN (s \o t) = 1 .. Len(s) + Len(t)
  BY <1>1
<1>4. ASSUME NEW m, Lists(s \o t, m) PROVE Lists(s, m) \/ Lists(t, m)
  <2>1. PICK i \in 1 .. Len(s) + Len(t) : (s \o t)[i] = m
    BY <1>3, <1>4 DEF Lists
  <2>2. CASE i <= Len(s)
    BY <1>2, <1>3, <2>1, <2>2 DEF Lists
  <2>3. CASE i > Len(s)
    BY <1>2, <1>3, <2>1, <2>3 DEF Lists
  <2>. QED
    BY <1>3, <2>2, <2>3
<1>5. ASSUME NEW m, Lists(s, m) PROVE Lists(s \o t, m)
  BY <1>2, <1>3, <1>5 DEF Lists
<1>6. ASSUME NEW m, Lists(t, m) PROVE Lists(s \o t, m)
  <2>1. PICK i \in 1 .. Len(t) : t[i] = m
    BY <1>3, <1>6 DEF Lists
  <2>2. /\ i + Len(s) \in 1 .. Len(s) + Len(t) /\ ~(i + Len(s) <= Len(s)) /\ (i + Len(s)) - Len(s) = i
    BY <1>3
  <2>3. (s \o t)[i + Len(s)] = m
    BY <1>2, <2>1, <2>2
  <2>. QED
    BY <1>3, <2>2, <2>3 DEF Lists
<1>. QED
  BY <1>1, <1>4, <1>5, <1>6

\* What is left of a neighbourhood from an offset on.
LEMMA FromOffsetLists ==
  ASSUME NEW V, NEW s \in Seq(V), NEW k \in Nat
  PROVE  /\ FromOffset(s, k) \in Seq(V)
         /\ \A m : Lists(FromOffset(s, k), m) <=> \E i \in k + 1 .. Len(s) : s[i] = m
         /\ k < Len(s) => FromOffset(s, k) # <<>> /\ FromOffset(s, k)[1] = s[k + 1]
<1>1. /\ FromOffset(s, k) \in Seq(V)
      /\ \A i \in DOMAIN FromOffset(s, k) : FromOffset(s, k)[i] = s[i + k] /\ i + k \in k + 1 .. Len(s)
      /\ \A i \in k + 1 .. Len(s) : i - k \in DOMAIN FromOffset(s, k) /\ FromOffset(s, k)[i - k] = s[i]
  BY DEF FromOffset
<1>2. k < Len(s) => FromOffset(s, k) # <<>> /\ FromOffset(s, k)[1] = s[k + 1]
  <2>. SUFFICES ASSUME k < Len(s) PROVE FromOffset(s, k) # <<>> /\ FromOffset(s, k)[1] = s[k + 1]
    OBVIOUS
  <2>1. k + 1 \in k + 1 .. Len(s) /\ (k + 1) - k = 1
    OBVIOUS
  <2>2. 1 \in DOMAIN FromOffset(s, k) /\ FromOffset(s, k)[1] = s[k + 1]
    BY <1>1, <2>1
  <2>. QED
    BY <2>2
<1>. QED
  BY <1>1, <1>2 DEF Lists

\* The graph of a run: neighbours are vertices, and in_neigh has the edges of
\* out_neigh the other way round.
LEMMA GraphFacts ==
  ASSUME g \in Graphs
  PROVE  /\ Len(g.out) \in Nat
         /\ g.directed \in BOOLEAN
         /\ \A n \in Vertex : out_neigh(n) \in Seq(Vertex) /\ in_neigh(n) \in Seq(Vertex)
         /\ \A m, n \in Vertex : Lists(out_neigh(m), n) <=> Lists(in_neigh(n), m)
         /\ ~g.directed => \A n \in Vertex : in_neigh(n) = out_neigh(n)
<1>1. /\ g.directed \in BOOLEAN
      /\ g.out \in Seq(Seq(Vertex)) /\ g.inn \in Seq(Seq(Vertex))
      /\ Len(g.inn) = Len(g.out)
      /\ \A m, n \in Vertex : Lists(out_neigh(m), n) <=> Lists(in_neigh(n), m)
      /\ ~g.directed => g.inn = g.out
  BY GraphsAssumption DEF Vertex, Lists, out_neigh, in_neigh
<1>2. Len(g.out) \in Nat
  BY <1>1
<1>4. \A n \in Vertex : out_neigh(n) \in Seq(Vertex) /\ in_neigh(n) \in Seq(Vertex)
  <2>. TAKE n \in Vertex
  <2>. DEFINE L == Seq(Vertex)
  <2>1. g.out \in Seq(L) /\ g.inn \in Seq(L) /\ n + 1 \in 1 .. Len(g.out) /\ n + 1 \in 1 .. Len(g.inn)
    BY <1>1, <1>2 DEF Vertex
  <2>2. g.out[n + 1] \in L /\ g.inn[n + 1] \in L
    <3>. HIDE DEF L
    <3>. QED
      BY <2>1
  <2>. QED
    BY <2>2 DEF out_neigh, in_neigh
<1>. QED
  BY <1>1, <1>2, <1>4 DEF in_neigh, out_neigh

LEMMA NeighboursTyped ==
  ASSUME TypeOK, NEW n \in Vertex
  PROVE  /\ Len(out_neigh(n)) \in Nat
         /\ \A i \in DOMAIN out_neigh(n) : out_neigh(n)[i] \in Vertex
         /\ \A k \in Nat : k < Len(out_neigh(n)) => k + 1 \in DOMAIN out_neigh(n) /\ out_neigh(n)[k + 1] \in Vertex
         /\ Targets(n) \in SUBSET Vertex
<1>1. out_neigh(n) \in Seq(Vertex) /\ in_neigh(n) \in Seq(Vertex) /\ neighbor_rounds \in Nat
  BY GraphFacts DEF TypeOK
<1>2. \A i \in neighbor_rounds + 1 .. Len(out_neigh(n)) : out_neigh(n)[i] \in Vertex
  BY <1>1
<1>3. \A i \in DOMAIN in_neigh(n) : in_neigh(n)[i] \in Vertex
  BY <1>1
<1>. QED
  BY <1>1, <1>2, <1>3 DEF Targets

\* The neighbours that an iteration links: those of the loop, and all of them
\* on the vertex's own side of a closed set.
LEMMA NeighboursFacts ==
  ASSUME TypeOK, NEW n \in Vertex, phase # "done"
  PROVE  /\ Neighbours(n) \in Seq(Vertex)
         /\ \A S \in SUBSET Vertex : Closed(S) =>
              \A m \in Vertex : Lists(Neighbours(n), m) => Same(S, m, n)
         /\ phase = "sample" /\ round < Len(out_neigh(n)) =>
              Lists(Neighbours(n), out_neigh(n)[round + 1])
         /\ phase = "final" /\ comp[n] # c =>
              \A m \in Targets(n) : Lists(Neighbours(n), m)
         /\ phase = "hook" => Neighbours(n) = out_neigh(n)
<1>0. /\ out_neigh(n) \in Seq(Vertex) /\ in_neigh(n) \in Seq(Vertex) /\ g.directed \in BOOLEAN
      /\ \A m \in Vertex : Lists(in_neigh(n), m) => Lists(out_neigh(m), n)
      /\ round \in Nat /\ neighbor_rounds \in Nat
  BY GraphFacts DEF TypeOK
<1>. DEFINE Near(s) == \A S \in SUBSET Vertex : Closed(S) => \A m \in Vertex : Lists(s, m) => Same(S, m, n)
<1>1. Near(out_neigh(n))
  BY DEF Closed, Same, Lists
<1>2. Near(in_neigh(n))
  BY <1>0 DEF Closed, Same, Lists
<1>3. \A k \in Nat : FromOffset(out_neigh(n), k) \in Seq(Vertex) /\ Near(FromOffset(out_neigh(n), k))
  <2>. TAKE k \in Nat
  <2>1. \A m : Lists(FromOffset(out_neigh(n), k), m) => Lists(out_neigh(n), m)
    <3>1. \A i \in k + 1 .. Len(out_neigh(n)) : i \in DOMAIN out_neigh(n)
      BY <1>0
    <3>2. \A m : Lists(FromOffset(out_neigh(n), k), m) => \E i \in k + 1 .. Len(out_neigh(n)) : out_neigh(n)[i] = m
      BY <1>0, FromOffsetLists
    <3>. QED
      BY <3>1, <3>2 DEF Lists
  <2>. QED
    BY <1>0, <1>1, <2>1, FromOffsetLists
<1>4. CASE phase = "sample"
  <2>. DEFINE ns == FromOffset(out_neigh(n), round)
  <2>1. /\ ns \in Seq(Vertex) /\ Near(ns)
        /\ round < Len(out_neigh(n)) => ns # <<>> /\ ns[1] = out_neigh(n)[round + 1]
    BY <1>0, <1>3, FromOffsetLists
  <2>2. Neighbours(n) = IF ns = <<>> THEN <<>> ELSE <<ns[1]>>
    BY <1>4 DEF Neighbours
  <2>. HIDE DEF ns
  <2>3. CASE ns = <<>>
    BY <1>4, <2>1, <2>2, <2>3 DEF Lists
  <2>4. CASE ns # <<>>
    <3>1. ns[1] \in Vertex /\ Lists(ns, ns[1])
      BY <2>1, <2>4 DEF Lists
    <3>2. <<ns[1]>> \in Seq(Vertex) /\ (\A m : Lists(<<ns[1]>>, m) <=> m = ns[1])
      BY <3>1 DEF Lists
    <3>. QED
      BY <1>4, <2>1, <2>2, <2>4, <3>1, <3>2
  <2>. QED
    BY <2>3, <2>4
<1>5. CASE phase = "final"
  <2>1. CASE comp[n] = c
    BY <1>5, <2>1 DEF Neighbours, Lists
  <2>2. CASE comp[n] # c
    <3>. DEFINE a == FromOffset(out_neigh(n), neighbor_rounds)
                b == IF g.directed THEN in_neigh(n) ELSE <<>>
    <3>1. a \in Seq(Vertex) /\ Near(a)
      BY <1>0, <1>3
    <3>2. b \in Seq(Vertex) /\ Near(b)
      BY <1>0, <1>2 DEF Lists
    <3>3. \A m \in Targets(n) : Lists(a, m) \/ Lists(b, m)
      <4>1. \A m : (\E i \in neighbor_rounds + 1 .. Len(out_neigh(n)) : out_neigh(n)[i] = m) => Lists(a, m)
        BY <1>0, FromOffsetLists
      <4>2. \A m : g.directed /\ (\E i \in DOMAIN in_neigh(n) : in_neigh(n)[i] = m) => Lists(b, m)
        BY DEF Lists
      <4>. QED
        BY <4>1, <4>2 DEF Targets
    <3>4. Neighbours(n) = a \o b
      BY <1>5, <2>2 DEF Neighbours
    <3>. HIDE DEF a, b
    <3>5. a \o b \in Seq(Vertex) /\ \A m : Lists(a \o b, m) <=> Lists(a, m) \/ Lists(b, m)
      BY <3>1, <3>2, ConcatLists
    <3>. QED
      BY <1>5, <3>1, <3>2, <3>3, <3>4, <3>5
  <2>. QED
    BY <2>1, <2>2
<1>6. CASE phase = "hook"
  BY <1>0, <1>1, <1>6 DEF Neighbours
<1>7. CASE phase = "compress"
  BY <1>7 DEF Neighbours, Lists
<1>. QED
  BY <1>4, <1>5, <1>6, <1>7 DEF TypeOK, Phases

\* A root that is hooked: a union of the new trees is one of the old, and has
\* both ends of the hook or none.
LEMMA HookSaturates ==
  ASSUME TypeOK, NEW h \in Vertex, NEW l \in Vertex, NEW S \in SUBSET Vertex,
         comp[h] = h, Saturated([comp EXCEPT ![h] = l], S)
  PROVE  Saturated(comp, S) /\ Same(S, h, l)
BY DEF TypeOK, Saturated, Same

\* A jump to the grandparent leaves the trees what they are.
LEMMA JumpSaturates ==
  ASSUME TypeOK, NEW n \in Vertex, NEW S \in SUBSET Vertex
  PROVE  Saturated([comp EXCEPT ![n] = comp[comp[n]]], S) <=> Saturated(comp, S)
<1>. DEFINE f == [comp EXCEPT ![n] = comp[comp[n]]]
            p == comp[n]
<1>1. p \in Vertex /\ comp[p] \in Vertex /\ f[n] = comp[p] /\ (\A m \in Vertex : m # n => f[m] = comp[m])
  BY DEF TypeOK
<1>2. CASE p = n
  BY <1>1, <1>2 DEF Saturated
<1>3. CASE p # n
  BY <1>1, <1>3 DEF Saturated
<1>. QED
  BY <1>2, <1>3

\* The graph stays what it is.
LEMMA GraphStays ==
  ASSUME UNCHANGED config
  PROVE  /\ Vertex' = Vertex
         /\ \A n : out_neigh(n)' = out_neigh(n) /\ in_neigh(n)' = in_neigh(n) /\ Targets(n)' = Targets(n)
         /\ \A S : Closed(S)' <=> Closed(S)
         /\ \A S : Saturated(comp, S)' <=> Saturated(comp', S)
         /\ \A S, k : Sampled(S, k)' <=> Sampled(S, k)
<1>1. kernel' = kernel /\ g' = g /\ neighbor_rounds' = neighbor_rounds
  BY DEF config
<1>2. Vertex' = Vertex /\ \A n : out_neigh(n)' = out_neigh(n) /\ in_neigh(n)' = in_neigh(n)
  BY <1>1 DEF Vertex, out_neigh, in_neigh
<1>3. \A n : Targets(n)' = Targets(n)
  BY <1>1, <1>2 DEF Targets
<1>4. \A S : (Closed(S)' <=> Closed(S)) /\ (Saturated(comp, S)' <=> Saturated(comp', S))
  BY <1>2 DEF Closed, Saturated
<1>5. \A S, k : Sampled(S, k)' <=> Sampled(S, k)
  BY <1>2 DEF Sampled
<1>. QED
  BY <1>2, <1>3, <1>4, <1>5

-----------------------------------------------------------------------------
(* A thread at an edge: Link or the hooking loop. *)

\* A step changes the labels as it may, if at all.
LabelsMove ==
  /\ comp' \in [Vertex -> Vertex] /\ change' \in BOOLEAN
  /\ \A n \in Vertex : comp'[n] <= n
  /\ \A S \in SUBSET Vertex : Closed(S) => Saturated(comp', S)
  /\ kernel = "afforest" => \A S \in SUBSET Vertex : Saturated(comp', S) => Saturated(comp, S)
  /\ kernel = "sv" /\ ~change' => ~change /\ comp' = comp

LEMMA LabelsStay == ASSUME IInv, UNCHANGED <<comp, change>> PROVE LabelsMove
BY DEF LabelsMove, IInv, TypeOK, Descend, Within

\* What holds of the edge from u[t] to m when thread t is done with it.
EdgeDone(t, m) ==
  /\ kernel = "afforest" => \A S \in SUBSET Vertex : Saturated(comp', S) => Same(S, u[t], m)
  /\ kernel = "sv" /\ ~change' => comp[u[t]] = comp[m]

\* A step at an edge preserves the invariant if its own thread is well afterwards
\* and the edges it strikes off its list are done.
LEMMA EdgeStep ==
  ASSUME IInv, NEW t \in Thread, pc[t] \in EdgeSteps,
         UNCHANGED <<config, phase, round, c, todo, u>>,
         NEW p \in EdgeSteps \cup {"loop"}, NEW w \in Seq(Vertex), NEW l \in Labels,
         pc' = [pc EXCEPT ![t] = p], work' = [work EXCEPT ![t] = w], lab' = [lab EXCEPT ![t] = l],
         LabelsMove, ThreadOK(t)',
         \A S \in SUBSET Vertex : Closed(S) => Inside(S, t)',
         kernel = "afforest" => \A S \in SUBSET Vertex : Saturated(comp', S) => Linking(S, t)',
         kernel = "sv" /\ ~change' => Hooking(t)',
         \A m \in Vertex : Lists(work[t], m) => (p # "loop" /\ Lists(w, m)) \/ EdgeDone(t, m)
  PROVE  IInv'
<1>. USE DEF IInv, LabelsMove
<1>1. /\ kernel' = kernel /\ g' = g /\ neighbor_rounds' = neighbor_rounds /\ Vertex' = Vertex
      /\ phase' = phase /\ round' = round /\ c' = c /\ todo' = todo /\ u' = u
      /\ \A n : out_neigh(n)' = out_neigh(n) /\ Targets(n)' = Targets(n)
      /\ \A S : Closed(S)' <=> Closed(S)
      /\ \A S : Saturated(comp, S)' <=> Saturated(comp', S)
      /\ \A S, k : Sampled(S, k)' <=> Sampled(S, k)
  BY GraphStays DEF config
<1>2. TypeOK'
  BY <1>1 DEF TypeOK, Steps, EdgeSteps
<1>3. pc'[t] = p /\ work'[t] = w /\ lab'[t] = l
  BY DEF TypeOK
<1>4. \A s \in Thread : s # t => pc'[s] = pc[s] /\ work'[s] = work[s] /\ lab'[s] = lab[s]
  BY DEF TypeOK
<1>5. phase \in {"sample", "final", "hook"} /\ u[t] \in Vertex /\ Busy(t)
  BY DEF Control, ThreadOK, Busy, EdgeSteps
<1>6. Control'
  <2>1. \A s \in Thread : s # t => ThreadOK(s)'
    BY <1>1, <1>4 DEF Control, ThreadOK, Busy
  <2>2. \A s, r \in Thread : s # r /\ Busy(s)' /\ Busy(r)' => u'[s] # u'[r]
    BY <1>1, <1>4, <1>5 DEF Control, Busy
  <2>. QED
    BY <1>1, <1>5, <2>1, <2>2 DEF Control
<1>7. Descend'
  BY <1>1 DEF Descend
<1>8. Within'
  <2>1. \A S, s : s \in Thread /\ s # t => (Inside(S, s)' <=> Inside(S, s))
    BY <1>1, <1>4 DEF Inside, Same
  <2>. QED
    BY <1>1, <2>1 DEF Within
<1>9. Compressed'
  BY <1>1, <1>5 DEF Compressed
<1>10. ASSUME NEW n \in Vertex, NEW m \in Vertex, Pending(n, m)
       PROVE  Pending(n, m)' \/ (n = u[t] /\ EdgeDone(t, m))
  <2>1. PICK s \in Thread : Busy(s) /\ u[s] = n /\ Lists(work[s], m)
    BY <1>10 DEF Pending
  <2>2. CASE s # t
    BY <1>1, <1>4, <2>1, <2>2 DEF Pending, Busy
  <2>3. CASE s = t
    BY <1>1, <1>3, <2>1, <2>3 DEF Pending, Busy
  <2>. QED
    BY <2>2, <2>3
<1>11. Afforest'
  <2>. SUFFICES ASSUME kernel = "afforest", NEW S \in SUBSET Vertex, Saturated(comp', S)
                PROVE  Linked(S)'
    BY <1>1 DEF Afforest
  <2>1. Linked(S)
    BY DEF Afforest
  <2>2. \A s \in Thread : s # t => (Linking(S, s)' <=> Linking(S, s))
    BY <1>1, <1>4 DEF Linking, Same, high
  <2>3. \A n, m \in Vertex : Pending(n, m) => Pending(n, m)' \/ Same(S, n, m)
    BY <1>10 DEF EdgeDone
  <2>4. \A n \in Vertex : /\ \A k \in Nat : k < Len(out_neigh(n)) => out_neigh(n)[k + 1] \in Vertex
                          /\ Targets(n) \in SUBSET Vertex
    BY NeighboursTyped
  <2>5. phase = "sample" =>
          \A n \in Vertex \ todo :
            round < Len(out_neigh(n)) =>
              Same(S, n, out_neigh(n)[round + 1]) \/ Pending(n, out_neigh(n)[round + 1])'
    BY <1>1, <2>1, <2>3, <2>4 DEF Linked, TypeOK
  <2>6. phase = "final" =>
          \A n \in Vertex \ todo :
            Same(S, n, c) \/ \A m \in Targets(n) : Same(S, n, m) \/ Pending(n, m)'
    BY <2>1, <2>3, <2>4 DEF Linked
  <2>. QED
    BY <1>1, <1>5, <2>1, <2>2, <2>5, <2>6 DEF Linked, Same
<1>12. ShiloachVishkin'
  <2>. SUFFICES ASSUME kernel = "sv", ~change', ~change, comp' = comp
                PROVE  ShiloachVishkin'
    BY <1>1 DEF ShiloachVishkin
  <2>1. \A s \in Thread : s # t => (Hooking(s)' <=> Hooking(s))
    BY <1>1, <1>4 DEF Hooking
  <2>2. \A n, m \in Vertex : Pending(n, m) => Pending(n, m)' \/ comp[n] = comp[m]
    BY <1>10 DEF EdgeDone
  <2>3. \A n \in Vertex : \A i \in DOMAIN out_neigh(n) : out_neigh(n)[i] \in Vertex
    BY GraphFacts DEF TypeOK
  <2>4. phase = "hook" =>
          \A n \in Vertex \ todo : \A i \in DOMAIN out_neigh(n) :
            comp[n] = comp[out_neigh(n)[i]] \/ Pending(n, out_neigh(n)[i])'
    BY <1>1, <2>2, <2>3 DEF ShiloachVishkin
  <2>. QED
    BY <1>1, <1>5, <2>1, <2>4 DEF ShiloachVishkin, Flat
<1>. QED
  BY <1>2, <1>6, <1>7, <1>8, <1>9, <1>11, <1>12

\* The next edge, when this one is done.
LEMMA NextEdgeStep ==
  ASSUME IInv, NEW t \in Thread, pc[t] \in EdgeSteps,
         UNCHANGED <<config, phase, round, c, todo, u>>,
         LabelsMove, NextEdge(t), EdgeDone(t, Head(work[t]))
  PROVE  IInv'
<1>. DEFINE p == IF Len(work[t]) = 1 THEN "loop" ELSE "load1"
            w == Tail(work[t])
<1>1. work[t] \in Seq(Vertex) /\ work[t] # <<>>
  BY DEF IInv, TypeOK, Control, ThreadOK
<1>2. /\ w \in Seq(Vertex) /\ Head(work[t]) \in Vertex
      /\ Len(work[t]) = 1 <=> w = <<>>
      /\ \A m : Lists(work[t], m) <=> m = Head(work[t]) \/ Lists(w, m)
  BY <1>1, TailLists
<1>3. /\ pc' = [pc EXCEPT ![t] = p] /\ work' = [work EXCEPT ![t] = w] /\ lab' = [lab EXCEPT ![t] = NoLabels]
      /\ p \in EdgeSteps \cup {"loop"} /\ NoLabels \in Labels
  BY DEF NextEdge, Goto, Set, EdgeSteps, Labels, NoLabels
<1>4. /\ pc'[t] = p /\ work'[t] = w /\ u' = u /\ todo' = todo /\ phase' = phase /\ kernel' = kernel
      /\ Vertex' = Vertex
  BY <1>3, GraphStays DEF IInv, TypeOK, config
<1>5. p \in {"loop", "load1"} /\ (p = "load1" => w # <<>>) /\ (p = "loop" => \A m : ~Lists(w, m))
  BY <1>2 DEF Lists
<1>. HIDE DEF p, w
<1>6. ThreadOK(t)'
  BY <1>4, <1>5 DEF IInv, Control, ThreadOK, Busy, EdgeSteps, TwoLabels
<1>7. \A S \in SUBSET Vertex : Closed(S) => Inside(S, t)'
  BY <1>2, <1>4, <1>5 DEF IInv, Within, Inside, EdgeSteps, TwoLabels, Same
<1>8. \A S \in SUBSET Vertex : Linking(S, t)'
  BY <1>4, <1>5 DEF Linking, TwoLabels
<1>9. Hooking(t)'
  BY <1>4, <1>5 DEF Hooking
<1>10. \A m \in Vertex : Lists(work[t], m) => (p # "loop" /\ Lists(w, m)) \/ EdgeDone(t, m)
  BY <1>2, <1>5
<1>. QED
  BY <1>2, <1>3, <1>6, <1>7, <1>8, <1>9, <1>10, EdgeStep

\* A step that stays at its edge.
LEMMA SameEdgeStep ==
  ASSUME IInv, NEW t \in Thread, pc[t] \in EdgeSteps,
         UNCHANGED <<config, phase, round, c, todo, u, comp, change, work>>,
         NEW p \in EdgeSteps, NEW l \in Labels,
         pc' = [pc EXCEPT ![t] = p], lab' = [lab EXCEPT ![t] = l],
         ThreadOK(t)',
         \A S \in SUBSET Vertex : Closed(S) => Inside(S, t)',
         kernel = "afforest" => \A S \in SUBSET Vertex : Saturated(comp, S) => Linking(S, t)',
         kernel = "sv" /\ ~change => Hooking(t)'
  PROVE  IInv'
<1>1. work[t] \in Seq(Vertex) /\ work' = [work EXCEPT ![t] = work[t]]
  BY DEF IInv, TypeOK
<1>2. p # "loop"
  BY DEF EdgeSteps
<1>3. LabelsMove /\ comp' = comp /\ change' = change
  BY LabelsStay
<1>4. /\ UNCHANGED <<config, phase, round, c, todo, u>>
      /\ p \in EdgeSteps \cup {"loop"}
      /\ kernel = "afforest" => \A S \in SUBSET Vertex : Saturated(comp', S) => Linking(S, t)'
      /\ kernel = "sv" /\ ~change' => Hooking(t)'
      /\ \A m \in Vertex : Lists(work[t], m) => (p # "loop" /\ Lists(work[t], m)) \/ EdgeDone(t, m)
  BY <1>2, <1>3
<1>. QED
  BY <1>1, <1>3, <1>4, EdgeStep

\* The labels and parents that a thread at an edge reads.
LEMMA EdgeTyped ==
  ASSUME IInv, NEW t \in Thread, pc[t] \in EdgeSteps
  PROVE  /\ u[t] \in Vertex /\ u[t] \in Nat /\ work[t] \in Seq(Vertex) /\ work[t] # <<>>
         /\ Head(work[t]) \in Vertex /\ Lists(work[t], Head(work[t]))
         /\ lab[t] \in Labels /\ (\A n \in Vertex : n \in Nat /\ comp[n] \in Vertex)
         /\ pc[t] \in TwoLabels => /\ high(t) \in Vertex /\ low(t) \in Vertex /\ low(t) < high(t)
                                   /\ \/ low(t) = lab[t].p1 /\ high(t) = lab[t].p2
                                      \/ low(t) = lab[t].p2 /\ high(t) = lab[t].p1
<1>1. /\ u[t] \in Vertex /\ work[t] \in Seq(Vertex) /\ work[t] # <<>> /\ lab[t] \in Labels
      /\ pc[t] \in TwoLabels => lab[t].p1 \in Vertex /\ lab[t].p2 \in Vertex /\ lab[t].p1 # lab[t].p2
  <2>1. ThreadOK(t) /\ work[t] \in Seq(Vertex) /\ lab[t] \in Labels
    BY DEF IInv, TypeOK, Control
  <2>. QED
    BY <2>1 DEF ThreadOK, Busy, EdgeSteps, TwoLabels
<1>2. \A n \in Vertex : n \in Nat /\ comp[n] \in Vertex
  <2>1. Len(g.out) \in Nat /\ comp \in [Vertex -> Vertex]
    BY GraphFacts DEF IInv, TypeOK
  <2>. QED
    BY <2>1 DEF Vertex
<1>3. Head(work[t]) \in Vertex /\ Lists(work[t], Head(work[t]))
  BY <1>1, TailLists
<1>4. ASSUME pc[t] \in TwoLabels
      PROVE  /\ high(t) \in Vertex /\ low(t) \in Vertex /\ low(t) < high(t)
             /\ \/ low(t) = lab[t].p1 /\ high(t) = lab[t].p2
                \/ low(t) = lab[t].p2 /\ high(t) = lab[t].p1
  <2>. DEFINE p1 == lab[t].p1
              p2 == lab[t].p2
  <2>1. p1 \in Vertex /\ p2 \in Vertex /\ p1 # p2 /\ p1 \in Int /\ p2 \in Int
    BY <1>1, <1>2, <1>4
  <2>2. high(t) = (IF p1 > p2 THEN p1 ELSE p2) /\ low(t) = (IF p1 > p2 THEN p2 ELSE p1)
    BY DEF high, low
  <2>. HIDE DEF p1, p2
  <2>3. high(t) \in Vertex /\ low(t) \in Vertex /\ low(t) < high(t)
    BY <2>1, <2>2
  <2>4. (low(t) = p1 /\ high(t) = p2) \/ (low(t) = p2 /\ high(t) = p1)
    BY <2>2
  <2>. QED
    BY <2>3, <2>4 DEF p1, p2
<1>. QED
  BY <1>1, <1>2, <1>3, <1>4

\* The facts that hold of a thread at an edge, by what it has read.
LEMMA EdgeFacts ==
  ASSUME IInv, NEW t \in Thread, pc[t] \in EdgeSteps
  PROVE  /\ ThreadOK(t)
         /\ \A S \in SUBSET Vertex : Closed(S) => Saturated(comp, S) /\ Inside(S, t)
         /\ kernel = "afforest" => \A S \in SUBSET Vertex : Saturated(comp, S) => Linking(S, t)
         /\ kernel = "sv" /\ ~change => Hooking(t) /\ \A n \in Vertex : Flat(n)
BY DEF IInv, Control, Within, Afforest, Linked, ShiloachVishkin

\* A step that only moves on, or only reads into its labels.
LEMMA ReadStep ==
  ASSUME IInv, NEW t \in Thread, NEW p, NEW l,
         pc' = [pc EXCEPT ![t] = p], lab' = [lab EXCEPT ![t] = l],
         UNCHANGED <<config, comp, phase, round, c, change, todo, work, u>>
  PROVE  /\ pc'[t] = p /\ lab'[t] = l /\ work'[t] = work[t] /\ u'[t] = u[t] /\ todo' = todo
         /\ kernel' = kernel /\ phase' = phase /\ comp' = comp /\ change' = change
         /\ Vertex' = Vertex
BY GraphStays DEF IInv, TypeOK, config

LEMMA LoadUStep == ASSUME IInv, NEW t \in Thread, LoadU(t) PROVE IInv'
<1>. DEFINE l == [lab[t] EXCEPT !.p1 = comp[u[t]]]
<1>1. pc[t] \in EdgeSteps /\ "load2" \in EdgeSteps /\ pc[t] = "load1"
  BY DEF LoadU, EdgeSteps
<1>2. /\ u[t] \in Vertex /\ lab[t] \in Labels /\ comp[u[t]] \in Vertex /\ comp[u[t]] \in Nat
  BY <1>1, EdgeTyped
<1>3. l \in Labels /\ l.p1 = comp[u[t]]
  BY <1>2 DEF Labels
<1>4. /\ pc' = [pc EXCEPT ![t] = "load2"] /\ lab' = [lab EXCEPT ![t] = l]
      /\ UNCHANGED <<config, comp, phase, round, c, change, todo, work, u>>
  BY DEF LoadU, Goto
<1>. HIDE DEF l
<1>5. /\ pc'[t] = "load2" /\ lab'[t] = l /\ work'[t] = work[t] /\ u'[t] = u[t] /\ todo' = todo
      /\ kernel' = kernel /\ phase' = phase /\ comp' = comp /\ Vertex' = Vertex
  BY <1>4, ReadStep
<1>6. ThreadOK(t)'
  BY <1>1, <1>2, <1>3, <1>5, EdgeFacts DEF ThreadOK, Busy, EdgeSteps, TwoLabels
<1>7. \A S \in SUBSET Vertex : Closed(S) => Inside(S, t)'
  BY <1>1, <1>2, <1>3, <1>5, EdgeFacts DEF Inside, Saturated, EdgeSteps, TwoLabels, Same
<1>8. \A S \in SUBSET Vertex : Saturated(comp, S) => Linking(S, t)'
  BY <1>2, <1>3, <1>5 DEF Linking, Saturated, TwoLabels, Same
<1>9. Hooking(t)'
  BY <1>3, <1>5 DEF Hooking
<1>. QED
  BY <1>1, <1>3, <1>4, <1>6, <1>7, <1>8, <1>9, SameEdgeStep

LEMMA LoadVStep == ASSUME IInv, NEW t \in Thread, LoadV(t) PROVE IInv'
<1>. DEFINE first == pc[t] = "load2"
            src == IF first THEN Head(work[t]) ELSE low(t)
            q == IF first THEN lab[t].p1 ELSE lab[t].ph
            l == [lab[t] EXCEPT !.p1 = q, !.p2 = comp[src]]
<1>1. pc[t] \in EdgeSteps /\ pc[t] \in {"load2", "reload2"} /\ "high" \in EdgeSteps
  BY DEF LoadV, EdgeSteps
<1>2. /\ ThreadOK(t) /\ u[t] \in Vertex /\ lab[t] \in Labels /\ Head(work[t]) \in Vertex
      /\ Lists(work[t], Head(work[t]))
      /\ \A n \in Vertex : n \in Nat /\ comp[n] \in Vertex
  BY <1>1, EdgeTyped, EdgeFacts
<1>3. ~first => /\ kernel = "afforest" /\ low(t) \in Vertex /\ high(t) \in Vertex
                /\ \/ low(t) = lab[t].p1 /\ high(t) = lab[t].p2
                   \/ low(t) = lab[t].p2 /\ high(t) = lab[t].p1
  BY <1>1, <1>2, EdgeTyped DEF ThreadOK, TwoLabels
<1>4. src \in Vertex /\ q \in Vertex /\ comp[src] \in Vertex /\ q \in Nat /\ comp[src] \in Nat
  <2>1. src \in Vertex /\ q \in Vertex
    BY <1>1, <1>2, <1>3 DEF ThreadOK, EdgeSteps
  <2>. QED
    BY <1>2, <2>1
<1>5. UNCHANGED <<config, phase, round, c, todo, u, comp, change>>
  BY DEF LoadV
<1>6. ASSUME NEW S \in SUBSET Vertex, Saturated(comp, S), kernel = "afforest", Same(S, q, comp[src])
      PROVE  Same(S, u[t], Head(work[t]))
  <2>1. Linking(S, t) /\ Same(S, src, comp[src])
    BY <1>1, <1>4, <1>6, EdgeFacts DEF Saturated, Same
  <2>2. CASE first
    BY <1>6, <2>1, <2>2 DEF Linking, Same
  <2>3. CASE ~first
    <3>1. Same(S, lab[t].ph, high(t)) /\ (Same(S, lab[t].p1, lab[t].p2) => Same(S, u[t], Head(work[t])))
      BY <1>1, <2>1, <2>3 DEF Linking, TwoLabels
    <3>2. Same(S, high(t), low(t))
      BY <1>6, <2>1, <2>3, <3>1 DEF Same
    <3>. QED
      BY <1>3, <2>3, <3>1, <3>2 DEF Same
  <2>. QED
    BY <2>2, <2>3
<1>7. kernel = "sv" /\ ~change => first /\ q = comp[u[t]] /\ src = Head(work[t])
  BY <1>1, <1>3, EdgeFacts DEF Hooking
<1>8. CASE comp[src] = q
  <2>1. NextEdge(t)
    BY <1>8 DEF LoadV
  <2>2. EdgeDone(t, Head(work[t]))
    BY <1>5, <1>6, <1>7, <1>8 DEF EdgeDone, Same
  <2>3. UNCHANGED <<config, phase, round, c, todo, u>> /\ LabelsMove
    BY <1>5, LabelsStay
  <2>. QED
    BY <1>1, <2>1, <2>2, <2>3, NextEdgeStep
<1>9. CASE comp[src] # q
  <2>1. /\ pc' = [pc EXCEPT ![t] = "high"] /\ lab' = [lab EXCEPT ![t] = l] /\ UNCHANGED work
    BY <1>9 DEF LoadV, Goto
  <2>2. l \in Labels /\ l.p1 = q /\ l.p2 = comp[src]
    BY <1>2, <1>4 DEF Labels
  <2>. HIDE DEF l, q, src
  <2>3. /\ pc'[t] = "high" /\ lab'[t] = l /\ work'[t] = work[t] /\ u'[t] = u[t] /\ todo' = todo
        /\ kernel' = kernel /\ phase' = phase /\ comp' = comp /\ Vertex' = Vertex
    <3>1. UNCHANGED <<config, comp, phase, round, c, change, todo, work, u>>
      BY <1>5, <2>1
    <3>. QED
      BY <2>1, <3>1, ReadStep
  <2>4. ThreadOK(t)'
    BY <1>1, <1>2, <1>4, <1>9, <2>2, <2>3 DEF ThreadOK, Busy, EdgeSteps, TwoLabels
  <2>5. ASSUME NEW S \in SUBSET Vertex, Closed(S) PROVE Inside(S, t)'
    <3>1. Inside(S, t) /\ Saturated(comp, S)
      BY <1>1, <2>5, EdgeFacts
    <3>2. Same(S, q, u[t]) /\ Same(S, src, u[t])
      BY <1>1, <1>2, <1>3, <3>1 DEF Inside, Same, EdgeSteps, TwoLabels, q, src
    <3>3. Same(S, comp[src], u[t])
      BY <1>4, <3>1, <3>2 DEF Saturated, Same
    <3>. QED
      BY <1>1, <2>2, <2>3, <3>1, <3>2, <3>3 DEF Inside, EdgeSteps, TwoLabels, Same
  <2>6. kernel = "afforest" => \A S \in SUBSET Vertex : Saturated(comp, S) => Linking(S, t)'
    BY <1>6, <2>2, <2>3 DEF Linking, TwoLabels, Same
  <2>7. kernel = "sv" /\ ~change => Hooking(t)'
    BY <1>7, <2>2, <2>3 DEF Hooking
  <2>8. UNCHANGED <<config, phase, round, c, todo, u, comp, change, work>>
    BY <1>5, <2>1
  <2>. QED
    BY <1>1, <2>1, <2>2, <2>4, <2>5, <2>6, <2>7, <2>8, SameEdgeStep
<1>. QED
  BY <1>8, <1>9

\* A step that goes on with the same labels.
LEMMA GoOnStep ==
  ASSUME IInv, NEW t \in Thread, pc[t] \in TwoLabels, NEW p \in {"cas", "store", "reload"},
         Goto(t, p), UNCHANGED <<config, comp, phase, round, c, change, todo, work, u, lab>>,
         p = "store" <=> kernel = "sv"
  PROVE  IInv'
<1>1. pc[t] \in EdgeSteps /\ p \in EdgeSteps /\ p \in TwoLabels
  BY DEF EdgeSteps, TwoLabels
<1>2. /\ ThreadOK(t) /\ lab[t] \in Labels /\ pc' = [pc EXCEPT ![t] = p] /\ lab' = [lab EXCEPT ![t] = lab[t]]
      /\ UNCHANGED <<config, comp, phase, round, c, change, todo, work, u>> /\ kernel \in Kernels
  BY <1>1, EdgeFacts DEF Goto, IInv, TypeOK
<1>3. /\ pc'[t] = p /\ lab'[t] = lab[t] /\ work'[t] = work[t] /\ u'[t] = u[t] /\ todo' = todo
      /\ kernel' = kernel /\ phase' = phase /\ comp' = comp /\ Vertex' = Vertex
  BY <1>2, ReadStep
<1>4. ThreadOK(t)'
  BY <1>1, <1>2, <1>3 DEF ThreadOK, Busy, EdgeSteps, TwoLabels, Kernels
<1>5. \A S \in SUBSET Vertex : Closed(S) => Inside(S, t)'
  BY <1>1, <1>3, EdgeFacts DEF Inside, EdgeSteps, TwoLabels, Same
<1>6. kernel = "afforest" => \A S \in SUBSET Vertex : Saturated(comp, S) => Linking(S, t)'
  BY <1>1, <1>3, EdgeFacts DEF Linking, TwoLabels, Same
<1>7. kernel = "sv" /\ ~change => Hooking(t)'
  <2>1. kernel = "sv" => pc[t] \in {"high", "store"}
    BY <1>2 DEF ThreadOK, TwoLabels
  <2>. QED
    BY <1>1, <1>3, <2>1, EdgeFacts DEF Hooking
<1>8. UNCHANGED <<config, phase, round, c, todo, u, comp, change, work>>
  OBVIOUS
<1>. QED
  BY <1>1, <1>2, <1>4, <1>5, <1>6, <1>7, <1>8, SameEdgeStep

LEMMA LinkHighStep == ASSUME IInv, NEW t \in Thread, LinkHigh(t) PROVE IInv'
<1>1. kernel = "afforest" /\ pc[t] \in TwoLabels /\ pc[t] \in EdgeSteps
  BY DEF LinkHigh, EdgeSteps, TwoLabels
<1>2. UNCHANGED <<config, comp, phase, round, c, change, todo, u>>
  BY DEF LinkHigh
<1>3. CASE comp[high(t)] = low(t)
  <2>1. NextEdge(t)
    BY <1>3 DEF LinkHigh
  <2>2. EdgeDone(t, Head(work[t]))
    <3>. SUFFICES ASSUME NEW S \in SUBSET Vertex, Saturated(comp, S) PROVE Same(S, u[t], Head(work[t]))
      BY <1>1, <1>2 DEF EdgeDone
    <3>1. Same(S, high(t), low(t))
      BY <1>1, <1>3, EdgeTyped DEF Saturated, Same
    <3>2. Same(S, lab[t].p1, lab[t].p2)
      BY <1>1, <3>1, EdgeTyped DEF Same
    <3>. QED
      BY <1>1, <3>2, EdgeFacts DEF Linking
  <2>3. UNCHANGED <<config, phase, round, c, todo, u>> /\ LabelsMove
    BY <1>2, LabelsStay
  <2>. QED
    BY <1>1, <2>1, <2>2, <2>3, NextEdgeStep
<1>4. CASE comp[high(t)] # low(t)
  <2>1. UNCHANGED <<config, comp, phase, round, c, change, todo, work, u, lab>>
    BY <1>2, <1>4 DEF LinkHigh
  <2>2. Goto(t, IF comp[high(t)] = high(t) THEN "cas" ELSE "reload")
    BY <1>4 DEF LinkHigh
  <2>. QED
    BY <1>1, <2>1, <2>2, GoOnStep
<1>. QED
  BY <1>3, <1>4

\* A hook of high below low moves the labels as it may.
LEMMA HookMoves ==
  ASSUME IInv, NEW t \in Thread, pc[t] \in TwoLabels, comp' = [comp EXCEPT ![high(t)] = low(t)],
         change' \in BOOLEAN, kernel = "sv" => change',
         kernel = "afforest" => \A S \in SUBSET Vertex : Saturated(comp', S) => Saturated(comp, S)
  PROVE  LabelsMove
<1>1. pc[t] \in EdgeSteps
  BY DEF EdgeSteps, TwoLabels
<1>2. /\ high(t) \in Vertex /\ low(t) \in Vertex /\ low(t) < high(t)
      /\ \/ low(t) = lab[t].p1 /\ high(t) = lab[t].p2
         \/ low(t) = lab[t].p2 /\ high(t) = lab[t].p1
      /\ \A n \in Vertex : n \in Nat /\ comp[n] \in Vertex
  BY <1>1, EdgeTyped
<1>3. comp \in [Vertex -> Vertex] /\ \A n \in Vertex : comp[n] <= n
  BY DEF IInv, TypeOK, Descend
<1>4. comp' \in [Vertex -> Vertex] /\ \A n \in Vertex : comp'[n] <= n
  BY <1>2, <1>3
<1>5. ASSUME NEW S \in SUBSET Vertex, Closed(S) PROVE Saturated(comp', S)
  <2>1. Saturated(comp, S) /\ Inside(S, t)
    BY <1>1, <1>5, EdgeFacts
  <2>2. Same(S, lab[t].p1, u[t]) /\ Same(S, lab[t].p2, u[t])
    BY <2>1 DEF Inside, EdgeSteps, TwoLabels
  <2>3. Same(S, high(t), low(t))
    BY <1>2, <2>2 DEF Same
  <2>. QED
    BY <1>2, <1>3, <2>1, <2>3 DEF Saturated, Same
<1>. QED
  BY <1>4, <1>5 DEF LabelsMove

LEMMA LinkCasStep == ASSUME IInv, NEW t \in Thread, LinkCas(t) PROVE IInv'
<1>1. kernel = "afforest" /\ pc[t] \in TwoLabels /\ pc[t] \in EdgeSteps
  <2>1. pc[t] = "cas" /\ pc[t] \in TwoLabels /\ pc[t] \in EdgeSteps
    BY DEF LinkCas, EdgeSteps, TwoLabels
  <2>. QED
    BY <2>1, EdgeFacts DEF ThreadOK
<1>2. UNCHANGED <<config, phase, round, c, change, todo, u>>
  BY DEF LinkCas
<1>3. CASE comp[high(t)] = high(t)
  <2>1. NextEdge(t) /\ comp' = [comp EXCEPT ![high(t)] = low(t)]
    BY <1>3 DEF LinkCas
  <2>2. /\ high(t) \in Vertex /\ low(t) \in Vertex /\ low(t) < high(t) /\ TypeOK
        /\ \/ low(t) = lab[t].p1 /\ high(t) = lab[t].p2
           \/ low(t) = lab[t].p2 /\ high(t) = lab[t].p1
    BY <1>1, EdgeTyped DEF IInv
  <2>3. \A S \in SUBSET Vertex : Saturated(comp', S) => Saturated(comp, S) /\ Same(S, high(t), low(t))
    BY <1>3, <2>1, <2>2, HookSaturates
  <2>4. EdgeDone(t, Head(work[t]))
    <3>. SUFFICES ASSUME NEW S \in SUBSET Vertex, Saturated(comp', S) PROVE Same(S, u[t], Head(work[t]))
      BY <1>1 DEF EdgeDone
    <3>1. Same(S, lab[t].p1, lab[t].p2) /\ Saturated(comp, S)
      BY <2>2, <2>3 DEF Same
    <3>. QED
      BY <1>1, <3>1, EdgeFacts DEF Linking
  <2>5. LabelsMove
    <3>1. change' \in BOOLEAN
      BY <1>2 DEF IInv, TypeOK
    <3>. QED
      BY <1>1, <2>1, <2>3, <3>1, HookMoves
  <2>6. UNCHANGED <<config, phase, round, c, todo, u>>
    BY <1>2
  <2>. QED
    BY <1>1, <2>1, <2>4, <2>5, <2>6, NextEdgeStep
<1>4. CASE comp[high(t)] # high(t)
  <2>1. Goto(t, "reload") /\ UNCHANGED <<config, comp, phase, round, c, change, todo, work, u, lab>>
    BY <1>2, <1>4 DEF LinkCas
  <2>. QED
    BY <1>1, <2>1, GoOnStep
<1>. QED
  BY <1>3, <1>4

\* Both reads of comp[comp[high]].
LEMMA ClimbStep ==
  ASSUME IInv, NEW t \in Thread, pc[t] \in {"reload", "reload1"}, NEW p \in {"reload1", "reload2"},
         NEW s \in Vertex, s = (IF pc[t] = "reload" THEN high(t) ELSE lab[t].ph),
         lab' = [lab EXCEPT ![t].ph = comp[s]], Goto(t, p),
         UNCHANGED <<config, comp, phase, round, c, change, todo, work, u>>
  PROVE  IInv'
<1>. DEFINE l == [lab[t] EXCEPT !.ph = comp[s]]
<1>1. pc[t] \in EdgeSteps /\ p \in EdgeSteps /\ pc[t] \in TwoLabels /\ p \in TwoLabels
  BY DEF EdgeSteps, TwoLabels
<1>2. /\ ThreadOK(t) /\ lab[t] \in Labels /\ comp[s] \in Vertex /\ comp[s] \in Nat
  BY <1>1, EdgeTyped, EdgeFacts
<1>3. l \in Labels /\ l.ph = comp[s] /\ l.p1 = lab[t].p1 /\ l.p2 = lab[t].p2
  BY <1>2 DEF Labels
<1>4. pc' = [pc EXCEPT ![t] = p] /\ lab' = [lab EXCEPT ![t] = l]
  BY DEF Goto
<1>. HIDE DEF l
<1>5. /\ pc'[t] = p /\ lab'[t] = l /\ work'[t] = work[t] /\ u'[t] = u[t] /\ todo' = todo
      /\ kernel' = kernel /\ phase' = phase /\ comp' = comp /\ Vertex' = Vertex
  BY <1>4, ReadStep
<1>6. high(t)' = high(t)
  BY <1>3, <1>5 DEF high
<1>7. ThreadOK(t)'
  BY <1>1, <1>2, <1>3, <1>5 DEF ThreadOK, Busy, EdgeSteps, TwoLabels
<1>8. ASSUME NEW S \in SUBSET Vertex, Closed(S) PROVE Inside(S, t)'
  <2>1. Inside(S, t) /\ Saturated(comp, S)
    BY <1>1, <1>8, EdgeFacts
  <2>2. Same(S, s, u[t])
    BY <1>1, <2>1, EdgeTyped DEF Inside, Same, EdgeSteps, TwoLabels
  <2>3. Same(S, comp[s], u[t])
    BY <2>1, <2>2 DEF Saturated, Same
  <2>. QED
    BY <1>1, <1>3, <1>5, <2>1, <2>3 DEF Inside, EdgeSteps, TwoLabels, Same
<1>9. ASSUME kernel = "afforest", NEW S \in SUBSET Vertex, Saturated(comp, S) PROVE Linking(S, t)'
  <2>1. Linking(S, t) /\ Same(S, s, comp[s])
    BY <1>1, <1>9, EdgeFacts DEF Saturated, Same
  <2>2. Same(S, s, high(t))
    BY <2>1 DEF Linking, Same
  <2>. QED
    BY <1>1, <1>3, <1>5, <1>6, <2>1, <2>2 DEF Linking, Same
<1>10. kernel # "sv"
  BY <1>2 DEF ThreadOK
<1>11. UNCHANGED <<config, phase, round, c, todo, u, comp, change, work>>
  OBVIOUS
<1>. QED
  BY <1>1, <1>3, <1>4, <1>7, <1>8, <1>9, <1>10, <1>11, SameEdgeStep

LEMMA LinkReloadStep ==
  ASSUME IInv, NEW t \in Thread, LinkParent(t) \/ LinkGrandparent(t)
  PROVE  IInv'
<1>1. CASE LinkParent(t)
  <2>1. high(t) \in Vertex /\ pc[t] = "reload"
    BY <1>1, EdgeTyped DEF LinkParent, EdgeSteps, TwoLabels
  <2>. QED
    BY <1>1, <2>1, ClimbStep DEF LinkParent
<1>2. CASE LinkGrandparent(t)
  <2>1. pc[t] = "reload1" /\ lab[t].ph \in Vertex
    BY <1>2, EdgeFacts DEF LinkGrandparent, EdgeSteps, ThreadOK
  <2>. QED
    BY <1>2, <2>1, ClimbStep DEF LinkGrandparent
<1>. QED
  BY <1>1, <1>2

LEMMA HookTestStep == ASSUME IInv, NEW t \in Thread, HookTest(t) PROVE IInv'
<1>1. kernel = "sv" /\ pc[t] = "high" /\ pc[t] \in TwoLabels /\ pc[t] \in EdgeSteps
  BY DEF HookTest, EdgeSteps, TwoLabels
<1>2. UNCHANGED <<config, comp, phase, round, c, change, todo, u>>
  BY DEF HookTest
<1>3. CASE comp[high(t)] = high(t)
  <2>1. Goto(t, "store") /\ UNCHANGED <<config, comp, phase, round, c, change, todo, work, u, lab>>
    BY <1>2, <1>3 DEF HookTest
  <2>. QED
    BY <1>1, <2>1, GoOnStep
<1>4. CASE comp[high(t)] # high(t)
  <2>1. NextEdge(t)
    BY <1>4 DEF HookTest
  <2>2. change
    <3>1. ~change => /\ lab[t].p1 = comp[u[t]] /\ lab[t].p2 = comp[Head(work[t])]
                     /\ \A n \in Vertex : comp[comp[n]] = comp[n]
      BY <1>1, EdgeFacts DEF Hooking, Flat
    <3>2. u[t] \in Vertex /\ Head(work[t]) \in Vertex /\ (high(t) = lab[t].p1 \/ high(t) = lab[t].p2)
      BY <1>1, EdgeTyped
    <3>. QED
      BY <1>4, <3>1, <3>2
  <2>3. EdgeDone(t, Head(work[t]))
    BY <1>1, <1>2, <2>2 DEF EdgeDone
  <2>4. UNCHANGED <<config, phase, round, c, todo, u>> /\ LabelsMove
    BY <1>2, LabelsStay
  <2>. QED
    BY <1>1, <2>1, <2>3, <2>4, NextEdgeStep
<1>. QED
  BY <1>3, <1>4

LEMMA HookStoreStep == ASSUME IInv, NEW t \in Thread, HookStore(t) PROVE IInv'
<1>1. kernel = "sv" /\ pc[t] \in TwoLabels /\ pc[t] \in EdgeSteps
  <2>1. pc[t] = "store" /\ pc[t] \in TwoLabels /\ pc[t] \in EdgeSteps
    BY DEF HookStore, EdgeSteps, TwoLabels
  <2>. QED
    BY <2>1, EdgeFacts DEF ThreadOK
<1>2. /\ UNCHANGED <<config, phase, round, c, todo, u>> /\ change' = TRUE
      /\ comp' = [comp EXCEPT ![high(t)] = low(t)] /\ NextEdge(t)
  BY DEF HookStore
<1>3. LabelsMove
  BY <1>1, <1>2, HookMoves
<1>4. EdgeDone(t, Head(work[t]))
  BY <1>1, <1>2 DEF EdgeDone
<1>. QED
  BY <1>1, <1>2, <1>3, <1>4, NextEdgeStep

-----------------------------------------------------------------------------
(* The beginning, and a thread between two iterations. *)

LEMMA InitIInv == Init => IInv
<1>. SUFFICES ASSUME Init PROVE IInv
  OBVIOUS
<1>. USE DEF Init
<1>1. \A n \in Vertex : comp[n] = n /\ n \in Nat
  BY GraphFacts DEF Vertex
<1>2. \A t \in Thread : pc[t] = "loop"
  OBVIOUS
<1>3. TypeOK
  <2>1. neighbor_rounds \in Nat /\ (kernel = "afforest" => neighbor_rounds # 0)
    BY RoundsAssumption
  <2>2. lab \in [Thread -> Labels]
    BY DEF NoLabels, Labels
  <2>3. work \in [Thread -> Seq(Vertex)]
    OBVIOUS
  <2>4. phase \in Phases /\ pc \in [Thread -> Steps]
    BY DEF Phases, Steps
  <2>. QED
    BY <1>1, <2>1, <2>2, <2>3, <2>4 DEF TypeOK
<1>4. Control
  BY <1>2 DEF Control, ThreadOK, Busy, EdgeSteps, TwoLabels, LoopDone, Kernels
<1>5. Descend /\ Within /\ Compressed
  BY <1>1, <1>2 DEF Descend, Within, Saturated, Inside, EdgeSteps, TwoLabels, Compressed
<1>6. Afforest
  <2>. SUFFICES ASSUME kernel = "afforest" PROVE Afforest
    BY DEF Afforest
  <2>1. phase = "sample" /\ round = 0 /\ round < neighbor_rounds
    BY <1>3 DEF TypeOK
  <2>2. \A S, t : t \in Thread => Linking(S, t)
    BY <1>2 DEF Linking, TwoLabels
  <2>. QED
    BY <2>1, <2>2 DEF Afforest, Linked
<1>7. ShiloachVishkin
  <2>1. \A n \in Vertex : Flat(n)
    BY <1>1 DEF Flat
  <2>2. \A t \in Thread : Hooking(t)
    BY <1>2 DEF Hooking
  <2>. QED
    BY <2>1, <2>2 DEF ShiloachVishkin
<1>. QED
  BY <1>3, <1>4, <1>5, <1>6, <1>7 DEF IInv

LEMMA TakeStep == ASSUME IInv, NEW t \in Thread, Take(t) PROVE IInv'
<1>. USE DEF IInv
<1>1. PICK n \in todo : /\ todo' = todo \ {n}
                        /\ u' = Set(t, u, n)
                        /\ work' = Set(t, work, Neighbours(n))
                        /\ Goto(t, CASE phase = "compress" -> "compress"
                                     [] phase # "compress" /\ Neighbours(n) = <<>> -> "loop"
                                     [] OTHER -> "load1")
  BY DEF Take
<1>. DEFINE w == Neighbours(n)
            p == IF phase = "compress" THEN "compress" ELSE IF w = <<>> THEN "loop" ELSE "load1"
<1>2. /\ pc[t] = "loop" /\ n \in Vertex /\ n \in Nat /\ n \notin todo' /\ todo' \subseteq todo /\ phase # "done"
  <2>1. pc[t] = "loop" /\ n \in Vertex /\ Len(g.out) \in Nat
    BY <1>1, GraphFacts DEF Take, TypeOK
  <2>. QED
    BY <1>1, <2>1 DEF Control, LoopDone, Vertex
<1>3. pc' = [pc EXCEPT ![t] = p] /\ work' = [work EXCEPT ![t] = w] /\ u' = [u EXCEPT ![t] = n]
  BY <1>1 DEF Goto, Set
<1>4. /\ w \in Seq(Vertex)
      /\ \A S \in SUBSET Vertex : Closed(S) => \A m \in Vertex : Lists(w, m) => Same(S, m, n)
      /\ phase = "sample" /\ round < Len(out_neigh(n)) => Lists(w, out_neigh(n)[round + 1])
      /\ phase = "final" /\ comp[n] # c => \A m \in Targets(n) : Lists(w, m)
      /\ phase = "hook" => w = out_neigh(n)
  BY <1>2, NeighboursFacts
<1>5. /\ p \in {"compress", "loop", "load1"} /\ (p = "compress" <=> phase = "compress") /\ (p = "load1" => w # <<>>)
      /\ \A m : Lists(w, m) /\ phase # "compress" => p = "load1"
  BY DEF Lists
<1>. HIDE DEF w, p
<1>6. /\ kernel' = kernel /\ g' = g /\ neighbor_rounds' = neighbor_rounds /\ Vertex' = Vertex
      /\ comp' = comp /\ phase' = phase /\ round' = round /\ c' = c /\ change' = change /\ lab' = lab
      /\ \A m : out_neigh(m)' = out_neigh(m) /\ Targets(m)' = Targets(m)
      /\ \A S : Closed(S)' <=> Closed(S)
      /\ \A S : Saturated(comp, S)' <=> Saturated(comp, S)
      /\ \A S, k : Sampled(S, k)' <=> Sampled(S, k)
  <2>1. UNCHANGED <<config, comp, phase, round, c, change, lab>>
    BY DEF Take
  <2>. QED
    BY <2>1, GraphStays DEF config
<1>7. TypeOK'
  BY <1>1, <1>2, <1>3, <1>4, <1>5, <1>6 DEF TypeOK, Steps, EdgeSteps
<1>8. pc'[t] = p /\ work'[t] = w /\ u'[t] = n
  BY <1>3 DEF TypeOK
<1>9. \A s \in Thread : s # t => pc'[s] = pc[s] /\ work'[s] = work[s] /\ u'[s] = u[s]
  BY <1>3 DEF TypeOK
<1>10. Control'
  <2>1. \A s \in Thread : s # t => ThreadOK(s)'
    BY <1>2, <1>6, <1>9 DEF Control, ThreadOK, Busy
  <2>2. ThreadOK(t)'
    BY <1>2, <1>5, <1>6, <1>8, <1>7 DEF ThreadOK, Busy, EdgeSteps, TwoLabels, TypeOK, Phases
  <2>3. \A s \in Thread : s # t /\ Busy(s) => u[s] # n
    BY <1>1 DEF Control, ThreadOK
  <2>4. \A s, r \in Thread : s # r /\ Busy(s)' /\ Busy(r)' => u'[s] # u'[r]
    BY <1>8, <1>9, <2>3 DEF Control, Busy
  <2>. QED
    BY <1>2, <1>6, <2>1, <2>2, <2>4 DEF Control
<1>11. Descend'
  BY <1>6 DEF Descend
<1>12. Within'
  <2>1. \A S, s : s \in Thread /\ s # t => (Inside(S, s)' <=> Inside(S, s))
    BY <1>6, <1>9 DEF Inside, Same
  <2>2. \A S \in SUBSET Vertex : Closed(S) => Inside(S, t)'
    BY <1>4, <1>5, <1>6, <1>8 DEF Inside, EdgeSteps, TwoLabels, Same
  <2>. QED
    BY <1>6, <2>1, <2>2 DEF Within
<1>13. Compressed'
  <2>. SUFFICES ASSUME phase = "compress" PROVE Compressed'
    BY <1>2, <1>6 DEF Compressed
  <2>1. \A m \in Vertex \ todo : Flat(m)' \/ \E s \in Thread : Busy(s)' /\ u'[s] = m
    BY <1>2, <1>6, <1>9 DEF Compressed, Flat, Busy
  <2>2. Busy(t)' /\ u'[t] = n
    BY <1>5, <1>8 DEF Busy
  <2>3. \A s \in Thread : pc'[s] = "jump" => comp'[u'[s]] # u'[s]
    BY <1>5, <1>6, <1>8, <1>9 DEF Compressed
  <2>. QED
    BY <1>1, <1>6, <2>1, <2>2, <2>3 DEF Compressed
<1>14. \A k, m : Pending(k, m) => Pending(k, m)'
  BY <1>2, <1>9 DEF Pending, Busy
<1>15. \A m : Lists(w, m) /\ phase # "compress" => Pending(n, m)'
  BY <1>5, <1>8 DEF Pending, Busy
<1>16. Afforest'
  <2>. SUFFICES ASSUME kernel = "afforest", NEW S \in SUBSET Vertex, Saturated(comp, S)
                PROVE  Linked(S)'
    BY <1>6 DEF Afforest
  <2>1. Linked(S) /\ Same(S, n, comp[n])
    BY <1>2 DEF Afforest, Saturated, Same
  <2>2. \A s \in Thread : Linking(S, s)'
    <3>1. \A s \in Thread : s # t => (Linking(S, s)' <=> Linking(S, s))
      BY <1>6, <1>9 DEF Linking, Same, high
    <3>2. Linking(S, t)'
      BY <1>5, <1>8 DEF Linking, TwoLabels
    <3>. QED
      BY <2>1, <3>1, <3>2 DEF Linked
  <2>3. phase = "sample" =>
          \A m \in Vertex \ todo' :
            round < Len(out_neigh(m)) =>
              Same(S, m, out_neigh(m)[round + 1]) \/ Pending(m, out_neigh(m)[round + 1])'
    <3>. SUFFICES ASSUME phase = "sample", NEW m \in Vertex \ todo', round < Len(out_neigh(m))
                  PROVE  Same(S, m, out_neigh(m)[round + 1]) \/ Pending(m, out_neigh(m)[round + 1])'
      OBVIOUS
    <3>. DEFINE x == out_neigh(m)[round + 1]
    <3>1. m = n => Lists(w, x)
      BY <1>4
    <3>2. m # n => Same(S, m, x) \/ Pending(m, x)
      BY <1>1, <2>1 DEF Linked
    <3>3. x' = x
      BY <1>6
    <3>. HIDE DEF x
    <3>4. Same(S, m, x) \/ Pending(m, x)'
      BY <1>14, <1>15, <3>1, <3>2, <3>3 DEF Pending
    <3>. QED
      BY <3>4 DEF x
  <2>4. phase = "final" =>
          \A m \in Vertex \ todo' :
            Same(S, m, c) \/ \A x \in Targets(m) : Same(S, m, x) \/ Pending(m, x)'
    <3>. SUFFICES ASSUME phase = "final", NEW m \in Vertex \ todo'
                  PROVE  Same(S, m, c) \/ \A x \in Targets(m) : Same(S, m, x) \/ Pending(m, x)'
      OBVIOUS
    <3>1. CASE m = n
      BY <1>4, <1>15, <2>1, <3>1
    <3>2. CASE m # n
      BY <1>1, <1>14, <2>1, <3>2 DEF Linked
    <3>. QED
      BY <3>1, <3>2
  <2>. QED
    BY <1>2, <1>6, <2>1, <2>2, <2>3, <2>4 DEF Linked, Same
<1>17. ShiloachVishkin'
  <2>. SUFFICES ASSUME kernel = "sv", ~change PROVE ShiloachVishkin'
    BY <1>6 DEF ShiloachVishkin
  <2>1. \A s \in Thread : Hooking(s)'
    BY <1>5, <1>6, <1>8, <1>9 DEF ShiloachVishkin, Hooking
  <2>2. phase = "hook" =>
          \A m \in Vertex \ todo' : \A i \in DOMAIN out_neigh(m) :
            comp[m] = comp[out_neigh(m)[i]] \/ Pending(m, out_neigh(m)[i])'
    <3>. SUFFICES ASSUME phase = "hook", NEW m \in Vertex \ todo', NEW i \in DOMAIN out_neigh(m)
                  PROVE  comp[m] = comp[out_neigh(m)[i]] \/ Pending(m, out_neigh(m)[i])'
      OBVIOUS
    <3>. DEFINE x == out_neigh(m)[i]
    <3>1. m = n => Lists(w, x)
      BY <1>4 DEF Lists
    <3>2. m # n => comp[m] = comp[x] \/ Pending(m, x)
      BY <1>1 DEF ShiloachVishkin
    <3>3. x' = x
      BY <1>6
    <3>. HIDE DEF x
    <3>4. comp[m] = comp[x] \/ Pending(m, x)'
      BY <1>14, <1>15, <3>1, <3>2, <3>3 DEF Pending
    <3>. QED
      BY <3>4 DEF x
  <2>. QED
    BY <1>2, <1>6, <2>1, <2>2 DEF ShiloachVishkin, Flat, Settled
<1>. QED
  BY <1>7, <1>10, <1>11, <1>12, <1>13, <1>16, <1>17

-----------------------------------------------------------------------------
(* Compress. *)

\* While the labels are compressed nobody is at an edge, and what Afforest and
\* Shiloach-Vishkin have linked depends on the trees alone.
LEMMA CompressStep ==
  ASSUME IInv, NEW t \in Thread, phase = "compress", Busy(t), NEW p \in {"loop", "compress", "jump"},
         UNCHANGED <<config, phase, round, c, change, todo, locals>>, Goto(t, p),
         comp' \in [Vertex -> Vertex], Descend',
         \A S \in SUBSET Vertex : Saturated(comp', S) <=> Saturated(comp, S),
         kernel = "sv" /\ ~change => comp' = comp /\ p # "jump",
         Compressed'
  PROVE  IInv'
<1>. USE DEF IInv
<1>1. /\ kernel' = kernel /\ g' = g /\ neighbor_rounds' = neighbor_rounds /\ Vertex' = Vertex
      /\ phase' = phase /\ round' = round /\ c' = c /\ change' = change /\ todo' = todo
      /\ work' = work /\ u' = u /\ lab' = lab
      /\ \A n : out_neigh(n)' = out_neigh(n)
      /\ \A S : Closed(S)' <=> Closed(S)
      /\ \A S : Saturated(comp, S)' <=> Saturated(comp', S)
      /\ \A S, k : Sampled(S, k)' <=> Sampled(S, k)
  BY GraphStays DEF config, locals
<1>2. TypeOK'
  BY <1>1 DEF TypeOK, Goto, Steps
<1>3. pc'[t] = p /\ \A s \in Thread : s # t => pc'[s] = pc[s]
  BY DEF TypeOK, Goto
<1>4. \A s \in Thread : pc[s] \notin EdgeSteps /\ pc'[s] \notin EdgeSteps /\ pc'[s] \notin TwoLabels
  <2>1. \A s \in Thread : pc[s] \notin EdgeSteps
    BY DEF Control, ThreadOK
  <2>. QED
    BY <1>3, <2>1 DEF EdgeSteps, TwoLabels
<1>5. Control'
  <2>1. \A s \in Thread : s # t => ThreadOK(s)'
    BY <1>1, <1>3 DEF Control, ThreadOK, Busy
  <2>2. ThreadOK(t)'
    BY <1>1, <1>3, <1>4 DEF Control, ThreadOK, Busy, EdgeSteps, TwoLabels
  <2>3. \A s, r \in Thread : s # r /\ Busy(s)' /\ Busy(r)' => u'[s] # u'[r]
    BY <1>1, <1>3 DEF Control, Busy
  <2>. QED
    BY <1>1, <2>1, <2>2, <2>3 DEF Control
<1>6. Within'
  <2>1. \A S, s : s \in Thread => Inside(S, s)'
    BY <1>4 DEF Inside, EdgeSteps, TwoLabels
  <2>. QED
    BY <1>1, <2>1 DEF Within
<1>7. Afforest'
  <2>1. \A S, s : s \in Thread => Linking(S, s)'
    BY <1>4 DEF Linking, EdgeSteps, TwoLabels
  <2>. QED
    BY <1>1, <2>1 DEF Afforest, Linked
<1>8. ShiloachVishkin'
  <2>. SUFFICES ASSUME kernel = "sv", ~change PROVE ShiloachVishkin'
    BY <1>1 DEF ShiloachVishkin
  <2>1. \A s \in Thread : Hooking(s)'
    BY <1>3, <1>4 DEF ShiloachVishkin, Hooking, EdgeSteps
  <2>. QED
    BY <1>1, <2>1 DEF ShiloachVishkin, Flat, Settled
<1>. QED
  BY <1>2, <1>5, <1>6, <1>7, <1>8

LEMMA CompressTestStep == ASSUME IInv, NEW t \in Thread, CompressTest(t) PROVE IInv'
<1>. USE DEF IInv
<1>. DEFINE p == IF comp[u[t]] = comp[comp[u[t]]] THEN "loop" ELSE "jump"
<1>1. /\ pc[t] = "compress" /\ Busy(t) /\ phase = "compress" /\ u[t] \in Vertex /\ Goto(t, p)
      /\ p \in {"loop", "compress", "jump"}
      /\ UNCHANGED <<config, comp, phase, round, c, change, todo, locals>>
  BY DEF CompressTest, Busy, Control, ThreadOK
<1>2. /\ UNCHANGED <<config, phase, round, c, change, todo, locals>>
      /\ comp' = comp /\ phase' = phase /\ todo' = todo /\ u' = u /\ Vertex' = Vertex
  BY <1>1, GraphStays DEF locals
<1>3. pc'[t] = p /\ \A s \in Thread : s # t => pc'[s] = pc[s]
  BY <1>1 DEF TypeOK, Goto
<1>4. (p = "loop" => Flat(u[t])) /\ (p = "jump" => ~Flat(u[t]))
  BY DEF Flat
<1>. HIDE DEF p
<1>5. Compressed'
  <2>1. \A n \in Vertex \ todo : Flat(n)' \/ \E s \in Thread : Busy(s)' /\ u'[s] = n
    <3>. TAKE n \in Vertex \ todo
    <3>1. Flat(n)' <=> Flat(n)
      BY <1>2 DEF Flat
    <3>2. CASE n = u[t]
      BY <1>2, <1>3, <1>4, <3>1, <3>2, <1>1 DEF Busy
    <3>3. CASE n # u[t]
      BY <1>1, <1>2, <1>3, <3>1, <3>3 DEF Busy, Compressed
    <3>. QED
      BY <3>2, <3>3
  <2>2. \A s \in Thread : pc'[s] = "jump" => comp'[u'[s]] # u'[s]
    BY <1>1, <1>2, <1>3, <1>4 DEF Compressed, Flat
  <2>. QED
    BY <1>1, <1>2, <2>1, <2>2 DEF Compressed
<1>6. kernel = "sv" /\ ~change => comp' = comp /\ p # "jump"
  BY <1>1, <1>2, <1>4 DEF ShiloachVishkin
<1>7. comp' \in [Vertex -> Vertex] /\ Descend'
  BY <1>2 DEF TypeOK, Descend
<1>8. \A S \in SUBSET Vertex : Saturated(comp', S) <=> Saturated(comp, S)
  BY <1>2
<1>. QED
  BY <1>1, <1>2, <1>5, <1>6, <1>7, <1>8, CompressStep

LEMMA CompressJumpStep == ASSUME IInv, NEW t \in Thread, CompressJump(t) PROVE IInv'
<1>. USE DEF IInv
<1>. DEFINE n == u[t]
<1>1. /\ pc[t] = "jump" /\ Busy(t) /\ phase = "compress" /\ n \in Vertex /\ Goto(t, "compress")
      /\ comp' = [comp EXCEPT ![n] = comp[comp[n]]]
      /\ UNCHANGED <<config, phase, round, c, change, todo, locals>>
  BY DEF CompressJump, Busy, Control, ThreadOK
<1>2. /\ phase' = phase /\ todo' = todo /\ u' = u /\ Vertex' = Vertex
  BY <1>1, GraphStays DEF locals
<1>3. pc'[t] = "compress" /\ \A s \in Thread : s # t => pc'[s] = pc[s]
  BY <1>1 DEF TypeOK, Goto
<1>4. /\ comp[n] \in Vertex /\ comp[comp[n]] \in Vertex /\ comp[n] # n
      /\ comp' \in [Vertex -> Vertex] /\ comp'[n] = comp[comp[n]]
      /\ \A m \in Vertex : m # n => comp'[m] = comp[m]
  BY <1>1 DEF TypeOK, Compressed
<1>. HIDE DEF n
<1>5. Compressed'
  <2>1. \A m \in Vertex \ todo : Flat(m)' \/ \E s \in Thread : Busy(s)' /\ u'[s] = m
    <3>. TAKE m \in Vertex \ todo
    <3>1. CASE m = n
      BY <1>2, <1>3, <3>1 DEF Busy, n
    <3>2. CASE m # n /\ Flat(m)
      <4>1. comp[m] \in Vertex /\ comp[m] # n
        BY <1>4, <3>2 DEF Flat, TypeOK
      <4>. QED
        BY <1>4, <3>2, <4>1 DEF Flat
    <3>3. CASE m # n /\ ~Flat(m)
      BY <1>1, <1>2, <1>3, <3>3 DEF Compressed, Busy, n
    <3>. QED
      BY <3>1, <3>2, <3>3
  <2>2. \A s \in Thread : pc'[s] = "jump" => comp'[u'[s]] # u'[s]
    <3>. SUFFICES ASSUME NEW s \in Thread, pc'[s] = "jump" PROVE comp'[u[s]] # u[s]
      BY <1>2
    <3>1. s # t /\ pc[s] = "jump" /\ Busy(s)
      BY <1>3 DEF Busy
    <3>2. u[s] # n /\ u[s] \in Vertex
      BY <1>1, <3>1 DEF Control, ThreadOK, n
    <3>. QED
      BY <1>1, <1>4, <3>1, <3>2 DEF Compressed
  <2>. QED
    BY <1>1, <1>2, <2>1, <2>2 DEF Compressed
<1>6. kernel = "sv" /\ ~change => comp' = comp /\ "compress" # "jump"
  BY <1>1 DEF ShiloachVishkin, Hooking
<1>7. Descend'
  <2>1. \A m \in Vertex : comp[m] <= m /\ m \in Int
    BY GraphFacts DEF Descend, TypeOK, Vertex
  <2>2. comp[comp[n]] <= n
    BY <1>1, <1>4, <2>1
  <2>. QED
    BY <1>2, <1>4, <2>1, <2>2 DEF Descend
<1>8. \A S \in SUBSET Vertex : Saturated(comp', S) <=> Saturated(comp, S)
  BY <1>1, JumpSaturates
<1>. QED
  BY <1>1, <1>4, <1>5, <1>6, <1>7, <1>8, CompressStep

-----------------------------------------------------------------------------
(* The main thread between two loops. *)

\* All threads are through, and the next loop has everything to do.
LEMMA EnterStep ==
  ASSUME IInv, LoopDone, NEW p \in {"sample", "final", "hook", "compress"}, Enter(p),
         round' \in Nat, c' \in Nat, change' \in BOOLEAN,
         p \in {"sample", "final"} => kernel = "afforest",
         p = "hook" => kernel = "sv",
         kernel = "afforest" =>
           /\ p = "sample" => round' < neighbor_rounds
           /\ p = "final" => round' = neighbor_rounds
           /\ \A S \in SUBSET Vertex : Saturated(comp, S) =>
                IF p = "compress" /\ round' > neighbor_rounds
                THEN Closed(S)
                ELSE \A k \in 0 .. round' - 1 : Sampled(S, k),
         kernel = "sv" /\ ~change' =>
           /\ \A n \in Vertex : Flat(n)
           /\ p = "compress" => \A n \in Vertex : Settled(n)
  PROVE  IInv'
<1>. USE DEF IInv
<1>1. /\ kernel' = kernel /\ g' = g /\ neighbor_rounds' = neighbor_rounds /\ Vertex' = Vertex
      /\ phase' = p /\ comp' = comp /\ todo' = Vertex
      /\ pc' = pc /\ work' = work /\ u' = u /\ lab' = lab
      /\ \A n : out_neigh(n)' = out_neigh(n)
      /\ \A S : Closed(S)' <=> Closed(S)
      /\ \A S : Saturated(comp, S)' <=> Saturated(comp, S)
      /\ \A S, k : Sampled(S, k)' <=> Sampled(S, k)
  BY GraphStays DEF Enter, config, locals
<1>2. \A t \in Thread : pc[t] = "loop"
  BY DEF LoopDone
<1>3. TypeOK'
  BY <1>1 DEF TypeOK, Phases
<1>4. Control'
  BY <1>1, <1>2 DEF Control, ThreadOK, Busy, EdgeSteps, TwoLabels, TypeOK, Kernels
<1>5. Descend'
  BY <1>1 DEF Descend
<1>6. Within'
  <2>1. \A S, t : t \in Thread => Inside(S, t)'
    BY <1>1, <1>2 DEF Inside, EdgeSteps, TwoLabels
  <2>. QED
    BY <1>1, <2>1 DEF Within
<1>7. Compressed'
  BY <1>1, <1>2 DEF Compressed
<1>8. Afforest'
  <2>. SUFFICES ASSUME kernel = "afforest", NEW S \in SUBSET Vertex, Saturated(comp, S)
                PROVE  Linked(S)'
    BY <1>1 DEF Afforest
  <2>1. \A t \in Thread : Linking(S, t)'
    BY <1>1, <1>2 DEF Linking, TwoLabels
  <2>2. neighbor_rounds \in Nat /\ ~(round' > neighbor_rounds /\ round' <= neighbor_rounds)
    BY DEF TypeOK
  <2>3. p \in {"sample", "final"} \/ (p = "compress" /\ round' <= neighbor_rounds)
          => \A k \in 0 .. round' - 1 : Sampled(S, k)
    BY <2>2
  <2>4. p = "compress" /\ round' > neighbor_rounds => Closed(S)
    OBVIOUS
  <2>. QED
    BY <1>1, <2>1, <2>3, <2>4 DEF Linked
<1>9. ShiloachVishkin'
  <2>1. \A t \in Thread : Hooking(t)'
    BY <1>1, <1>2 DEF Hooking
  <2>. QED
    BY <1>1, <2>1 DEF ShiloachVishkin, Flat, Settled
<1>. QED
  BY <1>3, <1>4, <1>5, <1>6, <1>7, <1>8, <1>9

\* The edges of the loop that was sampled are linked when it is done.
LEMMA SampleDone ==
  ASSUME IInv, LoopDone, kernel = "afforest", phase = "sample", NEW S \in SUBSET Vertex, Saturated(comp, S)
  PROVE  \A k \in 0 .. round : Sampled(S, k)
<1>1. Linked(S) /\ round \in Nat
  BY DEF IInv, Afforest, TypeOK
<1>2. todo = {} /\ \A n, m : ~Pending(n, m)
  BY DEF LoopDone, Pending, Busy
<1>3. Sampled(S, round)
  BY <1>1, <1>2 DEF Linked, Sampled
<1>4. \A k \in 0 .. round - 1 : Sampled(S, k)
  BY <1>1 DEF Linked
<1>. TAKE k \in 0 .. round
<1>5. k = round \/ k \in 0 .. round - 1
  BY <1>1
<1>. QED
  BY <1>3, <1>4, <1>5

\* After the final loop nothing is left to link: an edge was sampled, or one of
\* its two ends is not in the tree of c and has linked it, from its own side.
LEMMA FinalDone ==
  ASSUME IInv, LoopDone, kernel = "afforest", phase = "final", NEW S \in SUBSET Vertex, Saturated(comp, S)
  PROVE  Closed(S)
<1>1. Linked(S) /\ round = neighbor_rounds /\ neighbor_rounds \in Nat /\ g \in Graphs /\ TypeOK
  BY DEF IInv, Afforest, TypeOK
<1>2. todo = {} /\ \A n, m : ~Pending(n, m)
  BY DEF LoopDone, Pending, Busy
<1>3. \A n \in Vertex : Same(S, n, c) \/ \A m \in Targets(n) : Same(S, n, m)
  BY <1>1, <1>2 DEF Linked
<1>4. \A k \in 0 .. neighbor_rounds - 1 : Sampled(S, k)
  BY <1>1 DEF Linked
<1>5. ASSUME NEW n \in Vertex, NEW m \in Vertex, Lists(out_neigh(n), m)
      PROVE  Same(S, n, m) \/ m \in Targets(n)
  <2>1. out_neigh(n) \in Seq(Vertex)
    BY <1>1, GraphFacts
  <2>2. PICK i \in 1 .. Len(out_neigh(n)) : out_neigh(n)[i] = m
    BY <1>5, <2>1 DEF Lists
  <2>3. CASE i <= neighbor_rounds
    <3>1. i - 1 \in 0 .. neighbor_rounds - 1 /\ i - 1 < Len(out_neigh(n)) /\ (i - 1) + 1 = i
      BY <1>1, <2>1, <2>2, <2>3
    <3>2. Same(S, n, out_neigh(n)[(i - 1) + 1])
      BY <1>4, <3>1 DEF Sampled
    <3>. QED
      BY <2>2, <3>1, <3>2
  <2>4. CASE i > neighbor_rounds
    <3>1. i \in neighbor_rounds + 1 .. Len(out_neigh(n))
      BY <1>1, <2>1, <2>2, <2>4
    <3>. QED
      BY <2>2, <3>1 DEF Targets
  <2>. QED
    BY <1>1, <2>2, <2>3, <2>4
<1>6. ASSUME NEW n \in Vertex, NEW m \in Vertex, Lists(out_neigh(n), m)
      PROVE  Same(S, n, m)
  <2>1. Lists(in_neigh(m), n)
    BY <1>1, <1>6, GraphFacts
  <2>2. Same(S, m, n) \/ n \in Targets(m)
    <3>1. CASE g.directed
      BY <2>1, <3>1 DEF Targets, Lists
    <3>2. CASE ~g.directed
      BY <1>1, <1>5, <2>1, <3>2, GraphFacts
    <3>. QED
      BY <3>1, <3>2
  <2>3. Same(S, n, m) \/ m \in Targets(n)
    BY <1>5, <1>6
  <2>. QED
    BY <1>3, <2>2, <2>3 DEF Same
<1>7. \A n \in Vertex : \A i \in DOMAIN out_neigh(n) : out_neigh(n)[i] \in Vertex
  BY <1>1, NeighboursTyped
<1>. QED
  BY <1>6, <1>7 DEF Closed, Same, Lists

\* After a loop that compressed, every pointer goes to a root.
LEMMA CompressDone == ASSUME IInv, LoopDone, phase = "compress" PROVE \A n \in Vertex : Flat(n)
BY DEF IInv, LoopDone, Compressed, Busy

LEMMA MainStep == ASSUME IInv, Main PROVE IInv'
<1>0. /\ kernel \in Kernels /\ neighbor_rounds \in Nat /\ round \in Nat /\ c \in Nat /\ change \in BOOLEAN
      /\ comp \in [Vertex -> Vertex] /\ Vertex \subseteq Nat
      /\ kernel = "afforest" => phase # "hook"
      /\ kernel = "sv" => phase \in {"hook", "compress", "done"}
  <2>1. Len(g.out) \in Nat
    BY GraphFacts DEF IInv, TypeOK
  <2>. QED
    BY <2>1 DEF IInv, TypeOK, Control, Vertex
<1>1. CASE StartCompress
  <2>1. /\ LoopDone /\ Enter("compress") /\ phase \in {"sample", "final", "hook"}
        /\ round' = (IF phase = "hook" THEN round ELSE round + 1) /\ c' = c /\ change' = change
    BY <1>1 DEF StartCompress
  <2>2. kernel = "afforest" <=> phase \in {"sample", "final"}
    BY <1>0, <2>1 DEF Kernels
  <2>3. ASSUME kernel = "afforest", NEW S \in SUBSET Vertex, Saturated(comp, S)
        PROVE  IF round' > neighbor_rounds THEN Closed(S) ELSE \A k \in 0 .. round' - 1 : Sampled(S, k)
    <3>1. /\ round' = round + 1 /\ (phase = "sample" => round < neighbor_rounds)
          /\ (phase = "final" => round = neighbor_rounds)
      BY <2>1, <2>2, <2>3 DEF IInv, Afforest
    <3>2. CASE phase = "sample"
      <4>1. ~(round' > neighbor_rounds) /\ round' - 1 = round
        BY <1>0, <3>1, <3>2
      <4>2. \A k \in 0 .. round : Sampled(S, k)
        BY <2>1, <2>3, <3>2, SampleDone
      <4>. QED
        BY <4>1, <4>2
    <3>3. CASE phase = "final"
      <4>1. round' > neighbor_rounds
        BY <1>0, <3>1, <3>3
      <4>2. Closed(S)
        BY <2>1, <2>3, <3>3, FinalDone
      <4>. QED
        BY <4>1, <4>2
    <3>. QED
      BY <2>2, <2>3, <3>2, <3>3
  <2>4. ASSUME kernel = "sv", ~change
        PROVE  (\A n \in Vertex : Flat(n)) /\ \A n \in Vertex : Settled(n)
    <3>1. phase = "hook" /\ todo = {} /\ \A n, m : ~Pending(n, m)
      BY <2>1, <2>2, <2>4 DEF LoopDone, Pending, Busy
    <3>. QED
      BY <2>4, <3>1 DEF IInv, ShiloachVishkin, Settled
  <2>5. round' \in Nat /\ c' \in Nat /\ change' \in BOOLEAN
    BY <1>0, <2>1
  <2>. QED
    BY <2>1, <2>2, <2>3, <2>4, <2>5, EnterStep
<1>2. CASE NextRound
  <2>1. /\ LoopDone /\ Enter("sample") /\ phase = "compress" /\ kernel = "afforest" /\ round < neighbor_rounds
        /\ round' = round /\ c' = c /\ change' = change
    BY <1>2 DEF NextRound
  <2>2. \A S \in SUBSET Vertex : Saturated(comp, S) => \A k \in 0 .. round - 1 : Sampled(S, k)
    BY <1>0, <2>1 DEF IInv, Afforest, Linked
  <2>. QED
    BY <1>0, <2>1, <2>2, EnterStep
<1>3. CASE SampleFrequentElement
  <2>1. /\ LoopDone /\ Enter("final") /\ phase = "compress" /\ kernel = "afforest" /\ round = neighbor_rounds
        /\ round' = round /\ c' \in Nat /\ change' = change
    BY <1>0, <1>3 DEF SampleFrequentElement
  <2>2. \A S \in SUBSET Vertex : Saturated(comp, S) => \A k \in 0 .. round - 1 : Sampled(S, k)
    BY <1>0, <2>1 DEF IInv, Afforest, Linked
  <2>. QED
    BY <1>0, <2>1, <2>2, EnterStep
<1>4. CASE NextIteration
  <2>1. /\ LoopDone /\ Enter("hook") /\ phase = "compress" /\ kernel = "sv"
        /\ round' = round /\ c' = c /\ change' = FALSE
    BY <1>4 DEF NextIteration
  <2>. QED
    BY <1>0, <2>1, CompressDone, EnterStep
<1>5. CASE Return
  <2>. USE DEF IInv
  <2>1. /\ LoopDone /\ phase = "compress" /\ phase' = "done"
        /\ IF kernel = "sv" THEN ~change ELSE round = neighbor_rounds + 1
        /\ UNCHANGED <<config, comp, round, c, change, todo, pc, locals>>
    BY <1>5 DEF Return
  <2>2. /\ kernel' = kernel /\ g' = g /\ neighbor_rounds' = neighbor_rounds /\ Vertex' = Vertex
        /\ comp' = comp /\ round' = round /\ c' = c /\ change' = change /\ todo' = todo
        /\ pc' = pc /\ work' = work /\ u' = u /\ lab' = lab
        /\ \A n : out_neigh(n)' = out_neigh(n)
        /\ \A S : Closed(S)' <=> Closed(S)
        /\ \A S : Saturated(comp, S)' <=> Saturated(comp, S)
    BY <2>1, GraphStays DEF config, locals
  <2>3. \A t \in Thread : pc[t] = "loop"
    BY <2>1 DEF LoopDone
  <2>4. \A n \in Vertex : Flat(n)
    BY <2>1, CompressDone
  <2>5. TypeOK'
    BY <2>1, <2>2 DEF TypeOK, Phases
  <2>6. Control'
    BY <1>0, <2>1, <2>2, <2>3 DEF Control, ThreadOK, Busy, EdgeSteps, TwoLabels, LoopDone, Kernels
  <2>7. Descend'
    BY <2>2 DEF Descend
  <2>8. Within'
    <3>1. \A S, t : t \in Thread => Inside(S, t)'
      BY <2>2, <2>3 DEF Inside, EdgeSteps, TwoLabels
    <3>. QED
      BY <2>2, <3>1 DEF Within
  <2>9. Compressed'
    BY <2>1, <2>2, <2>4 DEF Compressed, Flat
  <2>10. Afforest'
    <3>. SUFFICES ASSUME kernel = "afforest", NEW S \in SUBSET Vertex, Saturated(comp, S)
                  PROVE  Linked(S)'
      BY <2>1, <2>2 DEF Afforest
    <3>1. Closed(S)
      <4>1. round > neighbor_rounds
        BY <1>0, <2>1
      <4>. QED
        BY <2>1, <4>1 DEF Afforest, Linked
    <3>2. \A t \in Thread : Linking(S, t)'
      BY <2>2, <2>3 DEF Linking, TwoLabels
    <3>. QED
      BY <2>1, <2>2, <3>1, <3>2 DEF Linked
  <2>11. ShiloachVishkin'
    <3>. SUFFICES ASSUME kernel = "sv", ~change PROVE ShiloachVishkin'
      BY <2>2 DEF ShiloachVishkin
    <3>1. \A t \in Thread : Hooking(t)'
      BY <2>2, <2>3 DEF Hooking
    <3>. QED
      BY <2>1, <2>2, <3>1 DEF ShiloachVishkin, Flat, Settled
  <2>. QED
    BY <2>5, <2>6, <2>7, <2>8, <2>9, <2>10, <2>11
<1>. QED
  BY <1>1, <1>2, <1>3, <1>4, <1>5 DEF Main

-----------------------------------------------------------------------------
(* The theorems. *)

LEMMA StutterStep == ASSUME IInv, UNCHANGED vars PROVE IInv'
<1>1. /\ kernel' = kernel /\ g' = g /\ neighbor_rounds' = neighbor_rounds /\ comp' = comp
      /\ phase' = phase /\ round' = round /\ c' = c /\ change' = change /\ todo' = todo
      /\ pc' = pc /\ work' = work /\ u' = u /\ lab' = lab
  BY DEF vars, config, locals
<1>2. Vertex' = Vertex /\ \A n : out_neigh(n)' = out_neigh(n) /\ in_neigh(n)' = in_neigh(n)
  BY <1>1 DEF Vertex, out_neigh, in_neigh
<1>3. TypeOK' /\ Control' /\ Descend'
  BY <1>1, <1>2 DEF IInv, TypeOK, Control, ThreadOK, Busy, LoopDone, Descend
<1>4. Within' /\ Compressed'
  BY <1>1, <1>2 DEF IInv, Within, Closed, Saturated, Inside, Same, Compressed, Flat, Busy
<1>5. Afforest'
  <2>1. \A S : Linked(S)' <=> Linked(S)
    <3>1. /\ \A S, t : Linking(S, t)' <=> Linking(S, t)
          /\ \A n, m : Pending(n, m)' <=> Pending(n, m)
      BY <1>1 DEF Linking, Same, high, Pending, Busy
    <3>2. /\ \A S, k : Sampled(S, k)' <=> Sampled(S, k)
          /\ \A n : Targets(n)' = Targets(n)
          /\ \A S : Closed(S)' <=> Closed(S)
      BY <1>1, GraphStays DEF config
    <3>. QED
      BY <1>1, <1>2, <3>1, <3>2 DEF Linked, Same, Pending, Busy
  <2>. QED
    BY <1>1, <1>2, <2>1 DEF IInv, Afforest, Saturated
<1>6. ShiloachVishkin'
  BY <1>1, <1>2 DEF IInv, ShiloachVishkin, Flat, Hooking, Pending, Busy, Settled
<1>. QED
  BY <1>3, <1>4, <1>5, <1>6 DEF IInv

LEMMA NextIInv == ASSUME IInv, [Next]_vars PROVE IInv'
<1>1. ASSUME NEW t \in Thread, Step(t) PROVE IInv'
  BY <1>1, TakeStep, LoadUStep, LoadVStep, LinkHighStep, LinkCasStep, LinkReloadStep,
     HookTestStep, HookStoreStep, CompressTestStep, CompressJumpStep DEF Step
<1>. QED
  BY <1>1, MainStep, StutterStep DEF Next

\* The invariant holds at every moment of both kernels, whatever the graph, the
\* number of threads and the number of sampling rounds.
THEOREM IInvInvariant == Spec => []IInv
<1>1. Init => IInv
  BY InitIInv
<1>2. IInv /\ [Next]_vars => IInv'
  BY NextIInv
<1>. QED
  BY <1>1, <1>2, PTL DEF Spec

\* A label is at no moment greater than its vertex or outside the vertex's
\* component: closed sets are saturated.
THEOREM LabelsDescendCorrect == Spec => []LabelsDescend
<1>1. IInv => LabelsDescend
  <2>. SUFFICES ASSUME IInv, NEW n \in Vertex PROVE comp[n] <= n /\ comp[n] \in Search(n)
    BY DEF LabelsDescend
  <2>1. comp[n] <= n /\ comp[n] \in Vertex
    BY DEF IInv, TypeOK, Descend
  <2>2. \A S \in SUBSET Vertex : n \in S /\ Closed(S) => comp[n] \in S
    BY DEF IInv, Within, Saturated
  <2>. QED
    BY <2>1, <2>2 DEF Search
<1>. QED
  BY <1>1, IInvInvariant, PTL

\* A step of Afforest splits no tree: a union of the new trees is a union of the
\* old ones.  The swap only hooks roots, and a jump stays in its tree.
THEOREM LinksKeptCorrect == Spec => LinksKept
<1>. DEFINE A == kernel = "afforest" /\ comp' # comp =>
                   \A m, n \in Vertex : InOneTree(comp, m, n) => InOneTree(comp', m, n)
<1>1. IInv /\ [Next]_vars => A
  <2>. SUFFICES ASSUME IInv, [Next]_vars, kernel = "afforest", comp' # comp,
                       NEW S \in SUBSET Vertex, Saturated(comp', S)
                PROVE  Saturated(comp, S)
    BY DEF InOneTree
  <2>. USE DEF IInv
  <2>1. PICK t \in Thread : Step(t)
    BY DEF Next, vars, Main, StartCompress, NextRound, SampleFrequentElement, NextIteration, Return, Enter
  <2>2. LinkCas(t) \/ HookStore(t) \/ CompressJump(t)
    BY <2>1 DEF Step, Take, LoadU, LoadV, LinkHigh, LinkParent, LinkGrandparent, HookTest, CompressTest
  <2>3. CASE LinkCas(t)
    <3>1. comp[high(t)] = high(t) /\ comp' = [comp EXCEPT ![high(t)] = low(t)] /\ pc[t] = "cas"
      BY <2>3 DEF LinkCas
    <3>2. high(t) \in Vertex /\ low(t) \in Vertex
      BY <3>1, EdgeTyped DEF EdgeSteps, TwoLabels
    <3>. QED
      BY <3>1, <3>2, HookSaturates
  <2>4. CASE HookStore(t)
    BY <2>4 DEF HookStore, Control, ThreadOK
  <2>5. CASE CompressJump(t)
    <3>1. u[t] \in Vertex /\ comp' = [comp EXCEPT ![u[t]] = comp[comp[u[t]]]]
      BY <2>5 DEF CompressJump, Control, ThreadOK, Busy
    <3>. QED
      BY <3>1, JumpSaturates
  <2>. QED
    BY <2>2, <2>3, <2>4, <2>5
<1>2. Spec => [][A]_vars
  BY <1>1, IInvInvariant, PTL DEF Spec
<1>. QED
  BY <1>2 DEF LinksKept

\* The labels that a kernel returns are the connected components, and CCVerifier
\* accepts them: equal labels make a closed set, and a closed set is saturated.
THEOREM CCAcceptedCorrect == Spec => []CCAccepted
<1>1. IInv => CCAccepted
  <2>. SUFFICES ASSUME IInv, phase = "done" PROVE CCVerifier
    BY DEF CCAccepted
  <2>. DEFINE L(n) == {k \in Vertex : comp[k] = comp[n]}
              sources == {n \in Vertex : \A m \in Vertex : comp[m] = comp[n] => m <= n}
  <2>1. \A n \in Vertex : comp[n] \in Vertex /\ comp[comp[n]] = comp[n]
    BY DEF IInv, TypeOK, Compressed, Flat
  <2>2. ASSUME NEW n \in Vertex PROVE Closed(L(n))
    <3>1. CASE kernel = "afforest"
      <4>1. Saturated(comp, L(n))
        BY <2>1 DEF Saturated
      <4>. QED
        BY <3>1, <4>1 DEF IInv, Afforest, Linked
    <3>2. CASE kernel = "sv"
      <4>1. \A m \in Vertex : \A i \in DOMAIN out_neigh(m) : comp[m] = comp[out_neigh(m)[i]]
        BY <3>2 DEF IInv, Control, ShiloachVishkin, Settled
      <4>2. \A m \in Vertex : \A i \in DOMAIN out_neigh(m) : out_neigh(m)[i] \in Vertex
        BY NeighboursTyped DEF IInv
      <4>. QED
        BY <4>1, <4>2 DEF Closed
    <3>. QED
      BY <3>1, <3>2 DEF IInv, TypeOK, Kernels
  <2>3. \A n \in Vertex : \A m \in Search(n) : comp[m] = comp[n]
    BY <2>2 DEF Search
  <2>4. ASSUME NEW n \in Vertex PROVE \E s \in sources : n \in Search(s)
    <3>1. PICK s \in L(n) : \A k \in L(n) : k <= s
      <4>1. Len(g.out) \in Nat /\ n \in L(n)
        BY GraphFacts DEF IInv, TypeOK
      <4>2. Len(g.out) - 1 \in Nat /\ L(n) \in SUBSET (0 .. Len(g.out) - 1)
        BY <4>1 DEF Vertex
      <4>. HIDE DEF L
      <4>. QED
        BY <4>1, <4>2, Largest
    <3>2. s \in sources
      BY <3>1
    <3>3. \A S \in SUBSET Vertex : s \in S /\ Closed(S) => n \in S
      BY <3>1 DEF IInv, Within, Saturated
    <3>. QED
      BY <3>2, <3>3 DEF Search
  <2>5. UNION {Search(s) : s \in sources} = Vertex
    BY <2>4 DEF Search
  <2>. QED
    BY <2>3, <2>5 DEF CCVerifier
<1>. QED
  BY <1>1, IInvInvariant, PTL
=============================================================================
