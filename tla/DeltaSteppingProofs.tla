------------------------ MODULE DeltaSteppingProofs ------------------------
(***************************************************************************)
(* Proofs about DeltaStepping, for any graph, team of threads and delta:   *)
(* no edge that still improves a distance is forgotten, whatever           *)
(* compare-and-swaps fail and however the threads race for slots of the    *)
(* next frontier, and when the loop ends the distances are the shortest,   *)
(* which are those that the verifier computes.                             *)
(***************************************************************************)
EXTENDS DeltaStepping, FiniteSetTheorems, WellFoundedInduction, TLAPS

Edge     == [v : Vertex, w : Nat]
Edges(m) == ToSet(out_neigh(m))
Bins     == Seq(Seq(Vertex))
Entries  == [old : Nat, new : Nat]

Relaxing == {"old", "new", "cas", "reload"}
First    == {"loop", "voted"} \cup Relaxing
Second   == {"single", "reserve", "copy", "copied"}

TypeOK ==
  /\ g \in Graphs /\ source \in Vertex /\ delta \in Deltas
  /\ dist \in [Vertex -> 0 .. kDistInf]
  /\ frontier \in Seq(Vertex)
  /\ shared_indexes \in [{0, 1} -> 0 .. kMaxBin] /\ frontier_tails \in [{0, 1} -> Nat]
  /\ iter \in {0, 1} /\ nextSlot \in Nat \ {0} /\ single \in BOOLEAN
  /\ pc \in [Thread -> First \cup Second \cup {"done"}]
  /\ local_bins \in [Thread -> Bins]
  /\ work \in [Thread -> Seq(Edge)] /\ u \in [Thread -> Vertex]
  /\ relax \in [Thread -> Entries]

\* The threads are in the first phase, in the second, or done.  A thread that
\* has voted has seen the last slot, and none of its bins lies below the vote.
Control ==
  /\ \/ single /\ \A t \in Thread : pc[t] \in First
     \/ single /\ \A t \in Thread : pc[t] = "single"
     \/ ~single /\ \A t \in Thread : pc[t] \in Second
     \/ single /\ shared_indexes[curr] = kMaxBin /\ \A t \in Thread : pc[t] = "done"
  /\ single => \A t \in Thread : pc[t] \in {"voted", "single"} =>
       nextSlot > frontier_tails[curr] /\ \A b \in NonEmpty(t) : shared_indexes[next] <= b

\* The slots that a thread has reserved and not yet written.
Reserved(t) == relax[t].old + 1 .. relax[t].old + Len(Share(t))

\* Every slot of the frontier is written or reserved by one thread.
Slots ==
  /\ single => frontier_tails[curr] <= Len(frontier) /\ frontier_tails[next] = 0
  /\ ~single =>
       /\ frontier_tails[curr] = 0
       /\ \A i \in 1 .. frontier_tails[next] :
            i \in DOMAIN frontier \/ \E t \in Thread : pc[t] = "copy" /\ i \in Reserved(t)
       /\ \A t \in Thread : pc[t] = "copy" =>
            Elect(t) /\ relax[t].old + Len(Share(t)) <= frontier_tails[next]
       /\ \A s, t \in Thread : pc[s] = "copy" /\ pc[t] = "copy" /\ s # t =>
            Reserved(s) \cap Reserved(t) = {}

\* The least distance of the current bin.
Floor == delta * shared_indexes[curr]

\* The relaxation that a thread is in.
Relaxes(t) ==
  /\ pc[t] \notin Relaxing => work[t] = <<>>
  /\ pc[t] \in Relaxing => /\ work[t] # <<>> /\ dist[u[t]] >= Floor
                            /\ \A i \in DOMAIN work[t] : work[t][i] \in Edges(u[t])
  /\ pc[t] \in {"new", "cas"} => dist[work[t][1].v] <= relax[t].old /\ relax[t].old <= kDistInf
  /\ pc[t] \in {"cas", "reload"} => relax[t].new >= Floor /\ relax[t].new < kDistInf
  /\ pc[t] = "cas" => relax[t].new < relax[t].old
Relaxation == \A t \in Thread : Relaxes(t)

\* Where m waits with its edge e: in a slot not yet taken, at a thread that will
\* relax the edge with the present distance of m, in a bin, or in a slot of the
\* next frontier.
Queued(m) == single /\ InBin(m) /\ \E i \in nextSlot .. frontier_tails[curr] : frontier[i] = m

HeldBy(t, m, e) ==
  /\ pc[t] \in Relaxing /\ u[t] = m
  /\ \/ \E i \in 2 .. Len(work[t]) : work[t][i] = e
     \/ work[t][1] = e /\ (pc[t] \in {"cas", "reload"} => relax[t].new <= dist[m] + e.w)
Held(m, e) == \E t \in Thread : HeldBy(t, m, e)

InBins(t, b, m) == b < Len(local_bins[t]) /\ Contains(local_bins[t][b + 1], m)
Binned(m) ==
  /\ Bin(dist[m]) >= shared_indexes[IF single THEN curr ELSE next]
  /\ \E t \in Thread : InBins(t, Bin(dist[m]), m)

Copied(m) ==
  /\ ~single /\ Bin(dist[m]) = shared_indexes[next]
  /\ \E i \in 1 .. frontier_tails[next] :
       /\ i \in DOMAIN frontier /\ frontier[i] = m
       /\ \A t \in Thread : pc[t] = "copy" => i \notin Reserved(t)

Waits(m, e) == Queued(m) \/ Held(m, e) \/ Binned(m) \/ Copied(m)

NoneLost ==
  \A m \in Vertex : \A e \in Edges(m) : dist[m] + e.w < dist[e.v] => Waits(m, e)

IInv == TypeOK /\ Control /\ Slots /\ Relaxation /\ NoneLost

-----------------------------------------------------------------------------
(* The operators. *)

LEMMA Least ==
  ASSUME NEW T \in SUBSET Nat, T # {}
  PROVE  Min(T) \in T /\ \A y \in T : Min(T) <= y
<1>. DEFINE R == OpToRel(<, Nat)
<1>1. PICK x \in T : \A y \in T : <<y, x>> \notin R
  <2>1. IsWellFoundedOn(R, Nat)
    BY NatLessThanWellFounded
  <2>. HIDE DEF R
  <2>. QED
    BY <2>1, WFMin
<1>2. \A y \in T : ~(y < x)
  BY <1>1 DEF OpToRel
<1>3. \A y \in T : x <= y
  BY <1>2
<1>. QED
  BY <1>3 DEF Min

LEMMA EmptyIfZero ==
  ASSUME NEW V, NEW s \in Seq(V)
  PROVE  s = <<>> <=> Len(s) = 0
OBVIOUS

LEMMA Larger ==
  ASSUME NEW m \in Nat, NEW n \in Nat
  PROVE  Max({m, n}) \in {m, n} /\ Max({m, n}) >= m /\ Max({m, n}) >= n /\ Max({m, n}) \in Nat
<1>1. \E x \in {m, n} : \A y \in {m, n} : x >= y
  <2>1. CASE m >= n
    BY <2>1
  <2>2. CASE n >= m
    BY <2>2
  <2>. QED
    BY <2>1, <2>2
<1>2. Max({m, n}) \in {m, n} /\ \A y \in {m, n} : Max({m, n}) >= y
  BY <1>1 DEF Max
<1>. QED
  BY <1>2

\* The bins partition the distances in steps of delta.
LEMMA BinFacts ==
  ASSUME delta \in Nat \ {0}, NEW d \in Nat
  PROVE  /\ Bin(d) \in Nat /\ Bin(d) <= d
         /\ \A b \in Nat : b <= Bin(d) <=> d >= delta * b
<1>. DEFINE q == d \div delta
            r == d % delta
<1>1. d = q * delta + r
  BY SMTT(30)
<1>2. q \in Int /\ r \in 0 .. delta - 1
  OBVIOUS
<1>3. Bin(d) = q
  BY DEF Bin
<1>. HIDE DEF q, r
<1>4. q >= 0
  <2>1. q < 0 => q * delta <= -1 * delta
    BY <1>2
  <2>. QED
    BY <1>1, <1>2, <2>1
<1>5. q * delta >= q
  BY <1>2, <1>4
<1>6. ASSUME NEW b \in Nat, b <= q PROVE d >= delta * b
  <2>1. b * delta <= q * delta
    BY <1>2, <1>6
  <2>. QED
    BY <1>1, <1>2, <2>1
<1>7. ASSUME NEW b \in Nat, d >= delta * b PROVE b <= q
  <2>1. ~(b <= q) => (q + 1) * delta <= b * delta
    BY <1>2, <1>7
  <2>2. (q + 1) * delta = q * delta + delta
    BY <1>2
  <2>. QED
    BY <1>1, <1>2, <1>7, <2>1, <2>2
<1>. QED
  BY <1>1, <1>2, <1>3, <1>4, <1>5, <1>6, <1>7

\* push_back on a bin adds its vertex and keeps the rest.
LEMMA PushBinFacts ==
  ASSUME NEW V, NEW bins \in Seq(Seq(V)), NEW b \in Nat, NEW x \in V
  PROVE  LET r == PushBin(bins, b, x) IN
         /\ r \in Seq(Seq(V)) /\ b < Len(r) /\ Contains(r[b + 1], x)
         /\ \A c \in Nat : \A y : c < Len(bins) /\ Contains(bins[c + 1], y) => c < Len(r) /\ Contains(r[c + 1], y)
<1>. DEFINE n == Max({b + 1, Len(bins)})
            old(i) == IF i <= Len(bins) THEN bins[i] ELSE <<>>
            add(i) == IF i = b + 1 THEN <<x>> ELSE <<>>
            r == [i \in 1 .. n |-> old(i) \o add(i)]
<1>1. PushBin(bins, b, x) = r
  BY DEF PushBin
<1>2. n \in Nat /\ n >= b + 1 /\ n >= Len(bins) /\ Len(bins) \in Nat
  <2>1. Len(bins) \in Nat /\ b + 1 \in Nat
    OBVIOUS
  <2>. QED
    BY <2>1, Larger
<1>3. \A i \in 1 .. n : old(i) \in Seq(V) /\ add(i) \in Seq(V)
  BY <1>2
<1>4. ASSUME NEW s \in Seq(V), NEW z \in Seq(V)
      PROVE  /\ s \o z \in Seq(V)
             /\ \A y : Contains(s, y) => Contains(s \o z, y)
             /\ \A y : Contains(z, y) => Contains(s \o z, y)
  <2>1. s \o z \in Seq(V) /\ Len(s \o z) = Len(s) + Len(z) /\ Len(s) \in Nat /\ Len(z) \in Nat
    OBVIOUS
  <2>2. ASSUME NEW i \in 1 .. Len(s) PROVE i \in 1 .. Len(s \o z) /\ (s \o z)[i] = s[i]
    BY <2>1
  <2>3. ASSUME NEW i \in 1 .. Len(z) PROVE Len(s) + i \in 1 .. Len(s \o z) /\ (s \o z)[Len(s) + i] = z[i]
    BY <2>1
  <2>4. ASSUME NEW y, Contains(s, y) PROVE Contains(s \o z, y)
    BY <2>2, <2>4 DEF Contains
  <2>5. ASSUME NEW y, Contains(z, y) PROVE Contains(s \o z, y)
    BY <2>3, <2>5 DEF Contains
  <2>. QED
    BY <2>1, <2>4, <2>5
<1>5. \A i \in 1 .. Len(bins) : old(i) = bins[i]
  BY <1>2
<1>6. Contains(add(b + 1), x)
  <2>1. <<x>>[1] = x /\ Len(<<x>>) = 1
    OBVIOUS
  <2>. QED
    BY <2>1 DEF Contains
<1>. HIDE DEF n, old, add
<1>7. r \in Seq(Seq(V)) /\ Len(r) = n
  BY <1>2, <1>3, <1>4
<1>8. \A i \in 1 .. n : r[i] = old(i) \o add(i)
  OBVIOUS
<1>. HIDE DEF r
<1>9. b < Len(r) /\ Contains(r[b + 1], x)
  <2>1. b + 1 \in 1 .. n
    BY <1>2
  <2>2. old(b + 1) \in Seq(V) /\ add(b + 1) \in Seq(V) /\ r[b + 1] = old(b + 1) \o add(b + 1)
    BY <1>3, <1>8, <2>1
  <2>3. Contains(r[b + 1], x)
    BY <1>4, <1>6, <2>2
  <2>. QED
    BY <1>2, <1>7, <2>3
<1>10. ASSUME NEW c \in Nat, NEW y, c < Len(bins), Contains(bins[c + 1], y)
       PROVE  c < Len(r) /\ Contains(r[c + 1], y)
  <2>1. c + 1 \in 1 .. n /\ c + 1 \in 1 .. Len(bins)
    BY <1>2, <1>10
  <2>2. old(c + 1) \in Seq(V) /\ add(c + 1) \in Seq(V) /\ r[c + 1] = old(c + 1) \o add(c + 1)
    BY <1>3, <1>8, <2>1
  <2>3. Contains(old(c + 1), y)
    BY <1>5, <1>10, <2>1
  <2>4. Contains(r[c + 1], y)
    BY <1>4, <2>2, <2>3
  <2>. QED
    BY <1>2, <1>7, <1>10, <2>4
<1>. QED
  BY <1>1, <1>7, <1>9, <1>10

LEMMA GraphFacts ==
  ASSUME ConstantsSound, TypeOK
  PROVE  /\ \A m \in Vertex : out_neigh(m) \in Seq(Edge)
         /\ \A m \in Vertex : \A e \in Edges(m) : e \in Edge /\ e.v \in Vertex /\ e.w \in Nat
         /\ delta \in Nat \ {0} /\ kDistInf \in Nat /\ kMaxBin \in Nat /\ kDistInf <= kMaxBin
         /\ \A n \in Vertex : dist[n] \in Nat /\ dist[n] <= kDistInf
<1>1. delta \in Nat \ {0} /\ kDistInf \in Nat /\ kMaxBin \in Nat /\ kDistInf <= kMaxBin
  BY DEF ConstantsSound, TypeOK
<1>. DEFINE S == Seq(Edge)
<1>2. g \in Seq(S)
  BY DEF ConstantsSound, TypeOK, WGraph, Edge, Vertex
<1>. HIDE DEF S
<1>3. Len(g) \in Nat /\ \A i \in 1 .. Len(g) : g[i] \in S
  BY <1>2
<1>4. \A m \in Vertex : out_neigh(m) \in S
  BY <1>3 DEF Vertex, out_neigh
<1>5. ASSUME NEW m \in Vertex, NEW e \in Edges(m) PROVE e \in Edge
  <2>1. out_neigh(m) \in Seq(Edge)
    BY <1>4 DEF S
  <2>. QED
    BY <1>5, <2>1 DEF Edges, ToSet
<1>6. \A e \in Edge : e.v \in Vertex /\ e.w \in Nat
  BY DEF Edge
<1>7. \A n \in Vertex : dist[n] \in Nat /\ dist[n] <= kDistInf
  BY <1>1 DEF TypeOK
<1>. QED
  BY <1>1, <1>4, <1>5, <1>6, <1>7 DEF S

LEMMA SameGraph ==
  ASSUME g' = g
  PROVE  /\ Vertex' = Vertex /\ Edge' = Edge /\ Bins' = Bins
         /\ \A m : Edges(m)' = Edges(m) /\ out_neigh(m)' = out_neigh(m)
<1>1. Vertex' = Vertex
  BY DEF Vertex
<1>. QED
  BY <1>1 DEF Edge, Bins, Edges, out_neigh

\* The two buffers.
LEMMA Parity ==
  ASSUME TypeOK
  PROVE  /\ curr \in {0, 1} /\ next \in {0, 1} /\ curr # next
         /\ shared_indexes[curr] \in Nat /\ shared_indexes[next] \in Nat
         /\ frontier_tails[curr] \in Nat /\ frontier_tails[next] \in Nat
<1>1. curr \in {0, 1} /\ next \in {0, 1} /\ curr # next
  BY DEF TypeOK, curr, next
<1>. QED
  BY <1>1 DEF TypeOK

-----------------------------------------------------------------------------
(* First phase: the steps that leave the distances alone. *)

LEMMA InFirst ==
  ASSUME Control, NEW t \in Thread, pc[t] \in First
  PROVE  single /\ \A s \in Thread : pc[s] \in First
BY DEF Control, First, Second, Relaxing

LEMMA RelaxingStep ==
  ASSUME ConstantsSound, IInv, NEW t \in Thread, pc[t] \in Relaxing,
         NEW p \in Relaxing \cup {"loop"}, NEW wk \in Seq(Edge), NEW rx \in Entries,
         pc' = [pc EXCEPT ![t] = p], work' = [work EXCEPT ![t] = wk], relax' = [relax EXCEPT ![t] = rx],
         UNCHANGED <<g, source, delta, dist, frontier, shared_indexes, frontier_tails, iter, nextSlot,
                     single, local_bins, u>>,
         Relaxes(t)',
         \A e \in Edges(u[t]) : dist[u[t]] + e.w < dist[e.v] /\ HeldBy(t, u[t], e) => HeldBy(t, u[t], e)'
  PROVE  IInv'
<1>. USE DEF IInv
<1>1. single /\ (\A s \in Thread : pc[s] \in First) /\ p \in First /\ p \notin {"voted", "single", "copy"}
  BY InFirst DEF First, Relaxing
<1>2. /\ pc'[t] = p /\ work'[t] = wk /\ relax'[t] = rx
      /\ \A s \in Thread : s # t => pc'[s] = pc[s] /\ work'[s] = work[s] /\ relax'[s] = relax[s]
  BY DEF TypeOK
<1>3. Vertex' = Vertex /\ Edge' = Edge /\ Bins' = Bins /\ \A m : Edges(m)' = Edges(m)
  BY SameGraph
<1>4. curr' = curr /\ next' = next /\ Floor' = Floor
  BY DEF curr, next, Floor
<1>5. TypeOK'
  BY <1>1, <1>3 DEF TypeOK
<1>6. Control'
  <2>1. \A s \in Thread : NonEmpty(s)' = NonEmpty(s)
    BY <1>4 DEF NonEmpty
  <2>2. \A s \in Thread : pc'[s] \in First
    BY <1>1, <1>2
  <2>3. \A s \in Thread : pc'[s] \in {"voted", "single"} => pc'[s] = pc[s]
    BY <1>1, <1>2
  <2>. QED
    BY <1>1, <1>4, <2>1, <2>2, <2>3 DEF Control
<1>7. Slots'
  BY <1>1, <1>4 DEF Slots
<1>8. \A s \in Thread : s # t => Relaxes(s)'
  BY <1>2, <1>3, <1>4 DEF Relaxation, Relaxes
<1>9. ASSUME NEW m \in Vertex, NEW e \in Edges(m), dist[m] + e.w < dist[e.v] PROVE Waits(m, e)'
  <2>1. Waits(m, e) /\ ~Copied(m)
    BY <1>1, <1>9 DEF NoneLost, Copied
  <2>2. CASE Queued(m)
    BY <1>4, <2>2 DEF Queued, InBin, Waits
  <2>3. CASE Binned(m)
    BY <1>4, <2>3 DEF Binned, Bin, InBins, Waits
  <2>4. ASSUME NEW s \in Thread, HeldBy(s, m, e) PROVE HeldBy(s, m, e)'
    <3>1. CASE s = t
      BY <1>9, <2>4, <3>1 DEF HeldBy
    <3>2. CASE s # t
      BY <1>2, <2>4, <3>2 DEF HeldBy
    <3>. QED
      BY <3>1, <3>2
  <2>. QED
    BY <2>1, <2>2, <2>3, <2>4 DEF Waits, Held
<1>10. NoneLost'
  BY <1>3, <1>9 DEF NoneLost
<1>. QED
  BY <1>5, <1>6, <1>7, <1>8, <1>10 DEF Relaxation

\* What a thread is at.
LEMMA AtEdge ==
  ASSUME ConstantsSound, IInv, NEW t \in Thread, pc[t] \in Relaxing
  PROVE  /\ work[t] \in Seq(Edge) /\ work[t] # <<>> /\ Len(work[t]) \in Nat \ {0}
         /\ work[t][1] = Head(work[t]) /\ Head(work[t]) \in Edges(u[t])
         /\ u[t] \in Vertex /\ Head(work[t]).v \in Vertex /\ Head(work[t]).w \in Nat
         /\ dist[u[t]] \in Nat /\ dist[Head(work[t]).v] \in 0 .. kDistInf
         /\ relax[t] \in Entries /\ relax[t].old \in Nat /\ relax[t].new \in Nat /\ Floor \in Int
<1>1. work[t] \in Seq(Edge) /\ work[t] # <<>> /\ u[t] \in Vertex /\ relax[t] \in Entries
  BY DEF IInv, TypeOK, Relaxation, Relaxes
<1>2. Len(work[t]) \in Nat \ {0} /\ work[t][1] = Head(work[t]) /\ 1 \in DOMAIN work[t]
  BY <1>1
<1>3. Head(work[t]) \in Edges(u[t])
  BY <1>2 DEF IInv, Relaxation, Relaxes
<1>4. Head(work[t]).v \in Vertex /\ Head(work[t]).w \in Nat
  BY <1>1, <1>3, GraphFacts DEF IInv
<1>5. dist[u[t]] \in Nat /\ dist[Head(work[t]).v] \in 0 .. kDistInf
  BY <1>1, <1>4, GraphFacts DEF IInv, TypeOK
<1>6. relax[t].old \in Nat /\ relax[t].new \in Nat
  BY <1>1 DEF Entries
<1>7. Floor \in Int
  <2>1. delta \in Nat /\ shared_indexes[curr] \in Nat
    BY Parity, GraphFacts DEF IInv
  <2>. QED
    BY <2>1 DEF Floor
<1>. QED
  BY <1>1, <1>2, <1>3, <1>4, <1>5, <1>6, <1>7

LEMMA LoadOldStep == ASSUME ConstantsSound, IInv, NEW t \in Thread, LoadOld(t) PROVE IInv'
<1>. DEFINE rx == [relax[t] EXCEPT !.old = dist[Head(work[t]).v]]
<1>1. /\ pc[t] = "old" /\ pc' = [pc EXCEPT ![t] = "new"] /\ relax' = [relax EXCEPT ![t] = rx]
      /\ work' = [work EXCEPT ![t] = work[t]]
  BY DEF LoadOld, Goto, IInv, TypeOK
<1>2. UNCHANGED <<g, source, delta, dist, frontier, shared_indexes, frontier_tails, iter, nextSlot, single, local_bins, u>>
  BY DEF LoadOld, config, shared
<1>3. pc[t] \in Relaxing /\ "new" \in Relaxing \cup {"loop"}
  BY <1>1 DEF Relaxing
<1>4. rx \in Entries /\ rx.old = dist[Head(work[t]).v] /\ work[t] \in Seq(Edge)
  BY <1>3, AtEdge DEF Entries
<1>5. pc'[t] = "new" /\ work'[t] = work[t] /\ relax'[t] = rx
  BY <1>1 DEF IInv, TypeOK
<1>. HIDE DEF rx
<1>6. /\ work[t] # <<>> /\ dist[u[t]] >= Floor /\ (\A i \in DOMAIN work[t] : work[t][i] \in Edges(u[t]))
      /\ work[t][1] = Head(work[t]) /\ dist[work[t][1].v] \in 0 .. kDistInf
  BY <1>3, AtEdge DEF IInv, Relaxation, Relaxes
<1>7. Floor' = Floor /\ \A m : Edges(m)' = Edges(m)
  BY <1>2, SameGraph DEF Floor, curr
<1>8. dist[work[t][1].v] <= rx.old /\ rx.old <= kDistInf
  BY <1>4, <1>6, GraphFacts DEF IInv
<1>9. Relaxes(t)'
  BY <1>2, <1>5, <1>6, <1>7, <1>8 DEF Relaxes, Relaxing
<1>10. \A e \in Edges(u[t]) : HeldBy(t, u[t], e) => HeldBy(t, u[t], e)'
  BY <1>2, <1>5 DEF HeldBy, Relaxing
<1>. QED
  BY <1>1, <1>2, <1>3, <1>4, <1>9, <1>10, RelaxingStep

\* What NextEdge leaves of the thread's work.
LEMMA Advance ==
  ASSUME ConstantsSound, IInv, NEW t \in Thread, pc[t] \in Relaxing, NextEdge(t)
  PROVE  /\ pc' = [pc EXCEPT ![t] = pc'[t]] /\ work' = [work EXCEPT ![t] = work'[t]] /\ relax' = [relax EXCEPT ![t] = NoRelax]
         /\ pc'[t] \in {"loop", "old"} /\ work'[t] \in Seq(Edge) /\ NoRelax \in Entries
         /\ (pc'[t] = "old" => work'[t] # <<>>) /\ (pc'[t] = "loop" => work'[t] = <<>>)
         /\ \A i \in DOMAIN work'[t] : work'[t][i] \in Edges(u[t])
         /\ \A e : (\E i \in 2 .. Len(work[t]) : work[t][i] = e) =>
              pc'[t] = "old" /\ (work'[t][1] = e \/ \E j \in 2 .. Len(work'[t]) : work'[t][j] = e)
<1>. DEFINE p == IF Len(work[t]) = 1 THEN "loop" ELSE "old"
            wk == Tail(work[t])
<1>1. pc' = [pc EXCEPT ![t] = p] /\ work' = [work EXCEPT ![t] = wk] /\ relax' = [relax EXCEPT ![t] = NoRelax]
  BY DEF NextEdge, Goto
<1>2. work[t] \in Seq(Edge) /\ work[t] # <<>> /\ Len(work[t]) \in Nat \ {0}
  BY AtEdge
<1>3. /\ wk \in Seq(Edge) /\ Len(wk) = Len(work[t]) - 1 /\ \A i \in 1 .. Len(wk) : wk[i] = work[t][i + 1]
      /\ NoRelax \in Entries /\ p \in {"loop", "old"}
  BY <1>2 DEF Entries, NoRelax
<1>4. pc'[t] = p /\ work'[t] = wk
  BY <1>1 DEF IInv, TypeOK
<1>5. \A i \in DOMAIN work[t] : work[t][i] \in Edges(u[t])
  BY DEF IInv, Relaxation, Relaxes
<1>6. \A i \in DOMAIN wk : wk[i] \in Edges(u[t])
  <2>1. \A i \in DOMAIN wk : i \in 1 .. Len(wk) /\ i + 1 \in DOMAIN work[t]
    BY <1>2, <1>3
  <2>. QED
    BY <1>3, <1>5, <2>1
<1>7. (p = "loop" <=> Len(work[t]) = 1) /\ (p = "old" <=> Len(work[t]) # 1)
  OBVIOUS
<1>. HIDE DEF wk, p
<1>8. (p = "old" => wk # <<>>) /\ (p = "loop" => wk = <<>>)
  <2>1. wk = <<>> <=> Len(wk) = 0
    BY <1>3, EmptyIfZero
  <2>2. Len(wk) = 0 <=> Len(work[t]) = 1
    BY <1>2, <1>3
  <2>. QED
    BY <1>7, <2>1, <2>2
<1>9. ASSUME NEW e, NEW i \in 2 .. Len(work[t]), work[t][i] = e
      PROVE  p = "old" /\ (wk[1] = e \/ \E j \in 2 .. Len(wk) : wk[j] = e)
  <2>1. p = "old" /\ i - 1 \in 1 .. Len(wk) /\ wk[i - 1] = e
    BY <1>2, <1>3, <1>7, <1>9
  <2>. QED
    BY <1>2, <1>3, <1>9, <2>1
<1>. QED
  BY <1>1, <1>3, <1>4, <1>6, <1>8, <1>9

\* A thread goes on to its next edge when it has nothing to gain from this one.
LEMMA NextEdgeStep ==
  ASSUME ConstantsSound, IInv, NEW t \in Thread, pc[t] \in Relaxing, NextEdge(t),
         UNCHANGED <<g, source, delta, dist, frontier, shared_indexes, frontier_tails, iter, nextSlot,
                     single, local_bins, u>>,
         dist[u[t]] + Head(work[t]).w < dist[Head(work[t]).v] =>
           pc[t] \in {"cas", "reload"} /\ ~(relax[t].new <= dist[u[t]] + Head(work[t]).w)
  PROVE  IInv'
<1>. DEFINE p == pc'[t]
            wk == work'[t]
<1>1. /\ pc' = [pc EXCEPT ![t] = p] /\ work' = [work EXCEPT ![t] = wk] /\ relax' = [relax EXCEPT ![t] = NoRelax]
      /\ p \in {"loop", "old"} /\ wk \in Seq(Edge) /\ NoRelax \in Entries
      /\ (p = "old" => wk # <<>>) /\ (p = "loop" => wk = <<>>)
      /\ \A i \in DOMAIN wk : wk[i] \in Edges(u[t])
      /\ \A e : (\E i \in 2 .. Len(work[t]) : work[t][i] = e) =>
           p = "old" /\ (wk[1] = e \/ \E j \in 2 .. Len(wk) : wk[j] = e)
  BY Advance, Zenon
<1>2. work[t][1] = Head(work[t])
  BY AtEdge
<1>3. Floor' = Floor /\ \A m : Edges(m)' = Edges(m)
  BY SameGraph DEF Floor, curr
<1>4. Relaxes(t)'
  <2>1. dist[u[t]] >= Floor
    BY DEF IInv, Relaxation, Relaxes
  <2>. QED
    BY <1>1, <1>3, <2>1 DEF Relaxes, Relaxing
<1>5. ASSUME NEW e \in Edges(u[t]), dist[u[t]] + e.w < dist[e.v], HeldBy(t, u[t], e)
      PROVE  HeldBy(t, u[t], e)'
  <2>1. \E i \in 2 .. Len(work[t]) : work[t][i] = e
    BY <1>2, <1>5 DEF HeldBy
  <2>2. p = "old" /\ (wk[1] = e \/ \E j \in 2 .. Len(wk) : wk[j] = e)
    BY <1>1, <2>1
  <2>. QED
    BY <2>2 DEF HeldBy, Relaxing
<1>6. p \in Relaxing \cup {"loop"}
  BY <1>1 DEF Relaxing
<1>. HIDE DEF p, wk
<1>. QED
  BY <1>1, <1>4, <1>5, <1>6, RelaxingStep

LEMMA LoadNewStep == ASSUME ConstantsSound, IInv, NEW t \in Thread, LoadNew(t) PROVE IInv'
<1>. DEFINE e == Head(work[t])
            new == dist[u[t]] + e.w
            rx == [relax[t] EXCEPT !.new = new]
<1>1. UNCHANGED <<g, source, delta, dist, frontier, shared_indexes, frontier_tails, iter, nextSlot, single, local_bins, u>>
  BY DEF LoadNew, config, shared
<1>2. pc[t] = "new" /\ pc[t] \in Relaxing
  BY DEF LoadNew, Relaxing
<1>3. /\ work[t] \in Seq(Edge) /\ work[t] # <<>> /\ work[t][1] = e /\ new \in Nat /\ dist[e.v] \in 0 .. kDistInf
      /\ relax[t] \in Entries /\ relax[t].old \in Nat /\ kDistInf \in Nat /\ Floor \in Int /\ e.w \in Nat /\ dist[u[t]] \in Nat
  BY <1>2, AtEdge, GraphFacts DEF IInv
<1>4. /\ dist[u[t]] >= Floor /\ (\A i \in DOMAIN work[t] : work[t][i] \in Edges(u[t])) /\ dist[e.v] <= relax[t].old
      /\ relax[t].old <= kDistInf
  BY <1>2, <1>3 DEF IInv, Relaxation, Relaxes
<1>5. CASE new < relax[t].old
  <2>1. pc' = [pc EXCEPT ![t] = "cas"] /\ relax' = [relax EXCEPT ![t] = rx] /\ work' = [work EXCEPT ![t] = work[t]]
    BY <1>5 DEF LoadNew, Goto, IInv, TypeOK
  <2>2. rx \in Entries /\ rx.new = new /\ rx.old = relax[t].old
    BY <1>3 DEF Entries
  <2>3. pc'[t] = "cas" /\ work'[t] = work[t] /\ relax'[t] = rx
    BY <2>1 DEF IInv, TypeOK
  <2>4. Floor' = Floor /\ \A m : Edges(m)' = Edges(m)
    BY <1>1, SameGraph DEF Floor, curr
  <2>5. "cas" \in Relaxing \cup {"loop"} /\ "cas" \in Relaxing /\ "new" \in Relaxing
    BY DEF Relaxing
  <2>6. new < kDistInf /\ new >= Floor
    BY <1>3, <1>4, <1>5
  <2>. HIDE DEF rx, new
  <2>7. Relaxes(t)'
    BY <1>1, <1>3, <1>4, <1>5, <2>2, <2>3, <2>4, <2>5, <2>6 DEF Relaxes
  <2>8. ASSUME NEW f \in Edges(u[t]), HeldBy(t, u[t], f) PROVE HeldBy(t, u[t], f)'
    <3>1. work[t][1] = f => rx.new <= dist[u[t]] + f.w
      BY <1>3, <2>2 DEF new
    <3>. QED
      BY <1>1, <2>3, <2>5, <2>8, <3>1 DEF HeldBy
  <2>. QED
    BY <1>1, <1>2, <1>3, <2>1, <2>2, <2>5, <2>7, <2>8, RelaxingStep
<1>6. CASE ~(new < relax[t].old)
  <2>1. NextEdge(t)
    BY <1>6 DEF LoadNew
  <2>2. ~(dist[u[t]] + e.w < dist[e.v])
    BY <1>3, <1>4, <1>6
  <2>. QED
    BY <1>1, <1>2, <2>1, <2>2, NextEdgeStep
<1>. QED
  BY <1>5, <1>6

LEMMA ReloadStep == ASSUME ConstantsSound, IInv, NEW t \in Thread, Reload(t) PROVE IInv'
<1>. DEFINE e == Head(work[t])
            old == dist[e.v]
            rx == [relax[t] EXCEPT !.old = old]
<1>1. UNCHANGED <<g, source, delta, dist, frontier, shared_indexes, frontier_tails, iter, nextSlot, single, local_bins, u>>
  BY DEF Reload, config, shared
<1>2. pc[t] = "reload" /\ pc[t] \in Relaxing
  BY DEF Reload, Relaxing
<1>3. /\ work[t] \in Seq(Edge) /\ work[t] # <<>> /\ work[t][1] = e /\ old \in 0 .. kDistInf
      /\ relax[t] \in Entries /\ relax[t].new \in Nat /\ kDistInf \in Nat /\ e.w \in Nat /\ dist[u[t]] \in Nat
  BY <1>2, AtEdge, GraphFacts DEF IInv
<1>4. /\ dist[u[t]] >= Floor /\ (\A i \in DOMAIN work[t] : work[t][i] \in Edges(u[t]))
      /\ relax[t].new >= Floor /\ relax[t].new < kDistInf
  BY <1>2, <1>3 DEF IInv, Relaxation, Relaxes
<1>5. CASE ~(old <= relax[t].new)
  <2>1. pc' = [pc EXCEPT ![t] = "cas"] /\ relax' = [relax EXCEPT ![t] = rx] /\ work' = [work EXCEPT ![t] = work[t]]
    BY <1>5 DEF Reload, Goto, IInv, TypeOK
  <2>2. rx \in Entries /\ rx.old = old /\ rx.new = relax[t].new
    BY <1>3 DEF Entries
  <2>3. pc'[t] = "cas" /\ work'[t] = work[t] /\ relax'[t] = rx
    BY <2>1 DEF IInv, TypeOK
  <2>4. Floor' = Floor /\ \A m : Edges(m)' = Edges(m)
    BY <1>1, SameGraph DEF Floor, curr
  <2>5. "cas" \in Relaxing \cup {"loop"} /\ "cas" \in Relaxing
    BY DEF Relaxing
  <2>6. rx.new < rx.old /\ old <= rx.old /\ rx.old <= kDistInf
    BY <1>3, <1>5, <2>2
  <2>. HIDE DEF rx
  <2>7. Relaxes(t)'
    BY <1>1, <1>3, <1>4, <2>2, <2>3, <2>4, <2>5, <2>6 DEF Relaxes
  <2>8. ASSUME NEW f \in Edges(u[t]), HeldBy(t, u[t], f) PROVE HeldBy(t, u[t], f)'
    BY <1>1, <1>2, <2>2, <2>3, <2>5, <2>8 DEF HeldBy
  <2>. QED
    BY <1>1, <1>2, <1>3, <2>1, <2>2, <2>5, <2>7, <2>8, RelaxingStep
<1>6. CASE old <= relax[t].new
  <2>1. NextEdge(t)
    BY <1>6 DEF Reload
  <2>2. dist[u[t]] + e.w < dist[e.v] => pc[t] \in {"cas", "reload"} /\ ~(relax[t].new <= dist[u[t]] + e.w)
    BY <1>2, <1>3, <1>6
  <2>. QED
    BY <1>1, <1>2, <2>1, <2>2, NextEdgeStep
<1>. QED
  BY <1>5, <1>6

-----------------------------------------------------------------------------
(* The swap that lowers a distance. *)

LEMMA Lowers ==
  ASSUME ConstantsSound, IInv, NEW t \in Thread, Cas(t), dist[Head(work[t]).v] = relax[t].old
  PROVE  IInv'
<1>. DEFINE p == pc'[t]
            wk == work'[t]
<1>. USE DEF IInv
<1>1. pc[t] = "cas" /\ pc[t] \in Relaxing /\ NextEdge(t)
  BY DEF Cas, Relaxing
<1>2. PICK v \in Vertex, d \in Nat : v = Head(work[t]).v /\ d = relax[t].new
  BY <1>1, AtEdge
<1>3. /\ dist' = [dist EXCEPT ![v] = d] /\ local_bins' = [local_bins EXCEPT ![t] = PushBin(@, Bin(d), v)]
      /\ UNCHANGED <<g, source, delta, frontier, shared_indexes, frontier_tails, iter, nextSlot, single, u>>
  BY <1>2 DEF Cas, config, shared
<1>4. /\ pc' = [pc EXCEPT ![t] = p] /\ work' = [work EXCEPT ![t] = wk] /\ relax' = [relax EXCEPT ![t] = NoRelax]
      /\ p \in {"loop", "old"} /\ wk \in Seq(Edge) /\ NoRelax \in Entries
      /\ (p = "old" => wk # <<>>) /\ (p = "loop" => wk = <<>>)
      /\ \A i \in DOMAIN wk : wk[i] \in Edges(u[t])
      /\ \A e : (\E i \in 2 .. Len(work[t]) : work[t][i] = e) =>
           p = "old" /\ (wk[1] = e \/ \E j \in 2 .. Len(wk) : wk[j] = e)
  BY <1>1, Advance, Zenon
<1>5. work[t][1] = Head(work[t]) /\ u[t] \in Vertex /\ Floor \in Int
  BY <1>1, AtEdge
<1>6. dist[v] \in Nat /\ d < dist[v] /\ d >= Floor /\ d < kDistInf
  BY <1>1, <1>2, GraphFacts DEF Relaxation, Relaxes
<1>7. single /\ (\A s \in Thread : pc[s] \in First) /\ p \in First /\ p \notin {"voted", "single", "copy"}
  BY <1>1, <1>4, InFirst DEF First, Relaxing
<1>8. /\ relax'[t] = NoRelax
      /\ \A s \in Thread : s # t => /\ pc'[s] = pc[s] /\ work'[s] = work[s] /\ relax'[s] = relax[s]
                                    /\ local_bins'[s] = local_bins[s]
  BY <1>3, <1>4 DEF TypeOK
<1>9. Vertex' = Vertex /\ Edge' = Edge /\ Bins' = Bins /\ \A m : Edges(m)' = Edges(m)
  BY <1>3, SameGraph
<1>10. curr' = curr /\ next' = next /\ Floor' = Floor /\ \A x : Bin(x)' = Bin(x)
  BY <1>3 DEF curr, next, Floor, Bin
<1>11. delta \in Nat \ {0} /\ kDistInf \in Nat /\ shared_indexes[curr] \in Nat /\ \A n \in Vertex : dist[n] \in Nat
  BY GraphFacts, Parity
<1>12. dist'[v] = d /\ \A n \in Vertex : (n # v => dist'[n] = dist[n]) /\ dist'[n] <= dist[n]
  <2>1. dist'[v] = d /\ \A n \in Vertex : n # v => dist'[n] = dist[n]
    BY <1>3 DEF TypeOK
  <2>. QED
    BY <1>6, <1>11, <2>1
<1>13. Bin(d) \in Nat /\ Bin(d) >= shared_indexes[curr]
  BY <1>6, <1>11, BinFacts DEF Floor
<1>14. /\ local_bins'[t] \in Bins /\ InBins(t, Bin(d), v)'
       /\ \A c \in Nat : \A y : InBins(t, c, y) => c < Len(local_bins'[t]) /\ Contains(local_bins'[t][c + 1], y)
  <2>1. local_bins[t] \in Seq(Seq(Vertex)) /\ local_bins'[t] = PushBin(local_bins[t], Bin(d), v)
    BY <1>3 DEF TypeOK, Bins
  <2>2. /\ local_bins'[t] \in Bins /\ Bin(d) < Len(local_bins'[t]) /\ Contains(local_bins'[t][Bin(d) + 1], v)
        /\ \A c \in Nat : \A y : c < Len(local_bins[t]) /\ Contains(local_bins[t][c + 1], y) =>
                                 c < Len(local_bins'[t]) /\ Contains(local_bins'[t][c + 1], y)
    BY <1>13, <2>1, PushBinFacts DEF Bins
  <2>. QED
    BY <1>10, <2>2 DEF InBins
<1>15. TypeOK'
  <2>1. dist' \in [Vertex -> 0 .. kDistInf]
    BY <1>3, <1>6, <1>11 DEF TypeOK
  <2>2. local_bins' \in [Thread -> Bins]
    BY <1>3, <1>14 DEF TypeOK
  <2>3. pc' \in [Thread -> First \cup Second \cup {"done"}] /\ work' \in [Thread -> Seq(Edge)] /\ relax' \in [Thread -> Entries]
    BY <1>4, <1>7 DEF TypeOK
  <2>. QED
    BY <1>3, <1>9, <2>1, <2>2, <2>3 DEF TypeOK
<1>16. Control'
  <2>1. \A s \in Thread : s # t => NonEmpty(s)' = NonEmpty(s)
    BY <1>3, <1>8, <1>10 DEF NonEmpty
  <2>2. \A s \in Thread : pc'[s] \in First /\ (pc'[s] \in {"voted", "single"} => s # t /\ pc'[s] = pc[s])
    BY <1>7, <1>8
  <2>. QED
    BY <1>3, <1>7, <1>10, <2>1, <2>2 DEF Control
<1>17. Slots'
  BY <1>3, <1>7, <1>10 DEF Slots
<1>18. \A n \in Vertex : dist[n] >= Floor => dist'[n] >= Floor
  BY <1>6, <1>12
<1>19. ASSUME NEW s \in Thread, s # t PROVE Relaxes(s)'
  <2>1. Relaxes(s) /\ u[s] \in Vertex
    BY DEF Relaxation, TypeOK
  <2>2. ASSUME pc[s] \in {"new", "cas"} PROVE dist'[work[s][1].v] <= relax[s].old
    <3>1. pc[s] \in Relaxing
      BY <2>2 DEF Relaxing
    <3>2. work[s][1].v \in Vertex /\ relax[s].old \in Nat
      BY <3>1, AtEdge
    <3>3. dist[work[s][1].v] <= relax[s].old
      BY <2>1, <2>2 DEF Relaxes
    <3>4. dist'[work[s][1].v] <= dist[work[s][1].v] /\ dist[work[s][1].v] \in Nat /\ dist'[work[s][1].v] \in Nat
      BY <1>11, <1>12, <3>2
    <3>. QED
      BY <3>2, <3>3, <3>4
  <2>3. pc[s] \in Relaxing => dist'[u[s]] >= Floor
    BY <1>18, <2>1 DEF Relaxes
  <2>4. pc'[s] = pc[s] /\ work'[s] = work[s] /\ relax'[s] = relax[s] /\ u' = u
    BY <1>3, <1>8, <1>19
  <2>. QED
    BY <1>9, <1>10, <2>1, <2>2, <2>3, <2>4 DEF Relaxes
<1>20. Relaxes(t)'
  <2>1. dist[u[t]] >= Floor
    BY <1>1 DEF Relaxation, Relaxes
  <2>. QED
    BY <1>3, <1>4, <1>5, <1>9, <1>10, <1>18, <2>1 DEF Relaxes, Relaxing
<1>21. ASSUME NEW m \in Vertex, NEW e \in Edges(m), dist'[m] + e.w < dist'[e.v] PROVE Waits(m, e)'
  <2>1. CASE m = v
    <3>1. Bin(dist[m])' = Bin(d)
      BY <1>3, <1>12, <2>1 DEF Bin
    <3>2. Binned(m)'
      BY <1>3, <1>7, <1>10, <1>13, <1>14, <2>1, <3>1 DEF Binned, InBins
    <3>. QED
      BY <3>2 DEF Waits
  <2>2. CASE m # v
    <3>1. e.v \in Vertex /\ e.w \in Nat /\ dist'[m] = dist[m] /\ dist'[e.v] <= dist[e.v] /\ dist[e.v] \in Nat /\ dist[m] \in Nat
      BY <1>11, <1>12, <2>2, GraphFacts
    <3>2. dist[m] + e.w < dist[e.v]
      <4>1. dist'[e.v] \in Nat
        BY <1>11, <1>12, <3>1
      <4>. QED
        BY <1>21, <3>1, <4>1
    <3>3. Waits(m, e) /\ ~Copied(m)
      BY <1>7, <3>2 DEF NoneLost, Copied
    <3>4. CASE Queued(m)
      BY <1>3, <1>10, <3>1, <3>4 DEF Queued, InBin, Waits
    <3>5. CASE Binned(m)
      <4>1. PICK s \in Thread : InBins(s, Bin(dist[m]), m)
        BY <3>5 DEF Binned
      <4>2. Bin(dist[m]) \in Nat /\ Bin(dist[m])' = Bin(dist[m])
        BY <1>3, <1>11, <3>1, BinFacts DEF Bin
      <4>3. Bin(dist[m]) < Len(local_bins'[s]) /\ Contains(local_bins'[s][Bin(dist[m]) + 1], m)
        BY <1>8, <1>14, <4>1, <4>2 DEF InBins
      <4>4. InBins(s, Bin(dist[m]), m)'
        BY <4>2, <4>3 DEF InBins
      <4>. QED
        BY <1>3, <1>10, <3>5, <4>2, <4>4 DEF Binned, Waits
    <3>6. ASSUME NEW s \in Thread, HeldBy(s, m, e) PROVE HeldBy(s, m, e)'
      <4>1. CASE s # t
        BY <1>3, <1>8, <3>1, <3>6, <4>1 DEF HeldBy
      <4>2. CASE s = t
        <5>1. ~(work[t][1] = e /\ relax[t].new <= dist[m] + e.w)
          BY <1>2, <1>5, <1>12, <1>21, <3>1
        <5>2. \E i \in 2 .. Len(work[t]) : work[t][i] = e
          BY <1>1, <3>6, <4>2, <5>1 DEF HeldBy
        <5>3. p = "old" /\ (wk[1] = e \/ \E j \in 2 .. Len(wk) : wk[j] = e)
          BY <1>4, <5>2
        <5>. QED
          BY <1>3, <3>6, <4>2, <5>3 DEF HeldBy, Relaxing
      <4>. QED
        BY <4>1, <4>2
    <3>. QED
      BY <3>3, <3>4, <3>5, <3>6 DEF Waits, Held
  <2>. QED
    BY <2>1, <2>2
<1>22. NoneLost'
  BY <1>9, <1>21 DEF NoneLost
<1>. QED
  BY <1>15, <1>16, <1>17, <1>19, <1>20, <1>22 DEF Relaxation

LEMMA CasStep == ASSUME ConstantsSound, IInv, NEW t \in Thread, Cas(t) PROVE IInv'
<1>1. CASE dist[Head(work[t]).v] = relax[t].old
  BY <1>1, Lowers
<1>2. CASE dist[Head(work[t]).v] # relax[t].old
  <2>1. /\ pc[t] = "cas" /\ pc' = [pc EXCEPT ![t] = "reload"] /\ work' = [work EXCEPT ![t] = work[t]]
        /\ relax' = [relax EXCEPT ![t] = relax[t]]
    BY <1>2 DEF Cas, Goto, IInv, TypeOK
  <2>2. UNCHANGED <<g, source, delta, dist, frontier, shared_indexes, frontier_tails, iter, nextSlot, single, local_bins, u>>
    BY <1>2 DEF Cas, config, shared
  <2>3. pc[t] \in Relaxing /\ "reload" \in Relaxing /\ "reload" \in Relaxing \cup {"loop"}
    BY <2>1 DEF Relaxing
  <2>4. work[t] \in Seq(Edge) /\ relax[t] \in Entries
    BY <2>3, AtEdge
  <2>5. pc'[t] = "reload" /\ work'[t] = work[t] /\ relax'[t] = relax[t]
    BY <2>1 DEF IInv, TypeOK
  <2>6. Floor' = Floor /\ \A m : Edges(m)' = Edges(m)
    BY <2>2, SameGraph DEF Floor, curr
  <2>7. Relaxes(t)'
    BY <2>1, <2>2, <2>3, <2>5, <2>6 DEF Relaxes, Relaxation, IInv
  <2>8. \A e \in Edges(u[t]) : HeldBy(t, u[t], e) => HeldBy(t, u[t], e)'
    BY <2>1, <2>2, <2>3, <2>5 DEF HeldBy
  <2>. QED
    BY <2>1, <2>2, <2>3, <2>4, <2>7, <2>8, RelaxingStep
<1>. QED
  BY <1>1, <1>2

-----------------------------------------------------------------------------
(* First phase: slots and votes. *)

LEMMA TakeStep == ASSUME ConstantsSound, IInv, NEW t \in Thread, Take(t) PROVE IInv'
<1>. USE DEF IInv
<1>. DEFINE p == pc'[t]
            wk == work'[t]
<1>1. pc[t] = "loop" /\ nextSlot <= frontier_tails[curr] /\ pc[t] \in First /\ pc[t] \notin Relaxing
  BY DEF Take, First, Relaxing
<1>2. single /\ \A s \in Thread : pc[s] \in First
  BY <1>1, InFirst
<1>3. nextSlot \in 1 .. Len(frontier) /\ frontier_tails[curr] \in Nat /\ nextSlot \in Nat
  BY <1>1, <1>2, Parity DEF Slots, TypeOK
<1>4. PICK n \in Vertex : n = frontier[nextSlot]
  BY <1>3 DEF TypeOK
<1>5. /\ nextSlot' = nextSlot + 1 /\ u' = [u EXCEPT ![t] = n]
      /\ work' = [work EXCEPT ![t] = IF InBin(n) THEN out_neigh(n) ELSE <<>>]
      /\ pc' = [pc EXCEPT ![t] = IF InBin(n) /\ out_neigh(n) # <<>> THEN "old" ELSE "loop"]
      /\ UNCHANGED <<g, source, delta, dist, frontier, shared_indexes, frontier_tails, iter, single, local_bins, relax>>
  BY <1>4 DEF Take, Goto, config, shared
<1>6. /\ u'[t] = n /\ work'[t] = (IF InBin(n) THEN out_neigh(n) ELSE <<>>)
      /\ pc'[t] = IF InBin(n) /\ out_neigh(n) # <<>> THEN "old" ELSE "loop"
      /\ \A s \in Thread : s # t => pc'[s] = pc[s] /\ work'[s] = work[s] /\ u'[s] = u[s]
  BY <1>5 DEF TypeOK
<1>7. out_neigh(n) \in Seq(Edge) /\ wk \in Seq(Edge)
  BY <1>6, GraphFacts
<1>8. /\ p \in {"loop", "old"} /\ (p = "old" => InBin(n) /\ wk = out_neigh(n) /\ wk # <<>>)
      /\ (p = "loop" => wk = <<>>) /\ (InBin(n) /\ out_neigh(n) # <<>> => p = "old")
  BY <1>6
<1>9. Vertex' = Vertex /\ Edge' = Edge /\ Bins' = Bins /\ \A m : Edges(m)' = Edges(m)
  BY <1>5, SameGraph
<1>10. curr' = curr /\ next' = next /\ Floor' = Floor
  BY <1>5 DEF curr, next, Floor
<1>11. TypeOK'
  <2>1. pc' \in [Thread -> First \cup Second \cup {"done"}]
    BY <1>5 DEF TypeOK, First, Relaxing
  <2>2. work' \in [Thread -> Seq(Edge)] /\ u' \in [Thread -> Vertex] /\ nextSlot' \in Nat \ {0}
    BY <1>3, <1>5, <1>7 DEF TypeOK
  <2>. QED
    BY <1>5, <1>9, <2>1, <2>2 DEF TypeOK
<1>12. Control'
  <2>1. \A s \in Thread : pc[s] \notin {"voted", "single"}
    BY <1>1, <1>2, <1>3 DEF Control
  <2>2. \A s \in Thread : pc'[s] \in First /\ pc'[s] \notin {"voted", "single"}
    BY <1>2, <1>6, <1>8, <2>1 DEF First, Relaxing
  <2>. QED
    BY <1>2, <1>5, <2>2 DEF Control
<1>13. Slots'
  BY <1>2, <1>5, <1>10 DEF Slots
<1>14. \A s \in Thread : s # t => Relaxes(s)'
  BY <1>5, <1>6, <1>9, <1>10 DEF Relaxation, Relaxes
<1>15. \A e \in Edges(n) : \E i \in 1 .. Len(out_neigh(n)) : out_neigh(n)[i] = e
  BY <1>7 DEF Edges, ToSet
<1>16. Relaxes(t)'
  <2>1. \A i \in DOMAIN out_neigh(n) : out_neigh(n)[i] \in Edges(n)
    BY DEF Edges, ToSet
  <2>2. InBin(n) => dist[n] >= Floor
    BY DEF InBin, Floor
  <2>. QED
    BY <1>5, <1>6, <1>8, <1>9, <1>10, <2>1, <2>2 DEF Relaxes, Relaxing
<1>17. ASSUME NEW m \in Vertex, NEW e \in Edges(m), dist[m] + e.w < dist[e.v] PROVE Waits(m, e)'
  <2>1. Waits(m, e) /\ ~Copied(m)
    BY <1>2, <1>17 DEF NoneLost, Copied
  <2>2. CASE Queued(m)
    <3>1. PICK i \in nextSlot .. frontier_tails[curr] : frontier[i] = m
      BY <2>2 DEF Queued
    <3>2. InBin(m) /\ InBin(m)'
      BY <1>5, <1>10, <2>2 DEF Queued, InBin
    <3>3. CASE i = nextSlot
      <4>1. m = n /\ InBin(n)
        BY <1>4, <3>1, <3>2, <3>3
      <4>2. PICK j \in 1 .. Len(out_neigh(n)) : out_neigh(n)[j] = e
        BY <1>15, <1>17, <4>1
      <4>3. out_neigh(n) # <<>>
        BY <1>7, <4>2, EmptyIfZero
      <4>4. p = "old" /\ wk = out_neigh(n)
        BY <1>8, <4>1, <4>3
      <4>5. wk[1] = e \/ \E k \in 2 .. Len(wk) : wk[k] = e
        BY <1>7, <4>2, <4>4
      <4>6. HeldBy(t, m, e)'
        BY <1>6, <4>1, <4>4, <4>5 DEF HeldBy, Relaxing
      <4>. QED
        BY <4>6 DEF Waits, Held
    <3>4. CASE i # nextSlot
      <4>1. i \in nextSlot' .. frontier_tails'[curr']
        BY <1>3, <1>5, <1>10, <3>1, <3>4
      <4>. QED
        BY <1>2, <1>5, <3>1, <3>2, <4>1 DEF Queued, Waits
    <3>. QED
      BY <3>3, <3>4
  <2>3. CASE Binned(m)
    BY <1>5, <1>10, <2>3 DEF Binned, Bin, InBins, Waits
  <2>4. ASSUME NEW s \in Thread, HeldBy(s, m, e) PROVE HeldBy(s, m, e)'
    <3>1. s # t
      BY <1>1, <2>4 DEF HeldBy
    <3>. QED
      BY <1>5, <1>6, <2>4, <3>1 DEF HeldBy
  <2>. QED
    BY <2>1, <2>2, <2>3, <2>4 DEF Waits, Held
<1>18. NoneLost'
  BY <1>5, <1>9, <1>17 DEF NoneLost
<1>. QED
  BY <1>11, <1>12, <1>13, <1>14, <1>16, <1>18 DEF Relaxation

LEMMA VoteStep == ASSUME ConstantsSound, IInv, NEW t \in Thread, Vote(t) PROVE IInv'
<1>. USE DEF IInv
<1>. DEFINE T == {shared_indexes[next]} \cup NonEmpty(t)
            b == shared_indexes'[next]
<1>1. pc[t] = "loop" /\ nextSlot > frontier_tails[curr] /\ pc[t] \in First /\ pc[t] \notin Relaxing
  BY DEF Vote, First, Relaxing
<1>2. single /\ \A s \in Thread : pc[s] \in First
  BY <1>1, InFirst
<1>3. /\ shared_indexes' = [shared_indexes EXCEPT ![next] = Min(T)] /\ pc' = [pc EXCEPT ![t] = "voted"]
      /\ UNCHANGED <<g, source, delta, dist, frontier, frontier_tails, iter, nextSlot, single, local_bins, work, u, relax>>
  BY DEF Vote, Goto, config, locals
<1>4. Vertex' = Vertex /\ Edge' = Edge /\ Bins' = Bins /\ \A m : Edges(m)' = Edges(m)
  BY <1>3, SameGraph
<1>5. /\ curr \in {0, 1} /\ next \in {0, 1} /\ curr # next
      /\ shared_indexes[curr] \in Nat /\ shared_indexes[next] \in 0 .. kMaxBin /\ kMaxBin \in Nat
  BY Parity, GraphFacts DEF TypeOK
<1>6. T \in SUBSET Nat /\ T # {} /\ shared_indexes[next] \in T
  <2>1. Len(local_bins[t]) \in Nat
    BY DEF TypeOK, Bins
  <2>. QED
    BY <1>5, <2>1 DEF NonEmpty
<1>. HIDE DEF T
<1>7. Min(T) \in Nat /\ Min(T) <= shared_indexes[next] /\ \A y \in T : Min(T) <= y
  BY <1>6, Least
<1>8. b = Min(T) /\ shared_indexes'[curr] = shared_indexes[curr] /\ b \in 0 .. kMaxBin
  BY <1>3, <1>5, <1>7 DEF TypeOK
<1>9. curr' = curr /\ next' = next /\ Floor' = Floor
  BY <1>3, <1>8 DEF curr, next, Floor
<1>10. pc'[t] = "voted" /\ \A s \in Thread : s # t => pc'[s] = pc[s]
  BY <1>3 DEF TypeOK
<1>11. TypeOK'
  <2>1. pc' \in [Thread -> First \cup Second \cup {"done"}]
    BY <1>3 DEF TypeOK, First
  <2>2. shared_indexes' \in [{0, 1} -> 0 .. kMaxBin]
    BY <1>3, <1>5, <1>8 DEF TypeOK
  <2>. QED
    BY <1>3, <1>4, <2>1, <2>2 DEF TypeOK
<1>12. Control'
  <2>1. \A s \in Thread : NonEmpty(s)' = NonEmpty(s)
    BY <1>3, <1>8, <1>9 DEF NonEmpty
  <2>2. \A s \in Thread : pc'[s] \in First
    BY <1>2, <1>10 DEF First
  <2>3. ASSUME NEW s \in Thread, pc'[s] \in {"voted", "single"}, NEW c \in NonEmpty(s)
        PROVE  b <= c
    <3>1. CASE s = t
      BY <1>7, <1>8, <2>3, <3>1 DEF T
    <3>2. CASE s # t
      <4>1. shared_indexes[next] <= c
        BY <1>2, <1>10, <2>3, <3>2 DEF Control
      <4>2. c \in Int
        BY <2>3 DEF NonEmpty
      <4>. QED
        BY <1>5, <1>7, <1>8, <4>1, <4>2
    <3>. QED
      BY <3>1, <3>2
  <2>. QED
    BY <1>1, <1>2, <1>3, <1>9, <2>1, <2>2, <2>3 DEF Control
<1>13. Slots'
  BY <1>2, <1>3, <1>9 DEF Slots
<1>14. Relaxation'
  <2>1. ASSUME NEW s \in Thread, s # t PROVE Relaxes(s)'
    BY <1>3, <1>4, <1>9, <1>10, <2>1 DEF Relaxation, Relaxes
  <2>2. Relaxes(t)'
    BY <1>1, <1>3, <1>10 DEF Relaxation, Relaxes, Relaxing
  <2>. QED
    BY <2>1, <2>2 DEF Relaxation
<1>15. ASSUME NEW m \in Vertex, NEW e \in Edges(m), dist[m] + e.w < dist[e.v] PROVE Waits(m, e)'
  <2>1. Waits(m, e) /\ ~Copied(m)
    BY <1>2, <1>15 DEF NoneLost, Copied
  <2>2. CASE Queued(m)
    BY <1>3, <1>8, <1>9, <2>2 DEF Queued, InBin, Waits
  <2>3. CASE Binned(m)
    BY <1>2, <1>3, <1>8, <1>9, <2>3 DEF Binned, Bin, InBins, Waits
  <2>4. ASSUME NEW s \in Thread, HeldBy(s, m, e) PROVE HeldBy(s, m, e)'
    <3>1. s # t
      BY <1>1, <2>4 DEF HeldBy
    <3>. QED
      BY <1>3, <1>10, <2>4, <3>1 DEF HeldBy
  <2>. QED
    BY <2>1, <2>2, <2>3, <2>4 DEF Waits, Held
<1>16. NoneLost'
  BY <1>3, <1>4, <1>15 DEF NoneLost
<1>. QED
  BY <1>11, <1>12, <1>13, <1>14, <1>16

-----------------------------------------------------------------------------
(* Second phase. *)

LEMMA ElectedStep == ASSUME ConstantsSound, IInv, Elected PROVE IInv'
<1>. USE DEF IInv
<1>1. /\ (\A t \in Thread : pc[t] = "voted") /\ pc' = [t \in Thread |-> "single"]
      /\ UNCHANGED <<g, source, delta, dist, frontier, shared_indexes, frontier_tails, iter, nextSlot, single,
                     local_bins, work, u, relax>>
  BY DEF Elected, config, shared, locals
<1>2. single
  <2>1. PICK t \in Thread : TRUE
    BY DEF ConstantsSound
  <2>. QED
    BY <1>1, <2>1 DEF Control, Second
<1>3. Vertex' = Vertex /\ Edge' = Edge /\ Bins' = Bins /\ \A m : Edges(m)' = Edges(m)
  BY <1>1, SameGraph
<1>4. curr' = curr /\ next' = next /\ Floor' = Floor
  BY <1>1 DEF curr, next, Floor
<1>5. TypeOK'
  <2>1. pc' \in [Thread -> First \cup Second \cup {"done"}]
    BY <1>1 DEF Second
  <2>. QED
    BY <1>1, <1>3, <2>1 DEF TypeOK
<1>6. Control'
  <2>1. \A s \in Thread : NonEmpty(s)' = NonEmpty(s)
    BY <1>1, <1>4 DEF NonEmpty
  <2>. QED
    BY <1>1, <1>2, <1>4, <2>1 DEF Control
<1>7. Slots'
  BY <1>1, <1>2, <1>4 DEF Slots
<1>8. Relaxation'
  BY <1>1 DEF Relaxation, Relaxes, Relaxing
<1>9. ASSUME NEW m \in Vertex, NEW e \in Edges(m), dist[m] + e.w < dist[e.v] PROVE Waits(m, e)'
  <2>1. Waits(m, e) /\ ~Copied(m) /\ ~Held(m, e)
    BY <1>1, <1>2, <1>9 DEF NoneLost, Copied, Held, HeldBy, Relaxing
  <2>2. CASE Queued(m)
    BY <1>1, <1>4, <2>2 DEF Queued, InBin, Waits
  <2>3. CASE Binned(m)
    BY <1>1, <1>4, <2>3 DEF Binned, Bin, InBins, Waits
  <2>. QED
    BY <2>1, <2>2, <2>3 DEF Waits
<1>10. NoneLost'
  BY <1>1, <1>3, <1>9 DEF NoneLost
<1>. QED
  BY <1>5, <1>6, <1>7, <1>8, <1>10

\* In the second phase nothing is relaxed, so a vertex waits in a bin or in
\* the next frontier.
LEMMA InSecond ==
  ASSUME Control, Relaxation, ~single
  PROVE  /\ \A t \in Thread : pc[t] \in Second /\ pc[t] \notin Relaxing /\ work[t] = <<>>
         /\ \A m, e : Waits(m, e) <=> Binned(m) \/ Copied(m)
<1>1. \A t \in Thread : pc[t] \in Second
  BY DEF Control
<1>2. \A t \in Thread : pc[t] \notin Relaxing
  BY <1>1 DEF Second, Relaxing
<1>3. \A t \in Thread : work[t] = <<>>
  BY <1>2 DEF Relaxation, Relaxes
<1>4. \A m, e : ~Queued(m) /\ ~Held(m, e)
  BY <1>2 DEF Queued, Held, HeldBy
<1>. QED
  BY <1>1, <1>2, <1>3, <1>4 DEF Waits

\* The first thread out of the barrier: from here on the next bin counts.
LEMMA Clears ==
  ASSUME ConstantsSound, IInv, NEW t \in Thread, Single(t), single
  PROVE  IInv'
<1>. USE DEF IInv
<1>1. /\ pc[t] = "single" /\ single' = FALSE /\ pc' = [pc EXCEPT ![t] = "reserve"]
      /\ shared_indexes' = [shared_indexes EXCEPT ![curr] = kMaxBin]
      /\ frontier_tails' = [frontier_tails EXCEPT ![curr] = 0]
      /\ UNCHANGED <<g, source, delta, dist, frontier, iter, nextSlot, local_bins, work, u, relax>>
  BY DEF Single, Goto, config, locals
<1>2. \A s \in Thread : pc[s] = "single"
  BY <1>1 DEF Control, First, Relaxing
<1>3. \A s \in Thread : pc'[s] \in {"single", "reserve"} /\ pc'[s] \in Second
  BY <1>1, <1>2 DEF TypeOK, Second
<1>4. Vertex' = Vertex /\ Edge' = Edge /\ Bins' = Bins /\ \A m : Edges(m)' = Edges(m)
  BY <1>1, SameGraph
<1>5. curr' = curr /\ next' = next
  BY <1>1 DEF curr, next
<1>6. /\ curr \in {0, 1} /\ next \in {0, 1} /\ curr # next /\ kMaxBin \in Nat /\ delta \in Nat \ {0}
      /\ shared_indexes[curr] \in Nat /\ shared_indexes[next] \in Nat /\ frontier_tails[curr] \in Nat
  BY Parity, GraphFacts
<1>7. /\ shared_indexes'[next] = shared_indexes[next] /\ frontier_tails'[curr] = 0
      /\ frontier_tails'[next] = frontier_tails[next]
  BY <1>1, <1>6 DEF TypeOK
<1>8. TypeOK'
  <2>1. pc' \in [Thread -> First \cup Second \cup {"done"}]
    BY <1>1 DEF TypeOK, Second
  <2>2. shared_indexes' \in [{0, 1} -> 0 .. kMaxBin] /\ frontier_tails' \in [{0, 1} -> Nat]
    BY <1>1, <1>6 DEF TypeOK
  <2>. QED
    BY <1>1, <1>4, <2>1, <2>2 DEF TypeOK
<1>9. Control'
  BY <1>1, <1>3 DEF Control
<1>10. Slots'
  <2>1. frontier_tails[next] = 0 /\ \A s \in Thread : pc'[s] # "copy"
    BY <1>3 DEF Slots
  <2>. QED
    BY <1>1, <1>5, <1>7, <2>1 DEF Slots
<1>11. \A s \in Thread : work[s] = <<>> /\ pc[s] \notin Relaxing /\ pc'[s] \notin Relaxing /\ pc'[s] \notin {"new", "cas", "reload"}
  BY <1>2, <1>3 DEF Relaxation, Relaxes, Relaxing
<1>12. Relaxation'
  BY <1>1, <1>11 DEF Relaxation, Relaxes
<1>13. ASSUME NEW m \in Vertex, NEW e \in Edges(m), dist[m] + e.w < dist[e.v] PROVE Waits(m, e)'
  <2>. DEFINE b == Bin(dist[m])
  <2>1. nextSlot > frontier_tails[curr] /\ \A s \in Thread : \A c \in NonEmpty(s) : shared_indexes[next] <= c
    BY <1>2 DEF Control
  <2>2. ~Held(m, e) /\ ~Copied(m)
    BY <1>11 DEF Held, HeldBy, Copied
  <2>3. ~Queued(m)
    BY <1>6, <2>1 DEF Queued, TypeOK
  <2>4. Binned(m)
    BY <1>13, <2>2, <2>3 DEF NoneLost, Waits
  <2>5. PICK s \in Thread : b < Len(local_bins[s]) /\ Contains(local_bins[s][b + 1], m) /\ b >= shared_indexes[curr]
    BY <2>4 DEF Binned, InBins
  <2>6. b \in Nat
    BY <1>6, <1>13, GraphFacts, BinFacts
  <2>7. local_bins[s][b + 1] # <<>>
    BY <2>5 DEF Contains
  <2>8. Len(local_bins[s]) \in Nat
    BY DEF TypeOK, Bins
  <2>9. b \in NonEmpty(s)
    <3>. HIDE DEF b
    <3>. QED
      BY <1>6, <2>5, <2>6, <2>7, <2>8 DEF NonEmpty
  <2>10. shared_indexes[next] <= b
    BY <2>1, <2>9
  <2>11. Binned(m)'
    BY <1>1, <1>5, <1>7, <2>5, <2>10 DEF Binned, InBins, Bin
  <2>. QED
    BY <2>11 DEF Waits
<1>14. NoneLost'
  BY <1>1, <1>4, <1>13 DEF NoneLost
<1>. QED
  BY <1>8, <1>9, <1>10, <1>12, <1>14

\* A thread of the second phase moves on without touching what is shared.
LEMMA MovesOn ==
  ASSUME ConstantsSound, IInv, NEW t \in Thread, NEW p \in Second \ {"copy"}, ~single, pc[t] # "copy",
         pc' = [pc EXCEPT ![t] = p],
         UNCHANGED <<g, source, delta, dist, frontier, shared_indexes, frontier_tails, iter, nextSlot, single, local_bins, work, u, relax>>
  PROVE  IInv'
<1>. USE DEF IInv
<1>1. \A s \in Thread : pc[s] \in Second /\ pc[s] \notin Relaxing /\ work[s] = <<>>
  BY InSecond
<1>2. \A s \in Thread : pc'[s] \in Second /\ pc'[s] \notin Relaxing /\ (pc'[s] = "copy" <=> pc[s] = "copy")
  BY <1>1 DEF TypeOK, Second, Relaxing
<1>3. Vertex' = Vertex /\ Edge' = Edge /\ Bins' = Bins /\ \A m : Edges(m)' = Edges(m)
  BY SameGraph
<1>4. curr' = curr /\ next' = next /\ \A s : Share(s)' = Share(s) /\ Reserved(s)' = Reserved(s) /\ Elect(s)' = Elect(s)
  BY DEF curr, next, Share, Reserved, Elect
<1>5. TypeOK'
  BY <1>3 DEF TypeOK
<1>6. Control'
  BY <1>2 DEF Control
<1>7. Slots'
  BY <1>2, <1>4 DEF Slots
<1>8. Relaxation'
  BY <1>1, <1>2 DEF Relaxation, Relaxes, Relaxing
<1>9. ASSUME NEW m \in Vertex, NEW e \in Edges(m), dist[m] + e.w < dist[e.v] PROVE Waits(m, e)'
  <2>1. Binned(m) \/ Copied(m)
    BY <1>9, InSecond DEF NoneLost
  <2>2. CASE Binned(m)
    BY <1>4, <2>2 DEF Binned, InBins, Bin, Waits
  <2>3. CASE Copied(m)
    BY <1>2, <1>4, <2>3 DEF Copied, Bin, Waits
  <2>. QED
    BY <2>1, <2>2, <2>3
<1>10. NoneLost'
  BY <1>3, <1>9 DEF NoneLost
<1>. QED
  BY <1>5, <1>6, <1>7, <1>8, <1>10

LEMMA SingleStep == ASSUME ConstantsSound, IInv, NEW t \in Thread, Single(t) PROVE IInv'
<1>1. CASE single
  BY <1>1, Clears
<1>2. CASE ~single
  <2>1. /\ pc[t] = "single" /\ pc' = [pc EXCEPT ![t] = "reserve"] /\ "reserve" \in Second \ {"copy"}
        /\ UNCHANGED <<g, source, delta, dist, frontier, shared_indexes, frontier_tails, iter, nextSlot, single, local_bins, work, u, relax>>
    BY <1>2 DEF Single, Goto, config, shared, locals, IInv, TypeOK, Second
  <2>. QED
    BY <1>2, <2>1, MovesOn
<1>. QED
  BY <1>1, <1>2

\* A thread's share of the next bin.
LEMMA ShareFacts ==
  ASSUME ConstantsSound, IInv, NEW t \in Thread, Elect(t)
  PROVE  /\ Share(t) \in Seq(Vertex) /\ Len(Share(t)) \in Nat /\ shared_indexes[next] \in Nat
         /\ shared_indexes[next] + 1 \in 1 .. Len(local_bins[t])
         /\ relax[t].old \in Nat /\ frontier_tails[next] \in Nat
<1>. DEFINE S == Seq(Vertex)
<1>1. local_bins[t] \in Seq(S) /\ relax[t].old \in Nat
  BY DEF IInv, TypeOK, Bins, Entries
<1>2. shared_indexes[next] \in Nat /\ frontier_tails[next] \in Nat
  BY Parity DEF IInv
<1>. HIDE DEF S
<1>3. shared_indexes[next] + 1 \in 1 .. Len(local_bins[t])
  BY <1>1, <1>2 DEF Elect
<1>4. Share(t) \in S
  BY <1>1, <1>3 DEF Share
<1>5. Len(Share(t)) \in Nat
  BY <1>4 DEF S
<1>. QED
  BY <1>1, <1>2, <1>3, <1>4, <1>5 DEF S

LEMMA ReserveStep == ASSUME ConstantsSound, IInv, NEW t \in Thread, Reserve(t) PROVE IInv'
<1>. USE DEF IInv
<1>1. pc[t] = "reserve" /\ ~single
  BY DEF Reserve, Control, First, Relaxing
<1>2. CASE ~Elect(t)
  <2>1. /\ pc' = [pc EXCEPT ![t] = "copied"] /\ "copied" \in Second \ {"copy"}
        /\ UNCHANGED <<g, source, delta, dist, frontier, shared_indexes, frontier_tails, iter, nextSlot, single, local_bins, work, u, relax>>
    BY <1>2 DEF Reserve, Goto, config, Second
  <2>. QED
    BY <1>1, <2>1, MovesOn
<1>3. CASE Elect(t)
  <2>. DEFINE k == frontier_tails[next]
              top == k + Len(Share(t))
  <2>1. /\ relax' = [relax EXCEPT ![t].old = k] /\ frontier_tails' = [frontier_tails EXCEPT ![next] = top]
        /\ pc' = [pc EXCEPT ![t] = "copy"]
        /\ UNCHANGED <<g, source, delta, dist, frontier, shared_indexes, iter, nextSlot, single, local_bins, work, u>>
    BY <1>3 DEF Reserve, Goto, config
  <2>2. k \in Nat /\ Len(Share(t)) \in Nat /\ top \in Nat
    BY <1>3, ShareFacts
  <2>3. \A s \in Thread : pc[s] \in Second /\ pc[s] \notin Relaxing /\ work[s] = <<>>
    BY <1>1, InSecond
  <2>4. /\ pc'[t] = "copy" /\ relax'[t].old = k
        /\ \A s \in Thread : s # t => pc'[s] = pc[s] /\ relax'[s] = relax[s]
    <3>1. relax[t] \in Entries /\ relax'[t] = [relax[t] EXCEPT !.old = k]
      BY <2>1 DEF TypeOK
    <3>2. relax'[t].old = k
      BY <3>1 DEF Entries
    <3>. QED
      BY <2>1, <3>2 DEF TypeOK
  <2>5. Vertex' = Vertex /\ Edge' = Edge /\ Bins' = Bins /\ \A m : Edges(m)' = Edges(m)
    BY <2>1, SameGraph
  <2>6. curr' = curr /\ next' = next /\ \A s : Share(s)' = Share(s) /\ Elect(s)' = Elect(s)
    BY <2>1 DEF curr, next, Share, Elect
  <2>7. curr \in {0, 1} /\ next \in {0, 1} /\ curr # next
    BY Parity
  <2>8. frontier_tails'[next] = top /\ frontier_tails'[curr] = frontier_tails[curr]
    BY <2>1, <2>7 DEF TypeOK
  <2>9. /\ Reserved(t)' = k + 1 .. top
        /\ \A s \in Thread : s # t => Reserved(s)' = Reserved(s)
    BY <2>4, <2>6 DEF Reserved
  <2>10. ASSUME NEW s \in Thread, pc[s] = "copy"
         PROVE  /\ s # t /\ Elect(s) /\ relax[s].old + Len(Share(s)) <= k
                /\ \A i \in Reserved(s) : i <= k
    <3>1. s # t /\ Elect(s) /\ relax[s].old + Len(Share(s)) <= k
      BY <1>1, <2>10 DEF Slots
    <3>2. relax[s].old \in Nat /\ Len(Share(s)) \in Nat
      BY <3>1, ShareFacts
    <3>3. \A i \in Reserved(s) : i <= k
      BY <2>2, <3>1, <3>2 DEF Reserved
    <3>. QED
      BY <3>1, <3>3
  <2>11. TypeOK'
    <3>1. pc' \in [Thread -> First \cup Second \cup {"done"}]
      BY <2>1 DEF TypeOK, Second
    <3>2. relax' \in [Thread -> Entries]
      BY <2>1, <2>2 DEF TypeOK, Entries
    <3>3. frontier_tails' \in [{0, 1} -> Nat]
      BY <2>1, <2>2, <2>7 DEF TypeOK
    <3>. QED
      BY <2>1, <2>5, <3>1, <3>2, <3>3 DEF TypeOK
  <2>12. Control'
    <3>1. \A s \in Thread : pc'[s] \in Second
      BY <2>3, <2>4 DEF Second
    <3>. QED
      BY <1>1, <2>1, <3>1 DEF Control
  <2>13. Slots'
    <3>1. frontier_tails'[curr] = 0
      BY <1>1, <2>8 DEF Slots
    <3>2. ASSUME NEW i \in 1 .. top
          PROVE  i \in DOMAIN frontier \/ \E s \in Thread : pc'[s] = "copy" /\ i \in Reserved(s)'
      <4>1. CASE i <= k
        <5>1. i \in 1 .. k
          BY <2>2, <4>1
        <5>2. i \in DOMAIN frontier \/ \E s \in Thread : pc[s] = "copy" /\ i \in Reserved(s)
          BY <1>1, <5>1 DEF Slots
        <5>. QED
          BY <2>4, <2>9, <2>10, <5>2
      <4>2. CASE ~(i <= k)
        BY <2>2, <2>4, <2>9, <4>2
      <4>. QED
        BY <4>1, <4>2
    <3>3. ASSUME NEW s \in Thread, pc'[s] = "copy" PROVE Elect(s) /\ relax'[s].old + Len(Share(s)) <= top
      <4>1. CASE s = t
        BY <1>3, <2>2, <2>4, <4>1
      <4>2. CASE s # t
        <5>1. Elect(s) /\ relax[s].old + Len(Share(s)) <= k
          BY <2>4, <2>10, <3>3, <4>2
        <5>2. relax[s].old \in Nat /\ Len(Share(s)) \in Nat
          BY <5>1, ShareFacts
        <5>. QED
          BY <2>2, <2>4, <4>2, <5>1, <5>2
      <4>. QED
        BY <4>1, <4>2
    <3>4. ASSUME NEW s \in Thread, s # t, pc'[s] = "copy" PROVE Reserved(s)' \cap Reserved(t)' = {}
      <4>1. \A i \in Reserved(s)' : i <= k
        BY <2>4, <2>9, <2>10, <3>4
      <4>. QED
        BY <2>2, <2>9, <4>1
    <3>5. ASSUME NEW r \in Thread, NEW s \in Thread, pc'[r] = "copy", pc'[s] = "copy", r # s
          PROVE  Reserved(r)' \cap Reserved(s)' = {}
      <4>1. CASE r # t /\ s # t
        <5>1. Reserved(r) \cap Reserved(s) = {}
          BY <1>1, <2>4, <3>5, <4>1 DEF Slots
        <5>. QED
          BY <2>9, <4>1, <5>1
      <4>2. CASE r = t
        BY <3>4, <3>5, <4>2
      <4>3. CASE s = t
        BY <3>4, <3>5, <4>3
      <4>. QED
        BY <4>1, <4>2, <4>3
    <3>. QED
      BY <1>1, <2>1, <2>6, <2>8, <3>1, <3>2, <3>3, <3>5 DEF Slots
  <2>14. Relaxation'
    BY <2>1, <2>3, <2>4 DEF Relaxation, Relaxes, Relaxing
  <2>15. ASSUME NEW m \in Vertex, NEW e \in Edges(m), dist[m] + e.w < dist[e.v] PROVE Waits(m, e)'
    <3>1. Binned(m) \/ Copied(m)
      BY <1>1, <2>15, InSecond DEF NoneLost
    <3>2. CASE Binned(m)
      BY <2>1, <2>6, <3>2 DEF Binned, InBins, Bin, Waits
    <3>3. CASE Copied(m)
      <4>1. PICK i \in 1 .. k : /\ i \in DOMAIN frontier /\ frontier[i] = m
                                /\ \A s \in Thread : pc[s] = "copy" => i \notin Reserved(s)
        BY <3>3 DEF Copied
      <4>2. i \in 1 .. top /\ i \notin Reserved(t)'
        BY <2>2, <2>9
      <4>3. \A s \in Thread : pc'[s] = "copy" => i \notin Reserved(s)'
        BY <2>4, <2>9, <4>1, <4>2
      <4>. QED
        BY <2>1, <2>6, <2>8, <3>3, <4>1, <4>2, <4>3 DEF Copied, Bin, Waits
    <3>. QED
      BY <3>1, <3>2, <3>3
  <2>16. NoneLost'
    BY <2>1, <2>5, <2>15 DEF NoneLost
  <2>. QED
    BY <2>11, <2>12, <2>13, <2>14, <2>16
<1>. QED
  BY <1>2, <1>3

\* copy() writes the reserved slots and no others.
LEMMA FrontierWritten ==
  ASSUME ConstantsSound, IInv, NEW t \in Thread, Copy(t), Elect(t)
  PROVE  /\ frontier' \in Seq(Vertex)
         /\ \A i \in Reserved(t) : i \in DOMAIN frontier' /\ frontier'[i] = Share(t)[i - relax[t].old]
         /\ \A i \in DOMAIN frontier : i \in DOMAIN frontier' /\ (i \notin Reserved(t) => frontier'[i] = frontier[i])
<1>. DEFINE start == relax[t].old
            size == Len(Share(t))
            top == start + size
            n == Max({top, Len(frontier)})
<1>1. /\ Share(t) \in Seq(Vertex) /\ size \in Nat /\ start \in Nat /\ top \in Nat
      /\ frontier \in Seq(Vertex) /\ Len(frontier) \in Nat /\ source \in Vertex
  BY ShareFacts DEF IInv, TypeOK
<1>2. \A j \in 1 .. size : Share(t)[j] \in Vertex
  BY <1>1
<1>3. frontier' = [i \in 1 .. n |-> IF i \in start + 1 .. top THEN Share(t)[i - start]
                                    ELSE IF i <= Len(frontier) THEN frontier[i] ELSE source]
  BY DEF Copy
<1>4. n \in Nat /\ n >= top /\ n >= Len(frontier)
  BY <1>1, Larger
<1>5. Reserved(t) = start + 1 .. top
  BY DEF Reserved
<1>. HIDE DEF start, size, top, n
<1>6. \A i \in start + 1 .. top : i - start \in 1 .. size
  BY <1>1 DEF top
<1>7. \A i \in 1 .. n : frontier'[i] \in Vertex
  BY <1>1, <1>2, <1>3, <1>4, <1>6
<1>8. DOMAIN frontier' = 1 .. n
  BY <1>3
<1>9. frontier' \in Seq(Vertex)
  BY <1>3, <1>4, <1>7, <1>8
<1>10. \A i \in Reserved(t) : i \in 1 .. n /\ frontier'[i] = Share(t)[i - start]
  BY <1>1, <1>3, <1>4, <1>5
<1>11. DOMAIN frontier = 1 .. Len(frontier)
  BY <1>1
<1>12. \A i \in DOMAIN frontier : i \in 1 .. n /\ (i \notin Reserved(t) => frontier'[i] = frontier[i])
  BY <1>1, <1>3, <1>4, <1>5, <1>11
<1>. QED
  BY <1>8, <1>9, <1>10, <1>12 DEF start

LEMMA CopyStep == ASSUME ConstantsSound, IInv, NEW t \in Thread, Copy(t) PROVE IInv'
<1>. USE DEF IInv
<1>1. pc[t] = "copy" /\ ~single /\ Elect(t)
  BY DEF Copy, Control, Slots, First, Relaxing
<1>2. PICK b \in Nat : b = shared_indexes[next] /\ b + 1 \in 1 .. Len(local_bins[t])
  BY <1>1, ShareFacts
<1>3. /\ local_bins' = [local_bins EXCEPT ![t][b + 1] = <<>>] /\ relax' = [relax EXCEPT ![t] = NoRelax]
      /\ pc' = [pc EXCEPT ![t] = "copied"]
      /\ UNCHANGED <<g, source, delta, dist, shared_indexes, frontier_tails, iter, nextSlot, single, work, u>>
  BY <1>2 DEF Copy, Goto, config, shared
<1>4. \A s \in Thread : pc[s] \in Second /\ pc[s] \notin Relaxing /\ work[s] = <<>>
  BY <1>1, InSecond
<1>5. /\ pc'[t] = "copied"
      /\ \A s \in Thread : s # t => pc'[s] = pc[s] /\ relax'[s] = relax[s] /\ local_bins'[s] = local_bins[s]
  BY <1>3 DEF TypeOK
<1>6. Vertex' = Vertex /\ Edge' = Edge /\ Bins' = Bins /\ \A m : Edges(m)' = Edges(m)
  BY <1>3, SameGraph
<1>7. /\ curr' = curr /\ next' = next
      /\ \A s \in Thread : s # t => Share(s)' = Share(s) /\ Elect(s)' = Elect(s) /\ Reserved(s)' = Reserved(s)
  <2>1. curr' = curr /\ next' = next
    BY <1>3 DEF curr, next
  <2>2. \A s \in Thread : s # t => Share(s)' = Share(s) /\ Elect(s)' = Elect(s)
    BY <1>3, <1>5, <2>1 DEF Share, Elect
  <2>. QED
    BY <1>5, <2>1, <2>2 DEF Reserved
<1>8. /\ local_bins'[t] \in Bins /\ Len(local_bins'[t]) = Len(local_bins[t])
      /\ \A c \in Nat : c # b => local_bins'[t][c + 1] = local_bins[t][c + 1]
  <2>. DEFINE S == Seq(Vertex)
  <2>1. local_bins[t] \in Seq(S) /\ <<>> \in S /\ local_bins'[t] = [local_bins[t] EXCEPT ![b + 1] = <<>>]
    BY <1>3 DEF TypeOK, Bins
  <2>. HIDE DEF S
  <2>2. local_bins'[t] \in Seq(S) /\ Len(local_bins'[t]) = Len(local_bins[t])
    BY <1>2, <2>1
  <2>3. \A c \in Nat : c # b => local_bins'[t][c + 1] = local_bins[t][c + 1]
    BY <1>2, <2>1
  <2>. QED
    BY <2>2, <2>3 DEF S, Bins
<1>9. /\ frontier' \in Seq(Vertex)
      /\ \A i \in Reserved(t) : i \in DOMAIN frontier' /\ frontier'[i] = Share(t)[i - relax[t].old]
      /\ \A i \in DOMAIN frontier : i \in DOMAIN frontier' /\ (i \notin Reserved(t) => frontier'[i] = frontier[i])
  BY <1>1, FrontierWritten
<1>10. TypeOK'
  <2>1. pc' \in [Thread -> First \cup Second \cup {"done"}]
    BY <1>3 DEF TypeOK, Second
  <2>2. relax' \in [Thread -> Entries]
    BY <1>3 DEF TypeOK, Entries, NoRelax
  <2>3. local_bins' \in [Thread -> Bins]
    <3>1. local_bins' = [local_bins EXCEPT ![t] = local_bins'[t]]
      BY <1>3 DEF TypeOK
    <3>. QED
      BY <1>8, <3>1 DEF TypeOK
  <2>. QED
    BY <1>3, <1>6, <1>9, <2>1, <2>2, <2>3 DEF TypeOK
<1>11. Control'
  <2>1. \A s \in Thread : pc'[s] \in Second
    BY <1>4, <1>5 DEF Second
  <2>. QED
    BY <1>1, <1>3, <2>1 DEF Control
<1>12. Slots'
  <2>1. frontier_tails[curr] = 0
    BY <1>1 DEF Slots
  <2>2. ASSUME NEW i \in 1 .. frontier_tails[next]
        PROVE  i \in DOMAIN frontier' \/ \E s \in Thread : pc'[s] = "copy" /\ i \in Reserved(s)'
    <3>1. i \in DOMAIN frontier \/ \E s \in Thread : pc[s] = "copy" /\ i \in Reserved(s)
      BY <1>1, <2>2 DEF Slots
    <3>. QED
      BY <1>5, <1>7, <1>9, <3>1
  <2>3. \A s \in Thread : pc'[s] = "copy" => s # t /\ pc[s] = "copy"
    BY <1>5
  <2>4. \A s \in Thread : pc'[s] = "copy" => Elect(s)' /\ relax'[s].old + Len(Share(s)') <= frontier_tails[next]
    BY <1>1, <1>5, <1>7, <2>3 DEF Slots
  <2>5. \A r, s \in Thread : pc'[r] = "copy" /\ pc'[s] = "copy" /\ r # s => Reserved(r)' \cap Reserved(s)' = {}
    BY <1>1, <1>7, <2>3 DEF Slots
  <2>. QED
    BY <1>1, <1>3, <1>7, <2>1, <2>2, <2>4, <2>5 DEF Slots
<1>13. Relaxation'
  BY <1>3, <1>4, <1>5 DEF Relaxation, Relaxes, Relaxing
<1>14. ASSUME NEW m \in Vertex, NEW e \in Edges(m), dist[m] + e.w < dist[e.v] PROVE Waits(m, e)'
  <2>1. PICK c \in Nat : c = Bin(dist[m])
    BY <1>14, GraphFacts, BinFacts
  <2>2. Bin(dist[m])' = c
    BY <1>3, <2>1 DEF Bin
  <2>3. Binned(m) \/ Copied(m)
    BY <1>1, <1>14, InSecond DEF NoneLost
  <2>4. CASE Copied(m)
    <3>1. PICK i \in 1 .. frontier_tails[next] : /\ i \in DOMAIN frontier /\ frontier[i] = m
                                                 /\ \A s \in Thread : pc[s] = "copy" => i \notin Reserved(s)
      BY <2>4 DEF Copied
    <3>2. i \in DOMAIN frontier' /\ frontier'[i] = m
      BY <1>1, <1>9, <3>1
    <3>3. \A s \in Thread : pc'[s] = "copy" => i \notin Reserved(s)'
      BY <1>5, <1>7, <3>1
    <3>. QED
      BY <1>3, <1>7, <2>1, <2>2, <2>4, <3>1, <3>2, <3>3 DEF Copied, Waits
  <2>5. CASE Binned(m)
    <3>1. PICK s \in Thread : c < Len(local_bins[s]) /\ Contains(local_bins[s][c + 1], m)
      BY <2>1, <2>5 DEF Binned, InBins
    <3>2. c >= b
      BY <1>1, <1>2, <2>1, <2>5 DEF Binned
    <3>3. CASE s # t \/ c # b
      <4>1. c < Len(local_bins'[s]) /\ Contains(local_bins'[s][c + 1], m)
        BY <1>5, <1>8, <3>1, <3>3
      <4>2. InBins(s, Bin(dist[m]), m)'
        BY <2>2, <4>1 DEF InBins
      <4>3. Binned(m)'
        BY <1>1, <1>2, <1>3, <1>7, <2>2, <3>2, <4>2 DEF Binned
      <4>. QED
        BY <4>3 DEF Waits
    <3>4. CASE s = t /\ c = b
      <4>1. Share(t) = local_bins[t][b + 1]
        BY <1>2 DEF Share
      <4>2. PICK j \in 1 .. Len(Share(t)) : Share(t)[j] = m
        BY <3>1, <3>4, <4>1 DEF Contains
      <4>3. /\ relax[t].old \in Nat /\ Len(Share(t)) \in Nat /\ frontier_tails[next] \in Nat
            /\ relax[t].old + Len(Share(t)) <= frontier_tails[next]
        BY <1>1, ShareFacts DEF Slots
      <4>4. PICK i \in Nat : i = relax[t].old + j
        BY <4>3
      <4>5. i \in Reserved(t) /\ i \in 1 .. frontier_tails[next] /\ i - relax[t].old = j
        BY <4>3, <4>4 DEF Reserved
      <4>6. i \in DOMAIN frontier' /\ frontier'[i] = m
        BY <1>9, <4>2, <4>5
      <4>7. ASSUME NEW r \in Thread, pc'[r] = "copy" PROVE i \notin Reserved(r)'
        <5>1. r # t /\ pc[r] = "copy"
          BY <1>5, <4>7
        <5>2. Reserved(r) \cap Reserved(t) = {}
          BY <1>1, <5>1 DEF Slots
        <5>. QED
          BY <1>7, <4>5, <5>1, <5>2
      <4>8. Copied(m)'
        BY <1>1, <1>2, <1>3, <1>7, <2>2, <3>4, <4>5, <4>6, <4>7 DEF Copied
      <4>. QED
        BY <4>8 DEF Waits
    <3>. QED
      BY <3>3, <3>4
  <2>. QED
    BY <2>3, <2>4, <2>5
<1>15. NoneLost'
  BY <1>3, <1>6, <1>14 DEF NoneLost
<1>. QED
  BY <1>10, <1>11, <1>12, <1>13, <1>15

LEMMA EndIterationStep == ASSUME ConstantsSound, IInv, EndIteration PROVE IInv'
<1>. USE DEF IInv
<1>1. /\ \A t \in Thread : pc[t] = "copied"
      /\ iter' = next /\ nextSlot' = 1 /\ single' = TRUE
      /\ pc' = [t \in Thread |-> IF shared_indexes[next] # kMaxBin THEN "loop" ELSE "done"]
      /\ UNCHANGED <<g, source, delta, dist, frontier, shared_indexes, frontier_tails, local_bins, work, u, relax>>
  BY DEF EndIteration, config, shared, locals
<1>2. ~single
  <2>1. PICK t \in Thread : TRUE
    BY DEF ConstantsSound
  <2>. QED
    BY <1>1, <2>1 DEF Control, First, Relaxing
<1>3. curr' = next /\ next' = curr /\ next \in {0, 1}
  BY <1>1 DEF curr, next, TypeOK
<1>4. Vertex' = Vertex /\ Edge' = Edge /\ Bins' = Bins /\ \A m : Edges(m)' = Edges(m)
  BY <1>1, SameGraph
<1>5. /\ shared_indexes[next] \in Nat /\ frontier_tails[next] \in Nat /\ delta \in Nat \ {0}
  BY Parity, GraphFacts
<1>6. TypeOK'
  <2>1. pc' \in [Thread -> First \cup Second \cup {"done"}]
    BY <1>1 DEF First
  <2>2. iter' \in {0, 1}
    BY <1>1, <1>3
  <2>. QED
    BY <1>1, <1>4, <2>1, <2>2 DEF TypeOK
<1>7. Control'
  <2>1. CASE shared_indexes[next] # kMaxBin
    BY <1>1, <2>1 DEF Control, First
  <2>2. CASE shared_indexes[next] = kMaxBin
    BY <1>1, <1>3, <2>2 DEF Control
  <2>. QED
    BY <2>1, <2>2
<1>8. Slots'
  <2>1. frontier_tails[curr] = 0 /\ \A i \in 1 .. frontier_tails[next] : i \in DOMAIN frontier
    BY <1>1, <1>2 DEF Slots
  <2>2. frontier_tails[next] <= Len(frontier)
    <3>1. Len(frontier) \in Nat /\ DOMAIN frontier = 1 .. Len(frontier)
      BY DEF TypeOK
    <3>. QED
      BY <1>5, <2>1, <3>1
  <2>. QED
    BY <1>1, <1>3, <2>1, <2>2 DEF Slots
<1>9. Relaxation'
  BY <1>1 DEF Relaxation, Relaxes, Relaxing
<1>10. ASSUME NEW m \in Vertex, NEW e \in Edges(m), dist[m] + e.w < dist[e.v] PROVE Waits(m, e)'
  <2>1. Binned(m) \/ Copied(m)
    BY <1>2, <1>10, InSecond DEF NoneLost
  <2>2. CASE Binned(m)
    BY <1>1, <1>2, <1>3, <2>2 DEF Binned, InBins, Bin, Waits
  <2>3. CASE Copied(m)
    <3>1. PICK i \in 1 .. frontier_tails[next] : frontier[i] = m
      BY <2>3 DEF Copied
    <3>2. dist[m] >= delta * shared_indexes[next]
      <4>1. dist[m] \in Nat /\ shared_indexes[next] <= Bin(dist[m])
        BY <1>5, <1>10, <2>3, GraphFacts DEF Copied
      <4>. QED
        BY <1>5, <4>1, BinFacts
    <3>3. InBin(m)'
      BY <1>1, <1>3, <3>2 DEF InBin
    <3>. QED
      BY <1>1, <1>3, <3>1, <3>3 DEF Queued, Waits
  <2>. QED
    BY <2>1, <2>2, <2>3
<1>11. NoneLost'
  BY <1>1, <1>4, <1>10 DEF NoneLost
<1>. QED
  BY <1>6, <1>7, <1>8, <1>9, <1>11

-----------------------------------------------------------------------------
LEMMA InitIInv == ASSUME ConstantsSound, Init PROVE IInv
<1>1. /\ g \in Graphs /\ source \in Vertex /\ delta \in Deltas
      /\ dist = [n \in Vertex |-> IF n = source THEN 0 ELSE kDistInf]
      /\ frontier = <<source>> /\ iter = 0 /\ nextSlot = 1 /\ single = TRUE
      /\ shared_indexes = [i \in {0, 1} |-> IF i = 0 THEN 0 ELSE kMaxBin]
      /\ frontier_tails = [i \in {0, 1} |-> IF i = 0 THEN 1 ELSE 0]
      /\ pc = [t \in Thread |-> "loop"] /\ local_bins = [t \in Thread |-> <<>>]
      /\ work = [t \in Thread |-> <<>>] /\ u = [t \in Thread |-> source] /\ relax = [t \in Thread |-> NoRelax]
  BY DEF Init
<1>2. kDistInf \in Nat /\ kMaxBin \in Nat /\ delta \in Nat \ {0}
  BY <1>1 DEF ConstantsSound
<1>3. curr = 0 /\ next = 1
  BY <1>1 DEF curr, next
<1>4. TypeOK
  <2>1. frontier \in Seq(Vertex) /\ dist \in [Vertex -> 0 .. kDistInf]
    BY <1>1, <1>2
  <2>2. shared_indexes \in [{0, 1} -> 0 .. kMaxBin] /\ frontier_tails \in [{0, 1} -> Nat]
    BY <1>1, <1>2
  <2>3. pc \in [Thread -> First \cup Second \cup {"done"}] /\ relax \in [Thread -> Entries]
    BY <1>1 DEF First, Entries, NoRelax
  <2>4. local_bins \in [Thread -> Bins] /\ work \in [Thread -> Seq(Edge)]
    BY <1>1 DEF Bins
  <2>. QED
    BY <1>1, <2>1, <2>2, <2>3, <2>4 DEF TypeOK
<1>5. Control
  BY <1>1 DEF Control, First
<1>6. Slots
  BY <1>1, <1>3 DEF Slots
<1>7. Relaxation
  BY <1>1 DEF Relaxation, Relaxes, Relaxing
<1>8. ASSUME NEW m \in Vertex, NEW e \in Edges(m), dist[m] + e.w < dist[e.v] PROVE Waits(m, e)
  <2>1. e.v \in Vertex /\ e.w \in Nat /\ dist[e.v] \in Nat /\ dist[e.v] <= kDistInf
    BY <1>4, GraphFacts
  <2>2. m = source
    <3>1. m # source => dist[m] = kDistInf
      BY <1>1
    <3>. QED
      BY <1>2, <1>8, <2>1, <3>1
  <2>3. InBin(m)
    <3>1. dist[m] = 0 /\ shared_indexes[curr] = 0
      BY <1>1, <1>3, <2>2
    <3>. QED
      BY <1>2, <3>1 DEF InBin
  <2>4. nextSlot .. frontier_tails[curr] = {1} /\ frontier[1] = m
    BY <1>1, <1>3, <2>2
  <2>. QED
    BY <1>1, <2>3, <2>4 DEF Queued, Waits
<1>. QED
  BY <1>4, <1>5, <1>6, <1>7, <1>8 DEF IInv, NoneLost

LEMMA NextIInv == ASSUME ConstantsSound, IInv, [Next]_vars PROVE IInv'
<1>1. ASSUME NEW t \in Thread, Step(t) PROVE IInv'
  BY <1>1, TakeStep, LoadOldStep, LoadNewStep, CasStep, ReloadStep, VoteStep, SingleStep, ReserveStep, CopyStep DEF Step
<1>2. CASE Barriers
  BY <1>2, ElectedStep, EndIterationStep DEF Barriers
<1>3. CASE UNCHANGED vars
  <2>1. UNCHANGED <<g, source, delta, dist, frontier, shared_indexes, frontier_tails, iter, nextSlot, single, pc,
                    local_bins, work, u, relax>>
    BY <1>3 DEF vars, config, shared, locals
  <2>2. Vertex' = Vertex /\ Edge' = Edge /\ Bins' = Bins /\ \A m : Edges(m)' = Edges(m)
    BY <2>1, SameGraph
  <2>3. /\ curr' = curr /\ next' = next /\ Floor' = Floor
        /\ \A s : Share(s)' = Share(s) /\ Reserved(s)' = Reserved(s) /\ Elect(s)' = Elect(s) /\ NonEmpty(s)' = NonEmpty(s)
    BY <2>1 DEF curr, next, Floor, Share, Reserved, Elect, NonEmpty
  <2>4. TypeOK'
    BY <2>1, <2>2 DEF IInv, TypeOK
  <2>5. Control' /\ Slots'
    BY <2>1, <2>3 DEF IInv, Control, Slots
  <2>6. Relaxation'
    BY <2>1, <2>2, <2>3 DEF IInv, Relaxation, Relaxes
  <2>7. \A m, e : Waits(m, e)' = Waits(m, e)
    BY <2>1, <2>3 DEF Waits, Queued, InBin, Held, HeldBy, Binned, InBins, Bin, Copied
  <2>8. NoneLost'
    BY <2>1, <2>2, <2>7 DEF IInv, NoneLost
  <2>. QED
    BY <2>4, <2>5, <2>6, <2>8 DEF IInv
<1>. QED
  BY <1>1, <1>2, <1>3 DEF Next

\* IInv is an invariant of delta-stepping (sssp.cc:52-130).
THEOREM IInvInvariant == ASSUME ConstantsSound PROVE Spec => []IInv
<1>1. Init => IInv
  BY InitIInv
<1>2. IInv /\ [Next]_vars => IInv'
  BY NextIInv
<1>. QED
  BY <1>1, <1>2, PTL DEF Spec

-----------------------------------------------------------------------------
LEMMA WaitsPending ==
  ASSUME ConstantsSound, IInv, NEW m \in Vertex, NEW e \in Edges(m), Waits(m, e)
  PROVE  Pending(m, e.v)
<1>. USE DEF IInv
<1>1. CASE Queued(m)
  BY <1>1 DEF Queued, Pending
<1>2. ASSUME NEW t \in Thread, HeldBy(t, m, e) PROVE Pending(m, e.v)
  <2>1. work[t] # <<>> /\ work[t] \in Seq(Edge) /\ u[t] = m
    BY <1>2 DEF HeldBy, Relaxation, Relaxes, TypeOK
  <2>2. Len(work[t]) \in Nat \ {0}
    BY <2>1
  <2>3. \E i \in 1 .. Len(work[t]) : work[t][i] = e
    BY <1>2, <2>2 DEF HeldBy
  <2>4. e \in ToSet(work[t])
    BY <2>1, <2>3 DEF ToSet
  <2>. QED
    BY <2>1, <2>4 DEF Pending
<1>3. CASE Binned(m)
  BY <1>3 DEF Binned, InBins, Pending
<1>4. CASE Copied(m)
  <2>1. PICK i \in 1 .. frontier_tails[next] : i \in DOMAIN frontier /\ frontier[i] = m
    BY <1>4 DEF Copied
  <2>2. frontier_tails[next] \in Nat /\ Len(frontier) \in Nat /\ DOMAIN frontier = 1 .. Len(frontier)
    BY Parity DEF TypeOK
  <2>3. Min({frontier_tails[next], Len(frontier)}) \in {frontier_tails[next], Len(frontier)}
    BY <2>2, Least
  <2>4. i \in 1 .. Min({frontier_tails[next], Len(frontier)})
    <3>1. CASE Min({frontier_tails[next], Len(frontier)}) = frontier_tails[next]
      BY <2>1, <3>1
    <3>2. CASE Min({frontier_tails[next], Len(frontier)}) = Len(frontier)
      BY <2>1, <2>2, <3>2
    <3>. QED
      BY <2>3, <3>1, <3>2
  <2>. QED
    BY <1>4, <2>1, <2>4 DEF Copied, Pending
<1>. QED
  BY <1>1, <1>2, <1>3, <1>4 DEF Waits, Held

LEMMA NoneForgotten == ASSUME ConstantsSound, IInv PROVE NoLostRelaxation
BY WaitsPending DEF IInv, NoneLost, NoLostRelaxation, Edges

\* No relaxation is lost: an edge that still improves a distance has its source
\* in a slot, at a thread, in a bin or in the next frontier, for every graph,
\* team and delta (sssp.cc:76-99, 117-123).
THEOREM NoLostRelaxationCorrect == ASSUME ConstantsSound PROVE Spec => []NoLostRelaxation
BY NoneForgotten, IInvInvariant, PTL

-----------------------------------------------------------------------------
(* The distances. *)

\* A potential that no edge exceeds: a lower bound of every walk from the
\* source, up to kDistInf.  The lengths of the shortest walks are the greatest.
Feasible(p) ==
  /\ p \in [Vertex -> Int] /\ p[source] <= 0
  /\ \A n \in Vertex : p[n] <= kDistInf
  /\ \A m \in Vertex : \A e \in Edges(m) : p[e.v] <= p[m] + e.w

\* Every distance, and every distance about to be written, is the length of a
\* walk: no potential exceeds it.
Bounded ==
  /\ dist[source] = 0
  /\ \A p : Feasible(p) =>
       /\ \A n \in Vertex : p[n] <= dist[n]
       /\ \A t \in Thread : pc[t] \in {"cas", "reload"} => p[work[t][1].v] <= relax[t].new

\* The distances at the end are those of the shortest walks.
Shortest == Feasible(dist) /\ \A p : Feasible(p) => \A n \in Vertex : p[n] <= dist[n]

LEMMA SameFeasible == ASSUME g' = g, source' = source PROVE \A p : Feasible(p)' = Feasible(p)
<1>1. Vertex' = Vertex /\ \A m : Edges(m)' = Edges(m)
  BY SameGraph
<1>. QED
  BY <1>1 DEF Feasible

LEMMA KeepsBounded ==
  ASSUME Bounded, UNCHANGED <<g, source, dist>>,
         \A s \in Thread : \/ pc'[s] \notin {"cas", "reload"}
                           \/ pc'[s] = pc[s] /\ work'[s] = work[s] /\ relax'[s] = relax[s]
  PROVE  Bounded'
<1>1. Vertex' = Vertex /\ \A p : Feasible(p)' = Feasible(p)
  BY SameGraph, SameFeasible
<1>. QED
  BY <1>1 DEF Bounded

LEMMA StepBounded ==
  ASSUME ConstantsSound, IInv, Bounded, NEW t \in Thread, Step(t)
  PROVE  Bounded'
<1>1. g' = g /\ source' = source
  BY DEF Step, Take, LoadOld, LoadNew, Cas, Reload, Vote, Single, Reserve, Copy, config
<1>2. Vertex' = Vertex /\ \A p : Feasible(p)' = Feasible(p)
  BY <1>1, SameGraph, SameFeasible
<1>3. \A s \in Thread : s # t => pc'[s] = pc[s] /\ work'[s] = work[s] /\ relax'[s] = relax[s]
  BY DEF Step, Take, LoadOld, LoadNew, NextEdge, Cas, Reload, Vote, Single, Reserve, Copy, Goto, locals, IInv, TypeOK
<1>4. NextEdge(t) => pc'[t] \notin {"cas", "reload"}
  BY DEF NextEdge, Goto, IInv, TypeOK
<1>5. CASE Take(t) \/ LoadOld(t) \/ Vote(t) \/ Single(t) \/ Reserve(t) \/ Copy(t)
  <2>1. dist' = dist /\ pc'[t] \notin {"cas", "reload"}
    BY <1>5 DEF Take, LoadOld, Vote, Single, Reserve, Copy, Goto, IInv, TypeOK
  <2>. QED
    BY <1>1, <1>3, <2>1, KeepsBounded
<1>6. CASE LoadNew(t)
  <2>1. /\ dist' = dist /\ pc[t] \in Relaxing
        /\ \/ NextEdge(t)
           \/ pc'[t] = "cas" /\ work'[t] = work[t] /\ relax'[t].new = dist[u[t]] + Head(work[t]).w
    <3>1. relax[t] \in Entries
      BY DEF IInv, TypeOK
    <3>. QED
      BY <1>6, <3>1 DEF LoadNew, Goto, IInv, TypeOK, Entries, Relaxing
  <2>2. CASE NextEdge(t)
    BY <1>1, <1>3, <1>4, <2>1, <2>2, KeepsBounded
  <2>3. CASE work'[t] = work[t] /\ relax'[t].new = dist[u[t]] + Head(work[t]).w
    <3>1. /\ Head(work[t]) \in Edges(u[t]) /\ u[t] \in Vertex /\ work[t][1] = Head(work[t]) /\ dist[u[t]] \in Nat
          /\ Head(work[t]).v \in Vertex /\ Head(work[t]).w \in Nat
      BY <2>1, AtEdge
    <3>2. ASSUME NEW p, Feasible(p) PROVE p[work[t][1].v] <= relax'[t].new
      <4>1. p[Head(work[t]).v] <= p[u[t]] + Head(work[t]).w /\ p[u[t]] \in Int /\ p[Head(work[t]).v] \in Int
        BY <3>1, <3>2 DEF Feasible
      <4>2. p[u[t]] <= dist[u[t]]
        BY <3>1, <3>2 DEF Bounded
      <4>. QED
        BY <2>3, <3>1, <4>1, <4>2
    <3>. QED
      BY <1>1, <1>2, <1>3, <2>1, <2>3, <3>2 DEF Bounded
  <2>. QED
    BY <2>1, <2>2, <2>3
<1>7. CASE Reload(t)
  <2>1. /\ dist' = dist /\ pc[t] = "reload"
        /\ NextEdge(t) \/ (work'[t] = work[t] /\ relax'[t].new = relax[t].new)
    <3>1. relax[t] \in Entries
      BY DEF IInv, TypeOK
    <3>. QED
      BY <1>7, <3>1 DEF Reload, Goto, IInv, TypeOK, Entries
  <2>2. CASE NextEdge(t)
    BY <1>1, <1>3, <1>4, <2>1, <2>2, KeepsBounded
  <2>3. CASE work'[t] = work[t] /\ relax'[t].new = relax[t].new
    BY <1>1, <1>2, <1>3, <2>1, <2>3 DEF Bounded
  <2>. QED
    BY <2>1, <2>2, <2>3
<1>8. CASE Cas(t)
  <2>1. pc[t] = "cas" /\ pc[t] \in Relaxing
    BY <1>8 DEF Cas, Relaxing
  <2>2. CASE dist[Head(work[t]).v] # relax[t].old
    <3>1. dist' = dist /\ work' = work /\ relax' = relax
      BY <1>8, <2>2 DEF Cas
    <3>. QED
      BY <1>1, <1>2, <1>3, <2>1, <3>1 DEF Bounded
  <2>3. CASE dist[Head(work[t]).v] = relax[t].old
    <3>1. PICK v \in Vertex, d \in Nat : v = work[t][1].v /\ d = relax[t].new /\ v = Head(work[t]).v
      BY <2>1, AtEdge
    <3>2. dist' = [dist EXCEPT ![v] = d] /\ NextEdge(t)
      BY <1>8, <2>3, <3>1 DEF Cas
    <3>3. dist'[v] = d /\ \A n \in Vertex : n # v => dist'[n] = dist[n]
      BY <3>2 DEF IInv, TypeOK
    <3>4. v # source /\ source \in Vertex
      <4>1. d < dist[v]
        BY <2>1, <2>3, <3>1 DEF IInv, Relaxation, Relaxes
      <4>. QED
        BY <3>1, <4>1 DEF Bounded, IInv, TypeOK
    <3>5. ASSUME NEW p, Feasible(p) PROVE p[v] <= d
      BY <2>1, <3>1, <3>5 DEF Bounded
    <3>. QED
      BY <1>1, <1>2, <1>3, <1>4, <3>2, <3>3, <3>4, <3>5 DEF Bounded
  <2>. QED
    BY <2>2, <2>3
<1>. QED
  BY <1>5, <1>6, <1>7, <1>8 DEF Step

LEMMA NextBounded == ASSUME ConstantsSound, IInv, Bounded, [Next]_vars PROVE Bounded'
<1>1. CASE Barriers
  <2>1. UNCHANGED <<g, source, dist>> /\ \A s \in Thread : pc'[s] \notin {"cas", "reload"}
    BY <1>1 DEF Barriers, Elected, EndIteration, config
  <2>. QED
    BY <2>1, KeepsBounded
<1>2. CASE UNCHANGED vars
  <2>1. UNCHANGED <<g, source, dist>> /\ \A s \in Thread : pc'[s] = pc[s] /\ work'[s] = work[s] /\ relax'[s] = relax[s]
    BY <1>2 DEF vars, config, locals
  <2>. QED
    BY <2>1, KeepsBounded
<1>. QED
  BY <1>1, <1>2, StepBounded DEF Next

LEMMA InitBounded == ASSUME ConstantsSound, Init PROVE Bounded
<1>1. /\ source \in Vertex /\ dist = [n \in Vertex |-> IF n = source THEN 0 ELSE kDistInf]
      /\ \A t \in Thread : pc[t] = "loop"
  BY DEF Init
<1>2. \A p : Feasible(p) => p[source] <= 0 /\ \A n \in Vertex : p[n] <= kDistInf
  BY DEF Feasible
<1>. QED
  BY <1>1, <1>2 DEF Bounded

\* Nothing waits when the loop has ended.
LEMMA EndShortest == ASSUME ConstantsSound, IInv, Bounded, Done PROVE Shortest
<1>. USE DEF IInv
<1>1. PICK t \in Thread : pc[t] = "done"
  BY DEF ConstantsSound, Done
<1>2. single /\ shared_indexes[curr] = kMaxBin /\ \A s \in Thread : pc[s] = "done"
  BY <1>1 DEF Control, Done, First, Second, Relaxing
<1>3. ASSUME NEW m \in Vertex, NEW e \in Edges(m) PROVE dist[e.v] <= dist[m] + e.w
  <2>1. SUFFICES ASSUME dist[m] + e.w < dist[e.v] PROVE FALSE
    <3>1. dist[m] \in Nat /\ e.w \in Nat /\ dist[e.v] \in Nat
      BY <1>3, GraphFacts
    <3>. QED
      BY <3>1
  <2>2. Waits(m, e) /\ ~Held(m, e) /\ ~Copied(m)
    BY <1>2, <2>1 DEF NoneLost, Held, HeldBy, Copied, Relaxing
  <2>3. dist[m] \in Nat /\ dist[m] < kMaxBin /\ kMaxBin \in Nat /\ delta \in Nat \ {0}
    <3>1. dist[m] \in Nat /\ e.w \in Nat /\ dist[e.v] \in Nat /\ dist[e.v] <= kDistInf /\ kDistInf <= kMaxBin /\ kMaxBin \in Nat
          /\ kDistInf \in Nat /\ delta \in Nat \ {0}
      BY <1>3, GraphFacts
    <3>. QED
      BY <2>1, <3>1
  <2>4. Bin(dist[m]) < kMaxBin /\ ~(dist[m] >= delta * kMaxBin)
    <3>1. Bin(dist[m]) \in Nat /\ Bin(dist[m]) <= dist[m] /\ (kMaxBin <= Bin(dist[m]) <=> dist[m] >= delta * kMaxBin)
      BY <2>3, BinFacts
    <3>. QED
      BY <2>3, <3>1
  <2>5. ~Queued(m)
    BY <1>2, <2>4 DEF Queued, InBin
  <2>6. ~Binned(m)
    <3>1. Bin(dist[m]) \in Nat
      BY <2>3, BinFacts
    <3>. QED
      BY <1>2, <2>3, <2>4, <3>1 DEF Binned
  <2>. QED
    BY <2>2, <2>5, <2>6 DEF Waits
<1>4. dist \in [Vertex -> Int] /\ dist[source] <= 0 /\ \A n \in Vertex : dist[n] <= kDistInf
  BY GraphFacts DEF TypeOK, Bounded
<1>. QED
  BY <1>3, <1>4 DEF Shortest, Feasible, Bounded

\* When the loop of DeltaStep ends, the distances are the shortest: no edge
\* improves one, and none exceeds what the edges allow, whatever the threads,
\* delta and the interleaving (sssp.cc:52-130).
THEOREM DistancesShortest == ASSUME ConstantsSound PROVE Spec => [](Done => Shortest)
<1>1. Init => Bounded
  BY InitBounded
<1>2. IInv /\ Bounded /\ [Next]_vars => Bounded'
  BY NextBounded
<1>3. IInv /\ Bounded => (Done => Shortest)
  BY EndShortest
<1>. QED
  BY <1>1, <1>2, <1>3, IInvInvariant, PTL DEF Spec

\* A distance never rises: a write to dist[v] comes from a swap of what a
\* thread read there with something less (sssp.cc:83-97).
THEOREM DistancesFall == ASSUME ConstantsSound PROVE Spec => [][\A n \in Vertex : dist'[n] <= dist[n]]_vars
<1>1. ASSUME IInv, Next PROVE \A n \in Vertex : dist'[n] <= dist[n]
  <2>1. \A n \in Vertex : dist[n] \in Nat
    BY <1>1, GraphFacts DEF IInv
  <2>2. CASE dist' = dist
    BY <2>1, <2>2
  <2>3. ASSUME NEW t \in Thread, Cas(t), dist' # dist PROVE \A n \in Vertex : dist'[n] <= dist[n]
    <3>1. pc[t] = "cas" /\ pc[t] \in Relaxing
      BY <2>3 DEF Cas, Relaxing
    <3>2. PICK v \in Vertex, d \in Nat : v = work[t][1].v /\ d = relax[t].new /\ v = Head(work[t]).v
      BY <1>1, <3>1, AtEdge
    <3>3. dist[v] = relax[t].old /\ dist' = [dist EXCEPT ![v] = d]
      BY <2>3, <3>2 DEF Cas
    <3>4. d < dist[v] /\ dist[v] \in Nat
      BY <1>1, <2>1, <3>1, <3>2, <3>3 DEF IInv, Relaxation, Relaxes
    <3>5. dist'[v] = d /\ \A n \in Vertex : n # v => dist'[n] = dist[n]
      BY <1>1, <3>3 DEF IInv, TypeOK
    <3>. QED
      BY <2>1, <3>4, <3>5
  <2>4. dist' = dist \/ \E t \in Thread : Cas(t)
    BY <1>1 DEF Next, Step, Barriers, Take, LoadOld, LoadNew, Reload, Vote, Single, Reserve, Copy, Elected, EndIteration
  <2>. QED
    BY <2>2, <2>3, <2>4
<1>. QED
  BY <1>1, IInvInvariant, PTL DEF Spec

-----------------------------------------------------------------------------
\* Bin by bin: cut off at the current bin, the distances are a potential, and
\* they are above every potential.  So a vertex whose shortest distance lies
\* below the bin has it already.
BinSettled ==
  single => /\ Feasible([n \in Vertex |-> IF dist[n] < Floor THEN dist[n] ELSE Floor])
            /\ \A p : Feasible(p) => \A n \in Vertex : p[n] <= dist[n]

LEMMA SettledBehind ==
  ASSUME ConstantsSound, IInv, single, NEW m \in Vertex, NEW e \in Edges(m), dist[m] < Floor
  PROVE  dist[e.v] <= dist[m] + e.w
<1>. USE DEF IInv
<1>1. dist[m] \in Nat /\ e.v \in Vertex /\ e.w \in Nat /\ dist[e.v] \in Nat /\ delta \in Nat \ {0} /\ shared_indexes[curr] \in Nat
  BY GraphFacts, Parity
<1>2. Floor \in Nat
  BY <1>1 DEF Floor
<1>3. ~Queued(m)
  BY <1>1, <1>2 DEF Queued, InBin, Floor
<1>4. ~Held(m, e)
  BY <1>1, <1>2 DEF Held, HeldBy, Relaxation, Relaxes
<1>5. ~Binned(m)
  <2>1. Bin(dist[m]) \in Nat /\ (shared_indexes[curr] <= Bin(dist[m]) <=> dist[m] >= Floor)
    BY <1>1, BinFacts DEF Floor
  <2>. QED
    BY <1>1, <1>2, <2>1 DEF Binned
<1>6. ~Copied(m)
  BY DEF Copied
<1>7. ~(dist[m] + e.w < dist[e.v])
  BY <1>3, <1>4, <1>5, <1>6 DEF NoneLost, Waits
<1>. QED
  BY <1>1, <1>7

LEMMA CutFeasible ==
  ASSUME ConstantsSound, IInv, Bounded, single
  PROVE  Feasible([n \in Vertex |-> IF dist[n] < Floor THEN dist[n] ELSE Floor])
<1>. DEFINE cut == [n \in Vertex |-> IF dist[n] < Floor THEN dist[n] ELSE Floor]
<1>1. /\ kDistInf \in Nat /\ delta \in Nat /\ shared_indexes[curr] \in Nat /\ source \in Vertex
      /\ \A n \in Vertex : dist[n] \in Nat /\ dist[n] <= kDistInf
  BY GraphFacts, Parity DEF IInv, TypeOK
<1>2. Floor \in Nat
  BY <1>1 DEF Floor
<1>3. \A n \in Vertex : cut[n] = (IF dist[n] < Floor THEN dist[n] ELSE Floor)
  OBVIOUS
<1>4. cut \in [Vertex -> Int]
  BY <1>1, <1>2
<1>. HIDE DEF cut
<1>5. \A n \in Vertex : cut[n] <= dist[n] /\ cut[n] <= Floor /\ cut[n] <= kDistInf
  BY <1>1, <1>2, <1>3
<1>6. cut[source] <= 0
  <2>1. dist[source] = 0
    BY DEF Bounded
  <2>. QED
    BY <1>1, <1>5, <2>1
<1>7. ASSUME NEW m \in Vertex, NEW e \in Edges(m) PROVE cut[e.v] <= cut[m] + e.w
  <2>1. e.v \in Vertex /\ e.w \in Nat
    BY <1>7, GraphFacts DEF IInv
  <2>2. CASE dist[m] < Floor
    <3>1. dist[e.v] <= dist[m] + e.w
      BY <1>7, <2>2, SettledBehind
    <3>. QED
      BY <1>1, <1>2, <1>3, <1>4, <1>5, <2>1, <2>2, <3>1
  <2>3. CASE ~(dist[m] < Floor)
    BY <1>1, <1>2, <1>3, <1>4, <1>5, <2>1, <2>3
  <2>. QED
    BY <2>2, <2>3
<1>8. Feasible(cut)
  BY <1>4, <1>5, <1>6, <1>7 DEF Feasible
<1>. QED
  BY <1>8 DEF cut

\* Delta-stepping settles bin by bin: while a bin is processed, every vertex
\* whose shortest distance lies below it has that distance, although threads
\* vote on the next bin before the others have finished (sssp.cc:101-116).
THEOREM BinSettledCorrect == ASSUME ConstantsSound PROVE Spec => []BinSettled
<1>1. Init => Bounded
  BY InitBounded
<1>2. IInv /\ Bounded /\ [Next]_vars => Bounded'
  BY NextBounded
<1>3. ASSUME IInv, Bounded, single PROVE BinSettled
  BY <1>3, CutFeasible DEF BinSettled, Bounded
<1>4. IInv /\ Bounded => BinSettled
  BY <1>3 DEF BinSettled
<1>. QED
  BY <1>1, <1>2, <1>4, IInvInvariant, PTL DEF Spec

-----------------------------------------------------------------------------
(* The oracle of SSSPVerifier: its rounds are the walks with so many edges. *)

LEMMA Induct == ASSUME NEW T \in SUBSET Nat, 0 \in T, \A k \in T : k + 1 \in T PROVE T = Nat
<1>. SUFFICES ASSUME Nat \ T # {} PROVE FALSE
  OBVIOUS
<1>. DEFINE R == Nat \ T
<1>1. R \in SUBSET Nat /\ R # {}
  OBVIOUS
<1>2. PICK k \in R : \A j \in R : k <= j
  <2>. HIDE DEF R
  <2>. QED
    BY <1>1, Least
<1>3. k \in Nat /\ k \notin T /\ k # 0
  BY <1>2
<1>4. k - 1 \in Nat /\ (k - 1) + 1 = k /\ k - 1 < k
  BY <1>3
<1>5. k - 1 \in T
  BY <1>2, <1>4
<1>. QED
  BY <1>3, <1>4, <1>5

LEMMA EdgeFacts ==
  ASSUME ConstantsSound, g \in Graphs
  PROVE  /\ Len(g) \in Nat /\ kDistInf \in Nat
         /\ \A m \in Vertex : \A e \in Edges(m) : e.v \in Vertex /\ e.w \in Nat
<1>. DEFINE S == Seq(Edge)
<1>1. g \in Seq(S) /\ kDistInf \in Nat
  BY DEF ConstantsSound, WGraph, Edge, Vertex
<1>. HIDE DEF S
<1>2. Len(g) \in Nat /\ \A i \in 1 .. Len(g) : g[i] \in S
  BY <1>1
<1>3. \A m \in Vertex : out_neigh(m) \in S
  BY <1>2 DEF Vertex, out_neigh
<1>4. ASSUME NEW m \in Vertex, NEW e \in Edges(m) PROVE e \in Edge
  <2>1. out_neigh(m) \in Seq(Edge)
    BY <1>3 DEF S
  <2>. QED
    BY <1>4, <2>1 DEF Edges, ToSet
<1>5. \A e \in Edge : e.v \in Vertex /\ e.w \in Nat
  BY DEF Edge
<1>. QED
  BY <1>1, <1>2, <1>4, <1>5

\* The end of a walk and its length, and a walk of n edges.
Point == [v : Vertex, d : Nat]
Start == [v |-> source, d |-> 0]
Follows(r, q) == \E e \in Edges(q.v) : r = [v |-> e.v, d |-> q.d + e.w]
Walk(n, r) ==
  \E p \in [0 .. n -> Point] :
    p[0] = Start /\ p[n] = r /\ \A i \in 0 .. n - 1 : Follows(p[i + 1], p[i])

\* What a round makes of the round before it, and the walks of so many edges.
Round(f) == [k \in 0 .. Len(g) |-> IF k = 0 THEN {Start} ELSE Extend(f[k - 1])]
WalksUpTo == [k \in 0 .. Len(g) |-> {r \in Point : \E n \in 0 .. k : Walk(n, r)}]

LEMMA ExtendFacts ==
  ASSUME NEW W PROVE \A r : r \in Extend(W) <=> r \in W \/ \E q \in W : Follows(r, q)
BY DEF Extend, Follows, Edges

LEMMA FollowsPoint ==
  ASSUME ConstantsSound, g \in Graphs, NEW q \in Point, NEW r, Follows(r, q) PROVE r \in Point
<1>1. PICK e \in Edges(q.v) : r = [v |-> e.v, d |-> q.d + e.w]
  BY DEF Follows
<1>2. q.v \in Vertex /\ q.d \in Nat
  BY DEF Point
<1>3. e.v \in Vertex /\ e.w \in Nat
  BY <1>2, EdgeFacts
<1>4. q.d + e.w \in Nat
  BY <1>2, <1>3
<1>. QED
  BY <1>1, <1>3, <1>4 DEF Point

LEMMA StartWalk == ASSUME source \in Vertex PROVE Start \in Point /\ \A r : Walk(0, r) <=> r = Start
<1>1. Start \in Point
  BY DEF Start, Point
<1>2. Walk(0, Start)
  <2>. DEFINE p == [i \in 0 .. 0 |-> Start]
  <2>1. p \in [0 .. 0 -> Point] /\ p[0] = Start /\ \A i \in 0 .. 0 - 1 : Follows(p[i + 1], p[i])
    BY <1>1
  <2>. HIDE DEF p
  <2>. QED
    BY <2>1 DEF Walk
<1>. QED
  BY <1>1, <1>2 DEF Walk

\* A walk is prolonged by an edge, and ends with one.
LEMMA LongerWalk ==
  ASSUME NEW n \in Nat, NEW q, Walk(n, q), NEW r \in Point, Follows(r, q)
  PROVE  Walk(n + 1, r)
<1>1. PICK p \in [0 .. n -> Point] :
        p[0] = Start /\ p[n] = q /\ \A i \in 0 .. n - 1 : Follows(p[i + 1], p[i])
  BY DEF Walk
<1>. DEFINE l == [i \in 0 .. n + 1 |-> IF i = n + 1 THEN r ELSE p[i]]
<1>2. l \in [0 .. n + 1 -> Point] /\ l[0] = Start /\ l[n + 1] = r /\ l[n] = q
  BY <1>1
<1>3. ASSUME NEW i \in 0 .. (n + 1) - 1 PROVE Follows(l[i + 1], l[i])
  <2>1. CASE i = n
    BY <1>2, <2>1
  <2>2. CASE i # n
    <3>1. i \in 0 .. n - 1 /\ l[i] = p[i] /\ l[i + 1] = p[i + 1]
      BY <2>2
    <3>. QED
      BY <1>1, <3>1
  <2>. QED
    BY <2>1, <2>2
<1>. HIDE DEF l
<1>. QED
  BY <1>2, <1>3 DEF Walk

LEMMA ShorterWalk ==
  ASSUME NEW n \in Nat \ {0}, NEW r, Walk(n, r)
  PROVE  \E q \in Point : Walk(n - 1, q) /\ Follows(r, q)
<1>1. PICK p \in [0 .. n -> Point] :
        p[0] = Start /\ p[n] = r /\ \A i \in 0 .. n - 1 : Follows(p[i + 1], p[i])
  BY DEF Walk
<1>. DEFINE l == [i \in 0 .. n - 1 |-> p[i]]
<1>2. l \in [0 .. n - 1 -> Point] /\ l[0] = Start /\ l[n - 1] = p[n - 1]
  BY <1>1
<1>3. \A i \in 0 .. (n - 1) - 1 : Follows(l[i + 1], l[i])
  <2>. TAKE i \in 0 .. (n - 1) - 1
  <2>1. i \in 0 .. n - 1 /\ l[i] = p[i] /\ l[i + 1] = p[i + 1]
    OBVIOUS
  <2>. QED
    BY <1>1, <2>1
<1>4. p[n - 1] \in Point /\ n - 1 \in 0 .. n - 1 /\ (n - 1) + 1 = n
  BY <1>1
<1>5. Follows(r, p[n - 1])
  BY <1>1, <1>4
<1>. HIDE DEF l
<1>6. Walk(n - 1, p[n - 1])
  BY <1>2, <1>3 DEF Walk
<1>. QED
  BY <1>4, <1>5, <1>6

\* One more round gives the walks of one more edge.
LEMMA OneRound ==
  ASSUME ConstantsSound, g \in Graphs, source \in Vertex, NEW k \in 1 .. Len(g)
  PROVE  Extend(WalksUpTo[k - 1]) = WalksUpTo[k]
<1>0. k \in Nat \ {0} /\ k - 1 \in 0 .. Len(g) /\ k \in 0 .. Len(g) /\ k - 1 \in Nat
  BY EdgeFacts
<1>1. /\ WalksUpTo[k] = {r \in Point : \E n \in 0 .. k : Walk(n, r)}
      /\ WalksUpTo[k - 1] = {r \in Point : \E n \in 0 .. k - 1 : Walk(n, r)}
  BY <1>0 DEF WalksUpTo
<1>2. ASSUME NEW r \in WalksUpTo[k - 1] PROVE r \in WalksUpTo[k]
  <2>1. PICK n \in 0 .. k - 1 : Walk(n, r) /\ r \in Point
    BY <1>1, <1>2
  <2>2. n \in 0 .. k
    BY <1>0
  <2>. QED
    BY <1>1, <2>1, <2>2
<1>3. ASSUME NEW q \in WalksUpTo[k - 1], NEW r, Follows(r, q) PROVE r \in WalksUpTo[k]
  <2>1. PICK n \in 0 .. k - 1 : Walk(n, q) /\ q \in Point
    BY <1>1, <1>3
  <2>2. r \in Point
    BY <1>3, <2>1, FollowsPoint
  <2>3. n \in Nat /\ n + 1 \in 0 .. k
    BY <1>0
  <2>4. Walk(n + 1, r)
    BY <1>3, <2>1, <2>2, <2>3, LongerWalk
  <2>. QED
    BY <1>1, <2>2, <2>3, <2>4
<1>4. ASSUME NEW r \in WalksUpTo[k] PROVE r \in WalksUpTo[k - 1] \/ \E q \in WalksUpTo[k - 1] : Follows(r, q)
  <2>1. PICK n \in 0 .. k : Walk(n, r) /\ r \in Point
    BY <1>1, <1>4
  <2>2. CASE n \in 0 .. k - 1
    BY <1>1, <2>1, <2>2
  <2>3. CASE n = k
    <3>1. PICK q \in Point : Walk(k - 1, q) /\ Follows(r, q)
      BY <1>0, <2>1, <2>3, ShorterWalk
    <3>2. k - 1 \in 0 .. k - 1
      BY <1>0
    <3>3. q \in WalksUpTo[k - 1]
      BY <1>1, <3>1, <3>2
    <3>. QED
      BY <3>1, <3>3
  <2>. QED
    BY <1>0, <2>2, <2>3
<1>5. \A r : r \in Extend(WalksUpTo[k - 1]) <=> r \in WalksUpTo[k]
  BY <1>2, <1>3, <1>4, ExtendFacts
<1>. QED
  BY <1>5

LEMMA RoundsOfOracle ==
  ASSUME ConstantsSound, g \in Graphs, source \in Vertex
  PROVE  /\ Walks[0] = {Start}
         /\ \A k \in 1 .. Len(g) : Walks[k] = Extend(Walks[k - 1])
<1>. DEFINE F == WalksUpTo
<1>1. Len(g) \in Nat
  BY EdgeFacts
<1>2. ASSUME NEW k \in 0 .. Len(g) PROVE Round(F)[k] = F[k]
  <2>1. CASE k = 0
    <3>1. F[0] = {r \in Point : Walk(0, r)}
      BY <1>1 DEF WalksUpTo
    <3>2. F[0] = {Start}
      BY <3>1, StartWalk
    <3>. QED
      BY <1>1, <2>1, <3>2 DEF Round
  <2>2. CASE k # 0
    <3>1. k \in 1 .. Len(g)
      BY <1>1, <2>2
    <3>2. Extend(F[k - 1]) = F[k]
      BY <3>1, OneRound
    <3>. QED
      BY <2>2, <3>2 DEF Round
  <2>. QED
    BY <2>1, <2>2
<1>3. F = Round(F)
  <2>1. F = [k \in 0 .. Len(g) |-> F[k]] /\ Round(F) = [k \in 0 .. Len(g) |-> Round(F)[k]]
    BY DEF WalksUpTo, Round
  <2>. HIDE DEF F
  <2>. QED
    BY <1>2, <2>1
<1>4. Walks = CHOOSE f : f = Round(f)
  BY DEF Walks, Round, Start
<1>5. Walks = Round(Walks)
  BY <1>3, <1>4
<1>6. 0 \in 0 .. Len(g) /\ \A k \in 1 .. Len(g) : k \in 0 .. Len(g) /\ k # 0
  BY <1>1
<1>7. Round(Walks)[0] = {Start} /\ \A k \in 1 .. Len(g) : Round(Walks)[k] = Extend(Walks[k - 1])
  BY <1>6 DEF Round
<1>. QED
  BY <1>5, <1>7

\* Every walk found ends at a vertex, and is no shorter than a potential.
LEMMA WalksAbove ==
  ASSUME ConstantsSound, g \in Graphs, source \in Vertex, NEW k \in 0 .. Len(g), NEW r \in Walks[k]
  PROVE  r \in Point /\ \A p : Feasible(p) => p[r.v] <= r.d
<1>. DEFINE Above(q) == q \in Point /\ \A p : Feasible(p) => p[q.v] <= q.d
            T == {n \in Nat : n \in 0 .. Len(g) => \A q \in Walks[n] : Above(q)}
<1>1. 0 \in T
  <2>1. Above(Start)
    BY StartWalk DEF Start, Feasible
  <2>. QED
    BY <2>1, RoundsOfOracle
<1>2. ASSUME NEW n \in T PROVE n + 1 \in T
  <2>1. SUFFICES ASSUME n + 1 \in 0 .. Len(g), NEW r1 \in Walks[n + 1] PROVE Above(r1)
    OBVIOUS
  <2>2. Len(g) \in Nat /\ n \in Nat /\ n \in 0 .. Len(g) /\ n + 1 \in 1 .. Len(g) /\ (n + 1) - 1 = n
    BY <2>1, EdgeFacts
  <2>3. Walks[n + 1] = Extend(Walks[n])
    BY <2>2, RoundsOfOracle
  <2>4. \A q \in Walks[n] : Above(q)
    BY <2>2
  <2>5. r1 \in Walks[n] \/ \E q \in Walks[n] : Follows(r1, q)
    BY <2>1, <2>3, ExtendFacts
  <2>6. ASSUME NEW q \in Walks[n], Follows(r1, q) PROVE Above(r1)
    <3>1. q \in Point /\ \A p : Feasible(p) => p[q.v] <= q.d
      BY <2>4
    <3>2. r1 \in Point
      BY <2>6, <3>1, FollowsPoint
    <3>3. PICK e \in Edges(q.v) : r1 = [v |-> e.v, d |-> q.d + e.w]
      BY <2>6 DEF Follows
    <3>4. q.v \in Vertex /\ q.d \in Nat /\ e.v \in Vertex /\ e.w \in Nat /\ r1.v = e.v /\ r1.d = q.d + e.w
      BY <3>1, <3>3, EdgeFacts DEF Point
    <3>5. ASSUME NEW p, Feasible(p) PROVE p[r1.v] <= r1.d
      <4>1. p[e.v] <= p[q.v] + e.w /\ p[e.v] \in Int /\ p[q.v] \in Int
        BY <3>4, <3>5 DEF Feasible
      <4>2. p[q.v] <= q.d
        BY <3>1, <3>5
      <4>3. p[r1.v] = p[e.v] /\ r1.d = q.d + e.w
        BY <3>4
      <4>4. p[e.v] <= q.d + e.w
        <5>1. \A a, b, d, w \in Int : a <= b + w /\ b <= d => a <= d + w
          OBVIOUS
        <5>. QED
          BY ONLY <3>4, <4>1, <4>2, <5>1
      <4>. QED
        BY <4>3, <4>4
    <3>. QED
      BY <3>2, <3>5
  <2>. QED
    BY <2>4, <2>5, <2>6
<1>. HIDE DEF Above
<1>3. T = Nat
  <2>1. T \in SUBSET Nat
    OBVIOUS
  <2>. HIDE DEF T
  <2>. QED
    BY <1>1, <1>2, <2>1, Induct
<1>4. k \in Nat /\ k \in T
  BY <1>3, EdgeFacts
<1>. QED
  BY <1>4 DEF Above

-----------------------------------------------------------------------------
(* There is a greatest potential. *)

Bounds(n) == {x \in Nat : \A p : Feasible(p) => p[n] <= x}
Best == [n \in Vertex |-> Min(Bounds(n))]

LEMMA BestFacts ==
  ASSUME ConstantsSound, g \in Graphs, source \in Vertex
  PROVE  /\ Feasible(Best) /\ Best[source] = 0
         /\ \A n \in Vertex : Best[n] \in Nat /\ Best[n] <= kDistInf
         /\ \A p : Feasible(p) => \A n \in Vertex : p[n] <= Best[n]
<1>0. kDistInf \in Nat /\ \A m \in Vertex : \A e \in Edges(m) : e.v \in Vertex /\ e.w \in Nat
  BY EdgeFacts
<1>1. ASSUME NEW n \in Vertex
      PROVE  /\ Best[n] \in Nat /\ Best[n] <= kDistInf
             /\ \A p : Feasible(p) => p[n] <= Best[n]
             /\ \A x \in Bounds(n) : Best[n] <= x
  <2>1. kDistInf \in Bounds(n)
    BY <1>0 DEF Bounds, Feasible
  <2>2. Bounds(n) \in SUBSET Nat
    BY DEF Bounds
  <2>3. Min(Bounds(n)) \in Bounds(n) /\ \A x \in Bounds(n) : Min(Bounds(n)) <= x
    BY <2>1, <2>2, Least
  <2>4. Best[n] = Min(Bounds(n))
    BY DEF Best
  <2>. QED
    BY <2>1, <2>3, <2>4 DEF Bounds
<1>2. Feasible([n \in Vertex |-> 0])
  BY <1>0 DEF Feasible
<1>3. ASSUME NEW n \in Vertex PROVE \E p : Feasible(p) /\ p[n] = Best[n]
  <2>1. Best[n] \in Nat
    BY <1>1
  <2>2. CASE Best[n] = 0
    BY <1>2, <2>2
  <2>3. CASE Best[n] # 0
    <3>1. SUFFICES ASSUME \A p : Feasible(p) => p[n] # Best[n] PROVE FALSE
      OBVIOUS
    <3>2. ASSUME NEW p, Feasible(p) PROVE p[n] <= Best[n] - 1
      <4>1. p[n] \in Int /\ p[n] <= Best[n] /\ p[n] # Best[n]
        BY <1>1, <3>1, <3>2 DEF Feasible
      <4>. QED
        BY <2>1, <4>1
    <3>3. Best[n] - 1 \in Nat
      BY <2>1, <2>3
    <3>4. Best[n] - 1 \in Bounds(n)
      BY <3>2, <3>3 DEF Bounds
    <3>5. Best[n] <= Best[n] - 1
      BY <1>1, <3>4
    <3>. QED
      BY <2>1, <3>5
  <2>. QED
    BY <2>2, <2>3
<1>4. Best[source] = 0
  <2>1. PICK p : Feasible(p) /\ p[source] = Best[source]
    BY <1>3
  <2>. QED
    BY <1>1, <2>1 DEF Feasible
<1>5. ASSUME NEW m \in Vertex, NEW e \in Edges(m) PROVE Best[e.v] <= Best[m] + e.w
  <2>1. e.v \in Vertex /\ e.w \in Nat
    BY <1>0
  <2>2. PICK p : Feasible(p) /\ p[e.v] = Best[e.v]
    BY <1>3, <2>1
  <2>3. p[e.v] <= p[m] + e.w /\ p[m] \in Int
    BY <2>2 DEF Feasible
  <2>4. p[m] <= Best[m] /\ Best[m] \in Nat /\ Best[e.v] \in Nat
    BY <1>1, <2>1, <2>2
  <2>. QED
    BY <2>1, <2>2, <2>3, <2>4
<1>6. Best \in [Vertex -> Int]
  <2>1. Best = [n \in Vertex |-> Best[n]]
    BY DEF Best
  <2>2. \A n \in Vertex : Best[n] \in Int
    BY <1>1
  <2>. QED
    BY <2>1, <2>2
<1>7. Feasible(Best)
  BY <1>1, <1>4, <1>5, <1>6 DEF Feasible
<1>. QED
  BY <1>1, <1>4, <1>7

\* The vertices whose greatest potential a walk of at most k edges has.
Reached(k) == {n \in Vertex : Best[n] = kDistInf \/ \E r \in Walks[k] : r.v = n /\ r.d = Best[n]}

\* A round that reaches no further vertex has reached all: the others could
\* have a potential greater by one.
LEMMA ReachesMore ==
  ASSUME ConstantsSound, g \in Graphs, source \in Vertex, NEW k \in Nat, k + 1 \in 0 .. Len(g)
  PROVE  /\ Reached(k) \subseteq Reached(k + 1)
         /\ Reached(k + 1) = Reached(k) => Reached(k) = Vertex
<1>0. Len(g) \in Nat /\ kDistInf \in Nat /\ k + 1 \in 1 .. Len(g) /\ (k + 1) - 1 = k /\ k \in 0 .. Len(g)
  BY EdgeFacts
<1>1. Walks[k + 1] = Extend(Walks[k])
  BY <1>0, RoundsOfOracle
<1>2. \A r : r \in Walks[k + 1] <=> r \in Walks[k] \/ \E q \in Walks[k] : Follows(r, q)
  BY <1>1, ExtendFacts
<1>3. Reached(k) \subseteq Reached(k + 1)
  BY <1>2 DEF Reached
<1>4. ASSUME Reached(k + 1) = Reached(k), NEW x \in Vertex, x \notin Reached(k) PROVE FALSE
  <2>. DEFINE q == [n \in Vertex |-> IF n \in Reached(k) THEN Best[n] ELSE Best[n] + 1]
  <2>1. /\ Best[source] = 0
        /\ \A n \in Vertex : Best[n] \in Nat /\ Best[n] <= kDistInf
        /\ \A p : Feasible(p) => \A n \in Vertex : p[n] <= Best[n]
        /\ \A m \in Vertex : \A e \in Edges(m) : Best[e.v] <= Best[m] + e.w
    BY BestFacts DEF Feasible
  <2>2. \A n \in Vertex : q[n] = (IF n \in Reached(k) THEN Best[n] ELSE Best[n] + 1)
    OBVIOUS
  <2>3. q \in [Vertex -> Int]
    BY <2>1
  <2>. HIDE DEF q
  <2>4. \A n \in Vertex : q[n] <= kDistInf
    <3>1. \A n \in Vertex : n \notin Reached(k) => Best[n] # kDistInf
      BY DEF Reached
    <3>. QED
      BY <1>0, <2>1, <2>2, <3>1
  <2>5. source \in Reached(k)
    <3>1. Start \in Walks[0]
      BY RoundsOfOracle
    <3>. DEFINE T == {n \in Nat : n \in 0 .. Len(g) => Start \in Walks[n]}
    <3>2. 0 \in T
      BY <3>1
    <3>3. ASSUME NEW n \in T PROVE n + 1 \in T
      <4>1. SUFFICES ASSUME n + 1 \in 0 .. Len(g) PROVE Start \in Walks[n + 1]
        OBVIOUS
      <4>2. n \in Nat /\ n \in 0 .. Len(g) /\ n + 1 \in 1 .. Len(g) /\ (n + 1) - 1 = n
        BY <1>0, <4>1
      <4>3. Walks[n + 1] = Extend(Walks[n]) /\ Start \in Walks[n]
        BY <4>2, RoundsOfOracle
      <4>. QED
        BY <4>3, ExtendFacts
    <3>4. T = Nat
      <4>1. T \in SUBSET Nat
        OBVIOUS
      <4>. HIDE DEF T
      <4>. QED
        BY <3>2, <3>3, <4>1, Induct
    <3>5. Start \in Walks[k]
      BY <1>0, <3>4
    <3>. QED
      BY <2>1, <3>5 DEF Reached, Start
  <2>6. ASSUME NEW m \in Vertex, NEW e \in Edges(m) PROVE q[e.v] <= q[m] + e.w
    <3>1. e.v \in Vertex /\ e.w \in Nat /\ Best[e.v] \in Nat /\ Best[m] \in Nat /\ Best[e.v] <= Best[m] + e.w
      BY <2>1, EdgeFacts
    <3>2. CASE e.v \in Reached(k) \/ m \notin Reached(k)
      BY <2>2, <3>1, <3>2
    <3>3. CASE e.v \notin Reached(k) /\ m \in Reached(k)
      <4>1. Best[e.v] # Best[m] + e.w
        <5>1. SUFFICES ASSUME Best[e.v] = Best[m] + e.w PROVE FALSE
          OBVIOUS
        <5>2. CASE Best[m] = kDistInf
          <6>1. Best[e.v] # kDistInf /\ Best[e.v] <= kDistInf
            BY <2>1, <3>1, <3>3 DEF Reached
          <6>. QED
            BY <1>0, <3>1, <5>1, <5>2, <6>1
        <5>3. CASE Best[m] # kDistInf
          <6>1. PICK r \in Walks[k] : r.v = m /\ r.d = Best[m]
            BY <3>3, <5>3 DEF Reached
          <6>. DEFINE r1 == [v |-> e.v, d |-> r.d + e.w]
          <6>2. Follows(r1, r)
            BY <6>1 DEF Follows
          <6>3. r1 \in Walks[k + 1] /\ r1.v = e.v /\ r1.d = Best[e.v]
            BY <1>2, <5>1, <6>1, <6>2
          <6>4. e.v \in Reached(k + 1)
            BY <3>1, <6>3 DEF Reached
          <6>. QED
            BY <1>4, <3>3, <6>4
        <5>. QED
          BY <5>2, <5>3
      <4>. QED
        BY <2>2, <3>1, <3>3, <4>1
    <3>. QED
      BY <3>2, <3>3
  <2>7. Feasible(q)
    BY <2>1, <2>2, <2>3, <2>4, <2>5, <2>6 DEF Feasible
  <2>8. q[x] <= Best[x] /\ q[x] = Best[x] + 1 /\ Best[x] \in Nat
    BY <1>4, <2>1, <2>2, <2>7
  <2>. QED
    BY <2>8
<1>5. Reached(k) \subseteq Vertex
  BY DEF Reached
<1>. QED
  BY <1>3, <1>4, <1>5

\* As many rounds as vertices are enough.
LEMMA ReachesAll ==
  ASSUME ConstantsSound, g \in Graphs, source \in Vertex
  PROVE  Reached(Len(g)) = Vertex
<1>0. Len(g) \in Nat
  BY EdgeFacts
<1>1. IsFiniteSet(Vertex) /\ Cardinality(Vertex) = Len(g)
  <2>1. 0 \in Int /\ Len(g) - 1 \in Int
    BY <1>0
  <2>. DEFINE b == Len(g) - 1
  <2>. HIDE DEF b
  <2>2. IsFiniteSet(0 .. b) /\ Cardinality(0 .. b) = IF 0 > b THEN 0 ELSE b - 0 + 1
    BY <2>1, FS_Interval DEF b
  <2>3. b \in Int /\ b + 1 = Len(g) /\ (IF 0 > b THEN 0 ELSE b - 0 + 1) = Len(g)
    BY <1>0 DEF b
  <2>. QED
    BY <2>2, <2>3 DEF Vertex, b
<1>2. \A k : Reached(k) \in SUBSET Vertex
  BY DEF Reached
<1>3. ASSUME NEW k PROVE IsFiniteSet(Reached(k)) /\ Cardinality(Reached(k)) \in Nat /\ Cardinality(Reached(k)) <= Len(g)
  <2>1. IsFiniteSet(Reached(k)) /\ Cardinality(Reached(k)) <= Cardinality(Vertex)
    BY <1>1, <1>2, FS_Subset
  <2>2. Cardinality(Reached(k)) \in Nat
    BY <2>1, FS_CardinalityType
  <2>. QED
    BY <1>1, <2>1, <2>2
<1>. DEFINE T == {k \in Nat : k \in 0 .. Len(g) => Reached(k) = Vertex \/ Cardinality(Reached(k)) > k}
<1>4. 0 \in T
  <2>1. Start \in Walks[0] /\ Best[source] = 0
    BY RoundsOfOracle, BestFacts
  <2>2. source \in Reached(0)
    BY <2>1 DEF Reached, Start
  <2>3. Cardinality(Reached(0)) # 0
    BY <1>3, <2>2, FS_EmptySet
  <2>. QED
    BY <1>3, <2>3
<1>5. ASSUME NEW k \in T PROVE k + 1 \in T
  <2>1. SUFFICES ASSUME k + 1 \in 0 .. Len(g) PROVE Reached(k + 1) = Vertex \/ Cardinality(Reached(k + 1)) > k + 1
    OBVIOUS
  <2>2. k \in Nat /\ (Reached(k) = Vertex \/ Cardinality(Reached(k)) > k)
    BY <1>0, <2>1
  <2>3. Reached(k) \subseteq Reached(k + 1) /\ (Reached(k + 1) = Reached(k) => Reached(k) = Vertex)
    BY <2>1, <2>2, ReachesMore
  <2>4. CASE Reached(k) = Vertex
    BY <1>2, <2>3, <2>4
  <2>5. CASE Reached(k) # Vertex
    <3>1. Reached(k) \in SUBSET Reached(k + 1) /\ Reached(k + 1) # Reached(k)
      BY <2>3, <2>5
    <3>2. Cardinality(Reached(k)) <= Cardinality(Reached(k + 1)) /\ Cardinality(Reached(k + 1)) # Cardinality(Reached(k))
      BY <1>3, <3>1, FS_Subset
    <3>3. Cardinality(Reached(k)) \in Nat /\ Cardinality(Reached(k + 1)) \in Nat
      BY <1>3
    <3>. QED
      BY <2>2, <2>5, <3>2, <3>3
  <2>. QED
    BY <2>4, <2>5
<1>6. T = Nat
  <2>1. T \in SUBSET Nat
    OBVIOUS
  <2>. HIDE DEF T
  <2>. QED
    BY <1>4, <1>5, <2>1, Induct
<1>7. Reached(Len(g)) = Vertex \/ Cardinality(Reached(Len(g))) > Len(g)
  BY <1>0, <1>6
<1>. QED
  BY <1>0, <1>3, <1>7

\* The oracle of SSSPVerifier (sssp.cc:139-163) is the greatest potential: the
\* lengths of the shortest walks, however many edges those have.
THEOREM OracleCorrect ==
  ASSUME ConstantsSound, g \in Graphs, source \in Vertex
  PROVE  Feasible(Oracle) /\ \A p : Feasible(p) => \A n \in Vertex : p[n] <= Oracle[n]
<1>0. Len(g) \in Nat /\ kDistInf \in Nat /\ Len(g) \in 0 .. Len(g)
  BY EdgeFacts
<1>1. ASSUME NEW n \in Vertex PROVE Oracle[n] = Best[n]
  <2>. DEFINE T == {kDistInf} \cup {r.d : r \in {q \in Walks[Len(g)] : q.v = n}}
  <2>1. \A x : x \in T <=> x = kDistInf \/ \E r \in Walks[Len(g)] : r.v = n /\ r.d = x
    OBVIOUS
  <2>2. Oracle[n] = Min(T)
    BY DEF Oracle
  <2>. HIDE DEF T
  <2>3. Best[n] \in Nat /\ Best[n] <= kDistInf
    BY BestFacts
  <2>4. Best[n] \in T
    <3>1. n \in Reached(Len(g))
      BY ReachesAll
    <3>. QED
      BY <2>1, <3>1 DEF Reached
  <2>5. ASSUME NEW x \in T PROVE x \in Nat /\ Best[n] <= x
    <3>1. CASE x = kDistInf
      BY <1>0, <2>3, <3>1
    <3>2. ASSUME NEW r \in Walks[Len(g)], r.v = n, r.d = x PROVE x \in Nat /\ Best[n] <= x
      <4>1. r \in Point /\ Best[r.v] <= r.d
        BY <1>0, BestFacts, WalksAbove
      <4>. QED
        BY <3>2, <4>1 DEF Point
    <3>. QED
      BY <2>1, <3>1, <3>2
  <2>6. Min(T) \in T /\ \A x \in T : Min(T) <= x
    <3>1. T \in SUBSET Nat /\ T # {}
      BY <2>4, <2>5
    <3>. QED
      BY <3>1, Least
  <2>7. Min(T) <= Best[n] /\ Best[n] <= Min(T) /\ Min(T) \in Nat
    BY <2>4, <2>5, <2>6
  <2>. QED
    BY <2>2, <2>3, <2>7
<1>2. Oracle = Best
  <2>1. Oracle = [n \in Vertex |-> Oracle[n]] /\ Best = [n \in Vertex |-> Best[n]]
    BY DEF Oracle, Best
  <2>. QED
    BY <1>1, <2>1
<1>. QED
  BY <1>2, BestFacts

\* The oracle is computed once.
OracleKnown == oracle_dist = Oracle

LEMMA SameOracle == ASSUME UNCHANGED <<g, source>> PROVE Oracle' = Oracle
BY DEF Oracle, Walks, Extend, Vertex, out_neigh

LEMMA NextOracle == ASSUME IInv, OracleKnown, [Next]_vars PROVE OracleKnown'
<1>1. UNCHANGED config
  BY DEF Next, Step, Barriers, Take, LoadOld, LoadNew, Cas, Reload, Vote, Single, Reserve, Copy,
         Elected, EndIteration, vars
<1>2. UNCHANGED <<g, source, oracle_dist>>
  BY <1>1 DEF config
<1>. QED
  BY <1>2, SameOracle DEF OracleKnown

LEMMA Settled == ASSUME ConstantsSound, IInv, Bounded, OracleKnown PROVE SettledBelow
<1>1. /\ Feasible(oracle_dist)
      /\ \A p : Feasible(p) => \A n \in Vertex : p[n] <= oracle_dist[n]
  BY OracleCorrect DEF OracleKnown, IInv, TypeOK
<1>2. \A n \in Vertex : dist[n] \in Nat /\ oracle_dist[n] \in Int /\ oracle_dist[n] <= dist[n]
  BY <1>1, GraphFacts DEF IInv, Bounded, Feasible
<1>3. ASSUME single, NEW n \in Vertex, oracle_dist[n] < Floor PROVE dist[n] = oracle_dist[n]
  <2>. DEFINE cut == [m \in Vertex |-> IF dist[m] < Floor THEN dist[m] ELSE Floor]
  <2>1. Feasible(cut)
    BY <1>3, CutFeasible
  <2>2. cut[n] = (IF dist[n] < Floor THEN dist[n] ELSE Floor)
    OBVIOUS
  <2>. HIDE DEF cut
  <2>3. cut[n] <= oracle_dist[n] /\ Floor \in Int
    BY <1>1, <2>1, GraphFacts, Parity DEF IInv, Floor
  <2>. QED
    BY <1>2, <1>3, <2>2, <2>3
<1>. QED
  BY <1>2, <1>3 DEF SettledBelow, Floor

LEMMA Accepted == ASSUME ConstantsSound, IInv, Bounded, OracleKnown PROVE SSSPAccepted
<1>1. /\ Feasible(oracle_dist)
      /\ \A p : Feasible(p) => \A n \in Vertex : p[n] <= oracle_dist[n]
  BY OracleCorrect DEF OracleKnown, IInv, TypeOK
<1>2. ASSUME Done PROVE dist = oracle_dist
  <2>1. Feasible(dist) /\ \A p : Feasible(p) => \A n \in Vertex : p[n] <= dist[n]
    BY <1>2, EndShortest DEF Shortest
  <2>2. \A n \in Vertex : dist[n] \in Int /\ oracle_dist[n] \in Int /\ dist[n] <= oracle_dist[n] /\ oracle_dist[n] <= dist[n]
    BY <1>1, <2>1 DEF Feasible
  <2>3. \A n \in Vertex : dist[n] = oracle_dist[n]
    BY <2>2
  <2>4. dist = [n \in Vertex |-> dist[n]] /\ oracle_dist = [n \in Vertex |-> oracle_dist[n]]
    BY <1>1, <2>1 DEF Feasible
  <2>. QED
    BY <2>3, <2>4
<1>. QED
  BY <1>2 DEF SSSPAccepted

\* While a bin is processed, every vertex whose distance in the oracle lies
\* below the bin has that distance, and no vertex ever has less than its own
\* (sssp.cc:101-116).
THEOREM SettledBelowCorrect == ASSUME ConstantsSound PROVE Spec => []SettledBelow
<1>1. Init => Bounded /\ OracleKnown
  BY InitBounded DEF Init, OracleKnown
<1>2. IInv /\ Bounded /\ OracleKnown /\ [Next]_vars => (Bounded /\ OracleKnown)'
  BY NextBounded, NextOracle
<1>3. IInv /\ Bounded /\ OracleKnown => SettledBelow
  BY Settled
<1>. QED
  BY <1>1, <1>2, <1>3, IInvInvariant, PTL DEF Spec

\* SSSPVerifier accepts the distances that DeltaStep returns, for any graph,
\* team, delta and interleaving (sssp.cc:52-130, 138-172).
THEOREM SSSPAcceptedCorrect == ASSUME ConstantsSound PROVE Spec => []SSSPAccepted
<1>1. Init => Bounded /\ OracleKnown
  BY InitBounded DEF Init, OracleKnown
<1>2. IInv /\ Bounded /\ OracleKnown /\ [Next]_vars => (Bounded /\ OracleKnown)'
  BY NextBounded, NextOracle
<1>3. IInv /\ Bounded /\ OracleKnown => SSSPAccepted
  BY Accepted
<1>. QED
  BY <1>1, <1>2, <1>3, IInvInvariant, PTL DEF Spec
=============================================================================
