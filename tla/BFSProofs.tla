----------------------------- MODULE BFSProofs -----------------------------
(***************************************************************************)
(* Proofs about BFS, for any graph, source, team of threads, buffer size,  *)
(* chunk size and choices of direction: every tree edge goes one level     *)
(* down at any moment, the queue never holds more than num_nodes entries,  *)
(* and at the end exactly the vertices that can be reached are in the      *)
(* tree.                                                                   *)
(***************************************************************************)
EXTENDS BFS, FiniteSetTheorems, WellFoundedInduction, TLAPS

Word   == 0 .. (NumNodes - 1) \div BitsPerWord
Bitmap == [Word -> SUBSET Vertex]
Phases == {"seed", "while", "td", "q2b", "bu", "b2q", "done"}
Busy   == {"td", "cas", "push", "q2b", "casbit", "bu", "setbit", "b2q"}
PCs    == Busy \cup {"idle", "loop", "flush", "through"}

TypeOK ==
  /\ g \in Graphs /\ source \in Vertex
  /\ parent \in [Vertex -> Int]
  /\ front \in Bitmap /\ curr \in Bitmap
  /\ phase \in Phases /\ todo \subseteq Nat
  /\ pc \in [Thread -> PCs] /\ work \in [Thread -> Seq(Vertex)]
  /\ val \in [Thread -> Nat] /\ word \in [Thread -> SUBSET Vertex]
  /\ sharedIn \in Nat /\ outStart \in Nat /\ outEnd \in Nat
  /\ outStart <= outEnd /\ outEnd <= sharedIn
  /\ DOMAIN slots \subseteq 0 .. sharedIn - 1 /\ \A i \in DOMAIN slots : slots[i] \in Vertex
  /\ lq \in [Thread -> Seq(Vertex)] /\ copyStart \in [Thread -> Nat \cup {-1}]

\* Where the threads can be in each phase.
PCsIn(p) ==
  CASE p = "td"  -> {"loop", "td", "cas", "push", "flush", "through"}
    [] p = "q2b" -> {"loop", "q2b", "casbit", "through"}
    [] p = "bu"  -> {"loop", "bu", "setbit", "through"}
    [] p = "b2q" -> {"loop", "b2q", "flush", "through"}
    [] OTHER     -> {"idle", "through"}

\* A thread is beyond its loop only when all iterations are over.
Control ==
  /\ \A t \in Thread : pc[t] \in PCsIn(phase)
  /\ \A t \in Thread : pc[t] \notin Busy => work[t] = <<>>
  /\ \A t \in Thread : pc[t] \in {"cas", "push", "casbit", "setbit"} => work[t] # <<>>
  /\ \A s, t \in Thread : pc[t] \in {"idle", "flush", "through"} => todo = {} /\ pc[s] \notin Busy

\* The range of slots that a flush has reserved and not yet written.
Reserved(t) == copyStart[t] .. copyStart[t] + Len(lq[t]) - 1
Copying(t) == copyStart[t] # -1

\* Every slot behind the window is written or reserved by one thread; outside
\* the loops that append to the queue there is no such slot.
Slots ==
  /\ \A t \in Thread : Copying(t) =>
       /\ pc[t] \in {"flush", "push", "b2q"} /\ (pc[t] = "b2q" => work[t] # <<>>)
       /\ outEnd <= copyStart[t] /\ copyStart[t] + Len(lq[t]) <= sharedIn
       /\ Reserved(t) \cap DOMAIN slots = {}
  /\ \A s, t \in Thread : Copying(s) /\ Copying(t) /\ s # t => Reserved(s) \cap Reserved(t) = {}
  /\ \A i \in 0 .. sharedIn - 1 : i \in DOMAIN slots \/ \E t \in Thread : Copying(t) /\ i \in Reserved(t)
  /\ \A t \in Thread : pc[t] \in {"idle", "through"} => lq[t] = <<>>
  /\ phase \notin {"td", "b2q"} => sharedIn = outEnd /\ \A t \in Thread : lq[t] = <<>>
  /\ phase = "seed" => sharedIn = 0

\* The vertices on the way into the queue: in a buffer, about to be put there,
\* or (in BitmapToQueue) not yet looked at.
Held(t) == {work[t][k] : k \in DOMAIN work[t]}
Buffer(t) == {lq[t][k] : k \in DOMAIN lq[t]}
Behind == {slots[i] : i \in {j \in DOMAIN slots : j >= outEnd}}
ToPush(t) == IF pc[t] = "push" THEN {Head(work[t])} ELSE IF pc[t] = "b2q" THEN Held(t) ELSE {}
ToLookAt == IF phase = "b2q" THEN todo ELSE {}

\* No vertex is twice in the queue or on its way into it.
Once ==
  /\ \A i, j \in DOMAIN slots : slots[i] = slots[j] => i = j
  /\ \A t \in Thread : \A i, j \in DOMAIN lq[t] : lq[t][i] = lq[t][j] => i = j
  /\ \A s, t \in Thread : s # t => Buffer(s) \cap Buffer(t) = {} /\ ToPush(s) \cap ToPush(t) = {}
  /\ \A s, t \in Thread : ToPush(s) \cap Buffer(t) = {}
  /\ \A t \in Thread : (ToPush(t) \cup Buffer(t)) \cap (Behind \cup ToLookAt) = {}
  /\ Behind \cap ToLookAt = {}

\* In BUStep the chunks of the threads are apart.
OwnChunks ==
  phase = "bu" => \A t \in Thread : pc[t] \in {"bu", "setbit"} =>
    /\ val[t] \notin todo /\ \A n \in Held(t) : n \div ChunkSize = val[t]
    /\ \A s \in Thread : s # t /\ pc[s] \in {"bu", "setbit"} => val[s] # val[t]

\* What the loops run over.
Iterations ==
  /\ phase \in {"td", "q2b"} => todo \subseteq outStart .. outEnd - 1
  /\ phase = "bu" => todo \subseteq Chunks
  /\ phase = "b2q" => todo \subseteq Vertex
  /\ \A t \in Thread : pc[t] = "b2q" => Held(t) \subseteq {val[t]}

Structure == TypeOK /\ Control /\ Slots /\ Once /\ OwnChunks /\ Iterations

-----------------------------------------------------------------------------
(* The levels, lv, and the level L that is being expanded. *)
Level(lv, n) == {m \in Vertex : lv[m] = n}
Visited == {m \in Vertex : parent[m] >= 0}

Parents(lv) ==
  /\ parent[source] = source
  /\ Descends(lv)
  /\ \A m \in Vertex : parent[m] < 0 => parent[m] = IF phase = "done" THEN -1 ELSE InitParent(m)

\* All levels up to L have been visited, and nothing more; or some of the next.
AllVisited(lv, L) == \A m \in Vertex : m \in Visited <=> lv[m] \in 0 .. L
Visiting(lv, L) == \A m \in Vertex :
  /\ lv[m] \in 0 .. L => m \in Visited
  /\ m \in Visited => lv[m] \in 0 .. L + 1

\* What lies before the end of the window, and behind it.
Queue(lv, old) ==
  /\ \A i \in DOMAIN slots : i < outEnd => lv[slots[i]] \in 0 .. old
  /\ \A m \in Behind : lv[m] = old + 1
  /\ \A t \in Thread : \A m \in Buffer(t) : lv[m] = old + 1

Windowed(lv, L) == \A m \in Vertex :
  lv[m] = L <=> \E i \in outStart .. outEnd - 1 : i \in DOMAIN slots /\ slots[i] = m

\* Bits of earlier levels may still be set in the front.
NotAhead(lv, L) == \A m \in Vertex : get_bit(front, m) => lv[m] \in 0 .. L

InTodo(m) == \E i \in todo : slots[i] = m
InWork(t, m) == pc[t] \in Busy /\ m \in Held(t)

TopDown(lv, L) ==
  /\ todo \subseteq outStart .. outEnd - 1
  /\ \A t \in Thread : pc[t] \in {"td", "cas", "push"} =>
       /\ val[t] \in Level(lv, L) /\ \A m \in Held(t) : Contains(out_neigh(val[t]), m)
       /\ pc[t] = "push" => Head(work[t]) \in Visited /\ lv[Head(work[t])] = L + 1
  \* An edge of the window to an unvisited vertex is still to be followed.
  /\ \A m \in Level(lv, L) : \A n \in Vertex \ Visited : Contains(out_neigh(m), n) =>
       InTodo(m) \/ \E t \in Thread : val[t] = m /\ InWork(t, n)
  \* A visited vertex of the next level is in the queue or on its way, and
  \* nothing else is.
  /\ Behind \subseteq Visited /\ \A t \in Thread : Buffer(t) \subseteq Visited
  /\ \A m \in Level(lv, L + 1) \cap Visited :
       m \in Behind \/ \E t \in Thread : m \in Buffer(t) \/ m \in ToPush(t)

ToBitmap(lv, L) ==
  /\ todo \subseteq outStart .. outEnd - 1
  /\ \A t \in Thread : Held(t) \subseteq Level(lv, L)
  /\ \A m \in Level(lv, L) : get_bit(front, m) \/ InTodo(m) \/ \E t \in Thread : InWork(t, m)

BottomUp(lv, L) ==
  /\ \A m \in Level(lv, L) : get_bit(front, m)
  /\ \A m \in Vertex : get_bit(curr, m) => lv[m] = L + 1
  /\ \A m \in Level(lv, L + 1) \cap Visited :
       get_bit(curr, m) \/ \E t \in Thread : pc[t] = "setbit" /\ m = Head(work[t])
  /\ \A m \in Level(lv, L + 1) \ Visited :
       m \div ChunkSize \in todo \/ \E t \in Thread : InWork(t, m)
  /\ \A t \in Thread : pc[t] = "setbit" =>
       /\ word[t] = curr[word_offset(Head(work[t]))]
       /\ Head(work[t]) \in Visited /\ lv[Head(work[t])] = L + 1

ToQueue(lv, L) ==
  /\ \A m \in Vertex : get_bit(front, m) <=> lv[m] = L
  /\ \A m \in Level(lv, L) :
       m \in todo \/ m \in Behind \/ \E t \in Thread : InWork(t, m) \/ m \in Buffer(t)

\* L levels below the source are done.
AtLevel(lv, L) ==
  /\ IF phase \in {"td", "bu"} THEN Visiting(lv, L)
     ELSE phase # "done" => AllVisited(lv, L)
  /\ phase # "done" => Queue(lv, IF phase = "b2q" THEN L - 1 ELSE L)
  /\ phase \in {"while", "td", "q2b"} => Windowed(lv, L)
  /\ phase \in {"seed", "while", "td", "q2b", "bu"} => NotAhead(lv, L)
  /\ phase = "seed" => L = 0
  /\ phase = "td"  => TopDown(lv, L)
  /\ phase = "q2b" => ToBitmap(lv, L)
  /\ phase = "bu"  => BottomUp(lv, L)
  /\ phase = "b2q" => ToQueue(lv, L)
  /\ phase = "done" => \A m \in Vertex : m \in Visited <=> lv[m] >= 0

Progress(lv) == Parents(lv) /\ \E L \in Nat : AtLevel(lv, L)

IInv == Structure /\ \A lv : IsLevels(lv) => Progress(lv)

-----------------------------------------------------------------------------
(* The operators. *)

LEMMA Least ==
  ASSUME NEW T \in SUBSET Nat, T # {}
  PROVE  Min(T) \in T /\ \A y \in T : Min(T) <= y
<1>. DEFINE R == OpToRel(<, Nat)
<1>1. PICK x \in T : \A y \in T : <<y, x>> \notin R
  <2>1. IsWellFoundedOn(R, Nat)
    BY NatLessThanWellFounded
  <2>. HIDE DEF R
  <2>. QED
    BY <2>1, WFMin
<1>2. \A y \in T : ~(y < x)
  BY <1>1 DEF OpToRel
<1>3. \A y \in T : x <= y
  BY <1>2
<1>. QED
  BY <1>3 DEF Min

\* Division of natural numbers.
LEMMA Euclid ==
  ASSUME NEW n \in Nat, NEW d \in Nat \ {0}
  PROVE  /\ n \div d \in Nat /\ (n \div d) * d <= n /\ n < (n \div d) * d + d /\ n \div d <= n
         /\ \A q \in Nat : q * d <= n /\ n < q * d + d => q = n \div d
<1>. DEFINE q == n \div d
            r == n % d
<1>1. n = q * d + r
  BY SMTT(30)
<1>2. q \in Int /\ r \in 0 .. d - 1
  OBVIOUS
<1>. HIDE DEF q, r
<1>3. q >= 0
  <2>1. q < 0 => q * d <= -1 * d
    BY <1>2
  <2>. QED
    BY <1>1, <1>2, <2>1
<1>4. q * d >= q
  BY <1>2, <1>3
<1>5. ASSUME NEW p \in Nat, p * d <= n, n < p * d + d PROVE p = q
  <2>1. p + 1 <= q => (p + 1) * d <= q * d
    BY <1>2, <1>3
  <2>2. q + 1 <= p => (q + 1) * d <= p * d
    BY <1>2, <1>3
  <2>3. (p + 1) * d = p * d + d /\ (q + 1) * d = q * d + d
    BY <1>2
  <2>4. p * d \in Int /\ q * d \in Int
    BY <1>2
  <2>. QED
    BY <1>1, <1>2, <1>5, <2>1, <2>2, <2>3, <2>4
<1>6. q * d \in Int
  BY <1>2
<1>7. q \in Nat /\ q * d <= n /\ n < q * d + d /\ q <= n
  BY <1>1, <1>2, <1>3, <1>4, <1>6
<1>. QED
  BY <1>5, <1>7 DEF q

\* What Head and Tail leave of a sequence.
LEMMA Split ==
  ASSUME NEW V, NEW s \in Seq(V), s # <<>>
  PROVE  /\ Head(s) \in V /\ Tail(s) \in Seq(V) /\ 1 \in DOMAIN s /\ s[1] = Head(s)
         /\ {s[k] : k \in DOMAIN s} = {Head(s)} \cup {Tail(s)[k] : k \in DOMAIN Tail(s)}
<1>1. Len(s) \in Nat /\ Len(s) >= 1 /\ DOMAIN s = 1 .. Len(s)
  OBVIOUS
<1>2. Head(s) \in V /\ Tail(s) \in Seq(V) /\ 1 \in DOMAIN s /\ s[1] = Head(s)
  BY <1>1
<1>3. Len(Tail(s)) = Len(s) - 1 /\ DOMAIN Tail(s) = 1 .. Len(s) - 1
  BY <1>1
<1>4. \A k \in DOMAIN Tail(s) : k + 1 \in DOMAIN s /\ Tail(s)[k] = s[k + 1]
  BY <1>1, <1>3
<1>5. \A k \in DOMAIN s : k = 1 \/ (k - 1 \in DOMAIN Tail(s) /\ Tail(s)[k - 1] = s[k])
  <2>. TAKE k \in DOMAIN s
  <2>1. k # 1 => k - 1 \in DOMAIN Tail(s)
    BY <1>1, <1>3
  <2>2. k \in Int /\ (k - 1) + 1 = k
    BY <1>1
  <2>. QED
    BY <1>4, <2>1, <2>2
<1>6. \A k \in DOMAIN s : s[k] = Head(s) \/ \E j \in DOMAIN Tail(s) : s[k] = Tail(s)[j]
  BY <1>2, <1>5
<1>7. \A j \in DOMAIN Tail(s) : \E k \in DOMAIN s : s[k] = Tail(s)[j]
  BY <1>4
<1>8. \E k \in DOMAIN s : s[k] = Head(s)
  BY <1>2
<1>. DEFINE A == {s[k] : k \in DOMAIN s}
            B == {Tail(s)[k] : k \in DOMAIN Tail(s)}
<1>9. ASSUME NEW x \in A PROVE x \in {Head(s)} \cup B
  BY <1>6
<1>10. ASSUME NEW x \in {Head(s)} \cup B PROVE x \in A
  BY <1>7, <1>8
<1>11. A = {Head(s)} \cup B
  BY <1>9, <1>10
<1>. QED
  BY <1>2, <1>11

LEMMA Appended ==
  ASSUME NEW V, NEW s \in Seq(V), NEW x \in V
  PROVE  /\ Append(s, x) \in Seq(V) /\ Len(Append(s, x)) = Len(s) + 1
         /\ \A k \in DOMAIN s : k \in DOMAIN Append(s, x) /\ Append(s, x)[k] = s[k]
         /\ Len(s) + 1 \in DOMAIN Append(s, x) /\ Append(s, x)[Len(s) + 1] = x
         /\ \A k \in DOMAIN Append(s, x) : k \in DOMAIN s \/ k = Len(s) + 1
OBVIOUS

LEMMA GraphFacts ==
  ASSUME ConstantsSound, g \in Graphs, source \in Vertex
  PROVE  /\ NumNodes \in Nat \ {0} /\ Vertex \subseteq Nat /\ \A m \in Vertex : m < NumNodes
         /\ \A m \in Vertex : out_neigh(m) \in Seq(Vertex)
         /\ \A m \in Vertex : InitParent(m) \in Int /\ InitParent(m) < 0
         /\ BitsPerWord \in Nat \ {0} /\ ChunkWords \in Nat \ {0} /\ ChunkSize \in Nat \ {0}
         /\ \A m \in Vertex : word_offset(m) \in Word
<1>1. BitsPerWord \in Nat \ {0} /\ ChunkWords \in Nat \ {0}
  BY DEF ConstantsSound
<1>2. ChunkSize \in Nat \ {0}
  BY <1>1 DEF ChunkSize
<1>. DEFINE S == Seq(Vertex)
<1>3. g \in Seq(S)
  BY DEF ConstantsSound, Vertex, NumNodes
<1>. HIDE DEF S
<1>4. Len(g) \in Nat /\ \A i \in 1 .. Len(g) : g[i] \in S
  BY <1>3
<1>5. NumNodes \in Nat \ {0} /\ Vertex \subseteq Nat /\ \A m \in Vertex : m < NumNodes
  BY <1>4 DEF Vertex, NumNodes
<1>6. \A m \in Vertex : out_neigh(m) \in S
  BY <1>4 DEF Vertex, NumNodes, out_neigh
<1>7. \A m \in Vertex : InitParent(m) \in Int /\ InitParent(m) < 0
  <2>. TAKE m \in Vertex
  <2>1. out_neigh(m) \in Seq(Vertex)
    BY <1>6 DEF S
  <2>2. out_degree(m) \in Nat
    BY <2>1 DEF out_degree
  <2>. QED
    BY <2>2 DEF InitParent
<1>8. ASSUME NEW m \in Vertex PROVE word_offset(m) \in Word
  <2>. DEFINE a == m \div BitsPerWord
              b == (NumNodes - 1) \div BitsPerWord
  <2>1. m \in Nat /\ NumNodes - 1 \in Nat /\ m <= NumNodes - 1
    BY <1>5
  <2>2. a \in Nat /\ a * BitsPerWord <= m
    BY <1>1, <2>1, Euclid
  <2>3. b \in Nat /\ NumNodes - 1 < b * BitsPerWord + BitsPerWord
    BY <1>1, <2>1, Euclid
  <2>. HIDE DEF a, b
  <2>4. b + 1 <= a => (b + 1) * BitsPerWord <= a * BitsPerWord
    BY <1>1, <2>2, <2>3
  <2>5. (b + 1) * BitsPerWord = b * BitsPerWord + BitsPerWord
    BY <1>1, <2>3
  <2>6. a * BitsPerWord \in Nat /\ b * BitsPerWord \in Nat
    BY <1>1, <2>2, <2>3
  <2>7. a <= b
    BY <1>1, <2>1, <2>2, <2>3, <2>4, <2>5, <2>6
  <2>. QED
    BY <2>2, <2>3, <2>7 DEF a, b, word_offset, Word
<1>. QED
  BY <1>1, <1>2, <1>5, <1>6, <1>7, <1>8 DEF S

LEMMA SameGraph ==
  ASSUME UNCHANGED <<g, source>>
  PROVE  /\ Vertex' = Vertex /\ NumNodes' = NumNodes /\ Word' = Word /\ Bitmap' = Bitmap
         /\ \A m : out_neigh(m)' = out_neigh(m) /\ InitParent(m)' = InitParent(m)
         /\ \A lv : IsLevels(lv)' <=> IsLevels(lv)
         /\ \A lv, n : Level(lv, n)' = Level(lv, n)
<1>1. Vertex' = Vertex /\ NumNodes' = NumNodes
  BY DEF Vertex, NumNodes
<1>2. \A m : out_neigh(m)' = out_neigh(m)
  BY DEF out_neigh
<1>3. \A m : InitParent(m)' = InitParent(m)
  BY <1>2 DEF InitParent, out_degree
<1>. QED
  BY <1>1, <1>2, <1>3 DEF Word, Bitmap, IsLevels, Level

\* A chunk holds the vertices of its number; every vertex is in a chunk.
LEMMA ChunkFacts ==
  ASSUME ConstantsSound, g \in Graphs, source \in Vertex
  PROVE  /\ \A c \in Chunks : c \in Nat /\ Chunk(c) \in Seq(Vertex)
         /\ \A c \in Chunks : \A k \in DOMAIN Chunk(c) : Chunk(c)[k] \div ChunkSize = c
         /\ \A m \in Vertex : m \div ChunkSize \in Chunks /\ m \in {Chunk(m \div ChunkSize)[k] : k \in DOMAIN Chunk(m \div ChunkSize)}
<1>1. NumNodes \in Nat \ {0} /\ ChunkSize \in Nat \ {0} /\ Vertex = 0 .. NumNodes - 1
  BY GraphFacts DEF Vertex
<1>. DEFINE size(c) == Min({ChunkSize, NumNodes - c * ChunkSize})
<1>2. ASSUME NEW c \in Chunks
      PROVE  /\ c \in Nat /\ c * ChunkSize \in Nat /\ size(c) \in Nat /\ size(c) <= ChunkSize /\ size(c) <= NumNodes - c * ChunkSize
             /\ size(c) \in {ChunkSize, NumNodes - c * ChunkSize}
  <2>1. c \in Nat /\ c * ChunkSize < NumNodes
    BY <1>1 DEF Chunks
  <2>2. c * ChunkSize \in Nat
    BY <1>1, <2>1
  <2>. DEFINE T == {ChunkSize, NumNodes - c * ChunkSize}
  <2>3. T \in SUBSET Nat /\ T # {}
    BY <1>1, <2>1, <2>2
  <2>4. Min(T) \in T /\ \A y \in T : Min(T) <= y
    BY <2>3, Least
  <2>. QED
    BY <2>1, <2>2, <2>3, <2>4
<1>3. ASSUME NEW c \in Chunks
      PROVE  /\ Chunk(c) = [k \in 1 .. size(c) |-> c * ChunkSize + k - 1]
             /\ DOMAIN Chunk(c) = 1 .. size(c) /\ \A k \in 1 .. size(c) : Chunk(c)[k] = c * ChunkSize + k - 1
  BY DEF Chunk
<1>. HIDE DEF size
<1>4. ASSUME NEW c \in Chunks PROVE Chunk(c) \in Seq(Vertex)
  <2>1. \A k \in 1 .. size(c) : c * ChunkSize + k - 1 \in Vertex
    BY <1>1, <1>2
  <2>. QED
    BY <1>2, <1>3, <2>1
<1>5. ASSUME NEW c \in Chunks, NEW k \in DOMAIN Chunk(c) PROVE Chunk(c)[k] \div ChunkSize = c
  <2>. DEFINE n == Chunk(c)[k]
              lo == c * ChunkSize
  <2>1. lo \in Nat /\ k \in 1 .. size(c) /\ size(c) \in Nat /\ size(c) <= ChunkSize /\ n = lo + k - 1 /\ c \in Nat
    BY <1>2, <1>3, <1>5
  <2>2. n \in Nat /\ lo <= n /\ n < lo + ChunkSize
    <3>. HIDE DEF lo, n
    <3>. QED
      BY <1>1, <2>1
  <2>3. c * ChunkSize <= n /\ n < c * ChunkSize + ChunkSize
    BY <2>2
  <2>. HIDE DEF n, lo
  <2>4. c = n \div ChunkSize
    BY <1>1, <2>1, <2>2, <2>3, Euclid
  <2>. QED
    BY <2>4 DEF n
<1>6. ASSUME NEW m \in Vertex
      PROVE  m \div ChunkSize \in Chunks /\ m \in {Chunk(m \div ChunkSize)[k] : k \in DOMAIN Chunk(m \div ChunkSize)}
  <2>. DEFINE c == m \div ChunkSize
              lo == c * ChunkSize
  <2>1. m \in Nat /\ m < NumNodes
    BY <1>1
  <2>2. c \in Nat /\ lo <= m /\ m < lo + ChunkSize /\ c <= m
    BY <1>1, <2>1, Euclid
  <2>3. c \in Chunks
    <3>. HIDE DEF c
    <3>1. c * ChunkSize <= m /\ c * ChunkSize \in Int
      BY <1>1, <2>2
    <3>2. c \in Vertex /\ c * ChunkSize < NumNodes
      BY <1>1, <2>1, <2>2, <3>1
    <3>. QED
      BY <3>2 DEF Chunks
  <2>. HIDE DEF c
  <2>4. lo \in Nat /\ size(c) \in {ChunkSize, NumNodes - lo} /\ size(c) \in Nat
    BY <1>2, <2>3
  <2>5. DOMAIN Chunk(c) = 1 .. size(c) /\ \A k \in 1 .. size(c) : Chunk(c)[k] = lo + k - 1
    BY <1>3, <2>3
  <2>. HIDE DEF lo
  <2>6. m - lo + 1 \in 1 .. size(c) /\ lo + (m - lo + 1) - 1 = m
    BY <1>1, <2>1, <2>2, <2>4
  <2>7. m \in {Chunk(c)[k] : k \in DOMAIN Chunk(c)}
    BY <2>5, <2>6
  <2>. QED
    BY <2>3, <2>7 DEF c
<1>. QED
  BY <1>2, <1>4, <1>5, <1>6

\* A chunk is made of whole words: two vertices of one word are in one chunk.
LEMMA Aligned ==
  ASSUME ConstantsSound, NEW m \in Nat, NEW n \in Nat, word_offset(m) = word_offset(n)
  PROVE  m \div ChunkSize = n \div ChunkSize
<1>1. BitsPerWord \in Nat \ {0} /\ ChunkWords \in Nat \ {0}
  BY DEF ConstantsSound
<1>. DEFINE a == m \div BitsPerWord
            q == a \div ChunkWords
            B == BitsPerWord
            W == ChunkWords
<1>2. a \in Nat /\ a * B <= m /\ m < a * B + B
  BY <1>1, Euclid
<1>3. a * B <= n /\ n < a * B + B
  <2>1. a = n \div B
    BY DEF word_offset
  <2>. QED
    BY <1>1, <2>1, Euclid
<1>4. q \in Nat /\ q * W <= a /\ a < q * W + W
  BY <1>1, <1>2, Euclid
<1>5. B \in Nat \ {0} /\ W \in Nat \ {0} /\ ChunkSize = W * B /\ ChunkSize \in Nat \ {0}
  BY <1>1 DEF ChunkSize
<1>. HIDE DEF a, q, B, W
<1>6. q * (W * B) <= a * B
  <2>1. (q * W) * B <= a * B
    BY <1>2, <1>4, <1>5
  <2>2. (q * W) * B = q * (W * B)
    BY <1>4, <1>5
  <2>. QED
    BY <2>1, <2>2
<1>7. a * B + B <= q * (W * B) + W * B
  <2>1. a + 1 <= q * W + W /\ q * W \in Nat
    BY <1>2, <1>4, <1>5
  <2>2. (a + 1) * B <= (q * W + W) * B
    BY <1>2, <1>4, <1>5, <2>1
  <2>3. (a + 1) * B = a * B + B
    BY <1>2, <1>5
  <2>4. (q * W + W) * B = q * (W * B) + W * B
    BY <1>4, <1>5
  <2>. QED
    BY <2>2, <2>3, <2>4
<1>8. a * B \in Nat /\ q * (W * B) \in Nat /\ W * B \in Nat
  BY <1>2, <1>4, <1>5
<1>9. q * (W * B) <= m /\ m < q * (W * B) + W * B
  BY <1>2, <1>5, <1>6, <1>7, <1>8
<1>10. q * (W * B) <= n /\ n < q * (W * B) + W * B
  BY <1>3, <1>5, <1>6, <1>7, <1>8
<1>11. q = m \div ChunkSize /\ q = n \div ChunkSize
  BY <1>4, <1>5, <1>9, <1>10, Euclid
<1>. QED
  BY <1>11

-----------------------------------------------------------------------------
(* Every graph has levels: the lengths of the shortest walks. *)

Walk(n, m) ==
  \E p \in [0 .. n -> Vertex] :
    /\ p[0] = source /\ p[n] = m
    /\ \A i \in 0 .. n - 1 : Contains(out_neigh(p[i]), p[i + 1])
Lengths(m) == {n \in Nat : Walk(n, m)}
ShortestWalks == [m \in Vertex |-> IF Lengths(m) = {} THEN -1 ELSE Min(Lengths(m))]

\* The lengths of shortest walks from the source are levels, so that what is
\* shown for all levels of a graph is shown for something.
THEOREM LevelsExist ==
  ASSUME ConstantsSound, g \in Graphs, source \in Vertex
  PROVE  IsLevels(ShortestWalks)
<1>. DEFINE lv == ShortestWalks
<1>1. ASSUME NEW m \in Vertex
      PROVE  /\ lv[m] \in Nat \cup {-1}
             /\ lv[m] >= 0 => lv[m] \in Lengths(m)
             /\ \A n \in Lengths(m) : lv[m] >= 0 /\ lv[m] <= n
  <2>1. lv[m] = IF Lengths(m) = {} THEN -1 ELSE Min(Lengths(m))
    BY DEF ShortestWalks
  <2>2. Lengths(m) \in SUBSET Nat
    BY DEF Lengths
  <2>3. CASE Lengths(m) = {}
    BY <2>1, <2>3
  <2>4. CASE Lengths(m) # {}
    <3>1. Min(Lengths(m)) \in Lengths(m) /\ \A n \in Lengths(m) : Min(Lengths(m)) <= n
      BY <2>2, <2>4, Least
    <3>. QED
      BY <2>1, <2>2, <2>4, <3>1
  <2>. QED
    BY <2>3, <2>4
<1>2. lv = [m \in Vertex |-> lv[m]]
  BY DEF ShortestWalks
<1>. HIDE DEF lv
<1>3. lv \in [Vertex -> Nat \cup {-1}]
  BY <1>1, <1>2
<1>4. ASSUME NEW u \in Vertex, NEW m \in Vertex, Contains(out_neigh(u), m), NEW n \in Lengths(u)
      PROVE  n + 1 \in Lengths(m)
  <2>1. n \in Nat /\ Walk(n, u)
    BY DEF Lengths
  <2>2. PICK p \in [0 .. n -> Vertex] :
          /\ p[0] = source /\ p[n] = u
          /\ \A i \in 0 .. n - 1 : Contains(out_neigh(p[i]), p[i + 1])
    BY <2>1 DEF Walk
  <2>. DEFINE q == [i \in 0 .. n + 1 |-> IF i = n + 1 THEN m ELSE p[i]]
  <2>3. q \in [0 .. n + 1 -> Vertex] /\ q[0] = source /\ q[n + 1] = m /\ q[n] = u
    BY <2>1, <2>2
  <2>4. ASSUME NEW i \in 0 .. (n + 1) - 1 PROVE Contains(out_neigh(q[i]), q[i + 1])
    <3>1. CASE i = n
      BY <1>4, <2>1, <2>3, <3>1
    <3>2. CASE i # n
      <4>1. i \in 0 .. n - 1 /\ q[i] = p[i] /\ q[i + 1] = p[i + 1]
        BY <2>1, <3>2
      <4>. QED
        BY <2>2, <4>1
    <3>. QED
      BY <3>1, <3>2
  <2>. HIDE DEF q
  <2>5. Walk(n + 1, m)
    BY <2>3, <2>4 DEF Walk
  <2>. QED
    BY <2>1, <2>5 DEF Lengths
<1>5. ASSUME NEW m \in Vertex, NEW n \in Lengths(m), n # 0
      PROVE  \E u \in Vertex : Contains(out_neigh(u), m) /\ n - 1 \in Lengths(u)
  <2>1. n \in Nat \ {0} /\ Walk(n, m)
    BY <1>5 DEF Lengths
  <2>2. PICK p \in [0 .. n -> Vertex] :
          /\ p[0] = source /\ p[n] = m
          /\ \A i \in 0 .. n - 1 : Contains(out_neigh(p[i]), p[i + 1])
    BY <2>1 DEF Walk
  <2>. DEFINE q == [i \in 0 .. n - 1 |-> p[i]]
  <2>3. q \in [0 .. n - 1 -> Vertex] /\ q[0] = source /\ q[n - 1] = p[n - 1]
    BY <2>1, <2>2
  <2>4. \A i \in 0 .. (n - 1) - 1 : Contains(out_neigh(q[i]), q[i + 1])
    <3>. TAKE i \in 0 .. (n - 1) - 1
    <3>1. i \in 0 .. n - 1 /\ q[i] = p[i] /\ q[i + 1] = p[i + 1]
      BY <2>1
    <3>. QED
      BY <2>2, <3>1
  <2>5. p[n - 1] \in Vertex /\ n - 1 \in 0 .. n - 1 /\ (n - 1) + 1 = n
    BY <2>1, <2>2
  <2>6. Contains(out_neigh(p[n - 1]), m)
    BY <2>2, <2>5
  <2>. HIDE DEF q
  <2>7. Walk(n - 1, p[n - 1])
    BY <2>3, <2>4, <2>5 DEF Walk
  <2>8. n - 1 \in Lengths(p[n - 1])
    BY <2>1, <2>7 DEF Lengths
  <2>. QED
    BY <2>5, <2>6, <2>8
<1>6. ASSUME NEW m \in Vertex PROVE 0 \in Lengths(m) <=> m = source
  <2>1. Walk(0, m) => m = source
    BY DEF Walk
  <2>2. ASSUME m = source PROVE Walk(0, m)
    <3>. DEFINE p == [i \in 0 .. 0 |-> source]
    <3>1. p \in [0 .. 0 -> Vertex] /\ p[0] = source /\ \A i \in 0 .. 0 - 1 : FALSE
      OBVIOUS
    <3>. HIDE DEF p
    <3>. QED
      BY <2>2, <3>1 DEF Walk
  <2>. QED
    BY <2>1, <2>2 DEF Lengths
<1>7. ASSUME NEW m \in Vertex PROVE lv[m] = 0 <=> m = source
  <2>1. lv[m] = 0 => 0 \in Lengths(m)
    BY <1>1
  <2>2. 0 \in Lengths(m) => lv[m] = 0
    BY <1>1
  <2>. QED
    BY <1>6, <2>1, <2>2
<1>8. ASSUME NEW u \in Vertex, NEW m \in Vertex, Contains(out_neigh(u), m), lv[u] >= 0
      PROVE  lv[m] \in 0 .. lv[u] + 1
  <2>1. lv[u] + 1 \in Lengths(m)
    BY <1>1, <1>4, <1>8
  <2>2. lv[m] >= 0 /\ lv[m] <= lv[u] + 1 /\ lv[m] \in Int /\ lv[u] \in Int
    BY <1>1, <2>1
  <2>. QED
    BY <2>2
<1>9. ASSUME NEW m \in Vertex, lv[m] > 0
      PROVE  \E u \in Vertex : Contains(out_neigh(u), m) /\ lv[m] = lv[u] + 1 /\ lv[u] >= 0
  <2>1. lv[m] \in Nat /\ lv[m] \in Lengths(m)
    BY <1>1, <1>9
  <2>2. PICK u \in Vertex : Contains(out_neigh(u), m) /\ lv[m] - 1 \in Lengths(u)
    BY <1>5, <1>9, <2>1
  <2>3. lv[u] >= 0 /\ lv[u] <= lv[m] - 1 /\ lv[u] \in Int
    BY <1>1, <2>2
  <2>4. lv[m] <= lv[u] + 1
    BY <1>8, <2>2, <2>3
  <2>. QED
    BY <2>1, <2>2, <2>3, <2>4
<1>. QED
  BY <1>3, <1>7, <1>8, <1>9 DEF IsLevels, lv

-----------------------------------------------------------------------------
(* The structure: steps that leave the queue alone. *)

Behaves(t, p, wk, n, b) ==
  /\ pc' = [pc EXCEPT ![t] = p] /\ work' = [work EXCEPT ![t] = wk]
  /\ val' = [val EXCEPT ![t] = n] /\ word' = [word EXCEPT ![t] = b]

LEMMA OneThread ==
  ASSUME TypeOK, NEW t \in Thread, NEW p, NEW wk, NEW n, NEW b, Behaves(t, p, wk, n, b)
  PROVE  /\ pc'[t] = p /\ work'[t] = wk /\ val'[t] = n /\ word'[t] = b
         /\ \A s \in Thread : s # t =>
              pc'[s] = pc[s] /\ work'[s] = work[s] /\ val'[s] = val[s] /\ word'[s] = word[s]
         /\ \A s \in Thread : s # t => Held(s)' = Held(s) /\ ToPush(s)' = ToPush(s)
         /\ Held(t)' = {wk[k] : k \in DOMAIN wk}
<1>1. /\ pc'[t] = p /\ work'[t] = wk /\ val'[t] = n /\ word'[t] = b
      /\ \A s \in Thread : s # t =>
           pc'[s] = pc[s] /\ work'[s] = work[s] /\ val'[s] = val[s] /\ word'[s] = word[s]
  BY DEF TypeOK, Behaves
<1>2. \A s \in Thread : s # t => Held(s)' = Held(s)
  BY <1>1 DEF Held
<1>. QED
  BY <1>1, <1>2 DEF Held, ToPush

LEMMA TeamStep ==
  ASSUME ConstantsSound, Structure, NEW t \in Thread,
         NEW p \in PCsIn(phase), NEW wk \in Seq(Vertex), NEW n \in Nat, NEW b \in SUBSET Vertex,
         Behaves(t, p, wk, n, b), p \in PCs,
         UNCHANGED <<g, source, phase, slots, sharedIn, outStart, outEnd, lq, copyStart>>,
         parent' \in [Vertex -> Int], front' \in Bitmap, curr' \in Bitmap, todo' \subseteq todo,
         ~Copying(t),
         p \in Busy => pc[t] \in Busy \/ todo # {},
         p \notin Busy => wk = <<>>,
         p \in {"cas", "push", "casbit", "setbit"} => wk # <<>>,
         p \in {"idle", "flush", "through"} => todo = {} /\ \A s \in Thread : pc[s] \notin Busy,
         p \in {"idle", "through"} => lq[t] = <<>>,
         p = "b2q" => {wk[k] : k \in DOMAIN wk} \subseteq {n},
         \A m \in ToPush(t)' : /\ m \notin Behind /\ m \notin ToLookAt'
                               /\ \A s \in Thread : m \notin Buffer(s) /\ (s # t => m \notin ToPush(s)),
         phase = "bu" /\ p \in {"bu", "setbit"} =>
           /\ n \notin todo' /\ \A k \in DOMAIN wk : wk[k] \div ChunkSize = n
           /\ \A s \in Thread : s # t /\ pc[s] \in {"bu", "setbit"} => val[s] # n
  PROVE  Structure'
<1>. USE DEF Structure
<1>1. /\ pc'[t] = p /\ work'[t] = wk /\ val'[t] = n /\ word'[t] = b
      /\ \A s \in Thread : s # t =>
           pc'[s] = pc[s] /\ work'[s] = work[s] /\ val'[s] = val[s] /\ word'[s] = word[s]
      /\ \A s \in Thread : s # t => Held(s)' = Held(s) /\ ToPush(s)' = ToPush(s)
      /\ Held(t)' = {wk[k] : k \in DOMAIN wk}
  BY OneThread
<1>2. Vertex' = Vertex /\ Bitmap' = Bitmap
  BY SameGraph
<1>3. /\ pc' \in [Thread -> PCs] /\ work' \in [Thread -> Seq(Vertex)]
      /\ val' \in [Thread -> Nat] /\ word' \in [Thread -> SUBSET Vertex]
  BY DEF Behaves, TypeOK
<1>4. TypeOK'
  BY <1>2, <1>3 DEF TypeOK
<1>5. Control'
  <2>1. \A s \in Thread : pc'[s] \in PCsIn(phase)
    BY <1>1 DEF Control
  <2>2. PCsIn(phase)' = PCsIn(phase)
    BY DEF PCsIn
  <2>3. \A s \in Thread : (pc'[s] \notin Busy => work'[s] = <<>>) /\ (pc'[s] \in {"cas", "push", "casbit", "setbit"} => work'[s] # <<>>)
    BY <1>1 DEF Control
  <2>4. ASSUME NEW r \in Thread, NEW s \in Thread, pc'[s] \in {"idle", "flush", "through"}
        PROVE  todo' = {} /\ pc'[r] \notin Busy
    <3>1. CASE s = t
      BY <1>1, <2>4, <3>1 DEF Busy
    <3>2. CASE s # t
      <4>1. todo = {} /\ pc[r] \notin Busy /\ pc[t] \notin Busy
        BY <1>1, <2>4, <3>2 DEF Control
      <4>. QED
        BY <1>1, <4>1
    <3>. QED
      BY <3>1, <3>2
  <2>. QED
    BY <2>1, <2>2, <2>3, <2>4 DEF Control
<1>6. \A s \in Thread : Copying(s)' = Copying(s) /\ Reserved(s)' = Reserved(s) /\ Buffer(s)' = Buffer(s)
  BY DEF Copying, Reserved, Buffer
<1>7. Slots'
  <2>1. \A s \in Thread : Copying(s) => s # t
    OBVIOUS
  <2>. QED
    BY <1>1, <1>6, <2>1 DEF Slots
<1>8. Behind' = Behind /\ ToLookAt' \subseteq ToLookAt
  BY DEF Behind, ToLookAt
<1>9. Once'
  <2>1. \A s \in Thread : s # t => ToPush(s)' = ToPush(s)
    BY <1>1
  <2>2. \A m \in ToPush(t)' : m \notin Behind' /\ \A s \in Thread : m \notin Buffer(s)' /\ (s # t => m \notin ToPush(s)')
    BY <1>6, <1>8, <2>1
  <2>3. \A r, s \in Thread : r # s => Buffer(r)' \cap Buffer(s)' = {}
    BY <1>6 DEF Once
  <2>4. \A r, s \in Thread : r # s => ToPush(r)' \cap ToPush(s)' = {}
    <3>1. \A r, s \in Thread : r # s /\ r # t /\ s # t => ToPush(r)' \cap ToPush(s)' = {}
      BY <2>1 DEF Once
    <3>2. \A s \in Thread : s # t => ToPush(t)' \cap ToPush(s)' = {}
      BY <2>2
    <3>. QED
      BY <3>1, <3>2
  <2>5. \A r, s \in Thread : ToPush(r)' \cap Buffer(s)' = {}
    <3>1. \A r, s \in Thread : r # t => ToPush(r)' \cap Buffer(s)' = {}
      BY <1>6, <2>1 DEF Once
    <3>2. \A s \in Thread : ToPush(t)' \cap Buffer(s)' = {}
      BY <2>2
    <3>. QED
      BY <3>1, <3>2
  <2>6. \A s \in Thread : (ToPush(s)' \cup Buffer(s)') \cap (Behind' \cup ToLookAt') = {}
    <3>1. \A s \in Thread : s # t => (ToPush(s)' \cup Buffer(s)') \cap (Behind' \cup ToLookAt') = {}
      BY <1>6, <1>8, <2>1 DEF Once
    <3>2. ToPush(t)' \cap (Behind' \cup ToLookAt') = {}
      BY <2>2
    <3>3. Buffer(t)' \cap (Behind' \cup ToLookAt') = {}
      BY <1>6, <1>8 DEF Once
    <3>. QED
      BY <3>1, <3>2, <3>3
  <2>7. Behind' \cap ToLookAt' = {}
    BY <1>8 DEF Once
  <2>8. \A i, j \in DOMAIN slots' : slots'[i] = slots'[j] => i = j
    BY DEF Once
  <2>9. \A s \in Thread : \A i, j \in DOMAIN lq'[s] : lq'[s][i] = lq'[s][j] => i = j
    BY DEF Once
  <2>. QED
    BY <2>3, <2>4, <2>5, <2>6, <2>7, <2>8, <2>9 DEF Once
<1>10. OwnChunks'
  <2>. SUFFICES ASSUME phase = "bu", NEW s \in Thread, pc'[s] \in {"bu", "setbit"}
                PROVE  /\ val'[s] \notin todo' /\ \A m \in Held(s)' : m \div ChunkSize = val'[s]
                       /\ \A r \in Thread : r # s /\ pc'[r] \in {"bu", "setbit"} => val'[r] # val'[s]
    BY DEF OwnChunks, ChunkSize
  <2>1. CASE s = t
    <3>1. p \in {"bu", "setbit"} /\ val'[s] = n
      BY <1>1, <2>1
    <3>2. /\ n \notin todo' /\ (\A k \in DOMAIN wk : wk[k] \div ChunkSize = n)
          /\ \A r \in Thread : r # t /\ pc[r] \in {"bu", "setbit"} => val[r] # n
      BY <3>1
    <3>3. \A m \in Held(s)' : m \div ChunkSize = n
      BY <1>1, <2>1, <3>2
    <3>. QED
      BY <1>1, <2>1, <3>1, <3>2, <3>3
  <2>2. CASE s # t
    <3>1. pc[s] \in {"bu", "setbit"} /\ val'[s] = val[s] /\ Held(s)' = Held(s)
      BY <1>1, <2>2
    <3>2. val[s] \notin todo /\ (\A m \in Held(s) : m \div ChunkSize = val[s])
          /\ \A r \in Thread : r # s /\ pc[r] \in {"bu", "setbit"} => val[r] # val[s]
      BY <3>1 DEF OwnChunks
    <3>3. pc'[t] \in {"bu", "setbit"} => val'[t] # val[s]
      BY <1>1, <2>2, <3>1
    <3>4. \A r \in Thread : r # s /\ r # t /\ pc'[r] \in {"bu", "setbit"} => val'[r] # val'[s]
      BY <1>1, <3>1, <3>2
    <3>. QED
      BY <3>1, <3>2, <3>3, <3>4
  <2>. QED
    BY <2>1, <2>2
<1>11. Iterations'
  <2>1. Chunks' = Chunks
    <3>1. Vertex' = Vertex /\ NumNodes' = NumNodes
      BY SameGraph
    <3>. QED
      BY <3>1 DEF Chunks, ChunkSize
  <2>2. \A s \in Thread : pc'[s] = "b2q" => Held(s)' \subseteq {val'[s]}
    BY <1>1 DEF Iterations
  <2>3. todo' \subseteq todo /\ UNCHANGED <<phase, outStart, outEnd>>
    OBVIOUS
  <2>. QED
    BY <1>2, <2>1, <2>2, <2>3 DEF Iterations
<1>. QED
  BY <1>4, <1>5, <1>7, <1>9, <1>10, <1>11

\* A step within an iteration leaves no more to do than before.
LEMMA WorkStep ==
  ASSUME ConstantsSound, Structure, NEW t \in Thread, pc[t] \in Busy,
         NEW p \in PCsIn(phase), NEW wk \in Seq(Vertex), NEW b \in SUBSET Vertex,
         Behaves(t, p, wk, val[t], b), p \in Busy \cup {"loop"}, p # "push",
         UNCHANGED <<g, source, phase, slots, sharedIn, outStart, outEnd, lq, copyStart>>,
         parent' \in [Vertex -> Int], front' \in Bitmap, curr' \in Bitmap, todo' = todo,
         ~Copying(t),
         {wk[k] : k \in DOMAIN wk} \subseteq Held(t),
         p = "loop" => wk = <<>>, p \in {"cas", "casbit", "setbit"} => wk # <<>>
  PROVE  Structure'
<1>. USE DEF Structure
<1>1. pc'[t] = p /\ Held(t)' = {wk[k] : k \in DOMAIN wk}
  BY OneThread
<1>2. val[t] \in Nat /\ p \in PCs /\ phase \in Phases /\ pc[t] \in PCsIn(phase)
  BY DEF TypeOK, PCs, Control
<1>3. p = "b2q" => pc[t] = "b2q"
  BY <1>2 DEF PCsIn, Busy, Phases
<1>4. ToPush(t)' \subseteq ToPush(t)
  BY <1>1, <1>3 DEF ToPush
<1>5. ASSUME NEW m \in ToPush(t)'
      PROVE  /\ m \notin Behind /\ m \notin ToLookAt'
             /\ \A s \in Thread : m \notin Buffer(s) /\ (s # t => m \notin ToPush(s))
  <2>1. ToLookAt' = ToLookAt /\ m \in ToPush(t)
    BY <1>4 DEF ToLookAt
  <2>. QED
    BY <2>1 DEF Once
<1>6. ASSUME phase = "bu", p \in {"bu", "setbit"}
      PROVE  /\ val[t] \notin todo' /\ \A k \in DOMAIN wk : wk[k] \div ChunkSize = val[t]
             /\ \A s \in Thread : s # t /\ pc[s] \in {"bu", "setbit"} => val[s] # val[t]
  <2>1. pc[t] \in {"bu", "setbit"}
    BY <1>2, <1>6 DEF PCsIn, Busy
  <2>. QED
    BY <1>6, <2>1 DEF OwnChunks
<1>7. p \notin {"idle", "flush", "through"} /\ (p \notin Busy => p = "loop") /\ p \notin {"idle", "through"}
  BY DEF Busy
<1>8. p = "b2q" => {wk[k] : k \in DOMAIN wk} \subseteq {val[t]}
  BY <1>3 DEF Iterations
<1>. QED
  BY <1>2, <1>5, <1>6, <1>7, <1>8, TeamStep

-----------------------------------------------------------------------------
(* The levels: steps that leave the tree and the queue alone. *)

\* What such a step has to show.
LEMMA SameTree ==
  ASSUME IInv, Structure',
         UNCHANGED <<g, source, parent, phase, slots, sharedIn, outStart, outEnd, lq, copyStart>>,
         \A lv : IsLevels(lv) => \A L \in Nat : AtLevel(lv, L) /\ Parents(lv) =>
           /\ phase \in {"seed", "while", "td", "q2b", "bu"} => NotAhead(lv, L)'
           /\ phase = "td"  => TopDown(lv, L)'
           /\ phase = "q2b" => ToBitmap(lv, L)'
           /\ phase = "bu"  => BottomUp(lv, L)'
           /\ phase = "b2q" => ToQueue(lv, L)'
  PROVE  IInv'
<1>. SUFFICES ASSUME NEW lv, IsLevels(lv)' PROVE Progress(lv)'
  BY DEF IInv
<1>1. /\ Vertex' = Vertex /\ IsLevels(lv) /\ \A m : out_neigh(m)' = out_neigh(m) /\ InitParent(m)' = InitParent(m)
  BY SameGraph
<1>2. PICK L \in Nat : AtLevel(lv, L)
  BY <1>1 DEF IInv, Progress
<1>3. Parents(lv)
  BY <1>1 DEF IInv, Progress
<1>4. Parents(lv)'
  BY <1>1, <1>3 DEF Parents, Descends
<1>5. Visited' = Visited
  BY <1>1 DEF Visited
<1>6. AllVisited(lv, L)' = AllVisited(lv, L) /\ Visiting(lv, L)' = Visiting(lv, L)
  BY <1>1, <1>5 DEF AllVisited, Visiting
<1>7. \A old : Queue(lv, old)' = Queue(lv, old)
  BY DEF Queue, Behind, Buffer
<1>8. Windowed(lv, L)' = Windowed(lv, L)
  BY <1>1 DEF Windowed
<1>9. AtLevel(lv, L)'
  BY <1>1, <1>2, <1>3, <1>5, <1>6, <1>7, <1>8 DEF AtLevel
<1>. QED
  BY <1>2, <1>4, <1>9 DEF Progress

\* What is known of levels.
LEMMA LevelFacts ==
  ASSUME NEW lv, IsLevels(lv)
  PROVE  /\ \A m \in Vertex : lv[m] \in Int /\ lv[m] >= -1
         /\ \A m \in Vertex : lv[m] = 0 <=> m = source
         /\ \A u, m \in Vertex : Contains(out_neigh(u), m) /\ lv[u] >= 0 => lv[m] \in 0 .. lv[u] + 1
         /\ \A m \in Vertex : lv[m] > 0 => \E u \in Vertex : Contains(out_neigh(u), m) /\ lv[m] = lv[u] + 1 /\ lv[u] >= 0
BY DEF IsLevels

LEMMA TopDownMove ==
  ASSUME ConstantsSound, Structure, NEW t \in Thread, pc[t] \in {"td", "cas"}, NEW lv, NEW L \in Nat, TopDown(lv, L),
         NEW p \in {"td", "cas", "loop"}, NEW wk, NEW b, Behaves(t, p, wk, val[t], b),
         UNCHANGED <<g, source, phase, parent, todo, slots, sharedIn, outStart, outEnd, lq>>,
         {wk[k] : k \in DOMAIN wk} \subseteq Held(t), p = "loop" => Held(t) = {},
         \A m \in Held(t) : m \in Visited \/ m \in {wk[k] : k \in DOMAIN wk}
  PROVE  TopDown(lv, L)'
<1>1. /\ pc'[t] = p /\ val'[t] = val[t] /\ Held(t)' = {wk[k] : k \in DOMAIN wk}
      /\ \A s \in Thread : s # t => pc'[s] = pc[s] /\ val'[s] = val[s] /\ work'[s] = work[s]
      /\ \A s \in Thread : s # t => Held(s)' = Held(s) /\ ToPush(s)' = ToPush(s)
  BY OneThread DEF Structure
<1>2. /\ Vertex' = Vertex /\ (\A m : out_neigh(m)' = out_neigh(m)) /\ \A n : Level(lv, n)' = Level(lv, n)
  BY SameGraph
<1>3. Visited' = Visited
  BY <1>2 DEF Visited
<1>4. \A m : InTodo(m)' = InTodo(m)
  BY DEF InTodo
<1>5. ASSUME NEW s \in Thread, pc'[s] \in {"td", "cas", "push"}
      PROVE  /\ val'[s] \in Level(lv, L) /\ \A m \in Held(s)' : Contains(out_neigh(val'[s]), m)
             /\ pc'[s] = "push" => Head(work'[s]) \in Visited /\ lv[Head(work'[s])] = L + 1
  <2>1. CASE s = t
    BY <1>1, <2>1 DEF TopDown
  <2>2. CASE s # t
    BY <1>1, <1>5, <2>2 DEF TopDown
  <2>. QED
    BY <2>1, <2>2
<1>6. ASSUME NEW m \in Level(lv, L), NEW n \in Vertex \ Visited, Contains(out_neigh(m), n)
      PROVE  InTodo(m)' \/ \E s \in Thread : val'[s] = m /\ InWork(s, n)'
  <2>1. CASE InTodo(m)
    BY <1>4, <2>1
  <2>2. ASSUME NEW s \in Thread, val[s] = m, InWork(s, n) PROVE val'[s] = m /\ InWork(s, n)'
    <3>1. CASE s = t
      BY <1>1, <1>6, <2>2, <3>1 DEF InWork, Busy
    <3>2. CASE s # t
      BY <1>1, <2>2, <3>2 DEF InWork
    <3>. QED
      BY <3>1, <3>2
  <2>. QED
    BY <1>6, <2>1, <2>2 DEF TopDown
<1>7. \A s \in Thread : Buffer(s)' = Buffer(s)
  BY DEF Buffer
<1>8. Behind' = Behind
  BY DEF Behind
<1>9. ToPush(t) = {}
  BY DEF ToPush
<1>10. ASSUME NEW m \in Level(lv, L + 1) \cap Visited
       PROVE  m \in Behind \/ \E s \in Thread : m \in Buffer(s) \/ m \in ToPush(s)'
  BY <1>1, <1>9 DEF TopDown
<1>11. Behind \subseteq Visited /\ \A s \in Thread : Buffer(s) \subseteq Visited
  BY DEF TopDown
<1>. QED
  BY <1>2, <1>3, <1>5, <1>6, <1>7, <1>8, <1>10, <1>11 DEF TopDown

LEMMA ToBitmapMove ==
  ASSUME ConstantsSound, Structure, NEW t \in Thread, pc[t] \in {"q2b", "casbit"}, NEW lv, NEW L \in Nat, ToBitmap(lv, L),
         NEW p \in {"q2b", "casbit", "loop"}, NEW wk, NEW b, Behaves(t, p, wk, val[t], b),
         UNCHANGED <<g, source, todo, slots, outStart, outEnd>>,
         {wk[k] : k \in DOMAIN wk} \subseteq Held(t), p = "loop" => Held(t) = {},
         \A m \in Vertex : get_bit(front, m) => get_bit(front, m)',
         \A m \in Held(t) : get_bit(front, m)' \/ m \in {wk[k] : k \in DOMAIN wk}
  PROVE  ToBitmap(lv, L)'
<1>1. /\ pc'[t] = p /\ Held(t)' = {wk[k] : k \in DOMAIN wk}
      /\ \A s \in Thread : s # t => pc'[s] = pc[s] /\ Held(s)' = Held(s)
  BY OneThread DEF Structure
<1>2. Vertex' = Vertex /\ \A n : Level(lv, n)' = Level(lv, n)
  BY SameGraph
<1>3. \A m : InTodo(m)' = InTodo(m)
  BY DEF InTodo
<1>4. \A s \in Thread : Held(s)' \subseteq Level(lv, L)
  BY <1>1 DEF ToBitmap
<1>5. ASSUME NEW m \in Level(lv, L)
      PROVE  get_bit(front, m)' \/ InTodo(m)' \/ \E s \in Thread : InWork(s, m)'
  <2>1. m \in Vertex
    BY DEF Level
  <2>2. CASE get_bit(front, m) \/ InTodo(m)
    BY <1>3, <2>1, <2>2
  <2>3. ASSUME NEW s \in Thread, InWork(s, m) PROVE get_bit(front, m)' \/ InWork(s, m)'
    <3>1. CASE s = t
      BY <1>1, <2>3, <3>1 DEF InWork, Busy
    <3>2. CASE s # t
      BY <1>1, <2>3, <3>2 DEF InWork
    <3>. QED
      BY <3>1, <3>2
  <2>. QED
    BY <2>2, <2>3 DEF ToBitmap
<1>. QED
  BY <1>2, <1>4, <1>5 DEF ToBitmap

LEMMA BottomUpMove ==
  ASSUME ConstantsSound, Structure, NEW t \in Thread, pc[t] = "bu", NEW lv, NEW L \in Nat, BottomUp(lv, L),
         NEW p \in {"bu", "loop"}, NEW wk, NEW b, Behaves(t, p, wk, val[t], b),
         UNCHANGED <<g, source, parent, front, curr, todo>>,
         {wk[k] : k \in DOMAIN wk} \subseteq Held(t), p = "loop" => Held(t) = {},
         \A m \in Held(t) : m \in Visited \/ lv[m] # L + 1 \/ m \in {wk[k] : k \in DOMAIN wk}
  PROVE  BottomUp(lv, L)'
<1>1. /\ pc'[t] = p /\ Held(t)' = {wk[k] : k \in DOMAIN wk}
      /\ \A s \in Thread : s # t => pc'[s] = pc[s] /\ work'[s] = work[s] /\ word'[s] = word[s]
      /\ \A s \in Thread : s # t => Held(s)' = Held(s)
  BY OneThread DEF Structure
<1>2. Vertex' = Vertex /\ \A n : Level(lv, n)' = Level(lv, n)
  BY SameGraph
<1>3. Visited' = Visited
  BY <1>2 DEF Visited
<1>4. \A m : get_bit(front, m)' = get_bit(front, m) /\ get_bit(curr, m)' = get_bit(curr, m)
  BY DEF get_bit
<1>5. \A s \in Thread : pc'[s] = "setbit" <=> pc[s] = "setbit" /\ s # t
  BY <1>1
<1>6. ASSUME NEW m \in Level(lv, L + 1) \cap Visited
      PROVE  get_bit(curr, m) \/ \E s \in Thread : pc'[s] = "setbit" /\ m = Head(work'[s])
  BY <1>1, <1>5 DEF BottomUp
<1>7. ASSUME NEW m \in Level(lv, L + 1) \ Visited
      PROVE  m \div ChunkSize \in todo \/ \E s \in Thread : InWork(s, m)'
  <2>1. ASSUME NEW s \in Thread, InWork(s, m) PROVE InWork(s, m)'
    <3>1. CASE s = t
      BY <1>1, <1>7, <2>1, <3>1 DEF InWork, Busy, Level
    <3>2. CASE s # t
      BY <1>1, <2>1, <3>2 DEF InWork
    <3>. QED
      BY <3>1, <3>2
  <2>. QED
    BY <2>1 DEF BottomUp
<1>8. ASSUME NEW s \in Thread, pc'[s] = "setbit"
      PROVE  /\ word'[s] = curr[word_offset(Head(work'[s]))]
             /\ Head(work'[s]) \in Visited /\ lv[Head(work'[s])] = L + 1
  BY <1>1, <1>5, <1>8 DEF BottomUp
<1>. QED
  BY <1>2, <1>3, <1>4, <1>6, <1>7, <1>8 DEF BottomUp, ChunkSize, word_offset

\* Where a thread at each step is.
LEMMA PhaseOf ==
  ASSUME Structure, NEW t \in Thread
  PROVE  /\ pc[t] \in {"td", "cas", "push"} => phase = "td"
         /\ pc[t] \in {"q2b", "casbit"} => phase = "q2b"
         /\ pc[t] \in {"bu", "setbit"} => phase = "bu"
         /\ pc[t] = "b2q" => phase = "b2q"
         /\ pc[t] = "loop" => phase \in {"td", "q2b", "bu", "b2q"}
         /\ pc[t] = "flush" => phase \in {"td", "b2q"}
         /\ pc[t] \in PCsIn(phase)
<1>1. phase \in Phases /\ pc[t] \in PCsIn(phase)
  BY DEF Structure, TypeOK, Control
<1>. QED
  BY <1>1 DEF PCsIn, Phases

LEMMA HeadOfWork ==
  ASSUME Structure, NEW t \in Thread, work[t] # <<>>
  PROVE  /\ Head(work[t]) \in Vertex /\ Head(work[t]) \in Held(t) /\ Tail(work[t]) \in Seq(Vertex)
         /\ Held(t) = {Head(work[t])} \cup {Tail(work[t])[k] : k \in DOMAIN Tail(work[t])}
<1>1. work[t] \in Seq(Vertex)
  BY DEF Structure, TypeOK
<1>. QED
  BY <1>1, Split DEF Held

LEMMA NothingHeld == ASSUME NEW t, work[t] = <<>> PROVE Held(t) = {}
BY DEF Held

LEMMA EndIterationStep == ASSUME ConstantsSound, IInv, NEW t \in Thread, EndIteration(t) PROVE IInv'
<1>1. /\ pc[t] \in {"td", "q2b", "bu", "b2q"} /\ work[t] = <<>>
      /\ UNCHANGED <<g, source, parent, front, curr, phase, todo, work, val, word, slots, sharedIn, outStart, outEnd, lq, copyStart>>
  BY DEF EndIteration, config, queueVars
<1>2. Behaves(t, "loop", <<>>, val[t], word[t])
  BY <1>1 DEF EndIteration, Goto, Behaves, IInv, Structure, TypeOK
<1>3. Held(t) = {} /\ Structure
  BY <1>1, NothingHeld DEF IInv
<1>4. ~Copying(t)
  BY <1>1, <1>3 DEF Structure, Slots
<1>5. phase \in {"td", "q2b", "bu", "b2q"}
  BY <1>1, <1>3, PhaseOf
<1>6. Structure'
  <2>1. "loop" \in PCsIn(phase) /\ pc[t] \in Busy /\ <<>> \in Seq(Vertex)
    BY <1>1, <1>5 DEF PCsIn, Busy
  <2>2. Bitmap' = Bitmap /\ Vertex' = Vertex
    BY <1>1, SameGraph
  <2>3. parent' \in [Vertex -> Int] /\ front' \in Bitmap /\ curr' \in Bitmap /\ word[t] \in SUBSET Vertex
    BY <1>1, <1>3, <2>2 DEF Structure, TypeOK
  <2>4. {<<>>[k] : k \in DOMAIN <<>>} = {}
    OBVIOUS
  <2>. QED
    BY <1>1, <1>2, <1>3, <1>4, <2>1, <2>3, <2>4, WorkStep
<1>7. {<<>>[k] : k \in DOMAIN <<>>} = {}
  OBVIOUS
<1>. SUFFICES ASSUME NEW lv, IsLevels(lv), NEW L \in Nat, AtLevel(lv, L)
              PROVE  /\ phase \in {"seed", "while", "td", "q2b", "bu"} => NotAhead(lv, L)'
                     /\ phase = "td"  => TopDown(lv, L)'
                     /\ phase = "q2b" => ToBitmap(lv, L)'
                     /\ phase = "bu"  => BottomUp(lv, L)'
                     /\ phase = "b2q" => ToQueue(lv, L)'
  BY <1>1, <1>6, SameTree
<1>8. \A m : get_bit(front, m)' = get_bit(front, m)
  BY <1>1 DEF get_bit
<1>9. Vertex' = Vertex /\ \A n : Level(lv, n)' = Level(lv, n)
  BY <1>1, SameGraph
<1>10. phase \in {"seed", "while", "td", "q2b", "bu"} => NotAhead(lv, L)'
  BY <1>8, <1>9 DEF AtLevel, NotAhead
<1>11. ASSUME phase = "td" PROVE TopDown(lv, L)'
  <2>1. pc[t] \in {"td", "cas"}
    BY <1>1, <1>3, <1>11, PhaseOf
  <2>. QED
    BY <1>1, <1>2, <1>3, <1>7, <1>11, <2>1, TopDownMove DEF AtLevel
<1>12. ASSUME phase = "q2b" PROVE ToBitmap(lv, L)'
  <2>1. pc[t] \in {"q2b", "casbit"}
    BY <1>1, <1>3, <1>12, PhaseOf
  <2>. QED
    BY <1>1, <1>2, <1>3, <1>7, <1>8, <1>12, <2>1, ToBitmapMove DEF AtLevel
<1>13. ASSUME phase = "bu" PROVE BottomUp(lv, L)'
  <2>1. pc[t] = "bu"
    BY <1>1, <1>3, <1>13, PhaseOf
  <2>. QED
    BY <1>1, <1>2, <1>3, <1>7, <1>13, <2>1, BottomUpMove DEF AtLevel
<1>14. ASSUME phase = "b2q" PROVE ToQueue(lv, L)'
  <2>1. \A s \in Thread : \A m : InWork(s, m) => InWork(s, m)'
    <3>1. \A s \in Thread : s # t => pc'[s] = pc[s] /\ Held(s)' = Held(s)
      BY <1>2, <1>3, OneThread DEF Structure
    <3>. QED
      BY <1>3, <3>1 DEF InWork
  <2>2. Behind' = Behind /\ \A s \in Thread : Buffer(s)' = Buffer(s)
    BY <1>1 DEF Behind, Buffer
  <2>3. ToQueue(lv, L)
    BY <1>14 DEF AtLevel
  <2>. QED
    BY <1>1, <1>8, <1>9, <2>1, <2>2, <2>3 DEF ToQueue
<1>. QED
  BY <1>10, <1>11, <1>12, <1>13, <1>14

LEMMA TDSkipStep == ASSUME ConstantsSound, IInv, NEW t \in Thread, TDSkip(t) PROVE IInv'
<1>. DEFINE m == Head(work[t])
            wk == Tail(work[t])
<1>1. /\ pc[t] = "td" /\ work[t] # <<>> /\ parent[m] >= 0
      /\ UNCHANGED <<g, source, parent, front, curr, phase, todo, pc, val, word, slots, sharedIn, outStart, outEnd, lq, copyStart>>
  BY DEF TDSkip, config, queueVars
<1>2. Behaves(t, "td", wk, val[t], word[t])
  BY <1>1 DEF TDSkip, SetWork, Behaves, IInv, Structure, TypeOK
<1>3. Structure /\ phase = "td"
  BY <1>1, PhaseOf DEF IInv
<1>4. ~Copying(t)
  BY <1>1, <1>3 DEF Structure, Slots
<1>5. m \in Vertex /\ wk \in Seq(Vertex) /\ Held(t) = {m} \cup {wk[k] : k \in DOMAIN wk}
  BY <1>1, <1>3, HeadOfWork
<1>6. m \in Visited
  BY <1>1, <1>5 DEF Visited
<1>. HIDE DEF m, wk
<1>7. Structure'
  <2>1. "td" \in PCsIn(phase) /\ pc[t] \in Busy /\ "td" \in Busy
    BY <1>1, <1>3 DEF PCsIn, Busy
  <2>2. Bitmap' = Bitmap /\ Vertex' = Vertex
    BY <1>1, SameGraph
  <2>3. parent' \in [Vertex -> Int] /\ front' \in Bitmap /\ curr' \in Bitmap /\ word[t] \in SUBSET Vertex
    BY <1>1, <1>3, <2>2 DEF Structure, TypeOK
  <2>. QED
    BY <1>1, <1>2, <1>3, <1>4, <1>5, <2>1, <2>3, WorkStep
<1>. SUFFICES ASSUME NEW lv, IsLevels(lv), NEW L \in Nat, AtLevel(lv, L) PROVE NotAhead(lv, L)' /\ TopDown(lv, L)'
  BY <1>1, <1>3, <1>7, SameTree
<1>8. NotAhead(lv, L)'
  BY <1>1, <1>3, SameGraph DEF AtLevel, NotAhead, get_bit, word_offset
<1>9. TopDown(lv, L)'
  <2>1. {wk[k] : k \in DOMAIN wk} \subseteq Held(t) /\ \A n \in Held(t) : n \in Visited \/ n \in {wk[k] : k \in DOMAIN wk}
    BY <1>5, <1>6
  <2>2. TopDown(lv, L)
    BY <1>3 DEF AtLevel
  <2>. QED
    BY <1>1, <1>2, <1>3, <2>1, <2>2, TopDownMove
<1>. QED
  BY <1>8, <1>9

LEMMA TDLoadStep == ASSUME ConstantsSound, IInv, NEW t \in Thread, TDLoad(t) PROVE IInv'
<1>1. /\ pc[t] = "td" /\ work[t] # <<>>
      /\ UNCHANGED <<g, source, parent, front, curr, phase, todo, work, val, word, slots, sharedIn, outStart, outEnd, lq, copyStart>>
  BY DEF TDLoad, config, queueVars
<1>2. Behaves(t, "cas", work[t], val[t], word[t])
  BY <1>1 DEF TDLoad, Goto, Behaves, IInv, Structure, TypeOK
<1>3. Structure /\ phase = "td"
  BY <1>1, PhaseOf DEF IInv
<1>4. ~Copying(t)
  BY <1>1, <1>3 DEF Structure, Slots
<1>5. work[t] \in Seq(Vertex) /\ Held(t) = {work[t][k] : k \in DOMAIN work[t]}
  BY <1>3 DEF Structure, TypeOK, Held
<1>6. Structure'
  <2>1. "cas" \in PCsIn(phase) /\ pc[t] \in Busy /\ "cas" \in Busy
    BY <1>1, <1>3 DEF PCsIn, Busy
  <2>2. Bitmap' = Bitmap /\ Vertex' = Vertex
    BY <1>1, SameGraph
  <2>3. parent' \in [Vertex -> Int] /\ front' \in Bitmap /\ curr' \in Bitmap /\ word[t] \in SUBSET Vertex
    BY <1>1, <1>3, <2>2 DEF Structure, TypeOK
  <2>. QED
    BY <1>1, <1>2, <1>3, <1>4, <1>5, <2>1, <2>3, WorkStep
<1>. SUFFICES ASSUME NEW lv, IsLevels(lv), NEW L \in Nat, AtLevel(lv, L) PROVE NotAhead(lv, L)' /\ TopDown(lv, L)'
  BY <1>1, <1>3, <1>6, SameTree
<1>7. NotAhead(lv, L)'
  BY <1>1, <1>3, SameGraph DEF AtLevel, NotAhead, get_bit, word_offset
<1>8. TopDown(lv, L)'
  BY <1>1, <1>2, <1>3, <1>5, TopDownMove DEF AtLevel
<1>. QED
  BY <1>7, <1>8

LEMMA SetBitAtomicLoadStep == ASSUME ConstantsSound, IInv, NEW t \in Thread, SetBitAtomicLoad(t) PROVE IInv'
<1>. DEFINE b == front[word_offset(Head(work[t]))]
<1>1. /\ pc[t] = "q2b" /\ work[t] # <<>>
      /\ UNCHANGED <<g, source, parent, front, curr, phase, todo, work, val, slots, sharedIn, outStart, outEnd, lq, copyStart>>
  BY DEF SetBitAtomicLoad, config, queueVars
<1>2. Behaves(t, "casbit", work[t], val[t], b)
  BY <1>1 DEF SetBitAtomicLoad, Goto, Behaves, IInv, Structure, TypeOK
<1>3. Structure /\ phase = "q2b"
  BY <1>1, PhaseOf DEF IInv
<1>4. ~Copying(t)
  BY <1>1, <1>3 DEF Structure, Slots
<1>5. work[t] \in Seq(Vertex) /\ Held(t) = {work[t][k] : k \in DOMAIN work[t]}
  BY <1>3 DEF Structure, TypeOK, Held
<1>6. b \in SUBSET Vertex
  <2>1. word_offset(Head(work[t])) \in Word
    BY <1>1, <1>3, HeadOfWork, GraphFacts DEF Structure, TypeOK
  <2>. QED
    BY <1>3, <2>1 DEF Structure, TypeOK, Bitmap
<1>. HIDE DEF b
<1>7. Structure'
  <2>1. "casbit" \in PCsIn(phase) /\ pc[t] \in Busy /\ "casbit" \in Busy
    BY <1>1, <1>3 DEF PCsIn, Busy
  <2>2. Bitmap' = Bitmap /\ Vertex' = Vertex
    BY <1>1, SameGraph
  <2>3. parent' \in [Vertex -> Int] /\ front' \in Bitmap /\ curr' \in Bitmap
    BY <1>1, <1>3, <2>2 DEF Structure, TypeOK
  <2>. QED
    BY <1>1, <1>2, <1>3, <1>4, <1>5, <1>6, <2>1, <2>3, WorkStep
<1>. SUFFICES ASSUME NEW lv, IsLevels(lv), NEW L \in Nat, AtLevel(lv, L) PROVE NotAhead(lv, L)' /\ ToBitmap(lv, L)'
  BY <1>1, <1>3, <1>7, SameTree
<1>8. NotAhead(lv, L)'
  BY <1>1, <1>3, SameGraph DEF AtLevel, NotAhead, get_bit, word_offset
<1>9. \A m : get_bit(front, m)' = get_bit(front, m)
  BY <1>1 DEF get_bit
<1>10. ToBitmap(lv, L)'
  BY <1>1, <1>2, <1>3, <1>5, <1>9, ToBitmapMove DEF AtLevel
<1>. QED
  BY <1>8, <1>10

LEMMA SetBitAtomicCasStep == ASSUME ConstantsSound, IInv, NEW t \in Thread, SetBitAtomicCas(t) PROVE IInv'
<1>0. PICK m : m = Head(work[t])
  OBVIOUS
<1>. DEFINE w == word_offset(m)
            wk == IF front[w] = word[t] THEN Tail(work[t]) ELSE work[t]
<1>1. /\ pc[t] = "casbit"
      /\ front' = IF front[w] = word[t] THEN [front EXCEPT ![w] = word[t] \cup {m}] ELSE front
      /\ UNCHANGED <<g, source, parent, curr, phase, todo, val, word, slots, sharedIn, outStart, outEnd, lq, copyStart>>
  BY <1>0 DEF SetBitAtomicCas, config, queueVars
<1>2. Behaves(t, "q2b", wk, val[t], word[t])
  BY <1>0, <1>1 DEF SetBitAtomicCas, Goto, SetWork, Behaves, IInv, Structure, TypeOK
<1>3. Structure /\ phase = "q2b"
  BY <1>1, PhaseOf DEF IInv
<1>4. ~Copying(t) /\ work[t] # <<>>
  BY <1>1, <1>3 DEF Structure, Slots, Control
<1>5. m \in Vertex /\ m \in Held(t) /\ Tail(work[t]) \in Seq(Vertex) /\ Held(t) = {m} \cup {Tail(work[t])[k] : k \in DOMAIN Tail(work[t])}
  BY <1>0, <1>3, <1>4, HeadOfWork
<1>6. w \in Word /\ word[t] \in SUBSET Vertex /\ front \in Bitmap
  BY <1>3, <1>5, GraphFacts DEF Structure, TypeOK
<1>7. front' \in Bitmap
  BY <1>1, <1>5, <1>6 DEF Bitmap
<1>8. \A n \in Vertex : get_bit(front, n) => get_bit(front, n)'
  BY <1>1, <1>6 DEF get_bit, word_offset, Bitmap
<1>9. \A n \in Vertex : get_bit(front, n)' => get_bit(front, n) \/ n = m
  BY <1>1, <1>6 DEF get_bit, word_offset, Bitmap
<1>10. front[w] = word[t] => get_bit(front, m)'
  BY <1>1, <1>6 DEF get_bit, word_offset, Bitmap
<1>. HIDE DEF w
<1>11. /\ wk \in Seq(Vertex) /\ {wk[k] : k \in DOMAIN wk} \subseteq Held(t)
       /\ \A n \in Held(t) : get_bit(front, n)' \/ n \in {wk[k] : k \in DOMAIN wk}
  <2>1. CASE front[w] = word[t]
    <3>. DEFINE tl == Tail(work[t])
    <3>1. wk = tl /\ tl \in Seq(Vertex) /\ Held(t) = {m} \cup {tl[k] : k \in DOMAIN tl}
      BY <1>5, <2>1
    <3>. HIDE DEF wk, tl
    <3>2. \A n \in Held(t) : n = m \/ n \in {wk[k] : k \in DOMAIN wk}
      BY <3>1
    <3>3. get_bit(front, m)'
      BY <1>10, <2>1
    <3>4. \A n \in Held(t) : get_bit(front, n)' \/ n \in {wk[k] : k \in DOMAIN wk}
      BY <3>2, <3>3
    <3>. QED
      BY <3>1, <3>4
  <2>2. CASE front[w] # word[t]
    BY <1>3, <2>2 DEF Held, Structure, TypeOK
  <2>. QED
    BY <2>1, <2>2
<1>. HIDE DEF wk
<1>12. Structure'
  <2>1. "q2b" \in PCsIn(phase) /\ pc[t] \in Busy /\ "q2b" \in Busy
    BY <1>1, <1>3 DEF PCsIn, Busy
  <2>2. Bitmap' = Bitmap /\ Vertex' = Vertex
    BY <1>1, SameGraph
  <2>3. parent' \in [Vertex -> Int] /\ curr' \in Bitmap
    BY <1>1, <1>3, <2>2 DEF Structure, TypeOK
  <2>. QED
    BY <1>1, <1>2, <1>3, <1>4, <1>6, <1>7, <1>11, <2>1, <2>3, WorkStep
<1>. SUFFICES ASSUME NEW lv, IsLevels(lv), NEW L \in Nat, AtLevel(lv, L) PROVE NotAhead(lv, L)' /\ ToBitmap(lv, L)'
  BY <1>1, <1>3, <1>12, SameTree
<1>13. NotAhead(lv, L) /\ ToBitmap(lv, L)
  BY <1>3 DEF AtLevel
<1>14. lv[m] = L
  BY <1>5, <1>13 DEF ToBitmap, Level
<1>15. NotAhead(lv, L)'
  <2>1. Vertex' = Vertex
    BY <1>1, SameGraph
  <2>2. L \in 0 .. L
    OBVIOUS
  <2>. QED
    BY <1>9, <1>13, <1>14, <2>1, <2>2 DEF NotAhead
<1>16. ToBitmap(lv, L)'
  BY <1>1, <1>2, <1>3, <1>8, <1>11, <1>13, ToBitmapMove
<1>. QED
  BY <1>15, <1>16

LEMMA BUSkipStep == ASSUME ConstantsSound, IInv, NEW t \in Thread, BUSkip(t) PROVE IInv'
<1>. DEFINE m == Head(work[t])
            wk == Tail(work[t])
<1>1. /\ pc[t] = "bu" /\ work[t] # <<>> /\ (parent[m] >= 0 \/ FrontNeighbours(m) = {})
      /\ UNCHANGED <<g, source, parent, front, curr, phase, todo, pc, val, word, slots, sharedIn, outStart, outEnd, lq, copyStart>>
  BY DEF BUSkip, config, queueVars
<1>2. Behaves(t, "bu", wk, val[t], word[t])
  BY <1>1 DEF BUSkip, SetWork, Behaves, IInv, Structure, TypeOK
<1>3. Structure /\ phase = "bu"
  BY <1>1, PhaseOf DEF IInv
<1>4. ~Copying(t)
  BY <1>1, <1>3 DEF Structure, Slots
<1>5. m \in Vertex /\ wk \in Seq(Vertex) /\ Held(t) = {m} \cup {wk[k] : k \in DOMAIN wk}
  BY <1>1, <1>3, HeadOfWork
<1>. HIDE DEF m, wk
<1>6. Structure'
  <2>1. "bu" \in PCsIn(phase) /\ pc[t] \in Busy /\ "bu" \in Busy
    BY <1>1, <1>3 DEF PCsIn, Busy
  <2>2. Bitmap' = Bitmap /\ Vertex' = Vertex
    BY <1>1, SameGraph
  <2>3. parent' \in [Vertex -> Int] /\ front' \in Bitmap /\ curr' \in Bitmap /\ word[t] \in SUBSET Vertex
    BY <1>1, <1>3, <2>2 DEF Structure, TypeOK
  <2>. QED
    BY <1>1, <1>2, <1>3, <1>4, <1>5, <2>1, <2>3, WorkStep
<1>. SUFFICES ASSUME NEW lv, IsLevels(lv), NEW L \in Nat, AtLevel(lv, L) PROVE NotAhead(lv, L)' /\ BottomUp(lv, L)'
  BY <1>1, <1>3, <1>6, SameTree
<1>7. NotAhead(lv, L)'
  BY <1>1, <1>3, SameGraph DEF AtLevel, NotAhead, get_bit, word_offset
<1>8. BottomUp(lv, L)
  BY <1>3 DEF AtLevel
<1>9. m \in Visited \/ lv[m] # L + 1
  <2>. SUFFICES ASSUME lv[m] = L + 1, FrontNeighbours(m) = {} PROVE FALSE
    BY <1>1, <1>5 DEF Visited
  <2>1. PICK v \in Vertex : Contains(out_neigh(v), m) /\ lv[m] = lv[v] + 1 /\ lv[v] >= 0
    BY <1>5, LevelFacts
  <2>2. lv[v] = L
    BY <2>1, LevelFacts
  <2>3. get_bit(front, v)
    BY <1>8, <2>1, <2>2 DEF BottomUp, Level
  <2>. QED
    BY <2>1, <2>3 DEF FrontNeighbours
<1>10. BottomUp(lv, L)'
  <2>1. {wk[k] : k \in DOMAIN wk} \subseteq Held(t)
    BY <1>5
  <2>2. \A n \in Held(t) : n \in Visited \/ lv[n] # L + 1 \/ n \in {wk[k] : k \in DOMAIN wk}
    BY <1>5, <1>9
  <2>3. UNCHANGED <<g, source, parent, front, curr, todo>> /\ pc[t] = "bu"
    BY <1>1
  <2>4. "bu" \in {"bu", "loop"} /\ ("bu" = "loop" => Held(t) = {})
    OBVIOUS
  <2>. QED
    BY <1>2, <1>3, <1>8, <2>1, <2>2, <2>3, <2>4, BottomUpMove, Zenon
<1>. QED
  BY <1>7, <1>10

\* The barrier: the loop is over for everybody.
LEMMA LeaveLoopStep == ASSUME ConstantsSound, IInv, NEW t \in Thread, LeaveLoop(t) PROVE IInv'
<1>. DEFINE p == IF phase \in {"td", "b2q"} THEN "flush" ELSE "through"
<1>1. /\ pc[t] = "loop" /\ todo = {} /\ \A s \in Thread : pc[s] \in {"loop", "flush", "through"}
      /\ UNCHANGED <<g, source, parent, front, curr, phase, todo, work, val, word, slots, sharedIn, outStart, outEnd, lq, copyStart>>
  BY DEF LeaveLoop, config, queueVars
<1>2. Structure /\ phase \in {"td", "q2b", "bu", "b2q"}
  BY <1>1, PhaseOf DEF IInv
<1>3. work[t] = <<>> /\ Held(t) = {} /\ ~Copying(t)
  <2>1. work[t] = <<>>
    BY <1>1, <1>2 DEF Structure, Control, Busy
  <2>. QED
    BY <1>1, <1>2, <2>1, NothingHeld DEF Structure, Slots
<1>4. Behaves(t, p, <<>>, val[t], word[t])
  BY <1>1, <1>3 DEF LeaveLoop, Goto, Behaves, IInv, Structure, TypeOK
<1>5. p \in {"flush", "through"} /\ p \in PCsIn(phase) /\ p \in PCs /\ p \notin Busy /\ (p = "through" => lq[t] = <<>>)
  BY <1>2 DEF PCsIn, PCs, Busy, Structure, Slots
<1>. HIDE DEF p
<1>6. /\ pc'[t] = p /\ Held(t)' = {}
      /\ \A s \in Thread : s # t => pc'[s] = pc[s] /\ Held(s)' = Held(s) /\ ToPush(s)' = ToPush(s)
  <2>1. {<<>>[k] : k \in DOMAIN <<>>} = {}
    OBVIOUS
  <2>. QED
    BY <1>2, <1>4, <2>1, OneThread DEF Structure
<1>7. ToPush(t)' = {} /\ ToPush(t) = {}
  BY <1>1, <1>5, <1>6 DEF ToPush
<1>8. Structure'
  <2>1. Bitmap' = Bitmap /\ Vertex' = Vertex
    BY <1>1, SameGraph
  <2>2. parent' \in [Vertex -> Int] /\ front' \in Bitmap /\ curr' \in Bitmap /\ word[t] \in SUBSET Vertex /\ val[t] \in Nat
    BY <1>1, <1>2, <2>1 DEF Structure, TypeOK
  <2>3. \A s \in Thread : pc[s] \notin Busy
    BY <1>1 DEF Busy
  <2>4. <<>> \in Seq(Vertex) /\ p \notin {"cas", "push", "casbit", "setbit"} /\ p \notin {"bu", "setbit"} /\ p # "idle"
    BY <1>5
  <2>. QED
    BY <1>1, <1>2, <1>3, <1>4, <1>5, <1>7, <2>2, <2>3, <2>4, TeamStep
<1>. SUFFICES ASSUME NEW lv, IsLevels(lv), NEW L \in Nat, AtLevel(lv, L)
              PROVE  /\ phase \in {"seed", "while", "td", "q2b", "bu"} => NotAhead(lv, L)'
                     /\ phase = "td"  => TopDown(lv, L)'
                     /\ phase = "q2b" => ToBitmap(lv, L)'
                     /\ phase = "bu"  => BottomUp(lv, L)'
                     /\ phase = "b2q" => ToQueue(lv, L)'
  BY <1>1, <1>8, SameTree
<1>9. /\ Vertex' = Vertex /\ (\A n : Level(lv, n)' = Level(lv, n)) /\ \A n : out_neigh(n)' = out_neigh(n)
  BY <1>1, SameGraph
<1>10. /\ Visited' = Visited /\ Behind' = Behind
       /\ (\A n : InTodo(n)' = InTodo(n)) /\ \A s \in Thread : Buffer(s)' = Buffer(s)
  BY <1>1, <1>9 DEF Visited, Behind, InTodo, Buffer
<1>11. \A n : get_bit(front, n)' = get_bit(front, n) /\ get_bit(curr, n)' = get_bit(curr, n)
  BY <1>1 DEF get_bit
<1>12. \A s \in Thread : \A n : InWork(s, n)' = InWork(s, n)
  BY <1>3, <1>6 DEF InWork
<1>13. \A s \in Thread : Held(s)' = Held(s) /\ ToPush(s)' = ToPush(s)
  BY <1>3, <1>6, <1>7
<1>14. \A s \in Thread : pc[s] \notin Busy /\ pc'[s] \notin Busy
  BY <1>1, <1>5, <1>6 DEF Busy
<1>15. phase \in {"seed", "while", "td", "q2b", "bu"} => NotAhead(lv, L)'
  BY <1>9, <1>11 DEF AtLevel, NotAhead
<1>16. phase = "td" => TopDown(lv, L)'
  <2>. SUFFICES ASSUME TopDown(lv, L) PROVE TopDown(lv, L)'
    BY DEF AtLevel
  <2>1. \A s \in Thread : pc'[s] \notin {"td", "cas", "push"}
    BY <1>14 DEF Busy
  <2>2. ASSUME NEW m \in Level(lv, L), NEW n \in Vertex \ Visited, Contains(out_neigh(m), n)
        PROVE  InTodo(m)' \/ \E s \in Thread : val'[s] = m /\ InWork(s, n)'
    BY <1>1, <1>10, <1>12, <2>2 DEF TopDown
  <2>3. ASSUME NEW m \in Level(lv, L + 1) \cap Visited
        PROVE  m \in Behind' \/ \E s \in Thread : m \in Buffer(s)' \/ m \in ToPush(s)'
    BY <1>10, <1>13 DEF TopDown
  <2>4. todo' \subseteq outStart' .. outEnd' - 1 /\ Behind' \subseteq Visited' /\ \A s \in Thread : Buffer(s)' \subseteq Visited'
    BY <1>1, <1>10 DEF TopDown
  <2>. QED
    BY <1>9, <1>10, <2>1, <2>2, <2>3, <2>4 DEF TopDown
<1>17. phase = "q2b" => ToBitmap(lv, L)'
  BY <1>1, <1>9, <1>10, <1>11, <1>12, <1>13 DEF AtLevel, ToBitmap
<1>18. phase = "bu" => BottomUp(lv, L)'
  <2>. SUFFICES ASSUME BottomUp(lv, L) PROVE BottomUp(lv, L)'
    BY DEF AtLevel
  <2>1. \A s \in Thread : pc[s] # "setbit" /\ pc'[s] # "setbit"
    BY <1>14 DEF Busy
  <2>. QED
    BY <1>1, <1>9, <1>10, <1>11, <1>12, <2>1 DEF BottomUp, ChunkSize
<1>19. phase = "b2q" => ToQueue(lv, L)'
  BY <1>1, <1>9, <1>10, <1>11, <1>12 DEF AtLevel, ToQueue
<1>. QED
  BY <1>15, <1>16, <1>17, <1>18, <1>19

-----------------------------------------------------------------------------
(* The levels: steps that visit a vertex. *)

LEMMA VisitLevels ==
  ASSUME Structure, NEW lv, IsLevels(lv), Parents(lv), NEW L \in Nat, Visiting(lv, L), phase # "done",
         NEW u \in Vertex, NEW m \in Vertex, parent[m] < 0, Contains(out_neigh(u), m), lv[u] \in 0 .. L,
         UNCHANGED <<g, source, phase>>, parent'[m] = u, \A n \in Vertex : n # m => parent'[n] = parent[n]
  PROVE  /\ Parents(lv)' /\ Visiting(lv, L)' /\ Visited' = Visited \cup {m} /\ m \notin Visited
         /\ lv[m] = L + 1 /\ lv[u] = L
<1>1. /\ Vertex' = Vertex /\ Vertex \subseteq Nat
      /\ \A n : out_neigh(n)' = out_neigh(n) /\ InitParent(n)' = InitParent(n)
  BY SameGraph DEF Vertex
<1>2. parent \in [Vertex -> Int] /\ source \in Vertex
  BY DEF Structure, TypeOK
<1>3. m \notin Visited /\ m # source
  BY <1>1, <1>2 DEF Visited, Parents
<1>4. lv[m] = L + 1 /\ lv[u] = L
  <2>1. lv[m] \in 0 .. lv[u] + 1 /\ lv[u] \in Int
    BY LevelFacts
  <2>2. lv[m] \notin 0 .. L
    BY <1>3 DEF Visiting
  <2>. QED
    BY <2>1, <2>2
<1>5. parent'[m] = u /\ \A n \in Vertex : n # m => parent'[n] = parent[n]
  OBVIOUS
<1>6. Visited' = Visited \cup {m}
  <2>1. u >= 0
    BY <1>1
  <2>. QED
    BY <1>1, <1>5, <2>1 DEF Visited
<1>7. Visiting(lv, L)'
  BY <1>1, <1>4, <1>6 DEF Visiting
<1>8. Parents(lv)'
  <2>1. parent'[source] = source
    BY <1>2, <1>3, <1>5 DEF Parents
  <2>2. Descends(lv)'
    <3>. SUFFICES ASSUME NEW n \in Vertex, parent'[n] >= 0, n # source
                  PROVE  /\ parent'[n] \in Vertex /\ Contains(out_neigh(parent'[n]), n)
                         /\ lv[parent'[n]] >= 0 /\ lv[n] = lv[parent'[n]] + 1
      BY <1>1 DEF Descends, out_neigh
    <3>1. CASE n = m
      BY <1>4, <1>5, <3>1
    <3>2. CASE n # m
      BY <1>5, <3>2 DEF Parents, Descends
    <3>. QED
      BY <3>1, <3>2
  <2>3. \A n \in Vertex : parent'[n] < 0 => parent'[n] = InitParent(n)
    BY <1>1, <1>5 DEF Parents
  <2>. QED
    BY <1>1, <2>1, <2>2, <2>3 DEF Parents
<1>. QED
  BY <1>3, <1>4, <1>6, <1>7, <1>8

\* What such a step has to show.
LEMMA NewTree ==
  ASSUME IInv, Structure', phase \in {"td", "bu"},
         UNCHANGED <<g, source, phase, slots, sharedIn, outStart, outEnd, lq, copyStart>>,
         \A lv : IsLevels(lv) => \A L \in Nat : AtLevel(lv, L) /\ Parents(lv) =>
           /\ Parents(lv)' /\ Visiting(lv, L)' /\ NotAhead(lv, L)'
           /\ phase = "td"  => TopDown(lv, L)'
           /\ phase = "bu"  => BottomUp(lv, L)'
  PROVE  IInv'
<1>. SUFFICES ASSUME NEW lv, IsLevels(lv)' PROVE Progress(lv)'
  BY DEF IInv
<1>1. Vertex' = Vertex /\ IsLevels(lv)
  BY SameGraph
<1>2. PICK L \in Nat : AtLevel(lv, L)
  BY <1>1 DEF IInv, Progress
<1>3. Parents(lv)
  BY <1>1 DEF IInv, Progress
<1>4. /\ Parents(lv)' /\ Visiting(lv, L)' /\ NotAhead(lv, L)'
      /\ (phase = "td" => TopDown(lv, L)') /\ (phase = "bu" => BottomUp(lv, L)')
  BY <1>1, <1>2, <1>3
<1>5. \A old : Queue(lv, old)' = Queue(lv, old)
  BY DEF Queue, Behind, Buffer
<1>6. Windowed(lv, L)' = Windowed(lv, L)
  BY <1>1 DEF Windowed
<1>7. AtLevel(lv, L)'
  BY <1>2, <1>4, <1>5, <1>6 DEF AtLevel
<1>. QED
  BY <1>2, <1>4, <1>7 DEF Progress

\* The compare-and-swap of TDStep: it fails, or the vertex is visited.
LEMMA TDCasLost ==
  ASSUME ConstantsSound, IInv, NEW t \in Thread, TDCas(t), parent[Head(work[t])] # InitParent(Head(work[t]))
  PROVE  IInv'
<1>. DEFINE m == Head(work[t])
            wk == Tail(work[t])
<1>1. /\ pc[t] = "cas" /\ parent[m] # InitParent(m)
      /\ UNCHANGED <<g, source, parent, front, curr, phase, todo, val, word, slots, sharedIn, outStart, outEnd, lq, copyStart>>
  BY DEF TDCas, config, queueVars
<1>2. Behaves(t, "td", wk, val[t], word[t])
  BY <1>1 DEF TDCas, Goto, SetWork, Behaves, IInv, Structure, TypeOK
<1>3. Structure /\ phase = "td"
  BY <1>1, PhaseOf DEF IInv
<1>4. ~Copying(t) /\ work[t] # <<>>
  BY <1>1, <1>3 DEF Structure, Slots, Control
<1>5. m \in Vertex /\ wk \in Seq(Vertex) /\ Held(t) = {m} \cup {wk[k] : k \in DOMAIN wk}
  BY <1>3, <1>4, HeadOfWork
<1>. HIDE DEF m, wk
<1>6. Structure'
  <2>1. "td" \in PCsIn(phase) /\ pc[t] \in Busy /\ "td" \in Busy
    BY <1>1, <1>3 DEF PCsIn, Busy
  <2>2. Bitmap' = Bitmap /\ Vertex' = Vertex
    BY <1>1, SameGraph
  <2>3. parent' \in [Vertex -> Int] /\ front' \in Bitmap /\ curr' \in Bitmap /\ word[t] \in SUBSET Vertex
    BY <1>1, <1>3, <2>2 DEF Structure, TypeOK
  <2>. QED
    BY <1>1, <1>2, <1>3, <1>4, <1>5, <2>1, <2>3, WorkStep
<1>. SUFFICES ASSUME NEW lv, IsLevels(lv), NEW L \in Nat, AtLevel(lv, L), Parents(lv)
              PROVE  NotAhead(lv, L)' /\ TopDown(lv, L)'
  BY <1>1, <1>3, <1>6, SameTree
<1>7. m \in Visited
  BY <1>1, <1>3, <1>5 DEF Parents, Visited, Structure, TypeOK
<1>8. NotAhead(lv, L)'
  BY <1>1, <1>3, SameGraph DEF AtLevel, NotAhead, get_bit, word_offset
<1>9. TopDown(lv, L)'
  <2>1. {wk[k] : k \in DOMAIN wk} \subseteq Held(t) /\ \A n \in Held(t) : n \in Visited \/ n \in {wk[k] : k \in DOMAIN wk}
    BY <1>5, <1>7
  <2>2. TopDown(lv, L)
    BY <1>3 DEF AtLevel
  <2>. QED
    BY <1>1, <1>2, <1>3, <2>1, <2>2, TopDownMove
<1>. QED
  BY <1>8, <1>9

LEMMA TDCasWon ==
  ASSUME ConstantsSound, IInv, NEW t \in Thread, TDCas(t), parent[Head(work[t])] = InitParent(Head(work[t]))
  PROVE  IInv'
<1>0. PICK m, u : m = Head(work[t]) /\ u = val[t]
  OBVIOUS
<1>1. /\ pc[t] = "cas" /\ parent[m] = InitParent(m) /\ parent' = [parent EXCEPT ![m] = u]
      /\ UNCHANGED <<g, source, front, curr, phase, todo, work, val, word, slots, sharedIn, outStart, outEnd, lq, copyStart>>
  BY <1>0 DEF TDCas, config, queueVars
<1>2. Behaves(t, "push", work[t], val[t], word[t])
  BY <1>0, <1>1 DEF TDCas, Goto, Behaves, IInv, Structure, TypeOK
<1>3. Structure /\ phase = "td"
  BY <1>1, PhaseOf DEF IInv
<1>4. ~Copying(t) /\ work[t] # <<>>
  BY <1>1, <1>3 DEF Structure, Slots, Control
<1>5. m \in Vertex /\ m \in Held(t) /\ work[t] \in Seq(Vertex) /\ parent[m] < 0 /\ m \notin Visited
  <2>1. m \in Vertex /\ m \in Held(t) /\ work[t] \in Seq(Vertex)
    BY <1>0, <1>3, <1>4, HeadOfWork DEF Structure, TypeOK
  <2>2. parent[m] \in Int /\ parent[m] < 0
    BY <1>1, <1>3, <2>1, GraphFacts DEF Structure, TypeOK
  <2>. QED
    BY <2>1, <2>2 DEF Visited
<1>6. /\ pc'[t] = "push" /\ val'[t] = u /\ work'[t] = work[t] /\ Held(t)' = Held(t)
      /\ \A s \in Thread : s # t => /\ pc'[s] = pc[s] /\ val'[s] = val[s] /\ work'[s] = work[s]
                                    /\ Held(s)' = Held(s) /\ ToPush(s)' = ToPush(s)
  BY <1>0, <1>2, <1>3, OneThread DEF Structure, Held
<1>7. ToPush(t)' = {m} /\ ToPush(t) = {}
  BY <1>0, <1>1, <1>6 DEF ToPush
<1>8. ASSUME NEW lv, IsLevels(lv), NEW L \in Nat, AtLevel(lv, L), Parents(lv)
      PROVE  /\ TopDown(lv, L) /\ Visiting(lv, L) /\ NotAhead(lv, L) /\ u \in Vertex /\ lv[u] = L
             /\ Contains(out_neigh(u), m)
             /\ Parents(lv)' /\ Visiting(lv, L)' /\ Visited' = Visited \cup {m} /\ lv[m] = L + 1
  <2>1. TopDown(lv, L) /\ Visiting(lv, L) /\ NotAhead(lv, L)
    BY <1>3, <1>8 DEF AtLevel
  <2>2. u \in Vertex /\ lv[u] = L /\ Contains(out_neigh(u), m)
    BY <1>0, <1>1, <1>5, <2>1 DEF TopDown, Level
  <2>3. lv[u] \in 0 .. L /\ phase # "done"
    BY <1>3, <2>2
  <2>4. UNCHANGED <<g, source, phase>> /\ parent'[m] = u /\ \A n \in Vertex : n # m => parent'[n] = parent[n]
    BY <1>1, <1>3, <1>5 DEF Structure, TypeOK
  <2>5. m \in Vertex /\ parent[m] < 0 /\ Structure
    BY <1>3, <1>5
  <2>7. IsLevels(lv) /\ Parents(lv) /\ Visiting(lv, L)
    BY <1>8, <2>1
  <2>8. Contains(out_neigh(u), m) /\ u \in Vertex
    BY <2>2
  <2>6. Parents(lv)' /\ Visiting(lv, L)' /\ Visited' = Visited \cup {m} /\ lv[m] = L + 1
    BY <2>3, <2>4, <2>5, <2>7, <2>8, VisitLevels
  <2>. QED
    BY <2>1, <2>2, <2>6
<1>9. Structure'
  <2>1. PICK lv : IsLevels(lv)
    BY <1>3, LevelsExist DEF Structure, TypeOK
  <2>2. PICK L \in Nat : AtLevel(lv, L)
    BY <2>1 DEF IInv, Progress
  <2>3. TopDown(lv, L) /\ u \in Vertex
    BY <1>8, <2>1, <2>2 DEF IInv, Progress
  <2>4. \A s \in Thread : ToPush(s) \subseteq Visited
    BY <1>3, <2>3, PhaseOf DEF ToPush, TopDown
  <2>5. m \notin Behind /\ m \notin ToLookAt' /\ \A s \in Thread : m \notin Buffer(s) /\ m \notin ToPush(s)
    BY <1>1, <1>3, <1>5, <2>3, <2>4 DEF TopDown, ToLookAt
  <2>6. Bitmap' = Bitmap /\ Vertex' = Vertex
    BY <1>1, SameGraph
  <2>9. u \in Int /\ parent \in [Vertex -> Int]
    BY <1>3, <2>3 DEF Structure, TypeOK, Vertex
  <2>10. parent' \in [Vertex -> Int]
    BY <1>1, <2>9
  <2>7. parent' \in [Vertex -> Int] /\ front' \in Bitmap /\ curr' \in Bitmap /\ word[t] \in SUBSET Vertex /\ val[t] \in Nat
    BY <1>1, <1>3, <2>6, <2>10 DEF Structure, TypeOK
  <2>11. "push" # "b2q" /\ "push" \notin {"idle", "flush", "through"} /\ "push" \notin {"bu", "setbit"} /\ "push" \notin {"idle", "through"}
    OBVIOUS
  <2>12. /\ todo' \subseteq todo
         /\ UNCHANGED <<g, source, phase, slots, sharedIn, outStart, outEnd, lq, copyStart>>
    BY <1>1
  <2>13. \A n \in ToPush(t)' : /\ n \notin Behind /\ n \notin ToLookAt'
                               /\ \A s \in Thread : n \notin Buffer(s) /\ (s # t => n \notin ToPush(s))
    BY <1>7, <2>5
  <2>8. "push" \in PCsIn(phase) /\ "push" \in PCs /\ "push" \in Busy /\ pc[t] \in Busy
    BY <1>1, <1>3 DEF PCsIn, PCs, Busy
  <2>. QED
    BY <1>2, <1>3, <1>4, <1>5, <2>7, <2>8, <2>11, <2>12, <2>13, TeamStep
<1>. SUFFICES ASSUME NEW lv, IsLevels(lv), NEW L \in Nat, AtLevel(lv, L), Parents(lv)
              PROVE  Parents(lv)' /\ Visiting(lv, L)' /\ NotAhead(lv, L)' /\ TopDown(lv, L)'
  BY <1>1, <1>3, <1>9, NewTree
<1>10. NotAhead(lv, L)'
  BY <1>1, <1>8, SameGraph DEF NotAhead, get_bit, word_offset
<1>11. /\ Vertex' = Vertex /\ (\A n : Level(lv, n)' = Level(lv, n)) /\ \A n : out_neigh(n)' = out_neigh(n)
  BY <1>1, SameGraph
<1>12. TopDown(lv, L) /\ Visited' = Visited \cup {m} /\ lv[m] = L + 1 /\ lv[u] = L /\ u \in Vertex
  BY <1>8
<1>13. /\ Behind' = Behind /\ (\A n : InTodo(n)' = InTodo(n)) /\ \A s \in Thread : Buffer(s)' = Buffer(s)
  BY <1>1 DEF Behind, InTodo, Buffer
<1>14. ASSUME NEW s \in Thread, pc'[s] \in {"td", "cas", "push"}
       PROVE  /\ val'[s] \in Level(lv, L) /\ \A n \in Held(s)' : Contains(out_neigh(val'[s]), n)
              /\ pc'[s] = "push" => Head(work'[s]) \in Visited' /\ lv[Head(work'[s])] = L + 1
  <2>1. CASE s = t
    BY <1>0, <1>1, <1>6, <1>12, <2>1 DEF TopDown
  <2>2. CASE s # t
    BY <1>6, <1>12, <1>14, <2>2 DEF TopDown
  <2>. QED
    BY <2>1, <2>2
<1>15. ASSUME NEW n \in Level(lv, L), NEW k \in Vertex \ Visited', Contains(out_neigh(n), k)
       PROVE  InTodo(n)' \/ \E s \in Thread : val'[s] = n /\ InWork(s, k)'
  <2>1. InTodo(n) \/ \E s \in Thread : val[s] = n /\ InWork(s, k)
    BY <1>12, <1>15 DEF TopDown
  <2>2. \A s \in Thread : InWork(s, k) => InWork(s, k)'
    BY <1>6 DEF InWork, Busy
  <2>. QED
    BY <1>1, <1>13, <2>1, <2>2
<1>16. ASSUME NEW n \in Level(lv, L + 1) \cap Visited'
       PROVE  n \in Behind \/ \E s \in Thread : n \in Buffer(s) \/ n \in ToPush(s)'
  BY <1>6, <1>7, <1>12 DEF TopDown
<1>17. Behind \subseteq Visited' /\ \A s \in Thread : Buffer(s) \subseteq Visited'
  BY <1>12 DEF TopDown
<1>18. TopDown(lv, L)'
  BY <1>1, <1>11, <1>12, <1>13, <1>14, <1>15, <1>16, <1>17 DEF TopDown
<1>. QED
  BY <1>8, <1>10, <1>18

LEMMA TDCasStep == ASSUME ConstantsSound, IInv, NEW t \in Thread, TDCas(t) PROVE IInv'
BY TDCasLost, TDCasWon

\* BUStep visits a vertex of its own chunk.
LEMMA BUVisitStep == ASSUME ConstantsSound, IInv, NEW t \in Thread, BUVisit(t) PROVE IInv'
<1>0. PICK m, u, b : m = Head(work[t]) /\ u = Min(FrontNeighbours(m)) /\ b = curr[word_offset(m)]
  OBVIOUS
<1>1. /\ pc[t] = "bu" /\ work[t] # <<>> /\ parent[m] < 0 /\ FrontNeighbours(m) # {}
      /\ parent' = [parent EXCEPT ![m] = u]
      /\ UNCHANGED <<g, source, front, curr, phase, todo, work, val, slots, sharedIn, outStart, outEnd, lq, copyStart>>
  BY <1>0 DEF BUVisit, config, queueVars
<1>2. Behaves(t, "setbit", work[t], val[t], b)
  BY <1>0, <1>1 DEF BUVisit, Goto, Behaves, IInv, Structure, TypeOK
<1>3. Structure /\ phase = "bu"
  BY <1>1, PhaseOf DEF IInv
<1>4. ~Copying(t)
  BY <1>1, <1>3 DEF Structure, Slots
<1>5. m \in Vertex /\ m \in Held(t) /\ work[t] \in Seq(Vertex) /\ Held(t) = {work[t][k] : k \in DOMAIN work[t]}
  BY <1>0, <1>1, <1>3, HeadOfWork DEF Structure, TypeOK, Held
<1>6. u \in Vertex /\ Contains(out_neigh(u), m) /\ get_bit(front, u)
  <2>1. Vertex \subseteq Nat
    BY DEF Vertex
  <2>2. FrontNeighbours(m) \in SUBSET Nat
    BY <2>1 DEF FrontNeighbours
  <2>3. u \in FrontNeighbours(m)
    BY <1>0, <1>1, <2>2, Least
  <2>. QED
    BY <2>3 DEF FrontNeighbours
<1>7. b \in SUBSET Vertex
  <2>1. word_offset(m) \in Word
    BY <1>3, <1>5, GraphFacts DEF Structure, TypeOK
  <2>. QED
    BY <1>0, <1>3, <2>1 DEF Structure, TypeOK, Bitmap
<1>8. parent' \in [Vertex -> Int] /\ parent'[m] = u /\ \A n \in Vertex : n # m => parent'[n] = parent[n]
  <2>1. parent \in [Vertex -> Int] /\ u \in Int
    BY <1>3, <1>6 DEF Structure, TypeOK, Vertex
  <2>. QED
    BY <1>1, <1>5, <2>1
<1>9. Structure'
  <2>1. "setbit" \in PCsIn(phase) /\ pc[t] \in Busy /\ "setbit" \in Busy
    BY <1>1, <1>3 DEF PCsIn, Busy
  <2>2. Bitmap' = Bitmap
    BY <1>1, SameGraph
  <2>3. front' \in Bitmap /\ curr' \in Bitmap
    BY <1>1, <1>3, <2>2 DEF Structure, TypeOK
  <2>. QED
    BY <1>1, <1>2, <1>3, <1>4, <1>5, <1>7, <1>8, <2>1, <2>3, WorkStep
<1>. SUFFICES ASSUME NEW lv, IsLevels(lv), NEW L \in Nat, AtLevel(lv, L), Parents(lv)
              PROVE  Parents(lv)' /\ Visiting(lv, L)' /\ NotAhead(lv, L)' /\ BottomUp(lv, L)'
  BY <1>1, <1>3, <1>9, NewTree
<1>10. BottomUp(lv, L) /\ Visiting(lv, L) /\ NotAhead(lv, L)
  BY <1>3 DEF AtLevel
<1>11. /\ Parents(lv)' /\ Visiting(lv, L)' /\ Visited' = Visited \cup {m} /\ m \notin Visited /\ lv[m] = L + 1
  <2>1. lv[u] \in 0 .. L /\ phase # "done"
    BY <1>3, <1>6, <1>10 DEF NotAhead
  <2>2. UNCHANGED <<g, source, phase>>
    BY <1>1
  <2>3. m \in Vertex /\ parent[m] < 0 /\ Structure
    BY <1>1, <1>3, <1>5
  <2>. QED
    BY <1>6, <1>8, <1>10, <2>1, <2>2, <2>3, VisitLevels
<1>12. NotAhead(lv, L)'
  BY <1>1, <1>10, SameGraph DEF NotAhead, get_bit, word_offset
<1>13. Vertex' = Vertex /\ \A n : Level(lv, n)' = Level(lv, n)
  BY <1>1, SameGraph
<1>14. \A n : get_bit(front, n)' = get_bit(front, n) /\ get_bit(curr, n)' = get_bit(curr, n)
  BY <1>1 DEF get_bit
<1>15. /\ pc'[t] = "setbit" /\ word'[t] = b /\ work' = work /\ Held(t)' = Held(t)
       /\ \A s \in Thread : s # t => pc'[s] = pc[s] /\ word'[s] = word[s] /\ Held(s)' = Held(s)
  BY <1>1, <1>2, <1>3, <1>5, OneThread DEF Structure
<1>16. ASSUME NEW n \in Level(lv, L + 1) \cap Visited'
       PROVE  get_bit(curr, n)' \/ \E s \in Thread : pc'[s] = "setbit" /\ n = Head(work'[s])
  <2>1. CASE n = m
    BY <1>0, <1>15, <2>1
  <2>2. CASE n # m
    <3>1. get_bit(curr, n) \/ \E s \in Thread : pc[s] = "setbit" /\ n = Head(work[s])
      BY <1>10, <1>11, <2>2 DEF BottomUp
    <3>2. \A s \in Thread : pc[s] = "setbit" => pc'[s] = "setbit"
      BY <1>15
    <3>. QED
      BY <1>14, <1>15, <3>1, <3>2
  <2>. QED
    BY <2>1, <2>2
<1>17. ASSUME NEW n \in Level(lv, L + 1) \ Visited'
       PROVE  n \div ChunkSize \in todo \/ \E s \in Thread : InWork(s, n)'
  <2>1. n \div ChunkSize \in todo \/ \E s \in Thread : InWork(s, n)
    BY <1>10, <1>11 DEF BottomUp
  <2>2. \A s \in Thread : InWork(s, n) => InWork(s, n)'
    BY <1>15 DEF InWork, Busy
  <2>. QED
    BY <2>1, <2>2
<1>18. ASSUME NEW s \in Thread, pc'[s] = "setbit"
       PROVE  /\ word'[s] = curr[word_offset(Head(work'[s]))]
              /\ Head(work'[s]) \in Visited' /\ lv[Head(work'[s])] = L + 1
  <2>1. CASE s = t
    BY <1>0, <1>11, <1>15, <2>1
  <2>2. CASE s # t
    <3>1. pc[s] = "setbit" /\ word'[s] = word[s]
      BY <1>15, <1>18, <2>2
    <3>. QED
      BY <1>10, <1>11, <1>15, <3>1 DEF BottomUp
  <2>. QED
    BY <2>1, <2>2
<1>19. BottomUp(lv, L)'
  BY <1>1, <1>10, <1>13, <1>14, <1>16, <1>17, <1>18 DEF BottomUp, ChunkSize, word_offset
<1>. QED
  BY <1>11, <1>12, <1>19

\* The word a thread is about to write is its own: nobody else changes it.
LEMMA BUSetBitStep == ASSUME ConstantsSound, IInv, NEW t \in Thread, BUSetBit(t) PROVE IInv'
<1>0. PICK m, w : m = Head(work[t]) /\ w = word_offset(m)
  OBVIOUS
<1>. DEFINE wk == Tail(work[t])
<1>1. /\ pc[t] = "setbit" /\ curr' = [curr EXCEPT ![w] = word[t] \cup {m}]
      /\ UNCHANGED <<g, source, parent, front, phase, todo, val, word, slots, sharedIn, outStart, outEnd, lq, copyStart>>
  BY <1>0 DEF BUSetBit, config, queueVars
<1>2. Behaves(t, "bu", wk, val[t], word[t])
  BY <1>0, <1>1 DEF BUSetBit, Goto, SetWork, Behaves, IInv, Structure, TypeOK
<1>3. Structure /\ phase = "bu"
  BY <1>1, PhaseOf DEF IInv
<1>4. ~Copying(t) /\ work[t] # <<>>
  BY <1>1, <1>3 DEF Structure, Slots, Control
<1>5. m \in Vertex /\ m \in Held(t) /\ wk \in Seq(Vertex) /\ Held(t) = {m} \cup {wk[k] : k \in DOMAIN wk}
  BY <1>0, <1>3, <1>4, HeadOfWork
<1>. HIDE DEF wk
<1>6. w \in Word /\ word[t] \in SUBSET Vertex /\ curr \in Bitmap
  BY <1>0, <1>3, <1>5, GraphFacts DEF Structure, TypeOK
<1>7. /\ curr' \in Bitmap /\ curr'[w] = word[t] \cup {m} /\ \A i \in Word : i # w => curr'[i] = curr[i]
  BY <1>1, <1>5, <1>6 DEF Bitmap
<1>8. Structure'
  <2>1. "bu" \in PCsIn(phase) /\ pc[t] \in Busy /\ "bu" \in Busy
    BY <1>1, <1>3 DEF PCsIn, Busy
  <2>2. Bitmap' = Bitmap /\ Vertex' = Vertex
    BY <1>1, SameGraph
  <2>3. parent' \in [Vertex -> Int] /\ front' \in Bitmap
    BY <1>1, <1>3, <2>2 DEF Structure, TypeOK
  <2>. QED
    BY <1>1, <1>2, <1>3, <1>4, <1>5, <1>6, <1>7, <2>1, <2>3, WorkStep
<1>. SUFFICES ASSUME NEW lv, IsLevels(lv), NEW L \in Nat, AtLevel(lv, L) PROVE NotAhead(lv, L)' /\ BottomUp(lv, L)'
  BY <1>1, <1>3, <1>8, SameTree
<1>9. BottomUp(lv, L)
  BY <1>3 DEF AtLevel
<1>10. word[t] = curr[w] /\ m \in Visited /\ lv[m] = L + 1
  BY <1>0, <1>1, <1>9 DEF BottomUp
<1>11. NotAhead(lv, L)'
  BY <1>1, <1>3, SameGraph DEF AtLevel, NotAhead, get_bit, word_offset
<1>12. Vertex' = Vertex /\ (\A n : Level(lv, n)' = Level(lv, n)) /\ \A n \in Vertex : word_offset(n) \in Word
  BY <1>1, <1>3, SameGraph, GraphFacts DEF Structure, TypeOK
<1>13. \A n : get_bit(front, n)' = get_bit(front, n)
  BY <1>1 DEF get_bit
<1>14. \A n \in Vertex : get_bit(curr, n)' <=> get_bit(curr, n) \/ n = m
  <2>1. ASSUME NEW n \in Vertex PROVE n \in curr'[word_offset(n)] <=> n \in curr[word_offset(n)] \/ n = m
    BY <1>0, <1>7, <1>10, <1>12
  <2>. QED
    BY <2>1 DEF get_bit
<1>15. /\ pc'[t] = "bu" /\ Held(t)' = {wk[k] : k \in DOMAIN wk}
       /\ \A s \in Thread : s # t => pc'[s] = pc[s] /\ work'[s] = work[s] /\ word'[s] = word[s] /\ Held(s)' = Held(s)
  BY <1>2, <1>3, OneThread DEF Structure
<1>16. Visited' = Visited
  BY <1>1, <1>12 DEF Visited
<1>17. ASSUME NEW n \in Level(lv, L + 1) \cap Visited
       PROVE  get_bit(curr, n)' \/ \E s \in Thread : pc'[s] = "setbit" /\ n = Head(work'[s])
  <2>1. n \in Vertex
    BY DEF Level
  <2>2. CASE n = m
    BY <1>14, <2>1, <2>2
  <2>3. CASE n # m
    <3>1. get_bit(curr, n) \/ \E s \in Thread : pc[s] = "setbit" /\ n = Head(work[s])
      BY <1>9 DEF BottomUp
    <3>2. \A s \in Thread : pc[s] = "setbit" /\ n = Head(work[s]) => pc'[s] = "setbit" /\ n = Head(work'[s])
      BY <1>0, <1>15, <2>3
    <3>. QED
      BY <1>14, <2>1, <3>1, <3>2
  <2>. QED
    BY <2>2, <2>3
<1>18. ASSUME NEW n \in Level(lv, L + 1) \ Visited
       PROVE  n \div ChunkSize \in todo \/ \E s \in Thread : InWork(s, n)'
  <2>1. n \div ChunkSize \in todo \/ \E s \in Thread : InWork(s, n)
    BY <1>9 DEF BottomUp
  <2>2. n # m
    BY <1>10, <1>18
  <2>3. \A s \in Thread : InWork(s, n) => InWork(s, n)'
    BY <1>5, <1>15, <2>2 DEF InWork, Busy
  <2>. QED
    BY <2>1, <2>3
<1>19. ASSUME NEW s \in Thread, pc'[s] = "setbit"
       PROVE  /\ word'[s] = curr'[word_offset(Head(work'[s]))]
              /\ Head(work'[s]) \in Visited /\ lv[Head(work'[s])] = L + 1
  <2>0. PICK n : n = Head(work[s])
    OBVIOUS
  <2>1. s # t /\ pc[s] = "setbit" /\ Head(work'[s]) = n /\ word'[s] = word[s]
    BY <1>15, <1>19, <2>0
  <2>2. word[s] = curr[word_offset(n)] /\ n \in Visited /\ lv[n] = L + 1
    BY <1>9, <2>0, <2>1 DEF BottomUp
  <2>3. work[s] # <<>>
    BY <1>3, <2>1 DEF Structure, Control
  <2>4. n \in Vertex /\ n \in Held(s)
    BY <1>3, <2>0, <2>3, HeadOfWork
  <2>5. n \div ChunkSize = val[s] /\ m \div ChunkSize = val[t] /\ val[s] # val[t]
    BY <1>1, <1>3, <1>5, <2>1, <2>4 DEF Structure, OwnChunks
  <2>6. n \in Nat /\ m \in Nat
    BY <1>5, <2>4 DEF Vertex
  <2>7. word_offset(n) # w
    BY <1>0, <2>5, <2>6, Aligned
  <2>8. curr'[word_offset(n)] = curr[word_offset(n)]
    BY <1>7, <1>12, <2>4, <2>7
  <2>. QED
    BY <2>1, <2>2, <2>8
<1>20. \A n \in Vertex : get_bit(curr, n)' => lv[n] = L + 1
  BY <1>9, <1>10, <1>14 DEF BottomUp
<1>21. BottomUp(lv, L)'
  BY <1>1, <1>9, <1>12, <1>13, <1>16, <1>17, <1>18, <1>19, <1>20 DEF BottomUp, ChunkSize, word_offset
<1>. QED
  BY <1>11, <1>21

-----------------------------------------------------------------------------
(* A thread takes an iteration. *)

LEMMA Single == ASSUME NEW x PROVE {<<x>>[k] : k \in DOMAIN <<x>>} = {x}
OBVIOUS

LEMMA Neighbours ==
  ASSUME ConstantsSound, g \in Graphs, source \in Vertex, NEW u \in Vertex
  PROVE  \A m : Contains(out_neigh(u), m) <=> m \in {out_neigh(u)[k] : k \in DOMAIN out_neigh(u)}
<1>1. out_neigh(u) \in Seq(Vertex)
  BY GraphFacts
<1>2. DOMAIN out_neigh(u) = 1 .. Len(out_neigh(u))
  BY <1>1
<1>. QED
  BY <1>2 DEF Contains

\* The window has been written.
LEMMA WindowWritten == ASSUME Structure PROVE \A i \in outStart .. outEnd - 1 : i \in DOMAIN slots /\ slots[i] \in Vertex
<1>. SUFFICES ASSUME NEW i \in outStart .. outEnd - 1 PROVE i \in DOMAIN slots
  BY DEF Structure, TypeOK
<1>1. outStart \in Nat /\ outEnd \in Nat /\ sharedIn \in Nat /\ outEnd <= sharedIn /\ copyStart \in [Thread -> Nat \cup {-1}]
  BY DEF Structure, TypeOK
<1>2. i \in 0 .. sharedIn - 1 /\ i < outEnd
  BY <1>1
<1>3. \A t \in Thread : Copying(t) => i \notin Reserved(t)
  BY <1>1, <1>2 DEF Structure, Slots, Reserved, Copying
<1>. QED
  BY <1>2, <1>3 DEF Structure, Slots

LEMMA TakeFacts ==
  ASSUME ConstantsSound, Structure, NEW t \in Thread, Take(t)
  PROVE  /\ pc[t] = "loop" /\ work[t] = <<>> /\ ~Copying(t) /\ phase \in {"td", "q2b", "bu", "b2q"}
         /\ UNCHANGED <<g, source, parent, front, curr, phase, word, slots, sharedIn, outStart, outEnd, lq, copyStart>>
         /\ \E i \in todo, n \in Nat, wk \in Seq(Vertex) :
              /\ todo' = todo \ {i} /\ Behaves(t, phase, wk, n, word[t])
              /\ phase \in {"td", "q2b"} => n = slots[i] /\ n \in Vertex /\ i \in outStart .. outEnd - 1 /\ i \in DOMAIN slots
              /\ phase = "td"  => \A m : m \in {wk[k] : k \in DOMAIN wk} <=> Contains(out_neigh(n), m)
              /\ phase = "q2b" => {wk[k] : k \in DOMAIN wk} = {n}
              /\ phase = "bu"  => n = i /\ {wk[k] : k \in DOMAIN wk} = {Chunk(i)[k] : k \in DOMAIN Chunk(i)} /\ i \in Chunks
              /\ phase = "b2q" => n = i /\ {wk[k] : k \in DOMAIN wk} = {i} /\ i \in Vertex
<1>1. /\ pc[t] = "loop" /\ todo # {}
      /\ UNCHANGED <<g, source, parent, front, curr, phase, word, slots, sharedIn, outStart, outEnd, lq, copyStart>>
  BY DEF Take, config, queueVars
<1>2. phase \in {"td", "q2b", "bu", "b2q"}
  BY <1>1, PhaseOf
<1>3. work[t] = <<>> /\ ~Copying(t)
  BY <1>1 DEF Structure, Control, Slots, Busy
<1>4. TypeOK /\ g \in Graphs /\ source \in Vertex /\ todo \subseteq Nat /\ Vertex \subseteq Nat
  BY DEF Structure, TypeOK, Vertex
<1>5. PICK i \in todo :
        /\ todo' = todo \ {i}
        /\ val' = [val EXCEPT ![t] = IF phase \in {"td", "q2b"} THEN slots[i] ELSE i]
        /\ SetWork(t, CASE phase = "td"  -> out_neigh(slots[i])
                        [] phase = "q2b" -> <<slots[i]>>
                        [] phase = "bu"  -> Chunk(i)
                        [] phase = "b2q" -> <<i>>)
  BY DEF Take
<1>6. pc' = [pc EXCEPT ![t] = phase] /\ word' = [word EXCEPT ![t] = word[t]]
  BY <1>1, <1>4 DEF Take, Goto, TypeOK
<1>7. ASSUME phase \in {"td", "q2b"} PROVE i \in outStart .. outEnd - 1 /\ i \in DOMAIN slots /\ slots[i] \in Vertex
  BY <1>7, WindowWritten DEF Structure, Iterations
<1>8. CASE phase = "td"
  <2>. DEFINE n == slots[i]
              wk == out_neigh(n)
  <2>1. n \in Vertex /\ i \in outStart .. outEnd - 1 /\ i \in DOMAIN slots
    BY <1>7, <1>8
  <2>2. wk \in Seq(Vertex) /\ \A m : m \in {wk[k] : k \in DOMAIN wk} <=> Contains(out_neigh(n), m)
    <3>. HIDE DEF n
    <3>. QED
      BY <1>4, <2>1, GraphFacts, Neighbours
  <2>3. Behaves(t, phase, wk, n, word[t])
    BY <1>5, <1>6, <1>8 DEF Behaves, SetWork
  <2>. HIDE DEF wk
  <2>. QED
    BY <1>1, <1>3, <1>4, <1>5, <1>8, <2>1, <2>2, <2>3
<1>9. CASE phase = "q2b"
  <2>. DEFINE n == slots[i]
              wk == <<n>>
  <2>1. n \in Vertex /\ i \in outStart .. outEnd - 1 /\ i \in DOMAIN slots
    BY <1>7, <1>9
  <2>2. wk \in Seq(Vertex) /\ {wk[k] : k \in DOMAIN wk} = {n}
    <3>. HIDE DEF n
    <3>. QED
      BY <2>1, Single
  <2>3. Behaves(t, phase, wk, n, word[t])
    BY <1>5, <1>6, <1>9 DEF Behaves, SetWork
  <2>. HIDE DEF wk
  <2>. QED
    BY <1>1, <1>3, <1>4, <1>5, <1>9, <2>1, <2>2, <2>3
<1>10. CASE phase = "bu"
  <2>1. i \in Chunks
    BY <1>10 DEF Structure, Iterations
  <2>2. Chunk(i) \in Seq(Vertex) /\ i \in Nat
    BY <1>4, <2>1, ChunkFacts
  <2>3. Behaves(t, phase, Chunk(i), i, word[t])
    BY <1>5, <1>6, <1>10 DEF Behaves, SetWork
  <2>. QED
    BY <1>1, <1>3, <1>5, <1>10, <2>1, <2>2, <2>3
<1>11. CASE phase = "b2q"
  <2>. DEFINE wk == <<i>>
  <2>1. i \in Vertex /\ i \in Nat
    BY <1>4, <1>11 DEF Structure, Iterations
  <2>2. wk \in Seq(Vertex) /\ {wk[k] : k \in DOMAIN wk} = {i}
    BY <2>1, Single
  <2>3. Behaves(t, phase, wk, i, word[t])
    BY <1>5, <1>6, <1>11 DEF Behaves, SetWork
  <2>. HIDE DEF wk
  <2>. QED
    BY <1>1, <1>3, <1>5, <1>11, <2>1, <2>2, <2>3
<1>. QED
  BY <1>2, <1>8, <1>9, <1>10, <1>11

LEMMA TakeStep == ASSUME ConstantsSound, IInv, NEW t \in Thread, Take(t) PROVE IInv'
<1>1. Structure
  BY DEF IInv
<1>2. /\ pc[t] = "loop" /\ work[t] = <<>> /\ ~Copying(t) /\ phase \in {"td", "q2b", "bu", "b2q"}
      /\ UNCHANGED <<g, source, parent, front, curr, phase, word, slots, sharedIn, outStart, outEnd, lq, copyStart>>
  BY <1>1, TakeFacts
<1>3. PICK i \in todo, n \in Nat, wk \in Seq(Vertex) :
        /\ todo' = todo \ {i} /\ Behaves(t, phase, wk, n, word[t])
        /\ phase \in {"td", "q2b"} => n = slots[i] /\ n \in Vertex /\ i \in outStart .. outEnd - 1 /\ i \in DOMAIN slots
        /\ phase = "td"  => \A m : m \in {wk[k] : k \in DOMAIN wk} <=> Contains(out_neigh(n), m)
        /\ phase = "q2b" => {wk[k] : k \in DOMAIN wk} = {n}
        /\ phase = "bu"  => n = i /\ {wk[k] : k \in DOMAIN wk} = {Chunk(i)[k] : k \in DOMAIN Chunk(i)} /\ i \in Chunks
        /\ phase = "b2q" => n = i /\ {wk[k] : k \in DOMAIN wk} = {i} /\ i \in Vertex
  BY <1>1, TakeFacts
<1>4. /\ pc'[t] = phase /\ val'[t] = n /\ Held(t)' = {wk[k] : k \in DOMAIN wk}
      /\ \A s \in Thread : s # t => /\ pc'[s] = pc[s] /\ val'[s] = val[s] /\ work'[s] = work[s] /\ word'[s] = word[s]
                                    /\ Held(s)' = Held(s) /\ ToPush(s)' = ToPush(s)
  BY <1>1, <1>3, OneThread DEF Structure
<1>5. ToPush(t) = {} /\ ToPush(t)' = IF phase = "b2q" THEN {i} ELSE {}
  BY <1>2, <1>3, <1>4 DEF ToPush
<1>6. /\ Vertex' = Vertex /\ Bitmap' = Bitmap /\ (\A k : out_neigh(k)' = out_neigh(k))
      /\ \A lv, k : Level(lv, k)' = Level(lv, k)
  BY <1>2, SameGraph
<1>7. Structure'
  <2>1. \A m \in ToPush(t)' : /\ m \notin Behind /\ m \notin ToLookAt'
                              /\ \A s \in Thread : m \notin Buffer(s) /\ (s # t => m \notin ToPush(s))
    <3>. SUFFICES ASSUME phase = "b2q"
                  PROVE  /\ i \notin Behind /\ i \notin ToLookAt'
                         /\ \A s \in Thread : i \notin Buffer(s) /\ i \notin ToPush(s)
      BY <1>5
    <3>1. ToLookAt = todo /\ ToLookAt' = todo'
      BY <1>2 DEF ToLookAt
    <3>. QED
      BY <1>1, <1>3, <3>1 DEF Structure, Once
  <2>2. ASSUME phase = "bu"
        PROVE  /\ n \notin todo' /\ \A k \in DOMAIN wk : wk[k] \div ChunkSize = n
               /\ \A s \in Thread : s # t /\ pc[s] \in {"bu", "setbit"} => val[s] # n
    <3>1. n = i /\ i \in Chunks
      BY <1>3, <2>2
    <3>2. \A k \in DOMAIN Chunk(i) : Chunk(i)[k] \div ChunkSize = i
      BY <1>1, <3>1, ChunkFacts DEF Structure, TypeOK
    <3>3. \A k \in DOMAIN wk : wk[k] \in {Chunk(i)[j] : j \in DOMAIN Chunk(i)}
      BY <1>3, <2>2
    <3>4. \A k \in DOMAIN wk : wk[k] \div ChunkSize = n
      BY <3>1, <3>2, <3>3
    <3>5. \A s \in Thread : pc[s] \in {"bu", "setbit"} => val[s] # i
      BY <1>1, <2>2 DEF Structure, OwnChunks
    <3>. QED
      BY <1>3, <3>1, <3>4, <3>5
  <2>3. phase \in PCsIn(phase) /\ phase \in PCs /\ phase \in Busy /\ todo # {} /\ todo' \subseteq todo
    BY <1>2, <1>3 DEF PCsIn, PCs, Busy
  <2>4. phase \notin {"cas", "push", "casbit", "setbit", "idle", "flush", "through"}
    BY <1>2
  <2>5. parent' \in [Vertex -> Int] /\ front' \in Bitmap /\ curr' \in Bitmap /\ word[t] \in SUBSET Vertex
    BY <1>1, <1>2, <1>6 DEF Structure, TypeOK
  <2>6. phase = "b2q" => {wk[k] : k \in DOMAIN wk} \subseteq {n}
    BY <1>3
  <2>7. UNCHANGED <<g, source, phase, slots, sharedIn, outStart, outEnd, lq, copyStart>>
    BY <1>2
  <2>8. Behaves(t, phase, wk, n, word[t]) /\ ~Copying(t)
    BY <1>2, <1>3
  <2>. QED
    BY <1>1, <2>1, <2>2, <2>3, <2>4, <2>5, <2>6, <2>7, <2>8, TeamStep
<1>. SUFFICES ASSUME NEW lv, IsLevels(lv), NEW L \in Nat, AtLevel(lv, L)
              PROVE  /\ phase \in {"seed", "while", "td", "q2b", "bu"} => NotAhead(lv, L)'
                     /\ phase = "td"  => TopDown(lv, L)'
                     /\ phase = "q2b" => ToBitmap(lv, L)'
                     /\ phase = "bu"  => BottomUp(lv, L)'
                     /\ phase = "b2q" => ToQueue(lv, L)'
  <2>1. UNCHANGED <<g, source, parent, phase, slots, sharedIn, outStart, outEnd, lq, copyStart>>
    BY <1>2
  <2>. QED
    BY <1>7, <2>1, SameTree
<1>8. /\ Visited' = Visited /\ Behind' = Behind /\ \A s \in Thread : Buffer(s)' = Buffer(s)
  BY <1>2, <1>6 DEF Visited, Behind, Buffer
<1>9. \A m : get_bit(front, m)' = get_bit(front, m) /\ get_bit(curr, m)' = get_bit(curr, m)
  BY <1>2 DEF get_bit
<1>10. phase \in {"seed", "while", "td", "q2b", "bu"} => NotAhead(lv, L)'
  BY <1>6, <1>9 DEF AtLevel, NotAhead
<1>11. \A s \in Thread : \A m : InWork(s, m) => s # t /\ InWork(s, m)'
  BY <1>2, <1>4 DEF InWork, Busy
<1>12. \A m : m \in {wk[k] : k \in DOMAIN wk} => InWork(t, m)'
  BY <1>2, <1>4 DEF InWork, Busy
<1>13. \A m : InTodo(m) => InTodo(m)' \/ slots[i] = m
  BY <1>2, <1>3 DEF InTodo
<1>14. ASSUME phase = "td" PROVE TopDown(lv, L)'
  <2>1. TopDown(lv, L) /\ Windowed(lv, L)
    BY <1>14 DEF AtLevel
  <2>2. /\ n = slots[i] /\ n \in Vertex /\ i \in outStart .. outEnd - 1 /\ i \in DOMAIN slots
        /\ \A m : m \in {wk[k] : k \in DOMAIN wk} <=> Contains(out_neigh(n), m)
    BY <1>3, <1>14
  <2>3. n \in Level(lv, L)
    BY <2>1, <2>2 DEF Windowed, Level
  <2>4. ASSUME NEW s \in Thread, pc'[s] \in {"td", "cas", "push"}
        PROVE  /\ val'[s] \in Level(lv, L) /\ \A m \in Held(s)' : Contains(out_neigh(val'[s]), m)
               /\ pc'[s] = "push" => Head(work'[s]) \in Visited /\ lv[Head(work'[s])] = L + 1
    <3>1. CASE s = t
      BY <1>4, <1>14, <2>2, <2>3, <3>1
    <3>2. CASE s # t
      BY <1>4, <2>1, <2>4, <3>2 DEF TopDown
    <3>. QED
      BY <3>1, <3>2
  <2>5. ASSUME NEW m \in Level(lv, L), NEW k \in Vertex \ Visited, Contains(out_neigh(m), k)
        PROVE  InTodo(m)' \/ \E s \in Thread : val'[s] = m /\ InWork(s, k)'
    <3>1. CASE InTodo(m)
      <4>1. CASE slots[i] = m
        BY <1>4, <1>12, <2>2, <2>5, <4>1
      <4>. QED
        BY <1>13, <3>1, <4>1
    <3>2. ASSUME NEW s \in Thread, val[s] = m, InWork(s, k) PROVE val'[s] = m /\ InWork(s, k)'
      BY <1>4, <1>11, <3>2
    <3>. QED
      BY <2>1, <2>5, <3>1, <3>2 DEF TopDown
  <2>6. ASSUME NEW m \in Level(lv, L + 1) \cap Visited
        PROVE  m \in Behind \/ \E s \in Thread : m \in Buffer(s) \/ m \in ToPush(s)'
    BY <1>4, <1>5, <2>1 DEF TopDown
  <2>7. todo' \subseteq outStart' .. outEnd' - 1 /\ Behind \subseteq Visited /\ \A s \in Thread : Buffer(s) \subseteq Visited
    BY <1>2, <1>3, <2>1 DEF TopDown
  <2>. QED
    BY <1>6, <1>8, <2>4, <2>5, <2>6, <2>7 DEF TopDown
<1>15. ASSUME phase = "q2b" PROVE ToBitmap(lv, L)'
  <2>1. ToBitmap(lv, L) /\ Windowed(lv, L)
    BY <1>15 DEF AtLevel
  <2>2. /\ n = slots[i] /\ n \in Vertex /\ i \in outStart .. outEnd - 1 /\ i \in DOMAIN slots
        /\ {wk[k] : k \in DOMAIN wk} = {n}
    BY <1>3, <1>15
  <2>3. n \in Level(lv, L)
    BY <2>1, <2>2 DEF Windowed, Level
  <2>4. \A s \in Thread : Held(s)' \subseteq Level(lv, L)
    BY <1>4, <2>1, <2>2, <2>3 DEF ToBitmap
  <2>5. ASSUME NEW m \in Level(lv, L)
        PROVE  get_bit(front, m) \/ InTodo(m)' \/ \E s \in Thread : InWork(s, m)'
    <3>1. CASE slots[i] = m
      BY <1>12, <2>2, <3>1
    <3>2. CASE slots[i] # m
      BY <1>11, <1>13, <2>1, <3>2 DEF ToBitmap
    <3>. QED
      BY <3>1, <3>2
  <2>6. todo' \subseteq outStart' .. outEnd' - 1
    BY <1>2, <1>3, <2>1 DEF ToBitmap
  <2>. QED
    BY <1>6, <1>9, <2>4, <2>5, <2>6 DEF ToBitmap
<1>16. ASSUME phase = "bu" PROVE BottomUp(lv, L)'
  <2>1. BottomUp(lv, L)
    BY <1>16 DEF AtLevel
  <2>2. n = i /\ {wk[k] : k \in DOMAIN wk} = {Chunk(i)[k] : k \in DOMAIN Chunk(i)}
    BY <1>3, <1>16
  <2>3. \A s \in Thread : pc'[s] = "setbit" <=> pc[s] = "setbit" /\ s # t
    BY <1>2, <1>4, <1>16
  <2>4. ASSUME NEW m \in Level(lv, L + 1) \cap Visited
        PROVE  get_bit(curr, m) \/ \E s \in Thread : pc'[s] = "setbit" /\ m = Head(work'[s])
    BY <1>2, <1>4, <2>1, <2>3 DEF BottomUp
  <2>5. ASSUME NEW m \in Level(lv, L + 1) \ Visited
        PROVE  m \div ChunkSize \in todo' \/ \E s \in Thread : InWork(s, m)'
    <3>1. m \in Vertex
      BY DEF Level
    <3>2. CASE m \div ChunkSize = i
      <4>1. m \in {Chunk(i)[k] : k \in DOMAIN Chunk(i)}
        BY <1>1, <3>1, <3>2, ChunkFacts DEF Structure, TypeOK
      <4>. QED
        BY <1>12, <2>2, <4>1
    <3>3. CASE m \div ChunkSize # i
      BY <1>3, <1>11, <2>1, <3>3 DEF BottomUp
    <3>. QED
      BY <3>2, <3>3
  <2>6. ASSUME NEW s \in Thread, pc'[s] = "setbit"
        PROVE  /\ word'[s] = curr[word_offset(Head(work'[s]))]
               /\ Head(work'[s]) \in Visited /\ lv[Head(work'[s])] = L + 1
    BY <1>4, <2>1, <2>3, <2>6 DEF BottomUp
  <2>. QED
    BY <1>2, <1>6, <1>8, <1>9, <2>1, <2>4, <2>5, <2>6 DEF BottomUp, ChunkSize, word_offset
<1>17. ASSUME phase = "b2q" PROVE ToQueue(lv, L)'
  <2>1. ToQueue(lv, L) /\ {wk[k] : k \in DOMAIN wk} = {i}
    BY <1>3, <1>17 DEF AtLevel
  <2>2. ASSUME NEW m \in Level(lv, L)
        PROVE  m \in todo' \/ m \in Behind \/ \E s \in Thread : InWork(s, m)' \/ m \in Buffer(s)
    <3>1. CASE m = i
      BY <1>12, <2>1, <3>1
    <3>2. CASE m # i
      BY <1>3, <1>11, <2>1, <3>2 DEF ToQueue
    <3>. QED
      BY <3>1, <3>2
  <2>. QED
    BY <1>6, <1>8, <1>9, <2>1, <2>2 DEF ToQueue
<1>. QED
  BY <1>10, <1>14, <1>15, <1>16, <1>17

-----------------------------------------------------------------------------
(* Steps of the queue. *)

\* What such a step has to show.
LEMMA NewQueue ==
  ASSUME IInv, Structure', phase \in {"td", "b2q"},
         UNCHANGED <<g, source, parent, front, phase, outStart, outEnd>>,
         \A i \in outStart .. outEnd - 1 : i \in DOMAIN slots' /\ slots'[i] = slots[i],
         \A lv : IsLevels(lv) => \A L \in Nat : AtLevel(lv, L) =>
           /\ phase = "td"  => Queue(lv, L)' /\ TopDown(lv, L)'
           /\ phase = "b2q" => Queue(lv, L - 1)' /\ ToQueue(lv, L)'
  PROVE  IInv'
<1>. SUFFICES ASSUME NEW lv, IsLevels(lv)' PROVE Progress(lv)'
  BY DEF IInv
<1>1. /\ Vertex' = Vertex /\ IsLevels(lv) /\ \A m : out_neigh(m)' = out_neigh(m) /\ InitParent(m)' = InitParent(m)
  BY SameGraph
<1>2. PICK L \in Nat : AtLevel(lv, L)
  BY <1>1 DEF IInv, Progress
<1>3. Parents(lv)
  BY <1>1 DEF IInv, Progress
<1>4. Parents(lv)'
  BY <1>1, <1>3 DEF Parents, Descends
<1>5. Visited' = Visited
  BY <1>1 DEF Visited
<1>6. AllVisited(lv, L)' = AllVisited(lv, L) /\ Visiting(lv, L)' = Visiting(lv, L)
  BY <1>1, <1>5 DEF AllVisited, Visiting
<1>7. NotAhead(lv, L) => NotAhead(lv, L)'
  BY <1>1 DEF NotAhead, get_bit, word_offset
<1>8. Windowed(lv, L) => Windowed(lv, L)'
  <2>1. \A i \in outStart .. outEnd - 1 : i \in DOMAIN slots /\ i \in DOMAIN slots' /\ slots'[i] = slots[i]
    BY WindowWritten DEF IInv
  <2>. QED
    BY <1>1, <2>1 DEF Windowed
<1>9. /\ phase = "td"  => Queue(lv, L)' /\ TopDown(lv, L)'
      /\ phase = "b2q" => Queue(lv, L - 1)' /\ ToQueue(lv, L)'
  BY <1>1, <1>2
<1>10. CASE phase = "td"
  <2>1. Visiting(lv, L) /\ NotAhead(lv, L) /\ Windowed(lv, L) /\ phase' = "td"
    BY <1>2, <1>10 DEF AtLevel
  <2>2. AtLevel(lv, L)'
    BY <1>6, <1>7, <1>8, <1>9, <1>10, <2>1 DEF AtLevel
  <2>. QED
    BY <1>4, <2>2 DEF Progress
<1>11. CASE phase = "b2q"
  <2>1. AllVisited(lv, L) /\ phase' = "b2q"
    BY <1>2, <1>11 DEF AtLevel
  <2>2. AtLevel(lv, L)'
    BY <1>6, <1>9, <1>11, <2>1 DEF AtLevel
  <2>. QED
    BY <1>4, <2>2 DEF Progress
<1>. QED
  BY <1>10, <1>11

\* A range of slots is reserved at the end.
LEMMA FlushStep == ASSUME ConstantsSound, IInv, NEW t \in Thread, Flush(t) PROVE IInv'
<1>1. Structure
  BY DEF IInv
<1>2. /\ pc[t] \in {"flush", "push", "b2q"} /\ (pc[t] = "b2q" => work[t] # <<>>) /\ copyStart[t] = -1
      /\ copyStart' = [copyStart EXCEPT ![t] = sharedIn] /\ sharedIn' = sharedIn + Len(lq[t])
      /\ UNCHANGED <<g, source, parent, front, curr, phase, todo, pc, work, val, word, slots, outStart, outEnd, lq>>
  BY DEF Flush, FlushReserve, config, team
<1>3. phase \in {"td", "b2q"}
  BY <1>1, <1>2, PhaseOf
<1>4. /\ sharedIn \in Nat /\ outEnd \in Nat /\ outEnd <= sharedIn /\ lq[t] \in Seq(Vertex) /\ Len(lq[t]) \in Nat
      /\ copyStart \in [Thread -> Nat \cup {-1}] /\ DOMAIN slots \subseteq 0 .. sharedIn - 1
  BY <1>1 DEF Structure, TypeOK
<1>5. /\ copyStart'[t] = sharedIn /\ sharedIn' \in Nat /\ sharedIn <= sharedIn'
      /\ \A s \in Thread : s # t => copyStart'[s] = copyStart[s]
  BY <1>2, <1>4
<1>6. /\ Vertex' = Vertex /\ Bitmap' = Bitmap /\ Chunks' = Chunks /\ (\A k : out_neigh(k)' = out_neigh(k))
      /\ \A lv, k : Level(lv, k)' = Level(lv, k)
  BY <1>2, SameGraph DEF Chunks, ChunkSize
<1>7. TypeOK'
  <2>1. copyStart' \in [Thread -> Nat \cup {-1}]
    BY <1>2, <1>4
  <2>2. DOMAIN slots' \subseteq 0 .. sharedIn' - 1 /\ outEnd' <= sharedIn'
    BY <1>2, <1>4, <1>5
  <2>. QED
    BY <1>1, <1>2, <1>5, <1>6, <2>1, <2>2 DEF Structure, TypeOK
<1>8. /\ ~Copying(t) /\ Copying(t)' /\ Reserved(t)' = sharedIn .. sharedIn' - 1
      /\ \A s \in Thread : s # t => Copying(s)' = Copying(s) /\ Reserved(s)' = Reserved(s)
  BY <1>2, <1>4, <1>5 DEF Copying, Reserved
<1>9. Slots'
  <2>1. \A s \in Thread : Copying(s) => Reserved(s) \subseteq 0 .. sharedIn - 1
    BY <1>1, <1>4 DEF Structure, Slots, Copying, Reserved
  <2>2. ASSUME NEW s \in Thread, Copying(s)'
        PROVE  /\ pc[s] \in {"flush", "push", "b2q"} /\ (pc[s] = "b2q" => work[s] # <<>>)
               /\ outEnd <= copyStart'[s] /\ copyStart'[s] + Len(lq[s]) <= sharedIn'
               /\ Reserved(s)' \cap DOMAIN slots = {}
    <3>1. CASE s = t
      BY <1>2, <1>4, <1>5, <1>8, <3>1
    <3>2. CASE s # t
      <4>1. Copying(s) /\ copyStart[s] \in Nat /\ Len(lq[s]) \in Nat
        BY <1>1, <1>8, <2>2, <3>2 DEF Structure, TypeOK, Copying
      <4>2. /\ pc[s] \in {"flush", "push", "b2q"} /\ (pc[s] = "b2q" => work[s] # <<>>)
            /\ outEnd <= copyStart[s] /\ copyStart[s] + Len(lq[s]) <= sharedIn
            /\ Reserved(s) \cap DOMAIN slots = {}
        BY <1>1, <4>1 DEF Structure, Slots
      <4>. QED
        BY <1>4, <1>5, <1>8, <3>2, <4>1, <4>2
    <3>. QED
      BY <3>1, <3>2
  <2>3. ASSUME NEW r \in Thread, NEW s \in Thread, Copying(r)', Copying(s)', r # s
        PROVE  Reserved(r)' \cap Reserved(s)' = {}
    <3>1. \A q \in Thread : q # t /\ Copying(q)' => Reserved(q)' \cap Reserved(t)' = {}
      BY <1>4, <1>5, <1>8, <2>1
    <3>2. r # t /\ s # t => Reserved(r)' \cap Reserved(s)' = {}
      BY <1>1, <1>8, <2>3 DEF Structure, Slots
    <3>. QED
      BY <2>3, <3>1, <3>2
  <2>4. ASSUME NEW i \in 0 .. sharedIn' - 1
        PROVE  i \in DOMAIN slots \/ \E s \in Thread : Copying(s)' /\ i \in Reserved(s)'
    <3>1. CASE i < sharedIn
      <4>1. i \in DOMAIN slots \/ \E s \in Thread : Copying(s) /\ i \in Reserved(s)
        BY <1>1, <1>4, <1>5, <3>1 DEF Structure, Slots
      <4>. QED
        BY <1>8, <4>1
    <3>2. CASE i >= sharedIn
      BY <1>4, <1>5, <1>8, <3>2
    <3>. QED
      BY <1>4, <1>5, <3>1, <3>2
  <2>5. \A s \in Thread : pc[s] \in {"idle", "through"} => lq[s] = <<>>
    BY <1>1 DEF Structure, Slots
  <2>. QED
    BY <1>2, <1>3, <2>2, <2>3, <2>4, <2>5 DEF Slots
<1>10. /\ Behind' = Behind /\ ToLookAt' = ToLookAt /\ \A m : InTodo(m)' = InTodo(m)
       /\ \A s \in Thread : /\ Held(s)' = Held(s) /\ Buffer(s)' = Buffer(s) /\ ToPush(s)' = ToPush(s)
                            /\ \A m : InWork(s, m)' = InWork(s, m)
  BY <1>2 DEF Behind, ToLookAt, InTodo, Held, Buffer, ToPush, InWork
<1>11. Control'
  BY <1>1, <1>2 DEF Structure, Control, PCsIn
<1>12. Once'
  BY <1>1, <1>2, <1>10 DEF Structure, Once
<1>13. OwnChunks' /\ Iterations'
  BY <1>1, <1>2, <1>6, <1>10 DEF Structure, OwnChunks, Iterations, ChunkSize
<1>14. Structure'
  BY <1>7, <1>9, <1>11, <1>12, <1>13 DEF Structure
<1>15. \A i \in outStart .. outEnd - 1 : i \in DOMAIN slots' /\ slots'[i] = slots[i]
  BY <1>1, <1>2, WindowWritten
<1>. SUFFICES ASSUME NEW lv, IsLevels(lv), NEW L \in Nat, AtLevel(lv, L)
              PROVE  /\ phase = "td"  => Queue(lv, L)' /\ TopDown(lv, L)'
                     /\ phase = "b2q" => Queue(lv, L - 1)' /\ ToQueue(lv, L)'
  <2>1. UNCHANGED <<g, source, parent, front, phase, outStart, outEnd>>
    BY <1>2
  <2>. QED
    BY <1>3, <1>14, <1>15, <2>1, NewQueue
<1>16. \A old : Queue(lv, old)' = Queue(lv, old)
  BY <1>2, <1>10 DEF Queue
<1>17. Visited' = Visited /\ \A m : get_bit(front, m)' = get_bit(front, m)
  BY <1>2, <1>6 DEF Visited, get_bit
<1>18. TopDown(lv, L) => TopDown(lv, L)'
  BY <1>2, <1>6, <1>10, <1>17 DEF TopDown
<1>19. ToQueue(lv, L) => ToQueue(lv, L)'
  BY <1>2, <1>6, <1>10, <1>17 DEF ToQueue
<1>. QED
  BY <1>16, <1>18, <1>19 DEF AtLevel

\* What a flush moves from the buffer into the queue.
Moves(t, c, items) ==
  /\ c \in Nat /\ Len(items) \in Nat /\ Copying(t) /\ Reserved(t) = c .. c + Len(items) - 1
  /\ DOMAIN slots' = DOMAIN slots \cup Reserved(t)
  /\ \A i \in DOMAIN slots : slots'[i] = slots[i]
  /\ \A i \in Reserved(t) : /\ i \notin DOMAIN slots /\ i >= outEnd /\ i \in 0 .. sharedIn - 1 /\ i - c + 1 \in DOMAIN items
                            /\ slots'[i] = items[i - c + 1] /\ slots'[i] \in Buffer(t) /\ slots'[i] \in Vertex
  /\ \A m \in Buffer(t) : \E i \in Reserved(t) : slots'[i] = m
  /\ lq'[t] = <<>> /\ copyStart'[t] = -1 /\ lq' \in [Thread -> Seq(Vertex)] /\ copyStart' \in [Thread -> Nat \cup {-1}]
  /\ \A s \in Thread : s # t => lq'[s] = lq[s] /\ copyStart'[s] = copyStart[s]

LEMMA Copied ==
  ASSUME Structure, NEW t \in Thread, FlushCopy(t), NEW c, c = copyStart[t], NEW items, items = lq[t]
  PROVE  Moves(t, c, items)
<1>1. /\ copyStart[t] # -1
      /\ slots' = [i \in DOMAIN slots \cup c .. (c + Len(items) - 1) |->
                     IF i \in c .. (c + Len(items) - 1) THEN items[i - c + 1] ELSE slots[i]]
      /\ lq' = [lq EXCEPT ![t] = <<>>] /\ copyStart' = [copyStart EXCEPT ![t] = -1]
  BY DEF FlushCopy, SetSlots
<1>2. /\ lq \in [Thread -> Seq(Vertex)] /\ copyStart \in [Thread -> Nat \cup {-1}] /\ sharedIn \in Nat /\ outEnd \in Nat
      /\ items \in Seq(Vertex) /\ Len(items) \in Nat /\ DOMAIN items = 1 .. Len(items) /\ c \in Nat
  BY <1>1 DEF Structure, TypeOK
<1>3. Copying(t) /\ Reserved(t) = c .. c + Len(items) - 1
  BY <1>1 DEF Copying, Reserved
<1>4. outEnd <= c /\ c + Len(items) <= sharedIn /\ Reserved(t) \cap DOMAIN slots = {}
  BY <1>3 DEF Structure, Slots
<1>5. DOMAIN slots' = DOMAIN slots \cup Reserved(t) /\ \A i \in DOMAIN slots : slots'[i] = slots[i]
  BY <1>1, <1>3, <1>4
<1>6. ASSUME NEW i \in Reserved(t)
      PROVE  /\ i \notin DOMAIN slots /\ i >= outEnd /\ i \in 0 .. sharedIn - 1 /\ i - c + 1 \in DOMAIN items
             /\ slots'[i] = items[i - c + 1] /\ slots'[i] \in Buffer(t) /\ slots'[i] \in Vertex
  <2>1. i \in Int /\ c <= i /\ i < c + Len(items)
    BY <1>2, <1>3
  <2>2. i - c + 1 \in DOMAIN items /\ i >= outEnd /\ i \in 0 .. sharedIn - 1 /\ i \notin DOMAIN slots
    BY <1>2, <1>4, <2>1
  <2>3. slots'[i] = items[i - c + 1]
    BY <1>1, <1>3
  <2>4. items[i - c + 1] \in Buffer(t) /\ items[i - c + 1] \in Vertex
    BY <1>2, <2>2 DEF Buffer
  <2>. QED
    BY <2>2, <2>3, <2>4
<1>7. ASSUME NEW m \in Buffer(t) PROVE \E i \in Reserved(t) : slots'[i] = m
  <2>1. PICK k \in DOMAIN items : m = items[k]
    BY DEF Buffer
  <2>2. c + k - 1 \in Reserved(t) /\ (c + k - 1) - c + 1 = k
    BY <1>2, <1>3
  <2>3. slots'[c + k - 1] = items[(c + k - 1) - c + 1]
    BY <1>6, <2>2
  <2>. QED
    BY <2>1, <2>2, <2>3
<1>8. /\ lq'[t] = <<>> /\ copyStart'[t] = -1 /\ lq' \in [Thread -> Seq(Vertex)] /\ copyStart' \in [Thread -> Nat \cup {-1}]
      /\ \A s \in Thread : s # t => lq'[s] = lq[s] /\ copyStart'[s] = copyStart[s]
  BY <1>1, <1>2
<1>. QED
  BY <1>2, <1>3, <1>5, <1>6, <1>7, <1>8 DEF Moves

\* What is on its way into the queue is not in it: it is one level further down.
LEMMA NewInQueue ==
  ASSUME ConstantsSound, IInv, phase \in {"td", "b2q"}, NEW t \in Thread
  PROVE  \A i \in DOMAIN slots : slots[i] \notin Buffer(t)
<1>1. PICK lv : IsLevels(lv)
  BY LevelsExist DEF IInv, Structure, TypeOK
<1>2. PICK L \in Nat : AtLevel(lv, L)
  BY <1>1 DEF IInv, Progress
<1>3. PICK old \in Int : Queue(lv, old)
  BY <1>2 DEF AtLevel
<1>. SUFFICES ASSUME NEW i \in DOMAIN slots, slots[i] \in Buffer(t) PROVE FALSE
  OBVIOUS
<1>4. lv[slots[i]] = old + 1
  BY <1>3 DEF Queue
<1>5. i \in Int /\ outEnd \in Int
  BY DEF IInv, Structure, TypeOK
<1>6. CASE i < outEnd
  BY <1>3, <1>4, <1>6 DEF Queue
<1>7. CASE i >= outEnd
  BY <1>7 DEF IInv, Structure, Once, Behind
<1>. QED
  BY <1>5, <1>6, <1>7

LEMMA FlushDoneStep == ASSUME ConstantsSound, IInv, NEW t \in Thread, FlushDone(t) PROVE IInv'
<1>1. Structure
  BY DEF IInv
<1>2. /\ FlushCopy(t) /\ pc' = [pc EXCEPT ![t] = IF pc[t] = "flush" THEN "through" ELSE pc[t]]
      /\ UNCHANGED <<g, source, parent, front, curr, phase, todo, work, val, word, sharedIn, outStart, outEnd>>
  BY DEF FlushDone, FlushCopy, Goto, config
<1>3. PICK c, items : c = copyStart[t] /\ items = lq[t]
  OBVIOUS
<1>4. /\ c \in Nat /\ Len(items) \in Nat /\ Copying(t) /\ Reserved(t) = c .. c + Len(items) - 1
      /\ DOMAIN slots' = DOMAIN slots \cup Reserved(t)
      /\ \A i \in DOMAIN slots : slots'[i] = slots[i]
      /\ \A i \in Reserved(t) : /\ i \notin DOMAIN slots /\ i >= outEnd /\ i \in 0 .. sharedIn - 1 /\ i - c + 1 \in DOMAIN items
                                /\ slots'[i] = items[i - c + 1] /\ slots'[i] \in Buffer(t) /\ slots'[i] \in Vertex
      /\ \A m \in Buffer(t) : \E i \in Reserved(t) : slots'[i] = m
      /\ lq'[t] = <<>> /\ copyStart'[t] = -1 /\ lq' \in [Thread -> Seq(Vertex)] /\ copyStart' \in [Thread -> Nat \cup {-1}]
      /\ \A s \in Thread : s # t => lq'[s] = lq[s] /\ copyStart'[s] = copyStart[s]
  <2>1. FlushCopy(t) /\ c = copyStart[t] /\ items = lq[t]
    BY <1>2, <1>3
  <2>2. Moves(t, c, items)
    BY <1>1, <2>1, Copied
  <2>. QED
    BY <2>2 DEF Moves
<1>5. pc[t] \in {"flush", "push", "b2q"}
  BY <1>1, <1>4 DEF Structure, Slots
<1>6. phase \in {"td", "b2q"}
  BY <1>1, <1>5, PhaseOf
<1>7. /\ Vertex' = Vertex /\ Bitmap' = Bitmap /\ Chunks' = Chunks /\ (\A k : out_neigh(k)' = out_neigh(k))
      /\ \A lv, k : Level(lv, k)' = Level(lv, k)
  BY <1>2, SameGraph DEF Chunks, ChunkSize
<1>8. /\ \A s \in Thread : s # t => pc'[s] = pc[s]
      /\ pc[t] = "flush" => pc'[t] = "through"
      /\ pc[t] # "flush" => pc'[t] = pc[t]
  BY <1>1, <1>2 DEF Structure, TypeOK
<1>9. TypeOK'
  <2>1. pc' \in [Thread -> PCs]
    BY <1>1, <1>2 DEF Structure, TypeOK, PCs
  <2>2. DOMAIN slots' \subseteq 0 .. sharedIn' - 1 /\ \A i \in DOMAIN slots' : slots'[i] \in Vertex
    BY <1>1, <1>2, <1>4 DEF Structure, TypeOK
  <2>. QED
    BY <1>1, <1>2, <1>4, <1>7, <2>1, <2>2 DEF Structure, TypeOK
<1>10. Control'
  <2>1. PCsIn(phase)' = PCsIn(phase) /\ pc'[t] \in PCsIn(phase)
    BY <1>1, <1>2, <1>5, <1>6, <1>8, PhaseOf DEF PCsIn
  <2>2. \A s \in Thread : pc'[s] \in PCsIn(phase)
    BY <1>1, <1>8, <2>1 DEF Structure, Control
  <2>3. \A s \in Thread : /\ pc'[s] \in Busy <=> pc[s] \in Busy
                          /\ pc'[s] \in {"cas", "push", "casbit", "setbit"} <=> pc[s] \in {"cas", "push", "casbit", "setbit"}
                          /\ pc'[s] \in {"idle", "flush", "through"} <=> pc[s] \in {"idle", "flush", "through"}
    BY <1>5, <1>8 DEF Busy
  <2>. QED
    BY <1>1, <1>2, <2>1, <2>2, <2>3 DEF Structure, Control
<1>11. /\ ~Copying(t)'
       /\ \A s \in Thread : s # t => Copying(s)' = Copying(s) /\ Reserved(s)' = Reserved(s) /\ Buffer(s)' = Buffer(s)
  BY <1>4 DEF Copying, Reserved, Buffer
<1>12. Slots'
  <2>1. ASSUME NEW s \in Thread, Copying(s)'
        PROVE  /\ s # t /\ pc'[s] \in {"flush", "push", "b2q"} /\ (pc'[s] = "b2q" => work[s] # <<>>)
               /\ outEnd <= copyStart'[s] /\ copyStart'[s] + Len(lq'[s]) <= sharedIn
               /\ Reserved(s)' \cap DOMAIN slots' = {}
    <3>1. s # t /\ Copying(s) /\ copyStart'[s] = copyStart[s] /\ lq'[s] = lq[s] /\ pc'[s] = pc[s]
      BY <1>4, <1>8, <1>11, <2>1
    <3>2. Reserved(s) \cap Reserved(t) = {} /\ Reserved(s) \cap DOMAIN slots = {}
      BY <1>1, <1>4, <3>1 DEF Structure, Slots
    <3>3. Reserved(s)' \cap DOMAIN slots' = {}
      BY <1>4, <1>11, <3>1, <3>2
    <3>4. /\ pc[s] \in {"flush", "push", "b2q"} /\ (pc[s] = "b2q" => work[s] # <<>>)
          /\ outEnd <= copyStart[s] /\ copyStart[s] + Len(lq[s]) <= sharedIn
      BY <1>1, <3>1 DEF Structure, Slots
    <3>. QED
      BY <3>1, <3>3, <3>4
  <2>2. ASSUME NEW r \in Thread, NEW s \in Thread, Copying(r)', Copying(s)', r # s
        PROVE  Reserved(r)' \cap Reserved(s)' = {}
    BY <1>1, <1>11, <2>1, <2>2 DEF Structure, Slots
  <2>3. ASSUME NEW i \in 0 .. sharedIn - 1
        PROVE  i \in DOMAIN slots' \/ \E s \in Thread : Copying(s)' /\ i \in Reserved(s)'
    <3>1. i \in DOMAIN slots \/ \E s \in Thread : Copying(s) /\ i \in Reserved(s)
      BY <1>1 DEF Structure, Slots
    <3>. QED
      BY <1>4, <1>11, <3>1
  <2>4. \A s \in Thread : pc'[s] \in {"idle", "through"} => lq'[s] = <<>>
    BY <1>1, <1>4, <1>8 DEF Structure, Slots
  <2>. QED
    BY <1>2, <1>6, <2>1, <2>2, <2>3, <2>4 DEF Slots
<1>13. Buffer(t)' = {}
  BY <1>4 DEF Buffer
<1>14. Behind' = Behind \cup Buffer(t)
  <2>1. ASSUME NEW m \in Behind' PROVE m \in Behind \cup Buffer(t)
    <3>1. PICK i \in DOMAIN slots' : i >= outEnd /\ m = slots'[i]
      BY <1>2 DEF Behind
    <3>. QED
      BY <1>4, <3>1 DEF Behind
  <2>2. ASSUME NEW m \in Behind PROVE m \in Behind'
    <3>1. PICK i \in DOMAIN slots : i >= outEnd /\ m = slots[i]
      BY DEF Behind
    <3>2. i \in DOMAIN slots' /\ slots'[i] = m
      BY <1>4, <3>1
    <3>. QED
      BY <1>2, <3>1, <3>2 DEF Behind
  <2>3. ASSUME NEW m \in Buffer(t) PROVE m \in Behind'
    <3>1. PICK i \in Reserved(t) : slots'[i] = m
      BY <1>4
    <3>2. i \in DOMAIN slots' /\ i >= outEnd
      BY <1>4, <3>1
    <3>. QED
      BY <1>2, <3>1, <3>2 DEF Behind
  <2>. QED
    BY <2>1, <2>2, <2>3
<1>15. /\ ToLookAt' = ToLookAt /\ \A s \in Thread : Held(s)' = Held(s) /\ ToPush(s)' = ToPush(s)
       /\ \A s \in Thread : \A m : InWork(s, m)' = InWork(s, m)
  <2>1. ToLookAt' = ToLookAt /\ \A s \in Thread : Held(s)' = Held(s)
    BY <1>2 DEF ToLookAt, Held
  <2>2. \A s \in Thread : (pc'[s] = "push" <=> pc[s] = "push") /\ (pc'[s] = "b2q" <=> pc[s] = "b2q") /\ (pc'[s] \in Busy <=> pc[s] \in Busy)
    BY <1>5, <1>8 DEF Busy
  <2>. QED
    BY <1>2, <2>1, <2>2 DEF ToPush, InWork
<1>16. Once'
  <2>1. ASSUME NEW i \in DOMAIN slots', NEW j \in DOMAIN slots', slots'[i] = slots'[j] PROVE i = j
    <3>1. CASE i \in DOMAIN slots /\ j \in DOMAIN slots
      BY <1>1, <1>4, <2>1, <3>1 DEF Structure, Once
    <3>2. CASE i \in Reserved(t) /\ j \in Reserved(t)
      <4>1. items[i - c + 1] = items[j - c + 1] /\ i - c + 1 \in DOMAIN items /\ j - c + 1 \in DOMAIN items
        BY <1>4, <2>1, <3>2
      <4>2. i - c + 1 = j - c + 1
        BY <1>1, <1>3, <4>1 DEF Structure, Once
      <4>3. i \in Int /\ j \in Int
        BY <1>4, <3>2
      <4>. QED
        BY <1>4, <4>2, <4>3
    <3>3. \A k \in DOMAIN slots : slots[k] \notin Buffer(t)
      BY <1>6, NewInQueue
    <3>. QED
      BY <1>4, <2>1, <3>1, <3>2, <3>3
  <2>2. \A s \in Thread : \A i, j \in DOMAIN lq'[s] : lq'[s][i] = lq'[s][j] => i = j
    BY <1>1, <1>4 DEF Structure, Once
  <2>3. \A r, s \in Thread : r # s => Buffer(r)' \cap Buffer(s)' = {} /\ ToPush(r)' \cap ToPush(s)' = {}
    BY <1>1, <1>11, <1>13, <1>15 DEF Structure, Once
  <2>4. \A r, s \in Thread : ToPush(r)' \cap Buffer(s)' = {}
    BY <1>1, <1>11, <1>13, <1>15 DEF Structure, Once
  <2>5. ASSUME NEW s \in Thread PROVE (ToPush(s)' \cup Buffer(s)') \cap (Behind' \cup ToLookAt') = {}
    <3>1. (ToPush(s) \cup Buffer(s)) \cap (Behind \cup ToLookAt) = {} /\ ToPush(s) \cap Buffer(t) = {}
      BY <1>1 DEF Structure, Once
    <3>2. s # t => Buffer(s)' \cap Buffer(t) = {} /\ Buffer(s)' = Buffer(s)
      BY <1>1, <1>11 DEF Structure, Once
    <3>. QED
      BY <1>13, <1>14, <1>15, <3>1, <3>2
  <2>6. Behind' \cap ToLookAt' = {}
    BY <1>1, <1>14, <1>15 DEF Structure, Once
  <2>. QED
    BY <2>1, <2>2, <2>3, <2>4, <2>5, <2>6 DEF Once
<1>17. OwnChunks' /\ Iterations'
  <2>1. OwnChunks'
    BY <1>2, <1>6 DEF OwnChunks
  <2>2. \A s \in Thread : pc'[s] = "b2q" => pc[s] = "b2q"
    BY <1>8
  <2>. QED
    BY <1>1, <1>2, <1>7, <1>15, <2>1, <2>2 DEF Structure, Iterations
<1>18. Structure'
  BY <1>9, <1>10, <1>12, <1>16, <1>17 DEF Structure
<1>19. \A i \in outStart .. outEnd - 1 : i \in DOMAIN slots' /\ slots'[i] = slots[i]
  BY <1>1, <1>4, WindowWritten
<1>. SUFFICES ASSUME NEW lv, IsLevels(lv), NEW L \in Nat, AtLevel(lv, L)
              PROVE  /\ phase = "td"  => Queue(lv, L)' /\ TopDown(lv, L)'
                     /\ phase = "b2q" => Queue(lv, L - 1)' /\ ToQueue(lv, L)'
  <2>1. UNCHANGED <<g, source, parent, front, phase, outStart, outEnd>>
    BY <1>2
  <2>. QED
    BY <1>6, <1>18, <1>19, <2>1, NewQueue
<1>20. ASSUME NEW old, Queue(lv, old) PROVE Queue(lv, old)'
  <2>1. ASSUME NEW i \in DOMAIN slots', i < outEnd PROVE lv[slots'[i]] \in 0 .. old
    <3>1. \A j \in Reserved(t) : j >= outEnd /\ j \in Int
      BY <1>4
    <3>2. i \in DOMAIN slots
      <4>1. outEnd \in Int
        BY <1>1 DEF Structure, TypeOK
      <4>. QED
        BY <1>4, <2>1, <3>1, <4>1
    <3>. QED
      BY <1>4, <1>20, <2>1, <3>2 DEF Queue
  <2>2. \A m \in Behind' : lv[m] = old + 1
    BY <1>14, <1>20 DEF Queue
  <2>3. \A s \in Thread : \A m \in Buffer(s)' : lv[m] = old + 1
    BY <1>11, <1>13, <1>20 DEF Queue
  <2>. QED
    BY <1>2, <2>1, <2>2, <2>3 DEF Queue
<1>21. Visited' = Visited /\ \A m : get_bit(front, m)' = get_bit(front, m)
  BY <1>2, <1>7 DEF Visited, get_bit
<1>22. ASSUME phase = "td", TopDown(lv, L) PROVE TopDown(lv, L)'
  <2>1. \A m : InTodo(m)' = InTodo(m)
    BY <1>2, <1>19, <1>22 DEF InTodo, TopDown
  <2>2. \A s \in Thread : pc'[s] \in {"td", "cas", "push"} => pc[s] = pc'[s]
    BY <1>8
  <2>3. ASSUME NEW s \in Thread, pc'[s] \in {"td", "cas", "push"}
        PROVE  /\ val'[s] \in Level(lv, L) /\ \A m \in Held(s)' : Contains(out_neigh(val'[s]), m)
               /\ pc'[s] = "push" => Head(work'[s]) \in Visited /\ lv[Head(work'[s])] = L + 1
    BY <1>2, <1>15, <1>22, <2>2, <2>3 DEF TopDown
  <2>4. ASSUME NEW m \in Level(lv, L), NEW n \in Vertex \ Visited, Contains(out_neigh(m), n)
        PROVE  InTodo(m)' \/ \E s \in Thread : val'[s] = m /\ InWork(s, n)'
    BY <1>2, <1>15, <1>22, <2>1, <2>4 DEF TopDown
  <2>5. ASSUME NEW m \in Level(lv, L + 1) \cap Visited
        PROVE  m \in Behind' \/ \E s \in Thread : m \in Buffer(s)' \/ m \in ToPush(s)'
    <3>1. m \in Behind \/ \E s \in Thread : m \in Buffer(s) \/ m \in ToPush(s)
      BY <1>22 DEF TopDown
    <3>. QED
      BY <1>11, <1>14, <1>15, <3>1
  <2>6. Behind' \subseteq Visited /\ \A s \in Thread : Buffer(s)' \subseteq Visited
    BY <1>11, <1>13, <1>14, <1>22 DEF TopDown
  <2>7. todo' \subseteq outStart' .. outEnd' - 1
    BY <1>2, <1>22 DEF TopDown
  <2>. QED
    BY <1>7, <1>21, <2>3, <2>4, <2>5, <2>6, <2>7 DEF TopDown
<1>23. ASSUME ToQueue(lv, L) PROVE ToQueue(lv, L)'
  <2>1. ASSUME NEW m \in Level(lv, L)
        PROVE  m \in todo' \/ m \in Behind' \/ \E s \in Thread : InWork(s, m)' \/ m \in Buffer(s)'
    <3>1. m \in todo \/ m \in Behind \/ \E s \in Thread : InWork(s, m) \/ m \in Buffer(s)
      BY <1>23 DEF ToQueue
    <3>. QED
      BY <1>2, <1>11, <1>14, <1>15, <3>1
  <2>. QED
    BY <1>7, <1>21, <1>23, <2>1 DEF ToQueue
<1>. QED
  BY <1>20, <1>22, <1>23 DEF AtLevel

\* QueueBuffer::push_back of a vertex that was on its way.
LEMMA Pushed ==
  ASSUME ConstantsSound, Structure, NEW t \in Thread, pc[t] \in {"push", "b2q"}, ~Copying(t),
         NEW m \in ToPush(t), m \in Vertex, NEW wk \in Seq(Vertex),
         NEW p \in {"td", "b2q"}, p \in PCsIn(phase), p = "b2q" => wk = <<>>,
         Behaves(t, p, wk, val[t], word[t]),
         lq' = [lq EXCEPT ![t] = Append(@, m)],
         UNCHANGED <<g, source, parent, front, curr, phase, todo, slots, sharedIn, outStart, outEnd, copyStart>>
  PROVE  /\ Structure' /\ ToPush(t)' = {} /\ Buffer(t)' = Buffer(t) \cup {m}
         /\ \A s \in Thread : s # t => Buffer(s)' = Buffer(s)
<1>. USE DEF Structure
<1>1. /\ pc'[t] = p /\ work'[t] = wk /\ val'[t] = val[t]
      /\ \A s \in Thread : s # t => /\ pc'[s] = pc[s] /\ work'[s] = work[s] /\ val'[s] = val[s]
                                    /\ Held(s)' = Held(s) /\ ToPush(s)' = ToPush(s)
      /\ Held(t)' = {wk[k] : k \in DOMAIN wk}
  BY OneThread
<1>2. lq \in [Thread -> Seq(Vertex)] /\ lq[t] \in Seq(Vertex) /\ phase \in {"td", "b2q"}
  BY PhaseOf DEF TypeOK
<1>3. lq'[t] = Append(lq[t], m) /\ \A s \in Thread : s # t => lq'[s] = lq[s]
  BY <1>2
<1>4. PICK old \in Seq(Vertex) : old = lq[t]
  BY <1>2
<1>5. /\ Append(old, m) \in Seq(Vertex)
      /\ \A k \in DOMAIN old : k \in DOMAIN Append(old, m) /\ Append(old, m)[k] = old[k]
      /\ Len(old) + 1 \in DOMAIN Append(old, m) /\ Append(old, m)[Len(old) + 1] = m
      /\ \A k \in DOMAIN Append(old, m) : k \in DOMAIN old \/ k = Len(old) + 1
  BY Appended
<1>6. PICK new \in Seq(Vertex) : new = Append(old, m)
  BY <1>5
<1>7. Buffer(t)' = Buffer(t) \cup {m} /\ \A s \in Thread : s # t => Buffer(s)' = Buffer(s)
  <2>1. Buffer(t)' = {new[k] : k \in DOMAIN new} /\ Buffer(t) = {old[k] : k \in DOMAIN old}
    BY <1>3, <1>4, <1>6 DEF Buffer
  <2>2. {new[k] : k \in DOMAIN new} = {old[k] : k \in DOMAIN old} \cup {m}
    BY <1>5, <1>6
  <2>. QED
    BY <1>3, <2>1, <2>2 DEF Buffer
<1>8. ToPush(t)' = {}
  BY <1>1 DEF ToPush
<1>9. /\ Vertex' = Vertex /\ Bitmap' = Bitmap /\ Chunks' = Chunks
  BY SameGraph DEF Chunks, ChunkSize
<1>10. TypeOK'
  <2>1. /\ pc' \in [Thread -> PCs] /\ work' \in [Thread -> Seq(Vertex)]
        /\ val' \in [Thread -> Nat] /\ word' \in [Thread -> SUBSET Vertex]
    BY DEF Behaves, TypeOK, PCs, Busy
  <2>2. lq' \in [Thread -> Seq(Vertex)]
    BY <1>2, <1>4, <1>5
  <2>. QED
    BY <1>9, <2>1, <2>2 DEF TypeOK
<1>11. Control'
  <2>1. PCsIn(phase)' = PCsIn(phase)
    BY DEF PCsIn
  <2>2. pc[t] \in Busy /\ p \in Busy /\ p \notin {"cas", "push", "casbit", "setbit"} /\ p \notin {"idle", "flush", "through"}
    BY DEF Busy
  <2>3. \A r, s \in Thread : pc'[s] \in {"idle", "flush", "through"} => todo' = {} /\ pc'[r] \notin Busy
    BY <1>1, <2>2 DEF Control
  <2>4. \A s \in Thread : /\ pc'[s] \in PCsIn(phase) /\ (pc'[s] \notin Busy => work'[s] = <<>>)
                          /\ (pc'[s] \in {"cas", "push", "casbit", "setbit"} => work'[s] # <<>>)
    BY <1>1, <2>2 DEF Control
  <2>. QED
    BY <2>1, <2>3, <2>4 DEF Control
<1>12. \A s \in Thread : Copying(s)' = Copying(s) /\ (s # t => Reserved(s)' = Reserved(s))
  BY <1>3 DEF Copying, Reserved
<1>13. Slots'
  <2>1. \A s \in Thread : Copying(s) => s # t
    OBVIOUS
  <2>2. ASSUME NEW s \in Thread, Copying(s)'
        PROVE  /\ pc'[s] \in {"flush", "push", "b2q"} /\ (pc'[s] = "b2q" => work'[s] # <<>>)
               /\ outEnd <= copyStart[s] /\ copyStart[s] + Len(lq'[s]) <= sharedIn
               /\ Reserved(s)' \cap DOMAIN slots = {}
    BY <1>1, <1>3, <1>12, <2>1, <2>2 DEF Slots
  <2>3. \A r, s \in Thread : Copying(r)' /\ Copying(s)' /\ r # s => Reserved(r)' \cap Reserved(s)' = {}
    BY <1>12, <2>1 DEF Slots
  <2>4. \A i \in 0 .. sharedIn - 1 : i \in DOMAIN slots \/ \E s \in Thread : Copying(s)' /\ i \in Reserved(s)'
    BY <1>12, <2>1 DEF Slots
  <2>5. \A s \in Thread : pc'[s] \in {"idle", "through"} => lq'[s] = <<>>
    BY <1>1, <1>3 DEF Slots
  <2>. QED
    BY <1>2, <2>2, <2>3, <2>4, <2>5 DEF Slots
<1>14. Behind' = Behind /\ ToLookAt' = ToLookAt
  BY DEF Behind, ToLookAt
<1>15. m \notin Behind /\ m \notin ToLookAt /\ \A s \in Thread : m \notin Buffer(s) /\ (s # t => m \notin ToPush(s))
  BY DEF Once
<1>16. Once'
  <2>1. ASSUME NEW i \in DOMAIN new, NEW j \in DOMAIN new, new[i] = new[j] PROVE i = j
    <3>1. m \notin {old[k] : k \in DOMAIN old}
      BY <1>4, <1>15 DEF Buffer
    <3>2. \A h, k \in DOMAIN old : old[h] = old[k] => h = k
      BY <1>4 DEF Once
    <3>3. /\ \A k \in DOMAIN old : k \in DOMAIN new /\ new[k] = old[k]
          /\ new[Len(old) + 1] = m /\ \A k \in DOMAIN new : k \in DOMAIN old \/ k = Len(old) + 1
      BY <1>5, <1>6
    <3>. QED
      BY <2>1, <3>1, <3>2, <3>3
  <2>2. \A s \in Thread : \A i, j \in DOMAIN lq'[s] : lq'[s][i] = lq'[s][j] => i = j
    <3>1. \A i, j \in DOMAIN lq'[t] : lq'[t][i] = lq'[t][j] => i = j
      BY <1>3, <1>4, <1>6, <2>1
    <3>. QED
      BY <1>3, <3>1 DEF Once
  <2>3. \A r, s \in Thread : r # s => Buffer(r)' \cap Buffer(s)' = {}
    <3>1. \A r, s \in Thread : r # s => Buffer(r) \cap Buffer(s) = {}
      BY DEF Once
    <3>. QED
      BY <1>7, <1>15, <3>1
  <2>4. \A r, s \in Thread : r # s => ToPush(r)' \cap ToPush(s)' = {}
    BY <1>1, <1>8 DEF Once
  <2>5. ASSUME NEW r \in Thread, NEW s \in Thread PROVE ToPush(r)' \cap Buffer(s)' = {}
    <3>1. ToPush(r) \cap Buffer(s) = {} /\ (r # t => m \notin ToPush(r))
      BY <1>15 DEF Once
    <3>. QED
      BY <1>1, <1>7, <1>8, <3>1
  <2>6. ASSUME NEW s \in Thread PROVE (ToPush(s)' \cup Buffer(s)') \cap (Behind' \cup ToLookAt') = {}
    <3>1. (ToPush(s) \cup Buffer(s)) \cap (Behind \cup ToLookAt) = {}
      BY DEF Once
    <3>2. ToPush(s)' \subseteq ToPush(s) /\ Buffer(s)' \subseteq Buffer(s) \cup {m}
      BY <1>1, <1>7, <1>8
    <3>. QED
      BY <1>14, <1>15, <3>1, <3>2
  <2>7. Behind' \cap ToLookAt' = {} /\ \A i, j \in DOMAIN slots' : slots'[i] = slots'[j] => i = j
    BY <1>14 DEF Once
  <2>. QED
    BY <2>2, <2>3, <2>4, <2>5, <2>6, <2>7 DEF Once
<1>17. OwnChunks' /\ Iterations'
  <2>1. OwnChunks'
    BY <1>2 DEF OwnChunks
  <2>2. p = "b2q" => Held(t)' = {}
    BY <1>1
  <2>3. \A s \in Thread : pc'[s] = "b2q" => Held(s)' \subseteq {val'[s]}
    BY <1>1, <2>2 DEF Iterations
  <2>. QED
    BY <1>9, <2>1, <2>3 DEF Iterations
<1>. QED
  BY <1>7, <1>8, <1>10, <1>11, <1>13, <1>16, <1>17

LEMMA TDPushStep == ASSUME ConstantsSound, IInv, NEW t \in Thread, TDPush(t) PROVE IInv'
<1>0. PICK m : m = Head(work[t])
  OBVIOUS
<1>. DEFINE wk == Tail(work[t])
<1>1. /\ pc[t] = "push" /\ copyStart[t] = -1 /\ lq' = [lq EXCEPT ![t] = Append(@, m)]
      /\ UNCHANGED <<g, source, parent, front, curr, phase, todo, slots, sharedIn, outStart, outEnd, copyStart>>
  BY <1>0 DEF TDPush, BufferPush, config
<1>2. Behaves(t, "td", wk, val[t], word[t])
  BY <1>0, <1>1 DEF TDPush, Goto, SetWork, Behaves, IInv, Structure, TypeOK
<1>3. Structure /\ phase = "td" /\ "td" \in PCsIn(phase)
  BY <1>1, PhaseOf DEF IInv, PCsIn
<1>4. ~Copying(t) /\ work[t] # <<>>
  BY <1>1, <1>3 DEF Copying, Structure, Control
<1>5. m \in Vertex /\ m \in ToPush(t) /\ wk \in Seq(Vertex) /\ Held(t) = {m} \cup {wk[k] : k \in DOMAIN wk}
  BY <1>0, <1>1, <1>3, <1>4, HeadOfWork DEF ToPush
<1>. HIDE DEF wk
<1>6. /\ Structure' /\ ToPush(t)' = {} /\ Buffer(t)' = Buffer(t) \cup {m}
      /\ \A s \in Thread : s # t => Buffer(s)' = Buffer(s)
  <2>1. pc[t] \in {"push", "b2q"} /\ "td" \in {"td", "b2q"} /\ ("td" = "b2q" => wk = <<>>)
    BY <1>1
  <2>. QED
    BY <1>1, <1>2, <1>3, <1>4, <1>5, <2>1, Pushed
<1>7. \A i \in outStart .. outEnd - 1 : i \in DOMAIN slots' /\ slots'[i] = slots[i]
  BY <1>1, <1>3, WindowWritten
<1>. SUFFICES ASSUME NEW lv, IsLevels(lv), NEW L \in Nat, AtLevel(lv, L) PROVE Queue(lv, L)' /\ TopDown(lv, L)'
  <2>1. UNCHANGED <<g, source, parent, front, phase, outStart, outEnd>>
    BY <1>1
  <2>. QED
    BY <1>3, <1>6, <1>7, <2>1, NewQueue
<1>8. TopDown(lv, L) /\ Queue(lv, L)
  BY <1>3 DEF AtLevel
<1>9. m \in Visited /\ lv[m] = L + 1
  BY <1>0, <1>1, <1>8 DEF TopDown
<1>10. /\ pc'[t] = "td" /\ val'[t] = val[t] /\ Held(t)' = {wk[k] : k \in DOMAIN wk}
       /\ \A s \in Thread : s # t => /\ pc'[s] = pc[s] /\ val'[s] = val[s] /\ work'[s] = work[s]
                                     /\ Held(s)' = Held(s) /\ ToPush(s)' = ToPush(s)
  BY <1>2, <1>3, OneThread DEF Structure
<1>11. /\ Vertex' = Vertex /\ (\A k : out_neigh(k)' = out_neigh(k)) /\ \A k : Level(lv, k)' = Level(lv, k)
  BY <1>1, SameGraph
<1>12. Visited' = Visited /\ Behind' = Behind /\ \A n : InTodo(n)' = InTodo(n)
  BY <1>1, <1>11 DEF Visited, Behind, InTodo
<1>13. Queue(lv, L)'
  BY <1>1, <1>6, <1>8, <1>9, <1>12 DEF Queue
<1>14. ASSUME NEW s \in Thread, pc'[s] \in {"td", "cas", "push"}
       PROVE  /\ val'[s] \in Level(lv, L) /\ \A n \in Held(s)' : Contains(out_neigh(val'[s]), n)
              /\ pc'[s] = "push" => Head(work'[s]) \in Visited /\ lv[Head(work'[s])] = L + 1
  <2>1. CASE s = t
    BY <1>1, <1>5, <1>8, <1>10, <2>1 DEF TopDown
  <2>2. CASE s # t
    BY <1>8, <1>10, <1>14, <2>2 DEF TopDown
  <2>. QED
    BY <2>1, <2>2
<1>15. ASSUME NEW n \in Level(lv, L), NEW k \in Vertex \ Visited, Contains(out_neigh(n), k)
       PROVE  InTodo(n)' \/ \E s \in Thread : val'[s] = n /\ InWork(s, k)'
  <2>1. InTodo(n) \/ \E s \in Thread : val[s] = n /\ InWork(s, k)
    BY <1>8, <1>15 DEF TopDown
  <2>2. k # m
    BY <1>9, <1>15
  <2>3. \A s \in Thread : InWork(s, k) => InWork(s, k)' /\ val'[s] = val[s]
    BY <1>5, <1>10, <2>2 DEF InWork, Busy
  <2>. QED
    BY <1>12, <2>1, <2>3
<1>16. ASSUME NEW n \in Level(lv, L + 1) \cap Visited
       PROVE  n \in Behind \/ \E s \in Thread : n \in Buffer(s)' \/ n \in ToPush(s)'
  <2>1. n \in Behind \/ \E s \in Thread : n \in Buffer(s) \/ n \in ToPush(s)
    BY <1>8 DEF TopDown
  <2>2. ToPush(t) = {m}
    BY <1>0, <1>1 DEF ToPush
  <2>. QED
    BY <1>6, <1>10, <2>1, <2>2
<1>17. Behind \subseteq Visited /\ \A s \in Thread : Buffer(s)' \subseteq Visited
  BY <1>6, <1>8, <1>9 DEF TopDown
<1>18. todo' \subseteq outStart' .. outEnd' - 1
  BY <1>1, <1>8 DEF TopDown
<1>19. TopDown(lv, L)'
  BY <1>11, <1>12, <1>14, <1>15, <1>16, <1>17, <1>18 DEF TopDown
<1>. QED
  BY <1>13, <1>19

LEMMA B2QPushStep == ASSUME ConstantsSound, IInv, NEW t \in Thread, B2QPush(t) PROVE IInv'
<1>0. PICK m : m = Head(work[t])
  OBVIOUS
<1>1. /\ pc[t] = "b2q" /\ work[t] # <<>> /\ copyStart[t] = -1
      /\ UNCHANGED <<g, source, parent, front, curr, phase, todo, slots, sharedIn, outStart, outEnd, copyStart>>
      /\ IF get_bit(front, m) THEN lq' = [lq EXCEPT ![t] = Append(@, m)] ELSE UNCHANGED lq
  BY <1>0 DEF B2QPush, BufferPush, config, queueVars
<1>2. Behaves(t, "b2q", <<>>, val[t], word[t])
  BY <1>0, <1>1 DEF B2QPush, SetWork, Behaves, IInv, Structure, TypeOK
<1>3. Structure /\ phase = "b2q" /\ "b2q" \in PCsIn(phase)
  BY <1>1, PhaseOf DEF IInv, PCsIn
<1>4. ~Copying(t)
  BY <1>1 DEF Copying
<1>5. m \in Vertex /\ m \in Held(t) /\ m \in ToPush(t) /\ Held(t) = {m}
  <2>1. m \in Vertex /\ m \in Held(t)
    BY <1>0, <1>1, <1>3, HeadOfWork
  <2>2. Held(t) \subseteq {val[t]}
    BY <1>1, <1>3 DEF Structure, Iterations
  <2>. QED
    BY <1>1, <2>1, <2>2 DEF ToPush
<1>6. {<<>>[k] : k \in DOMAIN <<>>} = {} /\ <<>> \in Seq(Vertex)
  OBVIOUS
<1>7. /\ Held(t)' = {} /\ \A s \in Thread : s # t => pc'[s] = pc[s] /\ Held(s)' = Held(s)
  BY <1>2, <1>3, <1>6, OneThread DEF Structure
<1>8. /\ Vertex' = Vertex /\ Bitmap' = Bitmap /\ \A lv, k : Level(lv, k)' = Level(lv, k)
  BY <1>1, SameGraph
<1>9. /\ Behind' = Behind /\ \A n : get_bit(front, n)' = get_bit(front, n)
  BY <1>1 DEF Behind, get_bit
<1>10. \A s \in Thread : \A n : InWork(s, n) => n = m \/ InWork(s, n)'
  BY <1>5, <1>7 DEF InWork
<1>11. CASE get_bit(front, m)
  <2>1. lq' = [lq EXCEPT ![t] = Append(@, m)]
    BY <1>1, <1>11
  <2>2. /\ Structure' /\ Buffer(t)' = Buffer(t) \cup {m} /\ \A s \in Thread : s # t => Buffer(s)' = Buffer(s)
    <3>1. /\ pc[t] \in {"push", "b2q"} /\ "b2q" \in {"td", "b2q"} /\ <<>> = <<>>
          /\ UNCHANGED <<g, source, parent, front, curr, phase, todo, slots, sharedIn, outStart, outEnd, copyStart>>
      BY <1>1
    <3>. QED
      BY <1>2, <1>3, <1>4, <1>5, <1>6, <2>1, <3>1, Pushed
  <2>3. \A i \in outStart .. outEnd - 1 : i \in DOMAIN slots' /\ slots'[i] = slots[i]
    BY <1>1, <1>3, WindowWritten
  <2>. SUFFICES ASSUME NEW lv, IsLevels(lv), NEW L \in Nat, AtLevel(lv, L) PROVE Queue(lv, L - 1)' /\ ToQueue(lv, L)'
    <3>1. UNCHANGED <<g, source, parent, front, phase, outStart, outEnd>>
      BY <1>1
    <3>. QED
      BY <1>3, <2>2, <2>3, <3>1, NewQueue
  <2>4. ToQueue(lv, L) /\ Queue(lv, L - 1)
    BY <1>3 DEF AtLevel
  <2>5. lv[m] = (L - 1) + 1
    BY <1>5, <1>11, <2>4 DEF ToQueue
  <2>6. Queue(lv, L - 1)'
    BY <1>1, <1>9, <2>2, <2>4, <2>5 DEF Queue
  <2>7. ASSUME NEW n \in Level(lv, L)
        PROVE  n \in todo' \/ n \in Behind' \/ \E s \in Thread : InWork(s, n)' \/ n \in Buffer(s)'
    <3>1. n \in todo \/ n \in Behind \/ \E s \in Thread : InWork(s, n) \/ n \in Buffer(s)
      BY <2>4 DEF ToQueue
    <3>. QED
      BY <1>1, <1>9, <1>10, <2>2, <3>1
  <2>8. ToQueue(lv, L)'
    BY <1>8, <1>9, <2>4, <2>7 DEF ToQueue
  <2>. QED
    BY <2>6, <2>8
<1>12. CASE ~get_bit(front, m)
  <2>1. UNCHANGED <<g, source, parent, front, curr, phase, todo, slots, sharedIn, outStart, outEnd, lq, copyStart>>
    BY <1>1, <1>12
  <2>2. Structure'
    <3>1. pc[t] \in Busy /\ "b2q" \in Busy
      BY <1>1 DEF Busy
    <3>2. parent' \in [Vertex -> Int] /\ front' \in Bitmap /\ curr' \in Bitmap /\ word[t] \in SUBSET Vertex
      BY <1>3, <1>8, <2>1 DEF Structure, TypeOK
    <3>. QED
      BY <1>2, <1>3, <1>4, <1>6, <2>1, <3>1, <3>2, WorkStep
  <2>. SUFFICES ASSUME NEW lv, IsLevels(lv), NEW L \in Nat, AtLevel(lv, L) PROVE ToQueue(lv, L)'
    <3>1. UNCHANGED <<g, source, parent, phase, slots, sharedIn, outStart, outEnd, lq, copyStart>>
      BY <2>1
    <3>. QED
      BY <1>3, <2>2, <3>1, SameTree
  <2>3. ToQueue(lv, L)
    BY <1>3 DEF AtLevel
  <2>4. ASSUME NEW n \in Level(lv, L) PROVE n # m
    BY <1>5, <1>12, <2>3 DEF ToQueue, Level
  <2>5. \A s \in Thread : Buffer(s)' = Buffer(s)
    BY <2>1 DEF Buffer
  <2>6. ASSUME NEW n \in Level(lv, L)
        PROVE  n \in todo' \/ n \in Behind' \/ \E s \in Thread : InWork(s, n)' \/ n \in Buffer(s)'
    <3>1. n \in todo \/ n \in Behind \/ \E s \in Thread : InWork(s, n) \/ n \in Buffer(s)
      BY <2>3 DEF ToQueue
    <3>. QED
      BY <1>1, <1>9, <1>10, <2>4, <2>5, <3>1
  <2>. QED
    BY <1>8, <1>9, <2>3, <2>6 DEF ToQueue
<1>. QED
  BY <1>11, <1>12

-----------------------------------------------------------------------------
(* Steps of the main thread, between parallel regions. *)

AtBarrier == \A t \in Thread : pc[t] \in {"idle", "through"}

LEMMA Barrier ==
  ASSUME ConstantsSound, Structure, AtBarrier
  PROVE  /\ todo = {} /\ DOMAIN slots = 0 .. sharedIn - 1 /\ (\A m : ~InTodo(m))
         /\ \A t \in Thread : /\ work[t] = <<>> /\ lq[t] = <<>> /\ ~Copying(t) /\ pc[t] # "setbit"
                              /\ Held(t) = {} /\ Buffer(t) = {} /\ ToPush(t) = {} /\ \A m : ~InWork(t, m)
<1>1. Thread # {}
  BY DEF ConstantsSound
<1>2. todo = {}
  BY <1>1 DEF AtBarrier, Structure, Control
<1>3. \A t \in Thread : pc[t] \notin Busy /\ pc[t] \in {"idle", "through"}
  BY DEF AtBarrier, Busy
<1>4. \A t \in Thread : work[t] = <<>> /\ lq[t] = <<>> /\ ~Copying(t)
  BY <1>3 DEF Structure, Control, Slots
<1>5. \A t \in Thread : Held(t) = {} /\ Buffer(t) = {}
  BY <1>4 DEF Held, Buffer
<1>6. \A t \in Thread : ToPush(t) = {} /\ pc[t] # "setbit" /\ \A m : ~InWork(t, m)
  BY <1>3, <1>5 DEF ToPush, InWork
<1>7. DOMAIN slots = 0 .. sharedIn - 1
  BY <1>4 DEF Structure, TypeOK, Slots
<1>. QED
  BY <1>2, <1>4, <1>5, <1>6, <1>7 DEF InTodo

Loops == {"td", "q2b", "bu", "b2q"}

\* The structure, when a region is entered or left.
LEMMA MainStep ==
  ASSUME ConstantsSound, Structure, AtBarrier, phase' \in Phases \ {"seed"},
         IF phase' \in Loops THEN pc' = [t \in Thread |-> "loop"] ELSE UNCHANGED <<pc, todo>>,
         UNCHANGED <<g, source, work, val, word, slots, sharedIn, lq, copyStart>>,
         outStart' \in Nat, outEnd' = sharedIn, outStart' <= outEnd', todo' \subseteq Nat,
         parent' \in [Vertex -> Int], front' \in Bitmap, curr' \in Bitmap,
         phase' \in {"td", "q2b"} => todo' \subseteq outStart' .. outEnd' - 1,
         phase' = "bu" => todo' \subseteq Chunks,
         phase' = "b2q" => todo' \subseteq Vertex
  PROVE  Structure'
<1>1. /\ todo = {} /\ DOMAIN slots = 0 .. sharedIn - 1
      /\ \A t \in Thread : /\ work[t] = <<>> /\ lq[t] = <<>> /\ ~Copying(t)
                           /\ Held(t) = {} /\ Buffer(t) = {} /\ ToPush(t) = {}
  BY Barrier
<1>2. /\ Vertex' = Vertex /\ Bitmap' = Bitmap /\ Chunks' = Chunks
  BY SameGraph DEF Chunks, ChunkSize
<1>3. /\ phase' \in Loops => \A t \in Thread : pc'[t] = "loop"
      /\ phase' \notin Loops => todo' = {} /\ \A t \in Thread : pc'[t] \in {"idle", "through"}
      /\ pc' \in [Thread -> PCs]
  <2>1. CASE phase' \in Loops
    BY <2>1 DEF PCs
  <2>2. CASE phase' \notin Loops
    BY <1>1, <2>2 DEF AtBarrier, Structure, TypeOK
  <2>. QED
    BY <2>1, <2>2
<1>4. \A t \in Thread : pc'[t] \in {"loop", "idle", "through"} /\ pc'[t] \notin Busy
  BY <1>3 DEF Busy
<1>5. TypeOK'
  BY <1>2, <1>3 DEF Structure, TypeOK
<1>6. Control'
  <2>1. \A t \in Thread : pc'[t] \in PCsIn(phase')
    BY <1>3 DEF PCsIn, Loops, Phases
  <2>2. \A t \in Thread : work'[t] = <<>> /\ pc'[t] \notin {"cas", "push", "casbit", "setbit"}
    BY <1>1, <1>4
  <2>3. \A t \in Thread : pc'[t] \in {"idle", "flush", "through"} => todo' = {}
    BY <1>3
  <2>4. PCsIn(phase)' = PCsIn(phase')
    BY DEF PCsIn
  <2>. QED
    BY <1>4, <2>1, <2>2, <2>3, <2>4 DEF Control
<1>7. \A t \in Thread : /\ ~Copying(t)' /\ Held(t)' = {} /\ Buffer(t)' = {} /\ ToPush(t)' = {} /\ lq'[t] = <<>>
  <2>1. \A t \in Thread : ~Copying(t)' /\ Held(t)' = {} /\ Buffer(t)' = {} /\ lq'[t] = <<>>
    BY <1>1 DEF Copying, Held, Buffer
  <2>. QED
    BY <1>4, <2>1 DEF ToPush
<1>8. Slots'
  BY <1>1, <1>7 DEF Slots
<1>9. Behind' = {}
  <2>1. \A i \in DOMAIN slots' : ~(i >= outEnd')
    BY <1>1 DEF Structure, TypeOK
  <2>. QED
    BY <2>1 DEF Behind
<1>10. Once'
  <2>1. \A i, j \in DOMAIN slots' : slots'[i] = slots'[j] => i = j
    BY DEF Structure, Once
  <2>2. \A s \in Thread : \A i, j \in DOMAIN lq'[s] : lq'[s][i] = lq'[s][j] => i = j
    BY <1>7
  <2>. QED
    BY <1>7, <1>9, <2>1, <2>2 DEF Once
<1>11. OwnChunks' /\ Iterations'
  <2>1. \A t \in Thread : pc'[t] \notin {"bu", "setbit"} /\ pc'[t] # "b2q"
    BY <1>4
  <2>. QED
    BY <1>2, <2>1 DEF OwnChunks, Iterations
<1>. QED
  BY <1>5, <1>6, <1>8, <1>10, <1>11 DEF Structure

\* What such a step has to show.
LEMMA NewPhase ==
  ASSUME IInv, Structure', UNCHANGED <<g, source, parent>>, phase # "done", phase' # "done",
         \A lv : IsLevels(lv) => \A L \in Nat : AtLevel(lv, L) => \E M \in Nat : AtLevel(lv, M)'
  PROVE  IInv'
<1>. SUFFICES ASSUME NEW lv, IsLevels(lv)' PROVE Progress(lv)'
  BY DEF IInv
<1>1. /\ Vertex' = Vertex /\ IsLevels(lv) /\ \A m : out_neigh(m)' = out_neigh(m) /\ InitParent(m)' = InitParent(m)
  BY SameGraph
<1>2. Parents(lv) /\ \E L \in Nat : AtLevel(lv, L)
  BY <1>1 DEF IInv, Progress
<1>3. Parents(lv)'
  BY <1>1, <1>2 DEF Parents, Descends
<1>4. \E M \in Nat : AtLevel(lv, M)'
  BY <1>1, <1>2
<1>. QED
  BY <1>3, <1>4 DEF Progress

LEMMA NoBitsFacts ==
  ASSUME ConstantsSound, g \in Graphs, source \in Vertex
  PROVE  NoBits \in Bitmap /\ \A m \in Vertex : ~get_bit(NoBits, m)
<1>1. NoBits = [w \in Word |-> {}]
  BY DEF NoBits, Word
<1>2. \A m \in Vertex : word_offset(m) \in Word
  BY GraphFacts
<1>. QED
  BY <1>1, <1>2 DEF Bitmap, get_bit

LEMMA NothingBehind == ASSUME Structure, sharedIn = outEnd PROVE Behind = {}
<1>1. \A i \in DOMAIN slots : ~(i >= outEnd)
  BY DEF Structure, TypeOK
<1>. QED
  BY <1>1 DEF Behind

\* The next level of a level that has been expanded has been visited.
LEMMA LevelDone ==
  ASSUME ConstantsSound, Structure, AtBarrier, phase \in {"td", "bu"}, NEW lv, IsLevels(lv), NEW L \in Nat, AtLevel(lv, L)
  PROVE  AllVisited(lv, L + 1)
<1>1. Visiting(lv, L)
  BY DEF AtLevel
<1>2. /\ todo = {} /\ (\A m : ~InTodo(m)) /\ \A t \in Thread : \A m : ~InWork(t, m)
  BY Barrier
<1>3. ASSUME NEW m \in Vertex, lv[m] = L + 1 PROVE m \in Visited
  <2>1. CASE phase = "td"
    <3>1. lv[m] > 0
      BY <1>3
    <3>2. PICK u \in Vertex : Contains(out_neigh(u), m) /\ lv[m] = lv[u] + 1 /\ lv[u] >= 0
      BY <3>1, LevelFacts
    <3>3. lv[u] \in Int
      BY LevelFacts
    <3>4. u \in Level(lv, L)
      BY <1>3, <3>2, <3>3 DEF Level
    <3>5. TopDown(lv, L)
      BY <2>1 DEF AtLevel
    <3>. QED
      BY <1>2, <3>2, <3>4, <3>5 DEF TopDown
  <2>2. CASE phase = "bu"
    <3>1. BottomUp(lv, L) /\ m \in Level(lv, L + 1)
      BY <1>3, <2>2 DEF AtLevel, Level
    <3>. QED
      BY <1>2, <3>1 DEF BottomUp
  <2>. QED
    BY <2>1, <2>2
<1>4. ASSUME NEW m \in Vertex PROVE m \in Visited <=> lv[m] \in 0 .. L + 1
  <2>1. lv[m] \in Int
    BY LevelFacts
  <2>2. lv[m] \in 0 .. L + 1 <=> lv[m] \in 0 .. L \/ lv[m] = L + 1
    BY <2>1
  <2>. QED
    BY <1>1, <1>3, <2>2 DEF Visiting
<1>. QED
  BY <1>4 DEF AllVisited

LEMMA SeedStep == ASSUME ConstantsSound, IInv, Seed PROVE IInv'
<1>1. /\ phase = "seed" /\ phase' = "while" /\ SetSlots(0, <<source>>)
      /\ sharedIn' = 1 /\ outStart' = 0 /\ outEnd' = 1
      /\ UNCHANGED <<g, source, parent, front, curr, todo, pc, work, val, word, lq, copyStart>>
  BY DEF Seed, SeedQueue, config, team
<1>2. Structure
  BY DEF IInv
<1>3. AtBarrier
  BY <1>1, <1>2 DEF AtBarrier, Structure, Control, PCsIn
<1>4. /\ todo = {} /\ DOMAIN slots = 0 .. sharedIn - 1 /\ sharedIn = 0 /\ source \in Vertex
      /\ \A t \in Thread : /\ work[t] = <<>> /\ lq[t] = <<>> /\ ~Copying(t)
                           /\ Held(t) = {} /\ Buffer(t) = {} /\ ToPush(t) = {}
  BY <1>1, <1>2, <1>3, Barrier DEF Structure, Slots, TypeOK
<1>5. DOMAIN slots' = {0} /\ slots'[0] = source
  <2>1. Len(<<source>>) = 1 /\ 0 .. 0 + 1 - 1 = {0} /\ <<source>>[0 - 0 + 1] = source
    OBVIOUS
  <2>2. DOMAIN slots = {}
    BY <1>4
  <2>3. slots' = [i \in DOMAIN slots \cup {0} |-> IF i \in {0} THEN <<source>>[i - 0 + 1] ELSE slots[i]]
    BY <1>1, <2>1 DEF SetSlots
  <2>. QED
    BY <2>1, <2>2, <2>3
<1>6. /\ Vertex' = Vertex /\ Bitmap' = Bitmap
  BY <1>1, SameGraph
<1>7. \A t \in Thread : /\ ~Copying(t)' /\ Held(t)' = {} /\ Buffer(t)' = {} /\ ToPush(t)' = {} /\ lq'[t] = <<>>
  BY <1>1, <1>4 DEF Copying, Held, Buffer, ToPush
<1>8. TypeOK'
  BY <1>1, <1>2, <1>4, <1>5, <1>6 DEF Structure, TypeOK, Phases
<1>9. Control'
  BY <1>1, <1>2 DEF Structure, Control, PCsIn
<1>10. Slots'
  BY <1>1, <1>5, <1>7 DEF Slots
<1>11. Behind' = {} /\ ToLookAt' = {}
  BY <1>1, <1>5 DEF Behind, ToLookAt
<1>12. Once'
  BY <1>5, <1>7, <1>11 DEF Once
<1>13. OwnChunks' /\ Iterations'
  BY <1>1, <1>3 DEF OwnChunks, Iterations, AtBarrier
<1>14. Structure'
  BY <1>8, <1>9, <1>10, <1>12, <1>13 DEF Structure
<1>. SUFFICES ASSUME NEW lv, IsLevels(lv), NEW L \in Nat, AtLevel(lv, L) PROVE AtLevel(lv, 0)'
  BY <1>1, <1>14, NewPhase
<1>15. L = 0 /\ AllVisited(lv, 0) /\ NotAhead(lv, 0)
  BY <1>1 DEF AtLevel
<1>16. AllVisited(lv, 0)'
  BY <1>1, <1>6, <1>15 DEF AllVisited, Visited
<1>17. NotAhead(lv, 0)'
  BY <1>1, <1>6, <1>15 DEF NotAhead, get_bit, word_offset
<1>18. lv[source] = 0 /\ \A m \in Vertex : lv[m] = 0 <=> m = source
  BY <1>4, LevelFacts
<1>19. Queue(lv, 0)'
  BY <1>1, <1>5, <1>7, <1>11, <1>18 DEF Queue
<1>20. Windowed(lv, 0)'
  <2>1. outStart' .. outEnd' - 1 = {0}
    BY <1>1
  <2>. QED
    BY <1>5, <1>6, <1>18, <2>1 DEF Windowed
<1>. QED
  BY <1>1, <1>16, <1>17, <1>19, <1>20 DEF AtLevel

LEMMA StartTopDownStep == ASSUME ConstantsSound, IInv, StartTopDown PROVE IInv'
<1>1. /\ phase = "while" /\ phase' = "td" /\ todo' = outStart .. outEnd - 1 /\ pc' = [t \in Thread |-> "loop"]
      /\ UNCHANGED <<g, source, parent, front, curr, work, val, word, slots, sharedIn, outStart, outEnd, lq, copyStart>>
  BY DEF StartTopDown, Enter, config, queueVars
<1>2. Structure
  BY DEF IInv
<1>3. AtBarrier /\ outEnd = sharedIn
  BY <1>1, <1>2 DEF AtBarrier, Structure, Control, PCsIn, Slots
<1>4. \A t \in Thread : lq[t] = <<>> /\ Buffer(t) = {}
  BY <1>2, <1>3, Barrier
<1>5. Vertex' = Vertex /\ Bitmap' = Bitmap /\ \A lv, n : Level(lv, n)' = Level(lv, n)
  BY <1>1, SameGraph
<1>6. Structure'
  <2>1. /\ parent' \in [Vertex -> Int] /\ front' \in Bitmap /\ curr' \in Bitmap /\ todo' \subseteq Nat
        /\ outStart' \in Nat /\ outEnd' = sharedIn /\ outStart' <= outEnd' /\ todo' \subseteq outStart' .. outEnd' - 1
    BY <1>1, <1>2, <1>3, <1>5 DEF Structure, TypeOK
  <2>2. phase' \in Phases \ {"seed"} /\ phase' \in Loops /\ phase' \notin {"bu", "b2q"}
    BY <1>1 DEF Phases, Loops
  <2>. QED
    BY <1>1, <1>2, <1>3, <2>1, <2>2, MainStep
<1>. SUFFICES ASSUME NEW lv, IsLevels(lv), NEW L \in Nat, AtLevel(lv, L) PROVE AtLevel(lv, L)'
  BY <1>1, <1>6, NewPhase
<1>7. AllVisited(lv, L) /\ Queue(lv, L) /\ Windowed(lv, L) /\ NotAhead(lv, L)
  BY <1>1 DEF AtLevel
<1>8. Visited' = Visited /\ Behind' = {} /\ Behind = {} /\ \A t \in Thread : Buffer(t)' = {}
  BY <1>1, <1>2, <1>3, <1>4, <1>5, NothingBehind DEF Visited, Behind, Buffer
<1>9. Visiting(lv, L)'
  <2>1. ASSUME NEW m \in Vertex PROVE lv[m] \in 0 .. L => lv[m] \in 0 .. L + 1
    OBVIOUS
  <2>. QED
    BY <1>5, <1>7, <1>8, <2>1 DEF AllVisited, Visiting
<1>10. Queue(lv, L)'
  BY <1>1, <1>7, <1>8 DEF Queue
<1>11. Windowed(lv, L)' /\ NotAhead(lv, L)'
  BY <1>1, <1>5, <1>7 DEF Windowed, NotAhead, get_bit, word_offset
<1>12. \A t \in Thread : pc'[t] = "loop"
  BY <1>1
<1>13. \A m \in Level(lv, L) : InTodo(m)'
  <2>1. \A m \in Level(lv, L) : m \in Vertex /\ lv[m] = L
    BY DEF Level
  <2>. QED
    BY <1>1, <1>7, <2>1 DEF InTodo, Windowed
<1>14. Level(lv, L + 1) \cap Visited = {}
  <2>1. L + 1 \notin 0 .. L
    OBVIOUS
  <2>. QED
    BY <1>7, <2>1 DEF AllVisited, Level
<1>15. TopDown(lv, L)'
  BY <1>1, <1>5, <1>8, <1>12, <1>13, <1>14 DEF TopDown
<1>. QED
  BY <1>1, <1>9, <1>10, <1>11, <1>15 DEF AtLevel

LEMMA StartQueueToBitmapStep == ASSUME ConstantsSound, IInv, StartQueueToBitmap PROVE IInv'
<1>1. /\ phase = "while" /\ phase' = "q2b" /\ todo' = outStart .. outEnd - 1 /\ pc' = [t \in Thread |-> "loop"]
      /\ UNCHANGED <<g, source, parent, front, curr, work, val, word, slots, sharedIn, outStart, outEnd, lq, copyStart>>
  BY DEF StartQueueToBitmap, Enter, config, queueVars
<1>2. Structure
  BY DEF IInv
<1>3. AtBarrier /\ outEnd = sharedIn
  BY <1>1, <1>2 DEF AtBarrier, Structure, Control, PCsIn, Slots
<1>4. \A t \in Thread : work[t] = <<>> /\ Held(t) = {}
  BY <1>2, <1>3, Barrier
<1>5. Vertex' = Vertex /\ Bitmap' = Bitmap /\ \A lv, n : Level(lv, n)' = Level(lv, n)
  BY <1>1, SameGraph
<1>6. Structure'
  <2>1. /\ parent' \in [Vertex -> Int] /\ front' \in Bitmap /\ curr' \in Bitmap /\ todo' \subseteq Nat
        /\ outStart' \in Nat /\ outEnd' = sharedIn /\ outStart' <= outEnd' /\ todo' \subseteq outStart' .. outEnd' - 1
    BY <1>1, <1>2, <1>3, <1>5 DEF Structure, TypeOK
  <2>2. phase' \in Phases \ {"seed"} /\ phase' \in Loops /\ phase' \notin {"bu", "b2q"}
    BY <1>1 DEF Phases, Loops
  <2>. QED
    BY <1>1, <1>2, <1>3, <2>1, <2>2, MainStep
<1>. SUFFICES ASSUME NEW lv, IsLevels(lv), NEW L \in Nat, AtLevel(lv, L) PROVE AtLevel(lv, L)'
  BY <1>1, <1>6, NewPhase
<1>7. AllVisited(lv, L) /\ Queue(lv, L) /\ Windowed(lv, L) /\ NotAhead(lv, L)
  BY <1>1 DEF AtLevel
<1>8. Visited' = Visited /\ Behind' = Behind /\ \A t \in Thread : Buffer(t)' = Buffer(t) /\ Held(t)' = {}
  BY <1>1, <1>4, <1>5 DEF Visited, Behind, Buffer, Held
<1>9. AllVisited(lv, L)' /\ Queue(lv, L)'
  BY <1>1, <1>5, <1>7, <1>8 DEF AllVisited, Queue
<1>10. Windowed(lv, L)' /\ NotAhead(lv, L)'
  BY <1>1, <1>5, <1>7 DEF Windowed, NotAhead, get_bit, word_offset
<1>11. \A m \in Level(lv, L) : InTodo(m)'
  <2>1. \A m \in Level(lv, L) : m \in Vertex /\ lv[m] = L
    BY DEF Level
  <2>. QED
    BY <1>1, <1>7, <2>1 DEF InTodo, Windowed
<1>12. ToBitmap(lv, L)'
  BY <1>1, <1>5, <1>8, <1>11 DEF ToBitmap
<1>. QED
  BY <1>1, <1>9, <1>10, <1>12 DEF AtLevel

LEMMA EndTopDownStep == ASSUME ConstantsSound, IInv, EndTopDown PROVE IInv'
<1>1. /\ phase = "td" /\ AllThrough /\ phase' = "while" /\ outStart' = outEnd /\ outEnd' = sharedIn
      /\ UNCHANGED <<g, source, parent, front, curr, todo, pc, work, val, word, slots, sharedIn, lq, copyStart>>
  BY DEF EndTopDown, SlideWindow, config, team
<1>2. Structure /\ AtBarrier
  BY <1>1 DEF IInv, AllThrough, AtBarrier
<1>3. /\ todo = {} /\ DOMAIN slots = 0 .. sharedIn - 1
      /\ \A t \in Thread : Buffer(t) = {} /\ ToPush(t) = {}
  BY <1>2, Barrier
<1>4. Vertex' = Vertex /\ Bitmap' = Bitmap
  BY <1>1, SameGraph
<1>5. outStart \in Nat /\ outEnd \in Nat /\ sharedIn \in Nat /\ outEnd <= sharedIn
  BY <1>2 DEF Structure, TypeOK
<1>6. Structure'
  <2>1. /\ parent' \in [Vertex -> Int] /\ front' \in Bitmap /\ curr' \in Bitmap /\ todo' \subseteq Nat
        /\ outStart' \in Nat /\ outEnd' = sharedIn /\ outStart' <= outEnd'
    BY <1>1, <1>2, <1>4, <1>5 DEF Structure, TypeOK
  <2>2. phase' \in Phases \ {"seed"} /\ phase' \notin Loops /\ phase' \notin {"td", "q2b"} /\ phase' \notin {"bu", "b2q"}
    BY <1>1 DEF Phases, Loops
  <2>. QED
    BY <1>1, <1>2, <2>1, <2>2, MainStep
<1>. SUFFICES ASSUME NEW lv, IsLevels(lv), NEW L \in Nat, AtLevel(lv, L) PROVE AtLevel(lv, L + 1)'
  <2>1. \A L \in Nat : L + 1 \in Nat
    OBVIOUS
  <2>. QED
    BY <1>1, <1>6, <2>1, NewPhase
<1>7. Queue(lv, L) /\ TopDown(lv, L) /\ NotAhead(lv, L)
  BY <1>1 DEF AtLevel
<1>8. AllVisited(lv, L + 1)
  BY <1>1, <1>2, LevelDone
<1>9. AllVisited(lv, L + 1)'
  BY <1>1, <1>4, <1>8 DEF AllVisited, Visited
<1>10. \A m \in Vertex : lv[m] \in Int
  BY LevelFacts
<1>11. NotAhead(lv, L + 1)'
  <2>1. \A m \in Vertex : lv[m] \in 0 .. L => lv[m] \in 0 .. L + 1
    OBVIOUS
  <2>. QED
    BY <1>1, <1>4, <1>7, <2>1 DEF NotAhead, get_bit, word_offset
<1>12. Behind' = {} /\ \A t \in Thread : Buffer(t)' = {}
  <2>1. \A i \in DOMAIN slots' : ~(i >= outEnd')
    BY <1>1, <1>3, <1>5
  <2>. QED
    BY <1>1, <1>3, <2>1 DEF Behind, Buffer
<1>13. ASSUME NEW i \in DOMAIN slots PROVE /\ i < outEnd => lv[slots[i]] \in 0 .. L
                                           /\ i >= outEnd => lv[slots[i]] = L + 1
  BY <1>7 DEF Queue, Behind
<1>14. Queue(lv, L + 1)'
  <2>1. ASSUME NEW i \in DOMAIN slots PROVE lv[slots[i]] \in 0 .. L + 1
    <3>1. i \in Int
      BY <1>3
    <3>. QED
      BY <1>5, <1>13, <3>1
  <2>. QED
    BY <1>1, <1>12, <2>1 DEF Queue
<1>15. Windowed(lv, L + 1)'
  <2>1. ASSUME NEW m \in Vertex, lv[m] = L + 1
        PROVE  \E i \in outEnd .. sharedIn - 1 : i \in DOMAIN slots /\ slots[i] = m
    <3>1. m \in Visited
      BY <1>8, <2>1 DEF AllVisited
    <3>2. m \in Behind
      BY <1>3, <1>7, <2>1, <3>1 DEF TopDown, Level
    <3>. QED
      BY <1>3, <1>5, <3>2 DEF Behind
  <2>2. ASSUME NEW i \in outEnd .. sharedIn - 1, i \in DOMAIN slots PROVE lv[slots[i]] = L + 1
    BY <1>5, <1>13, <2>2
  <2>. QED
    BY <1>1, <1>4, <2>1, <2>2 DEF Windowed
<1>. QED
  BY <1>1, <1>9, <1>11, <1>14, <1>15 DEF AtLevel

LEMMA StartBottomUpStep == ASSUME ConstantsSound, IInv, StartBottomUp PROVE IInv'
<1>1. /\ phase = "q2b" /\ AllThrough /\ phase' = "bu" /\ outStart' = outEnd /\ outEnd' = sharedIn
      /\ curr' = NoBits /\ todo' = Chunks /\ pc' = [t \in Thread |-> "loop"]
      /\ UNCHANGED <<g, source, parent, front, work, val, word, slots, sharedIn, lq, copyStart>>
  BY DEF StartBottomUp, SlideWindow, Enter, config
<1>2. Structure /\ AtBarrier
  BY <1>1 DEF IInv, AllThrough, AtBarrier
<1>3. (\A m : ~InTodo(m)) /\ \A t \in Thread : \A m : ~InWork(t, m)
  BY <1>2, Barrier
<1>4. Vertex' = Vertex /\ Bitmap' = Bitmap /\ \A lv, n : Level(lv, n)' = Level(lv, n)
  BY <1>1, SameGraph
<1>5. outStart \in Nat /\ outEnd \in Nat /\ sharedIn = outEnd /\ g \in Graphs /\ source \in Vertex
  BY <1>1, <1>2 DEF Structure, TypeOK, Slots
<1>6. NoBits \in Bitmap /\ \A m \in Vertex : ~get_bit(NoBits, m)
  BY <1>5, NoBitsFacts
<1>7. Structure'
  <2>1. Chunks \subseteq Nat
    BY DEF Chunks, Vertex
  <2>2. /\ parent' \in [Vertex -> Int] /\ front' \in Bitmap /\ curr' \in Bitmap /\ todo' \subseteq Nat /\ todo' \subseteq Chunks
        /\ outStart' \in Nat /\ outEnd' = sharedIn /\ outStart' <= outEnd'
    BY <1>1, <1>2, <1>4, <1>5, <1>6, <2>1 DEF Structure, TypeOK
  <2>3. phase' \in Phases \ {"seed"} /\ phase' \in Loops /\ phase' \notin {"td", "q2b"} /\ phase' # "b2q"
    BY <1>1 DEF Phases, Loops
  <2>. QED
    BY <1>1, <1>2, <2>2, <2>3, MainStep
<1>. SUFFICES ASSUME NEW lv, IsLevels(lv), NEW L \in Nat, AtLevel(lv, L) PROVE AtLevel(lv, L)'
  BY <1>1, <1>7, NewPhase
<1>8. AllVisited(lv, L) /\ Queue(lv, L) /\ NotAhead(lv, L) /\ ToBitmap(lv, L)
  BY <1>1 DEF AtLevel
<1>9. Visited' = Visited /\ Behind' = Behind /\ \A t \in Thread : Buffer(t)' = Buffer(t)
  BY <1>1, <1>4, <1>5 DEF Visited, Behind, Buffer
<1>10. Visiting(lv, L)'
  <2>1. ASSUME NEW m \in Vertex PROVE lv[m] \in 0 .. L => lv[m] \in 0 .. L + 1
    OBVIOUS
  <2>. QED
    BY <1>4, <1>8, <1>9, <2>1 DEF AllVisited, Visiting
<1>11. Queue(lv, L)'
  BY <1>1, <1>5, <1>8, <1>9 DEF Queue
<1>12. NotAhead(lv, L)'
  BY <1>1, <1>4, <1>8 DEF NotAhead, get_bit, word_offset
<1>13. Level(lv, L + 1) \cap Visited = {}
  <2>1. L + 1 \notin 0 .. L
    OBVIOUS
  <2>. QED
    BY <1>8, <2>1 DEF AllVisited, Level
<1>14. \A m \in Level(lv, L) : get_bit(front, m)'
  <2>1. \A m \in Level(lv, L) : get_bit(front, m)
    BY <1>3, <1>8 DEF ToBitmap
  <2>. QED
    BY <1>1, <2>1 DEF get_bit
<1>15. \A m \in Vertex : ~get_bit(curr, m)'
  BY <1>1, <1>6 DEF get_bit
<1>16. \A m \in Level(lv, L + 1) : m \div ChunkSize \in todo'
  <2>1. \A m \in Vertex : m \div ChunkSize \in Chunks
    BY <1>5, ChunkFacts
  <2>. QED
    BY <1>1, <2>1 DEF Level
<1>17. \A t \in Thread : pc'[t] # "setbit"
  BY <1>1
<1>18. BottomUp(lv, L)'
  BY <1>4, <1>9, <1>13, <1>14, <1>15, <1>16, <1>17 DEF BottomUp, ChunkSize
<1>. QED
  BY <1>1, <1>10, <1>11, <1>12, <1>18 DEF AtLevel

\* The bitmap `curr` is the next level when all threads are through.
LEMMA NextLevel ==
  ASSUME ConstantsSound, Structure, AtBarrier, phase = "bu", NEW lv, IsLevels(lv), NEW L \in Nat, AtLevel(lv, L)
  PROVE  \A m \in Vertex : get_bit(curr, m) <=> lv[m] = L + 1
<1>1. BottomUp(lv, L)
  BY DEF AtLevel
<1>2. \A t \in Thread : pc[t] # "setbit"
  BY Barrier
<1>3. AllVisited(lv, L + 1)
  BY LevelDone
<1>4. ASSUME NEW m \in Vertex, lv[m] = L + 1 PROVE get_bit(curr, m)
  <2>1. m \in Level(lv, L + 1) \cap Visited
    BY <1>3, <1>4 DEF AllVisited, Level
  <2>. QED
    BY <1>1, <1>2, <2>1 DEF BottomUp
<1>. QED
  BY <1>1, <1>4 DEF BottomUp

LEMMA NextBottomUpStep == ASSUME ConstantsSound, IInv, NextBottomUp PROVE IInv'
<1>1. /\ phase = "bu" /\ AllThrough /\ phase' = "bu" /\ front' = curr
      /\ curr' = NoBits /\ todo' = Chunks /\ pc' = [t \in Thread |-> "loop"]
      /\ UNCHANGED <<g, source, parent, work, val, word, slots, sharedIn, outStart, outEnd, lq, copyStart>>
  BY DEF NextBottomUp, Enter, config, queueVars
<1>2. Structure /\ AtBarrier
  BY <1>1 DEF IInv, AllThrough, AtBarrier
<1>3. \A t \in Thread : Buffer(t) = {}
  BY <1>2, Barrier
<1>4. Vertex' = Vertex /\ Bitmap' = Bitmap /\ \A lv, n : Level(lv, n)' = Level(lv, n)
  BY <1>1, SameGraph
<1>5. outStart \in Nat /\ outEnd \in Nat /\ sharedIn = outEnd /\ g \in Graphs /\ source \in Vertex
  BY <1>1, <1>2 DEF Structure, TypeOK, Slots
<1>6. NoBits \in Bitmap /\ \A m \in Vertex : ~get_bit(NoBits, m)
  BY <1>5, NoBitsFacts
<1>7. Structure'
  <2>1. Chunks \subseteq Nat
    BY DEF Chunks, Vertex
  <2>2. /\ parent' \in [Vertex -> Int] /\ front' \in Bitmap /\ curr' \in Bitmap /\ todo' \subseteq Nat /\ todo' \subseteq Chunks
        /\ outStart' \in Nat /\ outEnd' = sharedIn /\ outStart' <= outEnd'
    BY <1>1, <1>2, <1>4, <1>5, <1>6, <2>1 DEF Structure, TypeOK
  <2>3. phase' \in Phases \ {"seed"} /\ phase' \in Loops /\ phase' \notin {"td", "q2b"} /\ phase' # "b2q"
    BY <1>1 DEF Phases, Loops
  <2>. QED
    BY <1>1, <1>2, <2>2, <2>3, MainStep
<1>. SUFFICES ASSUME NEW lv, IsLevels(lv), NEW L \in Nat, AtLevel(lv, L) PROVE AtLevel(lv, L + 1)'
  <2>1. \A L \in Nat : L + 1 \in Nat
    OBVIOUS
  <2>. QED
    BY <1>1, <1>7, <2>1, NewPhase
<1>8. Queue(lv, L) /\ AllVisited(lv, L + 1) /\ \A m \in Vertex : get_bit(curr, m) <=> lv[m] = L + 1
  BY <1>1, <1>2, LevelDone, NextLevel DEF AtLevel
<1>9. Visited' = Visited /\ Behind' = {} /\ \A t \in Thread : Buffer(t)' = {}
  BY <1>1, <1>2, <1>3, <1>4, <1>5, NothingBehind DEF Visited, Behind, Buffer
<1>10. Visiting(lv, L + 1)'
  <2>1. ASSUME NEW m \in Vertex PROVE lv[m] \in 0 .. L + 1 => lv[m] \in 0 .. (L + 1) + 1
    OBVIOUS
  <2>. QED
    BY <1>4, <1>8, <1>9, <2>1 DEF AllVisited, Visiting
<1>11. Queue(lv, L + 1)'
  <2>1. \A i \in DOMAIN slots : i < outEnd => lv[slots[i]] \in 0 .. L + 1
    BY <1>8 DEF Queue
  <2>. QED
    BY <1>1, <1>9, <2>1 DEF Queue
<1>12. \A m \in Vertex : get_bit(front, m)' <=> lv[m] = L + 1
  BY <1>1, <1>8 DEF get_bit
<1>13. NotAhead(lv, L + 1)'
  <2>1. L + 1 \in 0 .. L + 1
    OBVIOUS
  <2>. QED
    BY <1>4, <1>12, <2>1 DEF NotAhead
<1>14. Level(lv, (L + 1) + 1) \cap Visited = {}
  <2>1. (L + 1) + 1 \notin 0 .. L + 1
    OBVIOUS
  <2>. QED
    BY <1>8, <2>1 DEF AllVisited, Level
<1>15. \A m \in Vertex : ~get_bit(curr, m)'
  BY <1>1, <1>6 DEF get_bit
<1>16. \A m \in Level(lv, (L + 1) + 1) : m \div ChunkSize \in todo'
  <2>1. \A m \in Vertex : m \div ChunkSize \in Chunks
    BY <1>5, ChunkFacts
  <2>. QED
    BY <1>1, <2>1 DEF Level
<1>17. \A t \in Thread : pc'[t] # "setbit"
  BY <1>1
<1>18. \A m \in Level(lv, L + 1) : get_bit(front, m)'
  BY <1>12 DEF Level
<1>19. BottomUp(lv, L + 1)'
  BY <1>4, <1>9, <1>14, <1>15, <1>16, <1>17, <1>18 DEF BottomUp, ChunkSize
<1>. QED
  BY <1>1, <1>10, <1>11, <1>13, <1>19 DEF AtLevel

LEMMA StartBitmapToQueueStep == ASSUME ConstantsSound, IInv, StartBitmapToQueue PROVE IInv'
<1>1. /\ phase = "bu" /\ AllThrough /\ phase' = "b2q" /\ front' = curr
      /\ curr' = front /\ todo' = Vertex /\ pc' = [t \in Thread |-> "loop"]
      /\ UNCHANGED <<g, source, parent, work, val, word, slots, sharedIn, outStart, outEnd, lq, copyStart>>
  BY DEF StartBitmapToQueue, Enter, config, queueVars
<1>2. Structure /\ AtBarrier
  BY <1>1 DEF IInv, AllThrough, AtBarrier
<1>3. Vertex' = Vertex /\ Bitmap' = Bitmap /\ \A lv, n : Level(lv, n)' = Level(lv, n)
  BY <1>1, SameGraph
<1>4. outStart \in Nat /\ outEnd \in Nat /\ sharedIn = outEnd
  BY <1>1, <1>2 DEF Structure, TypeOK, Slots
<1>5. Structure'
  <2>1. Vertex \subseteq Nat
    BY DEF Vertex
  <2>2. /\ parent' \in [Vertex -> Int] /\ front' \in Bitmap /\ curr' \in Bitmap /\ todo' \subseteq Nat /\ todo' \subseteq Vertex
        /\ outStart' \in Nat /\ outEnd' = sharedIn /\ outStart' <= outEnd'
    BY <1>1, <1>2, <1>3, <1>4, <2>1 DEF Structure, TypeOK
  <2>3. phase' \in Phases \ {"seed"} /\ phase' \in Loops /\ phase' \notin {"td", "q2b"} /\ phase' # "bu"
    BY <1>1 DEF Phases, Loops
  <2>. QED
    BY <1>1, <1>2, <2>2, <2>3, MainStep
<1>. SUFFICES ASSUME NEW lv, IsLevels(lv), NEW L \in Nat, AtLevel(lv, L) PROVE AtLevel(lv, L + 1)'
  <2>1. \A L \in Nat : L + 1 \in Nat
    OBVIOUS
  <2>. QED
    BY <1>1, <1>5, <2>1, NewPhase
<1>6. Queue(lv, L) /\ AllVisited(lv, L + 1) /\ \A m \in Vertex : get_bit(curr, m) <=> lv[m] = L + 1
  BY <1>1, <1>2, LevelDone, NextLevel DEF AtLevel
<1>7. Visited' = Visited /\ Behind' = Behind /\ \A t \in Thread : Buffer(t)' = Buffer(t)
  BY <1>1, <1>3 DEF Visited, Behind, Buffer
<1>8. AllVisited(lv, L + 1)'
  BY <1>3, <1>6, <1>7 DEF AllVisited
<1>9. Queue(lv, L)'
  BY <1>1, <1>6, <1>7 DEF Queue
<1>10. \A m \in Vertex : get_bit(front, m)' <=> lv[m] = L + 1
  BY <1>1, <1>6 DEF get_bit
<1>11. ToQueue(lv, L + 1)'
  BY <1>1, <1>3, <1>10 DEF ToQueue, Level
<1>12. Queue(lv, (L + 1) - 1)'
  <2>1. (L + 1) - 1 = L
    OBVIOUS
  <2>. QED
    BY <1>9, <2>1
<1>. QED
  BY <1>1, <1>8, <1>11, <1>12 DEF AtLevel

LEMMA EndBitmapToQueueStep == ASSUME ConstantsSound, IInv, EndBitmapToQueue PROVE IInv'
<1>1. /\ phase = "b2q" /\ AllThrough /\ phase' = "while" /\ outStart' = outEnd /\ outEnd' = sharedIn
      /\ UNCHANGED <<g, source, parent, front, curr, todo, pc, work, val, word, slots, sharedIn, lq, copyStart>>
  BY DEF EndBitmapToQueue, SlideWindow, config, team
<1>2. Structure /\ AtBarrier
  BY <1>1 DEF IInv, AllThrough, AtBarrier
<1>3. /\ todo = {} /\ DOMAIN slots = 0 .. sharedIn - 1
      /\ \A t \in Thread : Buffer(t) = {} /\ \A m : ~InWork(t, m)
  BY <1>2, Barrier
<1>4. Vertex' = Vertex /\ Bitmap' = Bitmap
  BY <1>1, SameGraph
<1>5. outStart \in Nat /\ outEnd \in Nat /\ sharedIn \in Nat /\ outEnd <= sharedIn
  BY <1>2 DEF Structure, TypeOK
<1>6. Structure'
  <2>1. /\ parent' \in [Vertex -> Int] /\ front' \in Bitmap /\ curr' \in Bitmap /\ todo' \subseteq Nat
        /\ outStart' \in Nat /\ outEnd' = sharedIn /\ outStart' <= outEnd'
    BY <1>1, <1>2, <1>4, <1>5 DEF Structure, TypeOK
  <2>2. phase' \in Phases \ {"seed"} /\ phase' \notin Loops /\ phase' \notin {"td", "q2b"} /\ phase' \notin {"bu", "b2q"}
    BY <1>1 DEF Phases, Loops
  <2>. QED
    BY <1>1, <1>2, <2>1, <2>2, MainStep
<1>. SUFFICES ASSUME NEW lv, IsLevels(lv), NEW L \in Nat, AtLevel(lv, L) PROVE AtLevel(lv, L)'
  BY <1>1, <1>6, NewPhase
<1>7. AllVisited(lv, L) /\ Queue(lv, L - 1) /\ ToQueue(lv, L)
  BY <1>1 DEF AtLevel
<1>8. AllVisited(lv, L)'
  BY <1>1, <1>4, <1>7 DEF AllVisited, Visited
<1>9. NotAhead(lv, L)'
  <2>1. L \in 0 .. L
    OBVIOUS
  <2>. QED
    BY <1>1, <1>4, <1>7, <2>1 DEF NotAhead, ToQueue, get_bit, word_offset
<1>10. Behind' = {} /\ \A t \in Thread : Buffer(t)' = {}
  <2>1. \A i \in DOMAIN slots' : ~(i >= outEnd')
    BY <1>1, <1>3, <1>5
  <2>. QED
    BY <1>1, <1>3, <2>1 DEF Behind, Buffer
<1>11. ASSUME NEW i \in DOMAIN slots PROVE /\ i < outEnd => lv[slots[i]] \in 0 .. L - 1
                                           /\ i >= outEnd => lv[slots[i]] = L
  <2>1. (L - 1) + 1 = L
    OBVIOUS
  <2>. QED
    BY <1>7, <2>1 DEF Queue, Behind
<1>12. Queue(lv, L)'
  <2>1. ASSUME NEW i \in DOMAIN slots PROVE lv[slots[i]] \in 0 .. L
    <3>1. i \in Int
      BY <1>3
    <3>. QED
      BY <1>5, <1>11, <3>1
  <2>. QED
    BY <1>1, <1>10, <2>1 DEF Queue
<1>13. Windowed(lv, L)'
  <2>1. ASSUME NEW m \in Vertex, lv[m] = L
        PROVE  \E i \in outEnd .. sharedIn - 1 : i \in DOMAIN slots /\ slots[i] = m
    <3>1. m \in Behind
      BY <1>3, <1>7, <2>1 DEF ToQueue, Level
    <3>. QED
      BY <1>3, <1>5, <3>1 DEF Behind
  <2>2. ASSUME NEW i \in outEnd .. sharedIn - 1, i \in DOMAIN slots PROVE lv[slots[i]] = L
    BY <1>5, <1>11, <2>2
  <2>. QED
    BY <1>1, <1>4, <2>1, <2>2 DEF Windowed
<1>. QED
  BY <1>1, <1>8, <1>9, <1>12, <1>13 DEF AtLevel

\* No vertex is further down than an empty level.
LEMMA NoneBelow ==
  ASSUME NEW lv, IsLevels(lv), NEW L \in Nat, \A m \in Vertex : lv[m] # L
  PROVE  \A m \in Vertex : lv[m] < L
<1>. DEFINE T == {lv[m] : m \in {n \in Vertex : lv[n] > L}}
<1>1. \A m \in Vertex : lv[m] \in Int
  BY LevelFacts
<1>2. T \in SUBSET Nat
  BY <1>1
<1>3. T = {}
  <2>. SUFFICES ASSUME T # {} PROVE FALSE
    OBVIOUS
  <2>1. Min(T) \in T /\ \A y \in T : Min(T) <= y
    <3>. HIDE DEF T
    <3>. QED
      BY <1>2, Least
  <2>2. PICK m \in Vertex : lv[m] > L /\ lv[m] = Min(T)
    BY <2>1
  <2>3. \A n \in Vertex : lv[n] > L => lv[m] <= lv[n]
    BY <2>1, <2>2
  <2>4. lv[m] \in Int /\ lv[m] > 0
    BY <1>1, <2>2
  <2>5. PICK u \in Vertex : lv[m] = lv[u] + 1
    BY <2>4, LevelFacts
  <2>6. lv[u] \in Int /\ lv[u] # L
    BY <1>1
  <2>. QED
    BY <2>2, <2>3, <2>4, <2>5, <2>6
<1>4. \A m \in Vertex : ~(lv[m] > L)
  BY <1>3
<1>. QED
  BY <1>1, <1>4

LEMMA FinishStep == ASSUME ConstantsSound, IInv, Finish PROVE IInv'
<1>1. /\ phase = "while" /\ outStart = outEnd /\ phase' = "done"
      /\ parent' = [m \in Vertex |-> IF parent[m] < -1 THEN -1 ELSE parent[m]]
      /\ UNCHANGED <<g, source, front, curr, todo, pc, work, val, word, slots, sharedIn, outStart, outEnd, lq, copyStart>>
  BY DEF Finish, QueueEmpty, config, team, queueVars
<1>2. Structure
  BY DEF IInv
<1>3. AtBarrier /\ outEnd = sharedIn
  BY <1>1, <1>2 DEF AtBarrier, Structure, Control, PCsIn, Slots
<1>4. /\ Vertex' = Vertex /\ Bitmap' = Bitmap /\ \A m : out_neigh(m)' = out_neigh(m)
  BY <1>1, SameGraph
<1>5. parent \in [Vertex -> Int] /\ parent' \in [Vertex -> Int] /\ source \in Vertex /\ Vertex \subseteq Nat
  BY <1>1, <1>2 DEF Structure, TypeOK, Vertex
<1>6. Structure'
  <2>1. /\ front' \in Bitmap /\ curr' \in Bitmap /\ todo' \subseteq Nat
        /\ outStart' \in Nat /\ outEnd' = sharedIn /\ outStart' <= outEnd'
    BY <1>1, <1>2, <1>3, <1>4 DEF Structure, TypeOK
  <2>2. phase' \in Phases \ {"seed"} /\ phase' \notin Loops /\ phase' \notin {"td", "q2b"} /\ phase' \notin {"bu", "b2q"}
    BY <1>1 DEF Phases, Loops
  <2>. QED
    BY <1>1, <1>2, <1>3, <1>5, <2>1, <2>2, MainStep
<1>. SUFFICES ASSUME NEW lv, IsLevels(lv)' PROVE Progress(lv)'
  BY <1>6 DEF IInv
<1>7. IsLevels(lv)
  BY <1>1, SameGraph
<1>8. Parents(lv)
  BY <1>7 DEF IInv, Progress
<1>9. PICK L \in Nat : AtLevel(lv, L)
  BY <1>7 DEF IInv, Progress
<1>10. AllVisited(lv, L) /\ Windowed(lv, L)
  BY <1>1, <1>9 DEF AtLevel
<1>11. \A m \in Vertex : parent'[m] >= 0 <=> parent[m] >= 0
  BY <1>1, <1>5
<1>12. \A m \in Vertex : (parent[m] >= 0 => parent'[m] = parent[m]) /\ (parent[m] < 0 => parent'[m] < 0)
  BY <1>1, <1>5
<1>13. Visited' = Visited
  BY <1>4, <1>11 DEF Visited
<1>14. \A m \in Vertex : lv[m] # L
  <2>1. outStart .. outEnd - 1 = {}
    BY <1>1, <1>2 DEF Structure, TypeOK
  <2>. QED
    BY <1>10, <2>1 DEF Windowed
<1>15. \A m \in Vertex : lv[m] \in Int /\ lv[m] < L
  BY <1>7, <1>14, NoneBelow, LevelFacts
<1>16. \A m \in Vertex : m \in Visited <=> lv[m] >= 0
  BY <1>10, <1>15 DEF AllVisited
<1>17. AtLevel(lv, L)'
  BY <1>1, <1>4, <1>13, <1>16 DEF AtLevel
<1>18. Descends(lv)'
  <2>. SUFFICES ASSUME NEW n \in Vertex, parent'[n] >= 0, n # source
                PROVE  /\ parent'[n] \in Vertex /\ Contains(out_neigh(parent'[n]), n)
                       /\ lv[parent'[n]] >= 0 /\ lv[n] = lv[parent'[n]] + 1
    BY <1>1, <1>4 DEF Descends, out_neigh
  <2>1. parent'[n] = parent[n] /\ parent[n] >= 0
    BY <1>11, <1>12
  <2>. QED
    BY <1>8, <2>1 DEF Parents, Descends
<1>19. parent'[source] = source
  BY <1>1, <1>5, <1>8 DEF Parents
<1>20. \A m \in Vertex : parent'[m] < 0 => parent'[m] = -1
  BY <1>1, <1>2, <1>5, <1>8, GraphFacts DEF Parents, Structure, TypeOK
<1>21. Parents(lv)'
  BY <1>1, <1>4, <1>18, <1>19, <1>20 DEF Parents
<1>. QED
  BY <1>17, <1>21 DEF Progress

LEMMA StutterStep == ASSUME ConstantsSound, IInv, UNCHANGED vars PROVE IInv'
<1>1. /\ UNCHANGED <<g, source, parent, front, curr, phase, todo, pc, work, val, word>>
      /\ UNCHANGED <<slots, sharedIn, outStart, outEnd, lq, copyStart>>
  BY DEF vars, config, team, queueVars
<1>2. /\ Vertex' = Vertex /\ Bitmap' = Bitmap /\ Chunks' = Chunks /\ (\A k : out_neigh(k)' = out_neigh(k))
      /\ \A lv, k : Level(lv, k)' = Level(lv, k)
  BY <1>1, SameGraph DEF Chunks, ChunkSize
<1>3. /\ Behind' = Behind /\ ToLookAt' = ToLookAt /\ (\A m : InTodo(m)' = InTodo(m)) /\ Visited' = Visited
      /\ \A s \in Thread : /\ Held(s)' = Held(s) /\ Buffer(s)' = Buffer(s) /\ ToPush(s)' = ToPush(s)
                           /\ Copying(s)' = Copying(s) /\ Reserved(s)' = Reserved(s)
                           /\ \A m : InWork(s, m)' = InWork(s, m)
  BY <1>1, <1>2 DEF Behind, ToLookAt, InTodo, Held, Buffer, ToPush, InWork, Visited, Copying, Reserved
<1>4. \A m : get_bit(front, m)' = get_bit(front, m) /\ get_bit(curr, m)' = get_bit(curr, m)
  BY <1>1 DEF get_bit
<1>5. TypeOK'
  BY <1>1, <1>2 DEF IInv, Structure, TypeOK
<1>6. Control' /\ Slots'
  BY <1>1, <1>3 DEF IInv, Structure, Control, PCsIn, Slots
<1>7. Once'
  BY <1>1, <1>3 DEF IInv, Structure, Once
<1>8. OwnChunks' /\ Iterations'
  BY <1>1, <1>2, <1>3 DEF IInv, Structure, OwnChunks, Iterations, ChunkSize
<1>9. Structure'
  BY <1>5, <1>6, <1>7, <1>8 DEF Structure
<1>. SUFFICES ASSUME NEW lv, IsLevels(lv), NEW L \in Nat, AtLevel(lv, L)
              PROVE  /\ phase \in {"seed", "while", "td", "q2b", "bu"} => NotAhead(lv, L)'
                     /\ phase = "td"  => TopDown(lv, L)'
                     /\ phase = "q2b" => ToBitmap(lv, L)'
                     /\ phase = "bu"  => BottomUp(lv, L)'
                     /\ phase = "b2q" => ToQueue(lv, L)'
  BY <1>1, <1>9, SameTree
<1>10. NotAhead(lv, L) => NotAhead(lv, L)'
  BY <1>2, <1>4 DEF NotAhead
<1>11. TopDown(lv, L) => TopDown(lv, L)'
  BY <1>1, <1>2, <1>3 DEF TopDown
<1>12. ToBitmap(lv, L) => ToBitmap(lv, L)'
  BY <1>1, <1>2, <1>3, <1>4 DEF ToBitmap
<1>13. BottomUp(lv, L) => BottomUp(lv, L)'
  BY <1>1, <1>2, <1>3, <1>4 DEF BottomUp, ChunkSize, word_offset
<1>14. ToQueue(lv, L) => ToQueue(lv, L)'
  BY <1>1, <1>2, <1>3, <1>4 DEF ToQueue
<1>. QED
  BY <1>10, <1>11, <1>12, <1>13, <1>14 DEF AtLevel

LEMMA InitStep == ASSUME ConstantsSound, Init PROVE IInv
<1>1. /\ g \in Graphs /\ source \in Vertex /\ front = NoBits /\ curr = NoBits
      /\ parent = [m \in Vertex |-> IF m = source THEN source ELSE InitParent(m)]
      /\ phase = "seed" /\ todo = {} /\ pc = [t \in Thread |-> "idle"] /\ work = [t \in Thread |-> <<>>]
      /\ val = [t \in Thread |-> 0] /\ word = [t \in Thread |-> {}]
      /\ slots = <<>> /\ sharedIn = 0 /\ outStart = 0 /\ outEnd = 0
      /\ lq = [t \in Thread |-> <<>>] /\ copyStart = [t \in Thread |-> -1]
  BY DEF Init, QueueInit
<1>2. NoBits \in Bitmap /\ \A m \in Vertex : ~get_bit(NoBits, m)
  BY <1>1, NoBitsFacts
<1>3. Vertex \subseteq Nat /\ \A m \in Vertex : InitParent(m) \in Int /\ InitParent(m) < 0
  BY <1>1, GraphFacts
<1>4. parent \in [Vertex -> Int] /\ DOMAIN slots = {}
  BY <1>1, <1>3
<1>5. TypeOK
  <2>1. <<>> \in Seq(Vertex) /\ "idle" \in PCs /\ phase \in Phases
    BY <1>1 DEF PCs, Phases
  <2>2. lq \in [Thread -> Seq(Vertex)] /\ work \in [Thread -> Seq(Vertex)] /\ pc \in [Thread -> PCs]
    BY <1>1, <2>1
  <2>3. copyStart \in [Thread -> Nat \cup {-1}] /\ val \in [Thread -> Nat] /\ word \in [Thread -> SUBSET Vertex]
    BY <1>1
  <2>. QED
    BY <1>1, <1>2, <1>4, <2>1, <2>2, <2>3 DEF TypeOK
<1>6. \A t \in Thread : /\ pc[t] = "idle" /\ work[t] = <<>> /\ lq[t] = <<>> /\ ~Copying(t) /\ pc[t] \notin Busy
                        /\ Held(t) = {} /\ Buffer(t) = {} /\ ToPush(t) = {}
  BY <1>1 DEF Copying, Busy, Held, Buffer, ToPush
<1>7. Control
  BY <1>1, <1>6 DEF Control, PCsIn
<1>8. Slots
  BY <1>1, <1>6 DEF Slots
<1>9. Behind = {} /\ ToLookAt = {}
  BY <1>1, <1>4 DEF Behind, ToLookAt
<1>10. Once /\ OwnChunks /\ Iterations
  BY <1>1, <1>4, <1>6, <1>9 DEF Once, OwnChunks, Iterations
<1>11. ASSUME NEW lv, IsLevels(lv) PROVE Progress(lv)
  <2>1. \A m \in Vertex : m \in Visited <=> m = source
    BY <1>1, <1>3 DEF Visited
  <2>2. \A m \in Vertex : (lv[m] = 0 <=> m = source) /\ lv[m] \in Int
    BY <1>11, LevelFacts
  <2>3. AllVisited(lv, 0)
    BY <2>1, <2>2 DEF AllVisited
  <2>4. NotAhead(lv, 0) /\ Queue(lv, 0)
    BY <1>1, <1>2, <1>4, <1>6, <1>9 DEF NotAhead, Queue
  <2>5. AtLevel(lv, 0)
    BY <1>1, <2>3, <2>4 DEF AtLevel
  <2>6. Parents(lv)
    BY <1>1, <1>3 DEF Parents, Descends
  <2>. QED
    BY <2>5, <2>6 DEF Progress
<1>. QED
  BY <1>5, <1>7, <1>8, <1>10, <1>11 DEF IInv, Structure

LEMMA NextStep == ASSUME ConstantsSound, IInv, [Next]_vars PROVE IInv'
<1>1. ASSUME NEW t \in Thread, Step(t) PROVE IInv'
  BY <1>1, TakeStep, LeaveLoopStep, EndIterationStep, FlushStep, FlushDoneStep, TDSkipStep, TDLoadStep, TDCasStep,
     TDPushStep, SetBitAtomicLoadStep, SetBitAtomicCasStep, BUSkipStep, BUVisitStep, BUSetBitStep, B2QPushStep DEF Step
<1>2. CASE DOBFS
  BY <1>2, SeedStep, StartTopDownStep, EndTopDownStep, StartQueueToBitmapStep, StartBottomUpStep,
     NextBottomUpStep, StartBitmapToQueueStep, EndBitmapToQueueStep, FinishStep DEF DOBFS
<1>3. CASE UNCHANGED vars
  BY <1>3, StutterStep
<1>. QED
  BY <1>1, <1>2, <1>3 DEF Next, Terminated

-----------------------------------------------------------------------------
\* The inductive invariant: how the queue, the buffers and the bitmaps relate
\* to the levels of the graph, in every phase of DOBFS (bfs.cc:45-155,
\* sliding_queue.h).
THEOREM InductiveInvariant == ASSUME ConstantsSound PROVE Spec => []IInv
<1>1. Init => IInv
  BY InitStep
<1>2. IInv /\ [Next]_vars => IInv'
  BY NextStep
<1>. QED
  BY <1>1, <1>2, PTL DEF Spec

-----------------------------------------------------------------------------
(* What follows from it. *)

LEMMA NoGaps ==
  ASSUME ConstantsSound, g \in Graphs, source \in Vertex, NEW lv, IsLevels(lv), NEW m \in Vertex
  PROVE  lv[m] < NumNodes
<1>. SUFFICES ASSUME lv[m] >= NumNodes PROVE FALSE
  BY LevelFacts, GraphFacts
<1>1. NumNodes \in Nat /\ lv[m] \in Nat /\ \A n \in Vertex : lv[n] \in Int
  BY LevelFacts, GraphFacts
<1>. DEFINE S == 0 .. NumNodes
<1>2. ASSUME NEW d \in S PROVE \E n \in Vertex : lv[n] = d
  <2>. SUFFICES ASSUME \A n \in Vertex : lv[n] # d PROVE FALSE
    OBVIOUS
  <2>1. d \in Nat /\ d <= lv[m]
    BY <1>1
  <2>2. lv[m] < d
    BY <2>1, NoneBelow
  <2>. QED
    BY <1>1, <2>1, <2>2
<1>. DEFINE f == [d \in S |-> CHOOSE n \in Vertex : lv[n] = d]
<1>3. \A d \in S : f[d] \in Vertex /\ lv[f[d]] = d
  BY <1>2
<1>4. f \in [S -> Vertex]
  BY <1>3
<1>5. \A b \in Int : IsFiniteSet(0 .. b) /\ Cardinality(0 .. b) = IF 0 > b THEN 0 ELSE b - 0 + 1
  BY FS_Interval
<1>6. IsFiniteSet(S) /\ Cardinality(S) = NumNodes + 1
  BY <1>1, <1>5
<1>7. IsFiniteSet(Vertex) /\ Cardinality(Vertex) = NumNodes
  <2>1. NumNodes - 1 \in Int
    BY <1>1
  <2>. DEFINE last == NumNodes - 1
  <2>. HIDE DEF last
  <2>2. IsFiniteSet(0 .. last) /\ Cardinality(0 .. last) = IF 0 > last THEN 0 ELSE last - 0 + 1
    BY <1>5, <2>1 DEF last
  <2>3. last + 1 = NumNodes /\ last \in Int /\ (0 > last => NumNodes = 0)
    BY <1>1 DEF last
  <2>4. (IF 0 > last THEN 0 ELSE last - 0 + 1) = NumNodes
    BY <1>1, <2>3
  <2>. QED
    BY <2>2, <2>4 DEF Vertex, last
<1>. HIDE DEF f, S
<1>8. Cardinality(Vertex) < Cardinality(S)
  BY <1>1, <1>6, <1>7
<1>9. \E x, y \in S : x # y /\ f[x] = f[y]
  BY <1>4, <1>6, <1>7, <1>8, FS_PigeonHole, Zenon
<1>. QED
  BY <1>3, <1>9

\* What a round of the serial search makes of the rounds before it.
SerialRound(f) ==
  [d \in 0 .. NumNodes |->
     IF d = 0 THEN <<{source}, {source}>>
     ELSE LET prev == f[d - 1]
              new  == (UNION {ToSet(out_neigh(u)) : u \in prev[1]}) \ prev[2]
          IN <<new, prev[2] \cup new>>]

\* The rounds of levels.
RoundsOf(lv) == [d \in 0 .. NumNodes |-> <<Level(lv, d), {m \in Vertex : lv[m] \in 0 .. d}>>]

LEMMA OneRound ==
  ASSUME ConstantsSound, g \in Graphs, source \in Vertex, NEW lv, IsLevels(lv), NEW d \in Nat \ {0}
  PROVE  (UNION {ToSet(out_neigh(u)) : u \in Level(lv, d - 1)}) \ {m \in Vertex : lv[m] \in 0 .. d - 1} = Level(lv, d)
<1>1. \A m \in Vertex : lv[m] \in Int /\ out_neigh(m) \in Seq(Vertex)
  BY LevelFacts, GraphFacts
<1>2. ASSUME NEW u \in Vertex, NEW m PROVE m \in ToSet(out_neigh(u)) <=> m \in Vertex /\ Contains(out_neigh(u), m)
  <2>1. out_neigh(u) \in Seq(Vertex) /\ DOMAIN out_neigh(u) = 1 .. Len(out_neigh(u))
    BY <1>1
  <2>. QED
    BY <2>1 DEF ToSet, Contains
<1>3. ASSUME NEW u \in Level(lv, d - 1), NEW m \in ToSet(out_neigh(u)), m \notin {n \in Vertex : lv[n] \in 0 .. d - 1}
      PROVE  m \in Level(lv, d)
  <2>1. u \in Vertex /\ m \in Vertex /\ lv[u] = d - 1 /\ Contains(out_neigh(u), m)
    BY <1>2 DEF Level
  <2>2. lv[m] \in 0 .. lv[u] + 1
    BY <2>1 DEF IsLevels
  <2>. QED
    BY <1>1, <1>3, <2>1, <2>2 DEF Level
<1>4. ASSUME NEW m \in Level(lv, d)
      PROVE  m \notin {n \in Vertex : lv[n] \in 0 .. d - 1} /\ \E u \in Level(lv, d - 1) : m \in ToSet(out_neigh(u))
  <2>1. m \in Vertex /\ lv[m] = d
    BY DEF Level
  <2>2. PICK u \in Vertex : Contains(out_neigh(u), m) /\ lv[m] = lv[u] + 1
    BY <2>1 DEF IsLevels
  <2>3. u \in Level(lv, d - 1)
    BY <1>1, <2>1, <2>2 DEF Level
  <2>. QED
    BY <1>2, <2>1, <2>2, <2>3
<1>. DEFINE A == UNION {ToSet(out_neigh(u)) : u \in Level(lv, d - 1)}
            C == {m \in Vertex : lv[m] \in 0 .. d - 1}
<1>5. \A m : m \in A <=> \E u \in Level(lv, d - 1) : m \in ToSet(out_neigh(u))
  OBVIOUS
<1>. HIDE DEF A, C
<1>6. \A m : m \in A \ C <=> m \in A /\ m \notin C
  OBVIOUS
<1>7. \A m : m \in A \ C => m \in Level(lv, d)
  BY <1>3, <1>5, <1>6 DEF C
<1>8. \A m \in Level(lv, d) : m \in A \ C
  BY <1>4, <1>5, <1>6 DEF C
<1>9. A \ C = Level(lv, d)
  BY <1>7, <1>8
<1>. QED
  BY <1>9 DEF A, C

LEMMA SerialRounds ==
  ASSUME ConstantsSound, g \in Graphs, source \in Vertex, NEW lv, IsLevels(lv)
  PROVE  Levels = RoundsOf(lv)
<1>. DEFINE F == RoundsOf(lv)
<1>1. \A m \in Vertex : lv[m] \in Int /\ (lv[m] = 0 <=> m = source)
  BY LevelFacts
<1>2. Level(lv, 0) = {source} /\ {m \in Vertex : lv[m] \in 0 .. 0} = {source}
  BY <1>1 DEF Level
<1>3. ASSUME NEW d \in 0 .. NumNodes, NEW f, d # 0 => f[d - 1] = F[d - 1] PROVE SerialRound(f)[d] = F[d]
  <2>1. F[d] = <<Level(lv, d), {m \in Vertex : lv[m] \in 0 .. d}>>
    BY DEF RoundsOf
  <2>2. CASE d = 0
    BY <1>2, <2>1, <2>2 DEF SerialRound
  <2>3. CASE d # 0
    <3>1. NumNodes \in Nat /\ d \in Nat \ {0} /\ d - 1 \in 0 .. NumNodes
      BY <2>3, GraphFacts
    <3>2. f[d - 1] = <<Level(lv, d - 1), {m \in Vertex : lv[m] \in 0 .. d - 1}>>
      BY <1>3, <2>3, <3>1 DEF RoundsOf
    <3>3. (UNION {ToSet(out_neigh(u)) : u \in f[d - 1][1]}) \ f[d - 1][2] = Level(lv, d)
      <4>1. (UNION {ToSet(out_neigh(u)) : u \in Level(lv, d - 1)}) \ {m \in Vertex : lv[m] \in 0 .. d - 1} = Level(lv, d)
        BY <3>1, OneRound
      <4>2. f[d - 1][1] = Level(lv, d - 1) /\ f[d - 1][2] = {m \in Vertex : lv[m] \in 0 .. d - 1}
        BY <3>2
      <4>. QED
        BY <4>1, <4>2, Zenon
    <3>4. f[d - 1][2] \cup Level(lv, d) = {m \in Vertex : lv[m] \in 0 .. d}
      BY <1>1, <3>1, <3>2 DEF Level
    <3>5. SerialRound(f)[d] = <<(UNION {ToSet(out_neigh(u)) : u \in f[d - 1][1]}) \ f[d - 1][2],
                           f[d - 1][2] \cup ((UNION {ToSet(out_neigh(u)) : u \in f[d - 1][1]}) \ f[d - 1][2])>>
      BY <2>3 DEF SerialRound
    <3>. QED
      BY <2>1, <3>3, <3>4, <3>5
  <2>. QED
    BY <2>2, <2>3
<1>. DEFINE level == CHOOSE f : f = SerialRound(f)
<1>4. F = SerialRound(F)
  <2>1. F = [d \in 0 .. NumNodes |-> F[d]] /\ SerialRound(F) = [d \in 0 .. NumNodes |-> SerialRound(F)[d]]
    BY DEF RoundsOf, SerialRound
  <2>2. \A d \in 0 .. NumNodes : SerialRound(F)[d] = F[d]
    BY <1>3
  <2>. HIDE DEF F
  <2>. QED
    BY <2>1, <2>2
<1>5. level = SerialRound(level)
  BY <1>4
<1>6. Levels = [d \in 0 .. NumNodes |-> level[d]]
  BY DEF Levels, SerialRound
<1>. HIDE DEF level
<1>7. \A d \in 0 .. NumNodes : level[d] = F[d]
  <2>. DEFINE T == {d \in 0 .. NumNodes : level[d] # F[d]}
  <2>. SUFFICES ASSUME T # {} PROVE FALSE
    OBVIOUS
  <2>1. T \in SUBSET Nat
    OBVIOUS
  <2>2. PICK d \in T : \A y \in T : d <= y
    <3>. HIDE DEF T
    <3>. QED
      BY <2>1, Least
  <2>3. d \in 0 .. NumNodes /\ level[d] # F[d] /\ (d # 0 => d - 1 \in 0 .. NumNodes /\ d - 1 \notin T)
    BY <2>2, GraphFacts
  <2>4. d # 0 => level[d - 1] = F[d - 1]
    BY <2>3
  <2>5. SerialRound(level)[d] = F[d]
    BY <1>3, <2>3, <2>4
  <2>. QED
    BY <1>5, <2>3, <2>5
<1>8. F = [d \in 0 .. NumNodes |-> F[d]]
  BY DEF RoundsOf
<1>. HIDE DEF F
<1>9. Levels = F
  BY <1>6, <1>7, <1>8
<1>. QED
  BY <1>9 DEF F

\* The serial search of BFSVerifier (bfs.cc:196-212) computes the lengths of
\* the shortest walks: they are the only levels, and num_nodes rounds are enough.
THEOREM SerialSearchCorrect ==
  ASSUME ConstantsSound, g \in Graphs, source \in Vertex
  PROVE  Depths = ShortestWalks /\ IsLevels(Depths)
<1>. DEFINE lv == ShortestWalks
<1>1. IsLevels(lv)
  BY LevelsExist
<1>2. Levels = RoundsOf(lv)
  BY <1>1, SerialRounds
<1>3. NumNodes \in Nat /\ lv = [m \in Vertex |-> lv[m]] /\ \A m \in Vertex : lv[m] \in Nat \cup {-1} /\ lv[m] < NumNodes
  BY <1>1, GraphFacts, NoGaps DEF IsLevels
<1>. HIDE DEF lv
<1>4. \A m \in Vertex : m \in RoundsOf(lv)[NumNodes][2] <=> lv[m] # -1
  BY <1>3 DEF RoundsOf
<1>5. ASSUME NEW m \in Vertex, lv[m] # -1 PROVE depth(RoundsOf(lv), m) = lv[m]
  <2>1. lv[m] \in 0 .. NumNodes
    BY <1>3, <1>5
  <2>2. \A d \in 0 .. NumNodes : m \in RoundsOf(lv)[d][1] <=> d = lv[m]
    BY DEF RoundsOf, Level
  <2>. QED
    BY <2>1, <2>2 DEF depth
<1>6. Depths = [m \in Vertex |-> IF m \in RoundsOf(lv)[NumNodes][2] THEN depth(RoundsOf(lv), m) ELSE -1]
  BY <1>2 DEF Depths
<1>7. \A m \in Vertex : (IF m \in RoundsOf(lv)[NumNodes][2] THEN depth(RoundsOf(lv), m) ELSE -1) = lv[m]
  BY <1>4, <1>5
<1>8. Depths = lv
  BY <1>3, <1>6, <1>7
<1>. QED
  BY <1>1, <1>8 DEF lv

LEMMA EdgesDescend == ASSUME ConstantsSound, IInv PROVE TreeEdgesDescend
BY SerialSearchCorrect DEF IInv, Structure, TypeOK, Progress, Parents, TreeEdgesDescend

\* At any moment, under any schedule of the threads' loads and CASs and any
\* choice of directions, every tree edge is an edge of the graph that goes one
\* level down, where the levels are those of the serial search, the lengths of
\* shortest walks from the source (TDStep, BUStep: bfs.cc:45-79, 192).
THEOREM TreeEdgesDescendCorrect == ASSUME ConstantsSound PROVE Spec => []TreeEdgesDescend
BY EdgesDescend, InductiveInvariant, PTL

LEMMA Accepted == ASSUME ConstantsSound, IInv PROVE VerifierAccepts
<1>. SUFFICES ASSUME phase = "done" PROVE Accepts(Depths)
  BY DEF VerifierAccepts
<1>1. Parents(Depths) /\ \E L \in Nat : AtLevel(Depths, L)
  BY SerialSearchCorrect DEF IInv, Structure, TypeOK, Progress
<1>2. \A m \in Vertex : parent[m] \in Int
  BY DEF IInv, Structure, TypeOK
<1>3. \A m \in Vertex : parent[m] >= -1
  BY <1>1, <1>2 DEF Parents
<1>4. \A m \in Vertex : m \in Visited <=> Depths[m] >= 0
  BY <1>1 DEF AtLevel
<1>. QED
  BY <1>1, <1>3, <1>4 DEF Accepts, Parents, Visited

\* When DOBFS returns, a vertex has a parent if and only if the serial search
\* reaches it, every other vertex has -1, and the source is its own parent:
\* BFSVerifier accepts the tree (bfs.cc:145-155, 194-215).
THEOREM VerifierAcceptsCorrect == ASSUME ConstantsSound PROVE Spec => []VerifierAccepts
BY Accepted, InductiveInvariant, PTL

\* The vertex that slot i holds, or will hold after the copy of the flush that
\* reserved it.
Puts(i, m) ==
  \/ i \in DOMAIN slots /\ slots[i] = m
  \/ \E t \in Thread : Copying(t) /\ i \in Reserved(t) /\ m = lq[t][i - copyStart[t] + 1]

LEMMA ReservedBuffer ==
  ASSUME Structure, NEW t \in Thread, Copying(t), NEW i \in Reserved(t)
  PROVE  /\ i - copyStart[t] + 1 \in DOMAIN lq[t] /\ i \in Nat
         /\ lq[t][i - copyStart[t] + 1] \in Vertex
         /\ lq[t][i - copyStart[t] + 1] \in Buffer(t)
<1>1. lq[t] \in Seq(Vertex) /\ copyStart[t] \in Nat
  BY DEF Structure, TypeOK, Copying
<1>2. Len(lq[t]) \in Nat /\ DOMAIN lq[t] = 1 .. Len(lq[t])
  BY <1>1
<1>3. i - copyStart[t] + 1 \in DOMAIN lq[t] /\ i \in Nat
  BY <1>1, <1>2 DEF Reserved
<1>. QED
  BY <1>1, <1>3 DEF Buffer

LEMMA PutOnce ==
  ASSUME ConstantsSound, IInv, NEW i, NEW j, NEW m, Puts(i, m), Puts(j, m)
  PROVE  i = j
<1>1. Structure
  BY DEF IInv
<1>2. ASSUME NEW t \in Thread, Copying(t) PROVE phase \in {"td", "b2q"}
  <2>1. pc[t] \in {"flush", "push", "b2q"}
    BY <1>1, <1>2 DEF Structure, Slots
  <2>. QED
    BY <1>1, <2>1, PhaseOf
<1>3. ASSUME NEW k, NEW l \in DOMAIN slots, slots[l] = m,
             NEW t \in Thread, Copying(t), k \in Reserved(t), m = lq[t][k - copyStart[t] + 1]
      PROVE  FALSE
  <2>1. m \in Buffer(t)
    BY <1>1, <1>3, ReservedBuffer
  <2>. QED
    BY <1>2, <1>3, <2>1, NewInQueue
<1>4. ASSUME NEW s \in Thread, Copying(s), i \in Reserved(s), m = lq[s][i - copyStart[s] + 1],
             NEW t \in Thread, Copying(t), j \in Reserved(t), m = lq[t][j - copyStart[t] + 1]
      PROVE  i = j
  <2>1. m \in Buffer(s) /\ m \in Buffer(t)
    BY <1>1, <1>4, ReservedBuffer
  <2>2. s = t
    BY <1>1, <2>1 DEF Structure, Once
  <2>3. i - copyStart[s] + 1 \in DOMAIN lq[s] /\ j - copyStart[s] + 1 \in DOMAIN lq[s] /\ i \in Nat /\ j \in Nat
    BY <1>1, <1>4, <2>2, ReservedBuffer
  <2>4. i - copyStart[s] + 1 = j - copyStart[s] + 1
    BY <1>1, <1>4, <2>2, <2>3 DEF Structure, Once
  <2>5. copyStart[s] \in Int
    BY <1>1 DEF Structure, TypeOK
  <2>. QED
    BY <2>3, <2>4, <2>5
<1>5. ASSUME i \in DOMAIN slots, j \in DOMAIN slots, slots[i] = m, slots[j] = m PROVE i = j
  BY <1>1, <1>5 DEF Structure, Once
<1>. QED
  BY <1>3, <1>4, <1>5 DEF Puts

LEMMA Fits == ASSUME ConstantsSound, IInv PROVE QueueFits
<1>1. sharedIn <= NumNodes
  <2>1. Structure /\ sharedIn \in Nat
    BY DEF IInv, Structure, TypeOK
  <2>2. NumNodes \in Nat
    BY <2>1, GraphFacts DEF Structure, TypeOK
  <2>3. ASSUME NEW i \in 0 .. sharedIn - 1 PROVE \E m \in Vertex : Puts(i, m)
    <3>1. CASE i \in DOMAIN slots
      BY <2>1, <3>1 DEF Structure, TypeOK, Puts
    <3>2. CASE i \notin DOMAIN slots
      <4>1. PICK t \in Thread : Copying(t) /\ i \in Reserved(t)
        BY <2>1, <2>3, <3>2 DEF Structure, Slots
      <4>2. lq[t][i - copyStart[t] + 1] \in Vertex
        BY <2>1, <4>1, ReservedBuffer
      <4>. QED
        BY <4>1, <4>2 DEF Puts
    <3>. QED
      BY <3>1, <3>2
  <2>. DEFINE f == [i \in 0 .. sharedIn - 1 |-> CHOOSE m \in Vertex : Puts(i, m)]
  <2>4. \A i \in 0 .. sharedIn - 1 : f[i] \in Vertex /\ Puts(i, f[i])
    BY <2>3
  <2>5. f \in [0 .. sharedIn - 1 -> Vertex]
    BY <2>4
  <2>. HIDE DEF f
  <2>6. \A i, j \in 0 .. sharedIn - 1 : f[i] = f[j] => i = j
    BY <2>4, PutOnce
  <2>7. /\ IsFiniteSet(0 .. sharedIn - 1) /\ Cardinality(0 .. sharedIn - 1) = sharedIn
        /\ IsFiniteSet(Vertex) /\ Cardinality(Vertex) = NumNodes
    <3>1. \A b \in Int : IsFiniteSet(0 .. b) /\ Cardinality(0 .. b) = IF 0 > b THEN 0 ELSE b - 0 + 1
      BY FS_Interval
    <3>2. NumNodes - 1 \in Int /\ sharedIn - 1 \in Int
      BY <2>1, <2>2
    <3>3. IsFiniteSet(0 .. sharedIn - 1) /\ Cardinality(0 .. sharedIn - 1) = sharedIn
      BY <2>1, <3>1, <3>2
    <3>4. IsFiniteSet(0 .. NumNodes - 1) /\ Cardinality(0 .. NumNodes - 1) = NumNodes
      BY <2>2, <3>1, <3>2
    <3>. QED
      BY <3>3, <3>4 DEF Vertex
  <2>. DEFINE S == 0 .. sharedIn - 1
  <2>8. ~(Cardinality(Vertex) < Cardinality(0 .. sharedIn - 1))
    <3>1. f \in [S -> Vertex] /\ IsFiniteSet(S) /\ IsFiniteSet(Vertex) /\ \A i, j \in S : f[i] = f[j] => i = j
      BY <2>5, <2>6, <2>7
    <3>. HIDE DEF S
    <3>2. ASSUME Cardinality(Vertex) < Cardinality(S) PROVE FALSE
      <4>1. \E x, y \in S : x # y /\ f[x] = f[y]
        BY <3>1, <3>2, FS_PigeonHole, Zenon
      <4>. QED
        BY <3>1, <4>1
    <3>. QED
      BY <3>2 DEF S
  <2>. QED
    BY <2>1, <2>2, <2>7, <2>8
<1>2. outStart .. outEnd - 1 \subseteq DOMAIN slots
  BY WindowWritten DEF IInv
<1>. QED
  BY <1>1, <1>2 DEF QueueFits

\* The queue of num_nodes entries never overflows, whatever the order in which
\* the threads flush their buffers, although nothing checks shared_in against
\* the capacity; and DOBFS never reads a slot that was reserved and not copied
\* (sliding_queue.h:103-108, bfs.cc:131).
THEOREM QueueFitsCorrect == ASSUME ConstantsSound PROVE Spec => []QueueFits
BY Fits, InductiveInvariant, PTL

=============================================================================
