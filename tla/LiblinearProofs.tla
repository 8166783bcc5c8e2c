-------------------------- MODULE LiblinearProofs --------------------------
(***************************************************************************)
(* Proofs about liblinear: the sweeps and caches of the solvers that       *)
(* shrink (CoordinateDescent, BlockDescent, MulticlassDescent), for any    *)
(* number of coordinates, instances and classes and whatever the gradients *)
(* say, and the descent of TRON (TrustRegion) for any rows, labels and     *)
(* costs.                                                                  *)
(*                                                                         *)
(* The three solvers keep the coordinates in an order e, of which a prefix *)
(* A is active and a part K of the prefix is still to be looked at.  Swept *)
(* says that this account is right: what is in K is active since the sweep *)
(* began and not looked at, what is not has been looked at once.           *)
(***************************************************************************)
EXTENDS MCLiblinear, FiniteSetTheorems, WellFoundedInduction, TLAPS

-----------------------------------------------------------------------------
(* Orders and sweeps. *)

\* e is an order of the elements of S.
Perm(e, S) ==
  /\ e \in [S -> S]
  /\ \A i, j \in S : e[i] = e[j] => i = j
  /\ \A x \in S : \E i \in S : e[i] = x

\* No element was looked at twice, and none that was not active.
AtMostOnce(S, looks, first) ==
  /\ looks \in [S -> Nat] /\ first \subseteq S
  /\ \A x \in S : looks[x] <= (IF x \in first THEN 1 ELSE 0)

Swept(e, S, A, K, looks, first) ==
  /\ K \subseteq A /\ A \subseteq S /\ first \subseteq S /\ looks \in [S -> Nat]
  /\ \A i \in A : e[i] \in first
  /\ \A i \in K : looks[e[i]] = 0
  /\ \A i \in S \ K : looks[e[i]] = (IF e[i] \in first THEN 1 ELSE 0)

-----------------------------------------------------------------------------
(* The invariants. *)

\* CoordinateDescent: the sweeps.
DSweeps ==
  /\ Perm(index, CD!Coord) /\ AtMostOnce(CD!Coord, seen, begun)
  /\ active_size \in 0 .. N /\ QP_active_size \in 0 .. N /\ s \in Nat \ {0}
  /\ phase = "search" => level = "main" /\ s <= CD!Size
  /\ phase = "sweep" => Swept(index, CD!Coord, 1 .. CD!Size, s .. CD!Size, seen, begun)
  /\ phase = "search" => Swept(index, CD!Coord, 1 .. CD!Size, s + 1 .. CD!Size, seen, begun)
  /\ (phase = "sweep" /\ level = "outer") => begun = CD!Coord
  /\ CD!StopsOnAll

\* Its caches.
DCaches ==
  /\ level \in {"main", "outer", "qp"} /\ (phase = "linesearch" => level = "qp")
  /\ phase # "search" => applied = d
  /\ exp_fits \/ given_up
  /\ level = "outer" => (wpd = w /\ dist = 0) \/ given_up
  /\ level = "qp" => dist = xTd \/ given_up

\* BlockDescent: the sweeps and the blocks.
BSweeps ==
  /\ Perm(index, BD!Pos) /\ AtMostOnce(BD!Pos, seen, begun)
  /\ active_size \in 0 .. L /\ t \in Nat /\ s \in Nat /\ send \in Nat
  /\ phase = "block" => Swept(index, BD!Pos, 0 .. active_size - 1, t .. active_size - 1, seen, begun)
  /\ phase = "select" => Swept(index, BD!Pos, 0 .. active_size - 1, t + s .. active_size - 1, seen, begun)

BBlocks ==
  /\ DOMAIN Grad = 0 .. max_candidates_size - 1 /\ workingset \in Seq(BD!Pos)
  /\ candidates_size \in 1 .. max_candidates_size /\ Len(workingset) <= max_candidates_size
  /\ phase = "select" =>
       /\ s <= send /\ send <= candidates_size /\ t + send <= active_size /\ Len(workingset) <= s
       /\ \A u \in s .. send - 1 : Grad[u] = index[t + u]

\* The projected gradients of the first k instances: what the end of a sweep is
\* decided by covers them all, and without updates they are all small.
Covered(k) == \A i \in 0 .. k - 1 : met[index[i]] \in PGmin_new .. PGmax_new /\ met[index[i]] # BD!INF
Idle(k)    == \A i \in 0 .. k - 1 : 10 * BD!Abs(met[index[i]]) < eps1

BMet ==
  /\ eps1 \in Int /\ PGmax_new \in Int /\ PGmin_new \in Int /\ met \in [BD!Pos -> Int]
  /\ phase = "block"  => t <= active_size /\ Covered(t) /\ (~updated => Idle(t))
  /\ phase = "select" => Covered(t + s) /\ (~updated /\ workingset = <<>> => Idle(t + s))
  /\ BD!StopsOnAll

\* MulticlassDescent: the sweeps over the instances, and the orders of their classes.
XSweeps ==
  /\ Perm(index, XD!Inst) /\ AtMostOnce(XD!Inst, seen, begun)
  /\ active_size \in 0 .. XL /\ s \in Nat \ {0}
  /\ phase = "sweep" => Swept(index, XD!Inst, 1 .. active_size, s .. active_size, seen, begun)
  /\ (phase = "shuffle" /\ start_from_all) =>
       active_size = XL /\ \A i \in XD!Inst : active_size_i[i] = nr_class
  /\ (phase = "sweep" /\ start_from_all) => begun = XD!Inst /\ full
  /\ XD!StopsOnAll

XClasses ==
  /\ alpha_index \in [XD!Inst -> [XD!Class -> XD!Class]] /\ y_index \in [XD!Inst -> XD!Class]
  /\ active_size_i \in [XD!Inst -> 0 .. nr_class]
  /\ XD!OwnGradient

\* TrustRegion: the numbers that Test compares.
TNumbers ==
  /\ kind \in {"lr", "svc", "svr"}
  /\ wt \in [TR!Feats -> Int] /\ w_new \in [TR!Feats -> Int]
  /\ f \in Int /\ fnew \in Int /\ prered \in Int

IInv ==
  /\ part = "descent" => DSweeps /\ DCaches
  /\ part = "blocks" => BSweeps /\ BBlocks /\ BMet
  /\ part = "multiclass" => XSweeps /\ XClasses
  /\ part = "tron" => TNumbers

-----------------------------------------------------------------------------
(* Orders. *)

LEMMA PermIdentity ==
  ASSUME NEW S
  PROVE  Perm([i \in S |-> i], S)
BY DEF Perm

LEMMA PermSwap ==
  ASSUME NEW S, NEW e, Perm(e, S), NEW a \in S, NEW b \in S
  PROVE  Perm([e EXCEPT ![a] = e[b], ![b] = e[a]], S)
<1>. DEFINE r == [e EXCEPT ![a] = e[b], ![b] = e[a]]
<1>1. r \in [S -> S] /\ r[b] = e[a] /\ r[a] = e[b] /\ \A i \in S : (i # a /\ i # b) => r[i] = e[i]
  BY DEF Perm
<1>. HIDE DEF r
<1>2. \A i, j \in S : r[i] = r[j] => i = j
  BY <1>1 DEF Perm
<1>3. ASSUME NEW x \in S PROVE \E i \in S : r[i] = x
  <2>1. PICK i \in S : e[i] = x
    BY DEF Perm
  <2>2. CASE i = a
    BY <1>1, <2>1, <2>2
  <2>3. CASE i = b
    BY <1>1, <2>1, <2>3
  <2>4. CASE i # a /\ i # b
    BY <1>1, <2>1, <2>4
  <2>. QED
    BY <2>2, <2>3, <2>4
<1>. QED
  BY <1>1, <1>2, <1>3 DEF Perm, r

\* Reordering a part of the positions.
LEMMA PermShuffle ==
  ASSUME NEW S, IsFiniteSet(S), NEW e, Perm(e, S), NEW A \in SUBSET S,
         NEW r \in [S -> S], \A i \in S \ A : r[i] = e[i],
         \A i \in A : \E j \in A : r[j] = e[i]
  PROVE  Perm(r, S)
<1>1. ASSUME NEW x \in S PROVE \E i \in S : r[i] = x
  <2>1. PICK i \in S : e[i] = x
    BY DEF Perm
  <2>2. CASE i \in A
    BY <2>1, <2>2
  <2>3. CASE i \notin A
    BY <2>1, <2>3
  <2>. QED
    BY <2>2, <2>3
<1>2. r \in Surjection(S, S)
  BY <1>1 DEF Surjection
<1>3. r \in Injection(S, S)
  BY <1>2, FS_Surjection
<1>. QED
  BY <1>1, <1>3 DEF Injection, IsInjective, Perm

-----------------------------------------------------------------------------
(* Sweeps. *)

\* A sweep begins with the active elements.
LEMMA SweepBegins ==
  ASSUME NEW S, NEW e, Perm(e, S), NEW A \in SUBSET S, NEW first, first = {e[i] : i \in A}
  PROVE  Swept(e, S, A, A, [x \in S |-> 0], first)
<1>1. e \in [S -> S] /\ \A i, j \in S : e[i] = e[j] => i = j
  BY DEF Perm
<1>2. first \subseteq S /\ \A i \in A : e[i] \in first
  BY <1>1
<1>3. ASSUME NEW i \in S \ A PROVE e[i] \notin first
  BY <1>1
<1>4. \A i \in S : [x \in S |-> 0][e[i]] = 0
  BY <1>1
<1>. QED
  BY <1>2, <1>3, <1>4 DEF Swept

\* The element at a is looked at.  It moves to b, or stays there if a = b, the other
\* elements that are still to come change places in any way, and b is not to come.
LEMMA SweepLooks ==
  ASSUME NEW S, NEW e, Perm(e, S), NEW r, Perm(r, S), NEW A, NEW K, NEW looks, NEW first,
         Swept(e, S, A, K, looks, first),
         NEW a \in K, NEW b \in K, r[b] = e[a], \A i \in S \ K : r[i] = e[i]
  PROVE  Swept(r, S, A, K \ {b}, [looks EXCEPT ![e[a]] = @ + 1], first)
<1>. DEFINE seen2 == [looks EXCEPT ![e[a]] = @ + 1]
<1>1. /\ K \subseteq A /\ A \subseteq S /\ first \subseteq S /\ looks \in [S -> Nat]
      /\ e \in [S -> S] /\ r \in [S -> S] /\ a \in S /\ b \in S /\ e[a] \in S
      /\ \A i, j \in S : e[i] = e[j] => i = j
      /\ \A i, j \in S : r[i] = r[j] => i = j
  BY DEF Perm, Swept
<1>2. looks[e[a]] = 0 /\ e[a] \in first
  BY <1>1 DEF Swept
<1>3. seen2 \in [S -> Nat] /\ seen2[e[a]] = 1 /\ \A x \in S : x # e[a] => seen2[x] = looks[x]
  BY <1>1, <1>2
<1>. HIDE DEF seen2
<1>4. ASSUME NEW i \in K \ {b} PROVE r[i] \in first /\ seen2[r[i]] = 0
  <2>1. PICK j \in S : e[j] = r[i]
    BY <1>1 DEF Perm
  <2>2. j \in K
    BY <1>1, <2>1
  <2>3. j # a
    BY <1>1, <2>1
  <2>4. e[j] # e[a] /\ e[j] \in S
    BY <1>1, <2>3
  <2>5. e[j] \in first /\ looks[e[j]] = 0
    BY <1>1, <2>2 DEF Swept
  <2>. QED
    BY <1>3, <2>1, <2>4, <2>5
<1>5. ASSUME NEW i \in S \ K PROVE seen2[r[i]] = (IF r[i] \in first THEN 1 ELSE 0)
  <2>1. r[i] = e[i] /\ e[i] # e[a] /\ e[i] \in S
    BY <1>1
  <2>2. looks[e[i]] = (IF e[i] \in first THEN 1 ELSE 0)
    BY DEF Swept
  <2>. QED
    BY <1>3, <2>1, <2>2
<1>6. seen2[r[b]] = 1 /\ r[b] \in first
  BY <1>2, <1>3
<1>7. ASSUME NEW i \in A PROVE r[i] \in first
  <2>1. CASE i \in K
    BY <1>4, <1>6, <2>1
  <2>2. CASE i \notin K
    <3>1. r[i] = e[i] /\ e[i] \in first
      BY <1>1, <2>2 DEF Swept
    <3>. QED
      BY <3>1
  <2>. QED
    BY <2>1, <2>2
<1>8. ASSUME NEW i \in S \ (K \ {b}) PROVE seen2[r[i]] = (IF r[i] \in first THEN 1 ELSE 0)
  BY <1>5, <1>6
<1>9. Swept(r, S, A, K \ {b}, seen2, first)
  BY <1>1, <1>3, <1>4, <1>7, <1>8 DEF Swept
<1>. QED
  BY <1>9 DEF seen2

\* The active positions may become fewer.
LEMMA SweepShrinks ==
  ASSUME NEW S, NEW e, NEW A, NEW B, NEW K, NEW looks, NEW first,
         Swept(e, S, A, K, looks, first), B \subseteq A, K \subseteq B
  PROVE  Swept(e, S, B, K, looks, first)
BY DEF Swept

LEMMA SweepOnce ==
  ASSUME NEW S, NEW e, Perm(e, S), NEW A, NEW K, NEW looks, NEW first,
         Swept(e, S, A, K, looks, first)
  PROVE  AtMostOnce(S, looks, first)
<1>1. ASSUME NEW x \in S PROVE looks[x] <= (IF x \in first THEN 1 ELSE 0)
  <2>1. PICK i \in S : e[i] = x
    BY DEF Perm
  <2>2. CASE i \in K
    <3>1. looks[x] = 0
      BY <2>1, <2>2 DEF Swept
    <3>. QED
      BY <3>1
  <2>3. CASE i \notin K
    <3>1. looks[x] = (IF x \in first THEN 1 ELSE 0)
      BY <2>1, <2>3 DEF Swept
    <3>. QED
      BY <3>1
  <2>. QED
    BY <2>2, <2>3
<1>. QED
  BY <1>1 DEF AtMostOnce, Swept

\* When nothing is left, every element has had its look; when all are active, the
\* sweep began with all.
LEMMA SweepEnds ==
  ASSUME NEW S, NEW e, Perm(e, S), NEW A, NEW K, NEW looks, NEW first,
         Swept(e, S, A, K, looks, first)
  PROVE  /\ K = {} => \A x \in first : looks[x] = 1
         /\ A = S => first = S
<1>1. ASSUME K = {}, NEW x \in first PROVE looks[x] = 1
  <2>1. x \in S
    BY DEF Swept
  <2>2. PICK i \in S : e[i] = x
    BY <2>1 DEF Perm
  <2>. QED
    BY <1>1, <2>2 DEF Swept
<1>2. ASSUME A = S, NEW x \in S PROVE x \in first
  <2>1. PICK i \in S : e[i] = x
    BY DEF Perm
  <2>. QED
    BY <1>2, <2>1 DEF Swept
<1>. QED
  BY <1>1, <1>2 DEF Swept

-----------------------------------------------------------------------------
(* CoordinateDescent. *)

LEMMA DFacts ==
  /\ N \in Nat /\ IsFiniteSet(CD!Coord) /\ CD!Coord = 1 .. N
  /\ DSweeps => CD!Size \in 0 .. N
<1>1. N \in Nat
  BY SizesAssumption
<1>2. IsFiniteSet(1 .. N)
  BY <1>1, FS_Interval
<1>. QED
  BY <1>1, <1>2 DEF CD!Coord, CD!Size, DSweeps

\* A coordinate is looked at, and the sweep goes on or the line search begins.
LEMMA DLooks ==
  ASSUME DSweeps, phase = "sweep", s <= CD!Size, CD!Look,
         UNCHANGED <<index, active_size, QP_active_size, level, begun>>,
         \/ phase' = "sweep" /\ s' = s + 1
         \/ phase' = "search" /\ s' = s /\ level = "main"
  PROVE  DSweeps'
<1>. DEFINE S == CD!Coord
            A == 1 .. CD!Size
            K == s .. CD!Size
            J == s + 1 .. CD!Size
<1>1. N \in Nat /\ S = 1 .. N /\ CD!Size \in 0 .. N /\ s \in 1 .. N /\ CD!Size' = CD!Size /\ S' = S
  BY DFacts DEF DSweeps, CD!Size
<1>2. Perm(index, S) /\ Swept(index, S, A, K, seen, begun) /\ s \in K
  BY <1>1 DEF DSweeps
<1>3. seen' = [seen EXCEPT ![index[s]] = @ + 1]
  BY DEF CD!Look
<1>4. K \ {s} = J
  BY <1>1
<1>5. Swept(index, S, A, K \ {s}, seen', begun)
  <2>. HIDE DEF S, A, K
  <2>. QED
    BY <1>2, <1>3, SweepLooks
<1>6. Swept(index, S, A, J, seen', begun)
  BY <1>4, <1>5
<1>7. AtMostOnce(S, seen', begun)
  <2>. HIDE DEF S, A, J
  <2>. QED
    BY <1>2, <1>6, SweepOnce
<1>8. CASE phase' = "sweep" /\ s' = s + 1
  <2>1. Swept(index', S', A', s' .. CD!Size', seen', begun')
    BY <1>1, <1>6, <1>8
  <2>. QED
    BY <1>1, <1>2, <1>7, <1>8, <2>1 DEF DSweeps, CD!StopsOnAll
<1>9. CASE phase' = "search" /\ s' = s /\ level = "main"
  <2>1. Swept(index', S', A', s' + 1 .. CD!Size', seen', begun')
    BY <1>1, <1>6, <1>9
  <2>. QED
    BY <1>1, <1>2, <1>7, <1>9, <2>1 DEF DSweeps, CD!StopsOnAll
<1>. QED
  BY <1>8, <1>9

\* A coordinate is looked at and shrunk.
LEMMA DShrinks ==
  ASSUME DSweeps, phase = "sweep", s <= CD!Size, CD!Shrink, UNCHANGED <<level, begun>>
  PROVE  DSweeps'
<1>. DEFINE S == CD!Coord
            A == 1 .. CD!Size
            K == s .. CD!Size
            b == CD!Size
            r == [index EXCEPT ![s] = index[b], ![b] = index[s]]
<1>1. /\ N \in Nat /\ S = 1 .. N /\ CD!Size \in 0 .. N /\ s \in 1 .. N /\ b \in 1 .. N /\ S' = S
      /\ CD!Size' = CD!Size - 1 /\ s' = s /\ phase' = "sweep"
      /\ active_size' \in 0 .. N /\ QP_active_size' \in 0 .. N
  BY DFacts DEF DSweeps, CD!Size, CD!Shrink
<1>2. Perm(index, S) /\ Swept(index, S, A, K, seen, begun) /\ s \in K /\ b \in K /\ s \in S /\ b \in S
  BY <1>1 DEF DSweeps
<1>3. seen' = [seen EXCEPT ![index[s]] = @ + 1] /\ index' = r
  BY DEF CD!Look, CD!Shrink, CD!Swap
<1>4. Perm(r, S)
  <2>. HIDE DEF S, b
  <2>. QED
    BY <1>2, PermSwap
<1>5. r[b] = index[s] /\ \A i \in S \ K : r[i] = index[i]
  BY <1>2 DEF Perm
<1>6. Swept(r, S, A, K \ {b}, seen', begun)
  <2>. HIDE DEF S, A, K, b, r
  <2>. QED
    BY <1>2, <1>3, <1>4, <1>5, SweepLooks
<1>7. K \ {b} = s' .. CD!Size' /\ K \ {b} \subseteq 1 .. CD!Size' /\ 1 .. CD!Size' \subseteq A
  BY <1>1
<1>8. Swept(r, S, 1 .. CD!Size', K \ {b}, seen', begun)
  <2>. DEFINE B == 1 .. CD!Size'
  <2>. HIDE DEF S, A, K, b, r, B
  <2>. QED
    BY <1>6, <1>7, SweepShrinks DEF B
<1>9. AtMostOnce(S, seen', begun)
  <2>. HIDE DEF S, A, K, b, r
  <2>. QED
    BY <1>4, <1>6, SweepOnce
<1>10. Swept(index', S', 1 .. CD!Size', s' .. CD!Size', seen', begun')
  BY <1>1, <1>3, <1>7, <1>8
<1>11. Perm(index', S') /\ AtMostOnce(S', seen', begun')
  BY <1>1, <1>3, <1>4, <1>9
<1>. HIDE DEF r
<1>. QED
  BY <1>1, <1>10, <1>11 DEF DSweeps, CD!StopsOnAll

\* The line search is over, or goes on.
LEMMA DSearches ==
  ASSUME DSweeps, phase = "search",
         UNCHANGED <<index, active_size, QP_active_size, level, seen, begun>>,
         \/ phase' = "sweep" /\ s' = s + 1
         \/ phase' = "search" /\ s' = s
  PROVE  DSweeps'
<1>1. CD!Size' = CD!Size /\ CD!Coord' = CD!Coord /\ s \in Nat \ {0} /\ level = "main" /\ s <= CD!Size
  BY DEF DSweeps, CD!Size, CD!Coord
<1>2. Swept(index, CD!Coord, 1 .. CD!Size, s + 1 .. CD!Size, seen, begun)
  BY DEF DSweeps
<1>3. CASE phase' = "sweep" /\ s' = s + 1
  <2>1. Swept(index', CD!Coord', 1 .. CD!Size', s' .. CD!Size', seen', begun')
    BY <1>1, <1>2, <1>3
  <2>. QED
    BY <1>1, <1>3, <2>1 DEF DSweeps, CD!StopsOnAll
<1>4. CASE phase' = "search" /\ s' = s
  <2>1. Swept(index', CD!Coord', 1 .. CD!Size', s' + 1 .. CD!Size', seen', begun')
    BY <1>1, <1>2, <1>4
  <2>. QED
    BY <1>1, <1>4, <2>1 DEF DSweeps, CD!StopsOnAll
<1>. QED
  BY <1>3, <1>4

\* Between the sweeps.
LEMMA DIdles ==
  ASSUME DSweeps, UNCHANGED <<index, seen, begun>>, phase' \notin {"sweep", "search"},
         s' = s, active_size' \in 0 .. N, QP_active_size' \in 0 .. N,
         phase' = "done" => begun = CD!Coord /\ CD!WithinEps'
  PROVE  DSweeps'
BY DEF DSweeps, CD!StopsOnAll, CD!Coord

\* A sweep begins: over the first positions in a new order, or over all.
LEMMA DBegins ==
  ASSUME DSweeps, CD!NewSweep, NEW k \in 0 .. N, k = CD!Size',
         active_size' \in 0 .. N, QP_active_size' \in 0 .. N,
         Perm(index', CD!Coord), begun' = {index'[i] : i \in 1 .. k},
         level = "outer" => begun' = CD!Coord
  PROVE  DSweeps'
<1>. DEFINE S == CD!Coord
            A == 1 .. k
<1>1. N \in Nat /\ S = 1 .. N /\ S' = S /\ A \in SUBSET S /\ IsFiniteSet(S)
  BY DFacts
<1>2. s' = 1 /\ phase' = "sweep" /\ level' = level /\ seen' = [x \in S |-> 0]
  BY DEF CD!NewSweep
<1>. PICK e : e = index'
  OBVIOUS
<1>. PICK first : first = begun'
  OBVIOUS
<1>. PICK looks : looks = seen'
  OBVIOUS
<1>3a. Perm(e, S) /\ first = {e[i] : i \in A} /\ looks = [x \in S |-> 0]
  BY <1>2
<1>3b. Swept(e, S, A, A, looks, first)
  <2>. HIDE DEF S, A
  <2>. QED
    BY <1>1, <1>3a, SweepBegins
<1>3. Swept(index', S, A, A, [x \in S |-> 0], begun')
  BY <1>3a, <1>3b
<1>4. AtMostOnce(S, seen', begun')
  <2>1. AtMostOnce(S, looks, first)
    <3>. HIDE DEF S, A
    <3>. QED
      BY <1>3a, <1>3b, SweepOnce
  <2>. QED
    BY <2>1
<1>5. Swept(index', S', 1 .. CD!Size', s' .. CD!Size', seen', begun')
  BY <1>1, <1>2, <1>3
<1>6. Perm(index', S') /\ AtMostOnce(S', seen', begun')
  BY <1>1, <1>4
<1>. QED
  BY <1>1, <1>2, <1>5, <1>6 DEF DSweeps, CD!StopsOnAll

LEMMA DShuffles ==
  ASSUME DSweeps, CD!Shuffle
  PROVE  DSweeps'
<1>. DEFINE S == CD!Coord
            A == 1 .. CD!Size
<1>1. /\ N \in Nat /\ S = 1 .. N /\ IsFiniteSet(S) /\ CD!Size \in 0 .. N /\ A \in SUBSET S
      /\ active_size \in 0 .. N /\ QP_active_size \in 0 .. N
  BY DFacts DEF DSweeps
<1>2. /\ UNCHANGED <<active_size, QP_active_size, level>> /\ CD!NewSweep /\ level # "outer"
      /\ CD!Size' = CD!Size /\ begun' = {index[i] : i \in A}
  BY DEF CD!Shuffle, CD!NewSweep, CD!Size, CD!Prefix
<1>3. /\ index' \in [S -> S] /\ \A i \in S : i > CD!Size => index'[i] = index[i]
      /\ {index'[i] : i \in A} = {index[i] : i \in A}
  BY DEF CD!Shuffle, CD!Shuffles, CD!Prefix
<1>4. \A i \in S \ A : index'[i] = index[i]
  BY <1>1, <1>3
<1>5. Perm(index, S)
  BY DEF DSweeps
<1>6. Perm(index', S)
  <2>. PICK r : r = index'
    OBVIOUS
  <2>1. r \in [S -> S] /\ (\A i \in S \ A : r[i] = index[i]) /\ \A i \in A : \E j \in A : r[j] = index[i]
    BY <1>3, <1>4
  <2>2. IsFiniteSet(S) /\ A \in SUBSET S
    BY <1>1
  <2>3. Perm(r, S)
    <3>. HIDE DEF S, A
    <3>. QED
      BY ONLY <1>5, <2>1, <2>2, PermShuffle
  <2>. QED
    BY <2>3
<1>7. begun' = {index'[i] : i \in 1 .. CD!Size}
  BY <1>2, <1>3
<1>. QED
  BY <1>1, <1>2, <1>6, <1>7, DBegins

LEMMA DSweepsAll ==
  ASSUME DSweeps, DCaches, CD!OuterSweep
  PROVE  DSweeps'
<1>1. /\ N \in Nat /\ CD!Coord = 1 .. N /\ Perm(index, CD!Coord) /\ QP_active_size \in 0 .. N
      /\ N \in 0 .. N
  BY DFacts DEF DSweeps
<1>2. /\ UNCHANGED <<index, QP_active_size, level>> /\ CD!NewSweep /\ level = "outer"
      /\ active_size' = N /\ begun' = CD!Coord
  BY DEF CD!OuterSweep, CD!NewSweep
<1>3. CD!Size' = N
  BY <1>2 DEF CD!Size
<1>4. begun' = {index'[i] : i \in 1 .. N}
  <2>1. \A x \in 1 .. N : \E i \in 1 .. N : index[i] = x
    BY <1>1 DEF Perm
  <2>2. \A i \in 1 .. N : index[i] \in 1 .. N
    BY <1>1 DEF Perm
  <2>. QED
    BY <1>1, <1>2, <2>1, <2>2
<1>5. Perm(index', CD!Coord)
  BY <1>1, <1>2
<1>. QED
  BY <1>1, <1>2, <1>3, <1>4, <1>5, DBegins

LEMMA DExamines ==
  ASSUME DSweeps, DCaches, NEW x,
         CD!SvrExamine(x) \/ CD!LrDualExamine(x) \/ CD!L1SvcExamine(x) \/ CD!OuterExamine(x) \/ CD!QPExamine(x)
  PROVE  DSweeps' /\ DCaches'
<1>1. phase = "sweep" /\ s <= CD!Size /\ UNCHANGED <<level, begun, exp_fits, given_up>>
  BY DEF CD!SvrExamine, CD!LrDualExamine, CD!L1SvcExamine, CD!OuterExamine, CD!QPExamine, CD!InSweep
<1>2. CASE CD!Shrink
  <2>1. DSweeps'
    BY <1>1, <1>2, DShrinks
  <2>2. UNCHANGED <<phase, dist, xTd, d, applied, w, wpd>>
    BY <1>2 DEF CD!Shrink, CD!searchVars
  <2>. QED
    BY <1>1, <2>1, <2>2 DEF DCaches
<1>3. CASE CD!Look /\ CD!Advance /\ UNCHANGED <<d, applied, dist, xTd>> /\ (level = "outer" => UNCHANGED <<w, wpd>>)
  <2>1. phase' = phase /\ s' = s + 1 /\ UNCHANGED <<index, active_size, QP_active_size>>
    BY <1>3 DEF CD!Advance
  <2>2. DSweeps'
    BY <1>1, <1>3, <2>1, DLooks
  <2>. QED
    BY <1>1, <1>3, <2>1, <2>2 DEF DCaches
<1>4. CASE CD!L1SvcExamine(x) /\ ~CD!Shrink /\ ~CD!Advance
  <2>1. /\ CD!Look /\ phase' = "search" /\ level = "main"
        /\ UNCHANGED <<s, index, active_size, QP_active_size, dist, xTd>>
    BY <1>4 DEF CD!L1SvcExamine, CD!InSweep
  <2>2. DSweeps'
    BY <1>1, <2>1, DLooks
  <2>. QED
    BY <1>1, <2>1, <2>2 DEF DCaches
<1>5. CASE CD!QPExamine(x) /\ ~CD!Shrink
  <2>1. CD!Look /\ CD!Advance /\ UNCHANGED <<d, applied>> /\ level = "qp"
    BY <1>5 DEF CD!QPExamine, CD!InSweep, CD!searchVars
  <2>2. dist = xTd => dist' = xTd'
    BY <1>5 DEF CD!QPExamine
  <2>3. phase' = phase /\ s' = s + 1 /\ UNCHANGED <<index, active_size, QP_active_size>>
    BY <2>1 DEF CD!Advance
  <2>4. DSweeps'
    BY <1>1, <2>1, <2>3, DLooks
  <2>. QED
    BY <1>1, <2>1, <2>2, <2>3, <2>4 DEF DCaches
<1>6. CASE CD!SvrExamine(x) /\ ~CD!Shrink
  BY <1>3, <1>6 DEF CD!SvrExamine, CD!InSweep, CD!searchVars
<1>7. CASE CD!LrDualExamine(x)
  BY <1>3, <1>7 DEF CD!LrDualExamine, CD!searchVars
<1>8. CASE CD!OuterExamine(x) /\ ~CD!Shrink
  BY <1>3, <1>8 DEF CD!OuterExamine, CD!searchVars
<1>9. CASE CD!L1SvcExamine(x) /\ ~CD!Shrink /\ CD!Advance
  <2>1. phase' = phase
    BY <1>9 DEF CD!Advance
  <2>2. phase' # "search"
    BY <1>1, <2>1
  <2>3. CD!Look /\ UNCHANGED <<d, applied, dist, xTd>> /\ level = "main"
    BY <1>9, <2>2 DEF CD!L1SvcExamine, CD!InSweep, CD!searchVars
  <2>. QED
    BY <1>3, <1>9, <2>3
<1>. QED
  BY <1>2, <1>4, <1>5, <1>6, <1>7, <1>8, <1>9

LEMMA DSearch ==
  ASSUME DSweeps, DCaches, (\E good \in BOOLEAN : CD!TryStep(good)) \/ CD!GiveUp
  PROVE  DSweeps' /\ DCaches'
<1>1. /\ phase = "search"
      /\ UNCHANGED <<index, active_size, QP_active_size, level, seen, begun, w, wpd, dist, xTd, exp_fits, given_up>>
  BY DEF CD!TryStep, CD!GiveUp, CD!newtonVars
<1>2. \/ phase' = "sweep" /\ s' = s + 1 /\ applied' = d'
      \/ phase' = "search" /\ s' = s
  BY <1>1 DEF CD!TryStep, CD!GiveUp
<1>3. DSweeps'
  BY <1>1, <1>2, DSearches
<1>4. DCaches'
  BY <1>1, <1>2 DEF DCaches
<1>. QED
  BY <1>3, <1>4

\* The end of a sweep: a solver that stops has swept over all coordinates.
LEMMA DEnds ==
  ASSUME DSweeps, DCaches, CD!EndSweep \/ CD!EndOuter \/ CD!EndQP
  PROVE  DSweeps' /\ DCaches'
<1>1. /\ phase = "sweep" /\ UNCHANGED <<index, s, Gmax_new, Gnorm1_new, solver, d, applied, dist, exp_fits, given_up, seen, begun>>
  BY DEF CD!EndSweep, CD!EndOuter, CD!EndQP, CD!SweepOver, CD!searchVars
<1>2. N \in Nat /\ N \in 0 .. N /\ active_size \in 0 .. N /\ QP_active_size \in 0 .. N /\ CD!Coord = 1 .. N
  BY DFacts DEF DSweeps
<1>3. CD!WithinEps' = CD!WithinEps
  BY <1>1 DEF CD!WithinEps
<1>4. /\ Perm(index, CD!Coord)
      /\ Swept(index, CD!Coord, 1 .. CD!Size, s .. CD!Size, seen, begun)
  BY <1>1 DEF DSweeps
<1>5. CASE CD!EndSweep
  <2>1. /\ level = "main" /\ UNCHANGED <<level, QP_active_size, xTd>>
        /\ \/ phase' = "done" /\ CD!WithinEps /\ active_size = N /\ active_size' = active_size
           \/ phase' = "shuffle" /\ active_size' \in {N, active_size}
    BY <1>5 DEF CD!EndSweep, CD!SweepOver
  <2>2. ASSUME phase' = "done" PROVE begun = CD!Coord
    <3>1. 1 .. CD!Size = CD!Coord
      BY <1>2, <2>1, <2>2 DEF CD!Size
    <3>. QED
      BY <1>4, <3>1, SweepEnds
  <2>3. phase' \notin {"sweep", "search"} /\ active_size' \in 0 .. N /\ QP_active_size' \in 0 .. N
    BY <1>2, <2>1
  <2>4. phase' = "done" => CD!WithinEps'
    BY <1>3, <2>1
  <2>5. DSweeps'
    BY <1>1, <2>2, <2>3, <2>4, DIdles
  <2>. QED
    BY <1>1, <2>1, <2>5 DEF DCaches
<1>6. CASE CD!EndOuter
  <2>1. /\ level = "outer" /\ active_size' = active_size
        /\ \/ phase' = "done" /\ CD!WithinEps /\ UNCHANGED <<level, QP_active_size, xTd>>
           \/ phase' = "shuffle" /\ level' = "qp" /\ QP_active_size' = active_size /\ xTd' = 0
    BY <1>6 DEF CD!EndOuter, CD!SweepOver
  <2>2. begun = CD!Coord
    BY <1>1, <2>1 DEF DSweeps
  <2>3. phase' \notin {"sweep", "search"} /\ active_size' \in 0 .. N /\ QP_active_size' \in 0 .. N
    BY <1>2, <2>1
  <2>4. phase' = "done" => CD!WithinEps'
    BY <1>3, <2>1
  <2>5. DSweeps'
    BY <1>1, <2>2, <2>3, <2>4, DIdles
  <2>6. UNCHANGED <<w, wpd>>
    BY <1>6 DEF CD!EndOuter, CD!SweepOver
  <2>. QED
    BY <1>1, <2>1, <2>5, <2>6 DEF DCaches
<1>7. CASE CD!EndQP
  <2>1. /\ level = "qp" /\ UNCHANGED <<level, active_size, xTd>>
        /\ phase' \in {"linesearch", "shuffle"} /\ QP_active_size' \in {active_size, QP_active_size}
    BY <1>7 DEF CD!EndQP, CD!SweepOver
  <2>2. phase' \notin {"sweep", "search", "done"} /\ active_size' \in 0 .. N /\ QP_active_size' \in 0 .. N
    BY <1>2, <2>1
  <2>3. DSweeps'
    BY <1>1, <2>2, DIdles
  <2>. QED
    BY <1>1, <2>1, <2>3 DEF DCaches
<1>. QED
  BY <1>5, <1>6, <1>7

LEMMA DOthers ==
  ASSUME DSweeps, DCaches,
         \/ CD!TooManySweeps
         \/ \E k \in 0 .. max_num_linesearch - 1 : CD!Accept(k)
         \/ \E raced \in BOOLEAN : CD!NewtonGiveUp(raced)
  PROVE  DSweeps' /\ DCaches'
<1>1. N \in Nat /\ active_size \in 0 .. N /\ QP_active_size \in 0 .. N
  BY DFacts DEF DSweeps
<1>2. CASE CD!TooManySweeps
  <2>1. /\ UNCHANGED <<index, seen, begun, s, active_size, QP_active_size, level, d, applied, w, wpd, dist, xTd, exp_fits, given_up>>
        /\ phase = "shuffle" /\ \/ phase' = "exhausted"
                                \/ phase' = "linesearch" /\ level = "qp"
    BY <1>2 DEF CD!TooManySweeps, CD!searchVars, CD!newtonVars
  <2>2. DSweeps'
    BY <1>1, <2>1, DIdles
  <2>. QED
    BY <2>1, <2>2 DEF DCaches
<1>3. CASE \E k \in 0 .. max_num_linesearch - 1 : CD!Accept(k)
  <2>1. /\ UNCHANGED <<index, seen, begun, s, active_size, QP_active_size, d, applied, given_up>>
        /\ phase = "linesearch" /\ phase' = "shuffle" /\ level' = "outer" /\ dist' = 0 /\ wpd' = w'
        /\ exp_fits' = (exp_fits /\ dist = xTd)
    BY <1>3 DEF CD!Accept, CD!NextNewton, CD!searchVars
  <2>2. DSweeps'
    BY <1>1, <2>1, DIdles
  <2>3. exp_fits' \/ given_up'
    BY <2>1 DEF DCaches
  <2>. QED
    BY <2>1, <2>2, <2>3 DEF DCaches
<1>4. CASE \E raced \in BOOLEAN : CD!NewtonGiveUp(raced)
  <2>1. /\ UNCHANGED <<index, seen, begun, s, active_size, QP_active_size, d, applied>>
        /\ phase = "linesearch" /\ phase' = "shuffle" /\ level' = "outer" /\ given_up' = TRUE
    BY <1>4 DEF CD!NewtonGiveUp, CD!NextNewton, CD!searchVars
  <2>2. DSweeps'
    BY <1>1, <2>1, DIdles
  <2>. QED
    BY <2>1, <2>2 DEF DCaches
<1>. QED
  BY <1>2, <1>3, <1>4

LEMMA DInitial ==
  ASSUME CD!DInit
  PROVE  DSweeps /\ DCaches
<1>1. N \in Nat /\ N \in 0 .. N
  BY DFacts
<1>2. /\ phase = "shuffle" /\ index = [i \in CD!Coord |-> i] /\ active_size = N /\ QP_active_size = N
      /\ s = 1 /\ seen = [i \in CD!Coord |-> 0] /\ begun = CD!Coord
      /\ d = 0 /\ applied = 0 /\ wpd = w /\ dist = 0 /\ exp_fits = TRUE /\ level \in {"main", "outer"}
  BY DEF CD!DInit, CD!SvrInit, CD!L1SvcInit, CD!L1LrInit, CD!LrDualInit
<1>3. Perm(index, CD!Coord)
  BY <1>2, PermIdentity
<1>4. AtMostOnce(CD!Coord, seen, begun)
  BY <1>2 DEF AtMostOnce
<1>. QED
  BY <1>1, <1>2, <1>3, <1>4 DEF DSweeps, DCaches, CD!StopsOnAll

LEMMA DStep ==
  ASSUME DSweeps, DCaches, CD!DNext
  PROVE  DSweeps' /\ DCaches'
<1>1. CASE CD!Shuffle
  <2>1. UNCHANGED <<level, d, applied, w, wpd, dist, xTd, exp_fits, given_up>> /\ phase = "shuffle" /\ phase' = "sweep"
    BY <1>1 DEF CD!Shuffle, CD!NewSweep, CD!searchVars, CD!newtonVars
  <2>2. DSweeps'
    BY <1>1, DShuffles
  <2>. QED
    BY <2>1, <2>2 DEF DCaches
<1>2. CASE CD!OuterSweep
  <2>1. UNCHANGED <<level, d, applied, w, wpd, dist, xTd, exp_fits, given_up>> /\ phase = "shuffle" /\ phase' = "sweep"
    BY <1>2 DEF CD!OuterSweep, CD!NewSweep, CD!searchVars, CD!newtonVars
  <2>2. DSweeps'
    BY <1>2, DSweepsAll
  <2>. QED
    BY <2>1, <2>2 DEF DCaches
<1>3. ASSUME NEW x \in Gradients,
             CD!SvrExamine(x) \/ CD!LrDualExamine(x) \/ CD!L1SvcExamine(x) \/ CD!OuterExamine(x) \/ CD!QPExamine(x)
      PROVE  DSweeps' /\ DCaches'
  BY <1>3, DExamines
<1>4. CASE (\E good \in BOOLEAN : CD!TryStep(good)) \/ CD!GiveUp
  BY <1>4, DSearch
<1>5. CASE CD!EndSweep \/ CD!EndOuter \/ CD!EndQP
  BY <1>5, DEnds
<1>6. CASE \/ CD!TooManySweeps
           \/ \E k \in 0 .. max_num_linesearch - 1 : CD!Accept(k)
           \/ \E raced \in BOOLEAN : CD!NewtonGiveUp(raced)
  BY <1>6, DOthers
<1>. QED
  BY <1>1, <1>2, <1>3, <1>4, <1>5, <1>6 DEF CD!DNext

\* What the run checks of CoordinateDescent.
LEMMA DChecked ==
  ASSUME DSweeps, DCaches
  PROVE  CD!LooksOnce /\ CD!StopsOnAll /\ CD!CacheFits
<1>1. N \in Nat /\ CD!Coord = 1 .. N /\ CD!Size \in 0 .. N /\ Perm(index, CD!Coord) /\ s \in Nat
  BY DFacts DEF DSweeps
<1>2. CD!Prefix(N) = CD!Coord
  <2>1. \A x \in 1 .. N : \E i \in 1 .. N : index[i] = x
    BY <1>1 DEF Perm
  <2>2. \A i \in 1 .. N : index[i] \in 1 .. N
    BY <1>1 DEF Perm
  <2>. QED
    BY <1>1, <2>1, <2>2 DEF CD!Prefix
<1>3. \A i \in CD!Coord : seen[i] <= (IF i \in begun THEN 1 ELSE 0)
  BY DEF DSweeps, AtMostOnce
<1>4. ASSUME phase = "sweep", s > CD!Size PROVE \A i \in begun : seen[i] = 1
  <2>1. Swept(index, CD!Coord, 1 .. CD!Size, s .. CD!Size, seen, begun)
    BY <1>4 DEF DSweeps
  <2>2. s .. CD!Size = {}
    BY <1>1, <1>4
  <2>. QED
    BY <1>1, <2>1, <2>2, SweepEnds
<1>5. CD!LooksOnce
  BY <1>2, <1>3, <1>4 DEF CD!LooksOnce
<1>6. CD!CacheFits
  BY DEF DCaches, CD!CacheFits
<1>. QED
  BY <1>5, <1>6 DEF DSweeps

-----------------------------------------------------------------------------
(* BlockDescent. *)

LEMMA BFacts ==
  /\ L \in Nat /\ BD!Pos = 0 .. L - 1 /\ IsFiniteSet(BD!Pos)
  /\ init_candidates_size \in Nat \ {0, 1} /\ max_candidates_size \in Nat \ {0}
<1>1. L \in Nat /\ init_candidates_size \in Nat \ {0, 1} /\ max_candidates_size \in Nat \ {0}
  BY SizesAssumption
<1>2. 0 \in Int /\ L - 1 \in Int
  BY <1>1
<1>3. IsFiniteSet(0 .. L - 1)
  BY <1>2, FS_Interval
<1>. QED
  BY <1>1, <1>3 DEF BD!Pos

LEMMA BInitial ==
  ASSUME BD!BInit
  PROVE  BSweeps /\ BBlocks
<1>1. L \in Nat /\ L \in 0 .. L
  BY BFacts
<1>2. /\ phase = "shuffle" /\ index = [i \in BD!Pos |-> i] /\ active_size = L /\ t = 0 /\ send = 0 /\ s = 0
      /\ Grad = [u \in 0 .. max_candidates_size - 1 |-> 0] /\ workingset = <<>>
      /\ candidates_size = BD!MinOf(init_candidates_size, max_candidates_size)
      /\ seen = [i \in BD!Pos |-> 0] /\ begun = BD!Pos
  BY DEF BD!BInit
<1>3. Perm(index, BD!Pos)
  BY <1>2, PermIdentity
<1>4. AtMostOnce(BD!Pos, seen, begun)
  BY <1>2 DEF AtMostOnce
<1>5. BSweeps
  BY <1>1, <1>2, <1>3, <1>4 DEF BSweeps
<1>6. candidates_size \in 1 .. max_candidates_size
  BY <1>2, BFacts DEF BD!MinOf
<1>7. workingset \in Seq(BD!Pos) /\ Len(workingset) = 0
  BY <1>2
<1>8. DOMAIN Grad = 0 .. max_candidates_size - 1
  BY <1>2
<1>9. BBlocks
  BY <1>2, <1>6, <1>7, <1>8, BFacts DEF BBlocks
<1>. QED
  BY <1>5, <1>9

LEMMA BShuffles ==
  ASSUME BSweeps, BBlocks, BD!Shuffle
  PROVE  BSweeps' /\ BBlocks'
<1>. DEFINE S == BD!Pos
            A == 0 .. active_size - 1
<1>1. /\ L \in Nat /\ S = 0 .. L - 1 /\ IsFiniteSet(S) /\ active_size \in 0 .. L /\ A \in SUBSET S /\ S' = S
  BY BFacts DEF BSweeps
<1>2. /\ UNCHANGED <<active_size, send, s, Grad, workingset, candidates_size>>
      /\ t' = 0 /\ phase' = "block" /\ seen' = [x \in S |-> 0]
      /\ begun' = {index[i] : i \in A}
  BY DEF BD!Shuffle, BD!Prefix
<1>3. /\ index' \in [S -> S] /\ \A i \in S : i >= active_size => index'[i] = index[i]
      /\ {index'[i] : i \in A} = {index[i] : i \in A}
  BY DEF BD!Shuffle, BD!Prefix
<1>. PICK r : r = index'
  OBVIOUS
<1>. PICK first : first = begun'
  OBVIOUS
<1>. PICK looks : looks = seen'
  OBVIOUS
<1>4. Perm(index, S)
  BY DEF BSweeps
<1>5. Perm(r, S)
  <2>0. \A i \in S \ A : i \in S /\ i >= active_size
    BY <1>1
  <2>1. r \in [S -> S] /\ (\A i \in S \ A : r[i] = index[i]) /\ \A i \in A : \E j \in A : r[j] = index[i]
    <3>. HIDE DEF S, A
    <3>. QED
      BY <1>3, <2>0
  <2>2. IsFiniteSet(S) /\ A \in SUBSET S
    BY <1>1
  <2>. HIDE DEF S, A
  <2>. QED
    BY ONLY <1>4, <2>1, <2>2, PermShuffle
<1>6. first = {r[i] : i \in A} /\ looks = [x \in S |-> 0] /\ A \in SUBSET S
  BY <1>1, <1>2, <1>3
<1>7. Swept(r, S, A, A, looks, first)
  <2>. HIDE DEF S, A
  <2>. QED
    BY <1>5, <1>6, SweepBegins
<1>8. AtMostOnce(S, looks, first)
  <2>. HIDE DEF S, A
  <2>. QED
    BY <1>5, <1>7, SweepOnce
<1>9. Perm(index', S') /\ AtMostOnce(S', seen', begun')
  BY <1>1, <1>5, <1>8
<1>10. Swept(index', S', 0 .. active_size' - 1, t' .. active_size' - 1, seen', begun')
  BY <1>1, <1>2, <1>7
<1>11. BSweeps'
  BY <1>1, <1>2, <1>9, <1>10 DEF BSweeps
<1>12. BBlocks'
  BY <1>1, <1>2 DEF BBlocks
<1>. QED
  BY <1>11, <1>12

LEMMA BGradients ==
  ASSUME BSweeps, BBlocks, BD!BlockGradients
  PROVE  BSweeps' /\ BBlocks'
<1>1. /\ L \in Nat /\ active_size \in 0 .. L /\ t \in Nat /\ candidates_size \in 1 .. max_candidates_size
      /\ max_candidates_size \in Nat /\ phase = "block" /\ t < active_size
  BY BFacts DEF BSweeps, BBlocks, BD!BlockGradients
<1>2. /\ UNCHANGED <<index, active_size, t, candidates_size, updated, seen, begun>>
      /\ send' = BD!MinOf(candidates_size, active_size - t) /\ s' = 0 /\ workingset' = <<>> /\ phase' = "select"
      /\ Grad' = [u \in DOMAIN Grad |-> IF u < send' THEN index[t + u] ELSE Grad[u]]
  BY DEF BD!BlockGradients
<1>3. send' \in Nat /\ send' <= candidates_size /\ t + send' <= active_size
  BY <1>1, <1>2 DEF BD!MinOf
<1>4. Swept(index', BD!Pos', 0 .. active_size' - 1, t' + s' .. active_size' - 1, seen', begun')
  <2>1. Swept(index, BD!Pos, 0 .. active_size - 1, t .. active_size - 1, seen, begun)
    BY <1>1 DEF BSweeps
  <2>2. t' + s' = t /\ BD!Pos' = BD!Pos
    BY <1>1, <1>2
  <2>. QED
    BY <1>2, <2>1, <2>2
<1>5. Perm(index', BD!Pos') /\ AtMostOnce(BD!Pos', seen', begun')
  BY <1>2 DEF BSweeps
<1>6. BSweeps'
  BY <1>1, <1>2, <1>3, <1>4, <1>5 DEF BSweeps
<1>7. \A u \in s' .. send' - 1 : Grad'[u] = index'[t' + u]
  <2>1. \A u \in 0 .. send' - 1 : u \in DOMAIN Grad /\ u < send'
    BY <1>1, <1>3 DEF BBlocks
  <2>. QED
    BY <1>2, <2>1
<1>8. workingset' \in Seq(BD!Pos') /\ Len(workingset') = 0 /\ DOMAIN Grad' = 0 .. max_candidates_size - 1
  BY <1>2 DEF BBlocks
<1>9. BBlocks'
  BY <1>1, <1>2, <1>3, <1>7, <1>8 DEF BBlocks
<1>. QED
  BY <1>6, <1>9

\* An instance is looked at and shrunk: three places may change.
LEMMA BShrinks ==
  ASSUME BSweeps, BBlocks, NEW g0 \in BD!Met, BD!Shrink(g0)
  PROVE  BSweeps' /\ BBlocks'
<1>. DEFINE S == BD!Pos
            A == 0 .. active_size - 1
            K == t + s .. active_size - 1
            a == t + s
            c == t + (send - 1)
            b == active_size - 1
            r == BD!Candidates(send - 1, active_size - 1)
<1>1. /\ L \in Nat /\ S = 0 .. L - 1 /\ S' = S /\ active_size \in 0 .. L /\ t \in Nat /\ s \in Nat /\ send \in Nat
      /\ phase = "select" /\ s < send /\ t + send <= active_size /\ send <= candidates_size
      /\ candidates_size \in 1 .. max_candidates_size /\ max_candidates_size \in Nat
  BY BFacts DEF BSweeps, BBlocks, BD!Shrink
<1>2. /\ a \in S /\ b \in S /\ c \in S /\ a \in K /\ b \in K /\ c \in K /\ a <= c /\ c <= b
      /\ send - 1 \in Nat /\ active_size - 1 \in 0 .. L
  BY <1>1
<1>3. /\ active_size' = active_size - 1 /\ send' = send - 1
      /\ seen' = [seen EXCEPT ![index[a]] = @ + 1]
      /\ Grad' = [Grad EXCEPT ![s] = Grad[send']]
      /\ UNCHANGED <<phase, t, s, workingset, candidates_size, updated, begun>>
  BY DEF BD!Shrink, BD!Look
<1>4. index' = r
  BY <1>3 DEF BD!Shrink
<1>5. Perm(index, S) /\ index \in [S -> S]
  BY DEF BSweeps, Perm
<1>6. /\ r \in [S -> S] /\ r[b] = index[a] /\ (a # c => r[a] = index[c])
      /\ \A i \in S : (i # a /\ i # b /\ i # c) => r[i] = index[i]
  <2>1. CASE c = b
    <3>1. r = [index EXCEPT ![a] = index[c], ![c] = index[a]]
      BY <1>1, <2>1 DEF BD!Candidates
    <3>. HIDE DEF S, a, b, c, r
    <3>. QED
      BY <1>2, <1>5, <2>1, <3>1
  <2>2. CASE c # b
    <3>1. r = [index EXCEPT ![b] = index[a], ![a] = index[c], ![c] = index[b]]
      BY <1>1, <2>2 DEF BD!Candidates
    <3>2. a # b
      BY <1>2, <2>2
    <3>. HIDE DEF S, a, b, c, r
    <3>. QED
      BY <1>2, <1>5, <2>2, <3>1, <3>2
  <2>. QED
    BY <2>1, <2>2
<1>7. Perm(r, S)
  <2>1. CASE c = b
    <3>1. r = [index EXCEPT ![a] = index[b], ![b] = index[a]]
      BY <1>1, <2>1 DEF BD!Candidates
    <3>. HIDE DEF S, a, b, c, r
    <3>. QED
      BY <1>2, <1>5, <3>1, PermSwap
  <2>2. CASE c # b
    <3>1. r = [index EXCEPT ![b] = index[a], ![a] = index[c], ![c] = index[b]]
      BY <1>1, <2>2 DEF BD!Candidates
    <3>2. CASE a = c
      <4>1. r = [index EXCEPT ![a] = index[b], ![b] = index[a]]
        <5>. HIDE DEF S, a, b, c, r
        <5>. QED
          BY <1>2, <1>5, <2>2, <3>1, <3>2
      <4>. HIDE DEF S, a, b, c, r
      <4>. QED
        BY <1>2, <1>5, <4>1, PermSwap
    <3>3. CASE a # c
      <4>. DEFINE q == [index EXCEPT ![a] = index[c], ![c] = index[a]]
      <4>1. Perm(q, S)
        <5>. HIDE DEF S, a, b, c
        <5>. QED
          BY <1>2, <1>5, PermSwap
      <4>2. Perm([q EXCEPT ![c] = q[b], ![b] = q[c]], S)
        <5>. HIDE DEF S, a, b, c, q
        <5>. QED
          BY <1>2, <4>1, PermSwap
      <4>3. a # b
        BY <1>2, <2>2
      <4>4. r = [q EXCEPT ![c] = q[b], ![b] = q[c]]
        <5>. HIDE DEF S, a, b, c, r
        <5>. QED
          BY <1>2, <1>5, <2>2, <3>1, <3>3, <4>3
      <4>. QED
        BY <4>2, <4>4
    <3>. QED
      BY <3>2, <3>3
  <2>. QED
    BY <2>1, <2>2
<1>8. Swept(index, S, A, K, seen, begun)
  BY <1>1 DEF BSweeps
<1>9. \A i \in S \ K : r[i] = index[i]
  BY <1>2, <1>6
<1>10. Swept(r, S, A, K \ {b}, seen', begun)
  <2>. HIDE DEF S, A, K, a, b, c, r
  <2>. QED
    BY <1>2, <1>3, <1>5, <1>6, <1>7, <1>8, <1>9, SweepLooks
<1>11. /\ K \ {b} = t' + s' .. active_size' - 1 /\ 0 .. active_size' - 1 \subseteq A
       /\ K \ {b} \subseteq 0 .. active_size' - 1
  BY <1>1, <1>3
<1>12. Swept(r, S, 0 .. active_size' - 1, K \ {b}, seen', begun)
  <2>. DEFINE B == 0 .. active_size' - 1
  <2>. HIDE DEF S, A, K, a, b, c, r, B
  <2>. QED
    BY <1>10, <1>11, SweepShrinks DEF B
<1>13. AtMostOnce(S, seen', begun)
  <2>. HIDE DEF S, A, K, a, b, c, r
  <2>. QED
    BY <1>7, <1>10, SweepOnce
<1>14. Swept(index', S', 0 .. active_size' - 1, t' + s' .. active_size' - 1, seen', begun')
  BY <1>1, <1>3, <1>4, <1>11, <1>12
<1>15. Perm(index', S') /\ AtMostOnce(S', seen', begun')
  BY <1>1, <1>3, <1>4, <1>7, <1>13
<1>16. BSweeps'
  <2>. HIDE DEF r
  <2>. QED
    BY <1>1, <1>2, <1>3, <1>14, <1>15 DEF BSweeps
<1>17. ASSUME NEW u \in s' .. send' - 1 PROVE Grad'[u] = index'[t' + u]
  <2>0. u \in s .. send - 2 /\ u \in Nat /\ u < send - 1
    BY <1>1, <1>3
  <2>1. /\ u \in DOMAIN Grad /\ s \in DOMAIN Grad /\ send - 1 \in s .. send - 1
        /\ u \in s .. send - 1 /\ t + u \in S /\ a # c
    <3>1. DOMAIN Grad = 0 .. max_candidates_size - 1
      BY DEF BBlocks
    <3>2. u \in 0 .. max_candidates_size - 1 /\ s \in 0 .. max_candidates_size - 1
      BY <1>1, <2>0
    <3>3. send - 1 \in s .. send - 1 /\ u \in s .. send - 1 /\ t + u \in S /\ a # c
      BY <1>1, <2>0
    <3>. QED
      BY <3>1, <3>2, <3>3
  <2>2. \A k \in s .. send - 1 : Grad[k] = index[t + k]
    BY <1>1 DEF BBlocks
  <2>3. CASE u = s
    <3>1. Grad'[u] = Grad[send - 1] /\ Grad[send - 1] = index[c]
      BY <1>3, <2>1, <2>2, <2>3
    <3>2. t' + u = a /\ index'[a] = index[c]
      BY <1>3, <1>4, <1>6, <2>1, <2>3
    <3>. QED
      BY <3>1, <3>2
  <2>4. CASE u # s
    <3>1. Grad'[u] = Grad[u] /\ Grad[u] = index[t + u]
      BY <1>3, <2>1, <2>2, <2>4
    <3>2. t + u # a /\ t + u # c /\ t + u # b
      BY <1>1, <2>0, <2>4
    <3>3. index'[t + u] = index[t + u] /\ t' = t
      BY <1>3, <1>4, <1>6, <2>1, <3>2
    <3>. QED
      BY <3>1, <3>3
  <2>. QED
    BY <2>3, <2>4
<1>18. DOMAIN Grad' = DOMAIN Grad /\ send' <= candidates_size' /\ s' <= send' /\ t' + send' <= active_size'
  BY <1>1, <1>3
<1>19. BBlocks'
  <2>. HIDE DEF r
  <2>. QED
    BY <1>1, <1>3, <1>17, <1>18 DEF BBlocks
<1>. QED
  BY <1>16, <1>19

LEMMA BSelects ==
  ASSUME BSweeps, BBlocks, NEW g0 \in BD!Met, BD!Select(g0)
  PROVE  BSweeps' /\ BBlocks'
<1>. DEFINE S == BD!Pos
            A == 0 .. active_size - 1
            K == t + s .. active_size - 1
            a == t + s
<1>1. /\ L \in Nat /\ S = 0 .. L - 1 /\ S' = S /\ active_size \in 0 .. L /\ t \in Nat /\ s \in Nat /\ send \in Nat
      /\ phase = "select" /\ s < send /\ t + send <= active_size /\ send <= candidates_size
      /\ candidates_size \in 1 .. max_candidates_size /\ max_candidates_size \in Nat /\ Len(workingset) <= s
      /\ workingset \in Seq(S)
  BY BFacts DEF BSweeps, BBlocks, BD!Select
<1>2. a \in S /\ a \in K
  BY <1>1
<1>3. /\ seen' = [seen EXCEPT ![index[a]] = @ + 1] /\ s' = s + 1
      /\ workingset' = Append(workingset, index[a]) \/ workingset' = workingset
      /\ UNCHANGED <<phase, index, active_size, t, send, Grad, candidates_size, eps1, updated, begun>>
  BY DEF BD!Select, BD!Look, BD!tolerances
<1>4. Perm(index, S) /\ index[a] \in S
  BY <1>2 DEF BSweeps, Perm
<1>5. Swept(index, S, A, K, seen, begun)
  BY <1>1 DEF BSweeps
<1>6. Swept(index, S, A, K \ {a}, seen', begun)
  <2>. HIDE DEF S, A, K, a
  <2>. QED
    BY <1>2, <1>3, <1>4, <1>5, SweepLooks
<1>7. K \ {a} = t' + s' .. active_size' - 1
  <2>1. t' = t /\ s' = s + 1 /\ active_size' = active_size
    BY <1>3
  <2>2. K \ {a} = t + (s + 1) .. active_size - 1
    BY <1>1
  <2>. QED
    BY <2>1, <2>2
<1>8. AtMostOnce(S, seen', begun)
  <2>. HIDE DEF S, A, K, a
  <2>. QED
    BY <1>4, <1>6, SweepOnce
<1>9. Swept(index', S', 0 .. active_size' - 1, t' + s' .. active_size' - 1, seen', begun')
  BY <1>1, <1>3, <1>6, <1>7
<1>10. Perm(index', S') /\ AtMostOnce(S', seen', begun')
  BY <1>1, <1>3, <1>4, <1>8
<1>11. /\ workingset' \in Seq(S) /\ Len(workingset') <= s' /\ Len(workingset') \in Nat
  <2>1. CASE workingset' = Append(workingset, index[a])
    <3>2. /\ Append(workingset, index[a]) \in Seq(S) /\ Len(Append(workingset, index[a])) = Len(workingset) + 1
          /\ Len(workingset) \in Nat
      <4>1. workingset \in Seq(S) /\ index[a] \in S
        BY <1>1, <1>4
      <4>. HIDE DEF S, a
      <4>. QED
        BY ONLY <4>1
    <3>3. s' = s + 1 /\ Len(workingset) <= s /\ s \in Nat
      BY <1>1, <1>3
    <3>. QED
      BY ONLY <2>1, <3>2, <3>3
  <2>2. CASE workingset' = workingset
    BY <1>1, <1>3, <2>2
  <2>. QED
    BY <1>3, <2>1, <2>2
<1>14. BSweeps'
  BY <1>1, <1>3, <1>9, <1>10 DEF BSweeps
<1>15. s' <= send' /\ \A u \in s' .. send' - 1 : Grad'[u] = index'[t' + u]
  <2>1. s' <= send' /\ s' .. send' - 1 \subseteq s .. send - 1
    BY <1>1, <1>3
  <2>2. \A u \in s .. send - 1 : Grad[u] = index[t + u]
    BY <1>1 DEF BBlocks
  <2>. QED
    BY <1>3, <2>1, <2>2
<1>16. Len(workingset') <= max_candidates_size
  BY <1>1, <1>3, <1>11, <1>15
<1>17. BBlocks'
  BY <1>1, <1>3, <1>11, <1>15, <1>16 DEF BBlocks
<1>. QED
  BY <1>14, <1>17

LEMMA BUpdates ==
  ASSUME BSweeps, BBlocks, BD!Update
  PROVE  BSweeps' /\ BBlocks'
<1>1. /\ L \in Nat /\ active_size \in 0 .. L /\ t \in Nat /\ s \in Nat /\ send \in Nat
      /\ phase = "select" /\ s = send /\ send <= candidates_size /\ Len(workingset) <= s
      /\ candidates_size \in 1 .. max_candidates_size /\ max_candidates_size \in Nat \ {0}
      /\ init_candidates_size \in Nat \ {0, 1} /\ workingset \in Seq(BD!Pos) /\ Len(workingset) \in Nat
  BY BFacts DEF BSweeps, BBlocks, BD!Update
<1>2. /\ UNCHANGED <<index, active_size, send, s, Grad, workingset, seen, begun>>
      /\ updated' = (updated \/ workingset # <<>>) /\ t' = t + send /\ phase' = "block"
  BY DEF BD!Update
<1>3. candidates_size' \in 1 .. max_candidates_size
  <2>1. CASE Len(workingset) = 0
    <3>1. candidates_size' = BD!MinOf((candidates_size * 3) \div 2, max_candidates_size)
      BY <1>1, <2>1 DEF BD!Update
    <3>2. (candidates_size * 3) \div 2 \in Nat \ {0}
      BY <1>1
    <3>. QED
      BY <1>1, <3>1, <3>2 DEF BD!MinOf
  <2>2. CASE Len(workingset) >= init_candidates_size
    <3>1. candidates_size' = candidates_size \div 2
      BY <1>1, <2>2 DEF BD!Update
    <3>2. candidates_size >= 2
      BY <1>1, <2>2
    <3>. QED
      BY <1>1, <3>1, <3>2
  <2>3. CASE Len(workingset) # 0 /\ ~(Len(workingset) >= init_candidates_size)
    <3>1. candidates_size' = candidates_size
      BY <2>3 DEF BD!Update
    <3>. QED
      BY <1>1, <3>1
  <2>. QED
    BY <2>1, <2>2, <2>3
<1>4. Swept(index', BD!Pos', 0 .. active_size' - 1, t' .. active_size' - 1, seen', begun')
  <2>1. Swept(index, BD!Pos, 0 .. active_size - 1, t + s .. active_size - 1, seen, begun)
    BY <1>1 DEF BSweeps
  <2>. QED
    BY <1>1, <1>2, <2>1
<1>6. Perm(index', BD!Pos') /\ AtMostOnce(BD!Pos', seen', begun')
  BY <1>2 DEF BSweeps
<1>7. t' \in Nat
  BY <1>1, <1>2
<1>8. BSweeps'
  BY <1>1, <1>2, <1>4, <1>6, <1>7 DEF BSweeps
<1>9. BBlocks'
  BY <1>1, <1>2, <1>3 DEF BBlocks
<1>. QED
  BY <1>8, <1>9

LEMMA BEnds ==
  ASSUME BSweeps, BBlocks, BD!EndIdle \/ BD!End
  PROVE  /\ BSweeps' /\ BBlocks' /\ phase' \notin {"block", "select"}
         /\ phase' = "done" => active_size = L /\ begun = BD!Pos
<1>1. /\ phase = "block" /\ UNCHANGED <<index, t, send, s, Grad, workingset, candidates_size, seen, begun>>
  BY DEF BD!EndIdle, BD!End, BD!SweepOver
<1>2. L \in Nat /\ L \in 0 .. L /\ active_size \in 0 .. L /\ BD!Pos = 0 .. L - 1
  BY BFacts DEF BSweeps
<1>3. \/ phase' = "done" /\ active_size = L /\ active_size' = active_size
      \/ phase' = "shuffle" /\ active_size' \in {L, active_size}
  <2>1. CASE BD!EndIdle
    BY <2>1 DEF BD!EndIdle, BD!Reset
  <2>2. CASE BD!End
    BY <2>2 DEF BD!End, BD!Reset
  <2>. QED
    BY <2>1, <2>2
<1>4. ASSUME phase' = "done" PROVE begun = BD!Pos
  <2>1. Perm(index, BD!Pos) /\ Swept(index, BD!Pos, 0 .. active_size - 1, t .. active_size - 1, seen, begun)
    BY <1>1 DEF BSweeps
  <2>2. 0 .. active_size - 1 = BD!Pos
    BY <1>2, <1>3, <1>4
  <2>. QED
    BY <2>1, <2>2, SweepEnds
<1>5. active_size' \in 0 .. L /\ phase' \notin {"block", "select"}
  BY <1>2, <1>3
<1>6. Perm(index', BD!Pos') /\ AtMostOnce(BD!Pos', seen', begun')
  BY <1>1 DEF BSweeps
<1>7. BSweeps'
  BY <1>1, <1>5, <1>6 DEF BSweeps
<1>8. BBlocks'
  BY <1>1, <1>5 DEF BBlocks
<1>. QED
  BY <1>3, <1>4, <1>5, <1>7, <1>8

(* The projected gradients of a sweep. *)

\* What the gradients may be: whole numbers, which INF is larger than.
LEMMA BNumbers ==
  /\ InitialEps1 \in Nat \ {0} /\ Eps \in Nat /\ BD!INF \in Int
  /\ \A x \in BD!Met : x \in Int /\ x < BD!INF
  /\ 0 < BD!INF
BY TolerancesAssumption DEF BD!INF, BD!Met

LEMMA BLowers ==
  ASSUME NEW e \in Int
  PROVE  BD!Lower(e) \in Int
<1>1. e \div 10 \in Int /\ Eps \div 100 \in Int /\ InitialEps1 \in Int
  BY BNumbers
<1>. QED
  BY <1>1 DEF BD!Lower, BD!MaxOf, BD!MinOf

LEMMA BMetInitial ==
  ASSUME BD!BInit
  PROVE  BMet
<1>1. eps1 = InitialEps1 /\ PGmax_new = -BD!INF /\ PGmin_new = BD!INF /\ phase = "shuffle"
      /\ met = [i \in BD!Pos |-> BD!INF]
  BY DEF BD!BInit
<1>. QED
  BY <1>1, BNumbers DEF BMet, BD!StopsOnAll

\* The steps of a block do not change what was met before it.
LEMMA BMetBlocks ==
  ASSUME BSweeps, BBlocks, BMet, BD!Shuffle \/ BD!BlockGradients \/ BD!Update
  PROVE  BMet'
<1>1. L \in Nat /\ active_size \in 0 .. L /\ t \in Nat /\ s \in Nat /\ send \in Nat
  BY BFacts DEF BSweeps
<1>2. CASE BD!Shuffle
  <2>1. /\ phase' = "block" /\ t' = 0 /\ eps1' = eps1 /\ PGmax_new' = -BD!INF /\ PGmin_new' = BD!INF
        /\ met' = [i \in BD!Pos |-> BD!INF] /\ active_size' = active_size
    BY <1>2 DEF BD!Shuffle, BD!tolerances
  <2>2. met' \in [BD!Pos' -> Int] /\ PGmax_new' \in Int /\ PGmin_new' \in Int /\ eps1' \in Int
    BY <2>1, BNumbers DEF BMet
  <2>3. 0 .. t' - 1 = {} /\ t' <= active_size'
    BY <1>1, <2>1
  <2>4. Covered(t)' /\ Idle(t)'
    BY <2>3 DEF Covered, Idle
  <2>. QED
    BY <2>1, <2>2, <2>3, <2>4 DEF BMet, BD!StopsOnAll
<1>3. CASE BD!BlockGradients
  <2>1. /\ phase = "block" /\ phase' = "select" /\ s' = 0
        /\ UNCHANGED <<index, active_size, t, eps1, PGmax_new, PGmin_new, met, updated>>
    BY <1>3 DEF BD!BlockGradients, BD!tolerances, BD!extremes
  <2>2. t' + s' = t
    BY <1>1, <2>1
  <2>3. Covered(t + s)' /\ (~updated' => Idle(t + s)')
    BY <2>1, <2>2 DEF BMet, Covered, Idle
  <2>. QED
    BY <2>1, <2>3 DEF BMet, BD!StopsOnAll
<1>4. CASE BD!Update
  <2>1. /\ phase = "select" /\ s >= send /\ phase' = "block" /\ t' = t + send
        /\ updated' = (updated \/ workingset # <<>>)
        /\ UNCHANGED <<index, active_size, eps1, PGmax_new, PGmin_new, met>>
    BY <1>4 DEF BD!Update, BD!tolerances, BD!extremes
  <2>2. s = send /\ t + send <= active_size
    BY <1>1, <2>1 DEF BBlocks
  <2>3. Covered(t)' /\ (~updated' => Idle(t)')
    BY <2>1, <2>2 DEF BMet, Covered, Idle
  <2>. QED
    BY <2>1, <2>2, <2>3 DEF BMet, BD!StopsOnAll
<1>. QED
  BY <1>2, <1>3, <1>4

\* Shrinking an instance moves only positions that are still to be looked at.
LEMMA BMetShrinks ==
  ASSUME BSweeps, BBlocks, BMet, NEW g0 \in BD!Met, BD!Shrink(g0)
  PROVE  BMet'
<1>1. /\ L \in Nat /\ BD!Pos = 0 .. L - 1 /\ active_size \in 0 .. L /\ t \in Nat /\ s \in Nat /\ send \in Nat
      /\ phase = "select" /\ s < send /\ t + send <= active_size /\ index \in [BD!Pos -> BD!Pos]
  BY BFacts DEF BSweeps, BBlocks, BD!Shrink, Perm
<1>2. /\ UNCHANGED <<phase, t, s, workingset, eps1, PGmax_new, PGmin_new, met, updated>>
      /\ index' = BD!Candidates(send - 1, active_size - 1)
  BY DEF BD!Shrink, BD!tolerances, BD!extremes
<1>. PICK k : k = t + s
  OBVIOUS
<1>3. ASSUME NEW i \in 0 .. k - 1 PROVE index'[i] = index[i]
  <2>1. i \in BD!Pos /\ i # t + s /\ i # t + (send - 1) /\ i # active_size - 1
    BY <1>1
  <2>. QED
    BY <1>1, <1>2, <2>1 DEF BD!Candidates
<1>4. t' + s' = k /\ Covered(k) /\ (~updated /\ workingset = <<>> => Idle(k))
  BY <1>1, <1>2 DEF BMet
<1>5. ASSUME NEW i \in 0 .. k - 1 PROVE met'[index'[i]] = met[index[i]]
  <2>1. index'[i] = index[i]
    BY <1>3
  <2>2. met' = met
    BY <1>2
  <2>. QED
    BY ONLY <2>1, <2>2
<1>6. Covered(t + s)'
  <2>1. (t + s)' = k /\ PGmin_new' = PGmin_new /\ PGmax_new' = PGmax_new
    BY <1>2, <1>4
  <2>2. Covered(t + s)' <=> \A i \in 0 .. k - 1 : met'[index'[i]] \in PGmin_new' .. PGmax_new' /\ met'[index'[i]] # BD!INF
    BY <2>1 DEF Covered, BD!INF
  <2>3. \A i \in 0 .. k - 1 : met[index[i]] \in PGmin_new .. PGmax_new /\ met[index[i]] # BD!INF
    BY <1>4 DEF Covered
  <2>. QED
    BY <1>5, <2>1, <2>2, <2>3
<1>7. ~updated' /\ workingset' = <<>> => Idle(t + s)'
  BY <1>2, <1>4, <1>5 DEF Idle
<1>. QED
  BY <1>1, <1>2, <1>6, <1>7 DEF BMet, BD!StopsOnAll

LEMMA BMetSelects ==
  ASSUME BSweeps, BBlocks, BMet, NEW g0 \in BD!Met, BD!Select(g0)
  PROVE  BMet'
<1>. DEFINE k == t + s
<1>1. /\ L \in Nat /\ BD!Pos = 0 .. L - 1 /\ active_size \in 0 .. L /\ t \in Nat /\ s \in Nat /\ send \in Nat
      /\ phase = "select" /\ s < send /\ t + send <= active_size /\ Perm(index, BD!Pos)
  BY BFacts DEF BSweeps, BBlocks, BD!Select
<1>. PICK pg : pg = IF BD!Free(index[k], g0) THEN g0 ELSE 0
  OBVIOUS
<1>2. pg \in Int /\ pg < BD!INF
  BY BNumbers
<1>3. /\ UNCHANGED <<phase, index, active_size, t, eps1, updated>> /\ s' = s + 1
      /\ PGmax_new' = BD!MaxOf(PGmax_new, pg) /\ PGmin_new' = BD!MinOf(PGmin_new, pg)
      /\ met' = [met EXCEPT ![index[k]] = pg]
      /\ workingset' = IF 10 * BD!Abs(pg) >= eps1 THEN Append(workingset, index[k]) ELSE workingset
  BY DEF BD!Select, BD!tolerances
<1>4. /\ eps1 \in Int /\ PGmax_new \in Int /\ PGmin_new \in Int /\ met \in [BD!Pos -> Int]
      /\ Covered(k) /\ (~updated /\ workingset = <<>> => Idle(k))
  BY <1>1 DEF BMet
<1>5. k \in BD!Pos /\ index[k] \in BD!Pos /\ \A i \in 0 .. k - 1 : i \in BD!Pos /\ index[i] \in BD!Pos /\ index[i] # index[k]
  <2>1. k \in BD!Pos /\ \A i \in 0 .. k - 1 : i \in BD!Pos /\ i # k
    BY <1>1
  <2>. HIDE DEF k
  <2>. QED
    BY <1>1, <2>1 DEF Perm
<1>6. PGmax_new' \in Int /\ PGmin_new' \in Int /\ met' \in [BD!Pos -> Int]
  BY <1>2, <1>3, <1>4, <1>5 DEF BD!MaxOf, BD!MinOf
<1>7. /\ met'[index[k]] = pg /\ \A i \in 0 .. k - 1 : met'[index[i]] = met[index[i]]
  <2>. HIDE DEF k
  <2>. QED
    BY <1>3, <1>4, <1>5
<1>8. pg \in PGmin_new' .. PGmax_new' /\ PGmin_new' <= PGmin_new /\ PGmax_new <= PGmax_new'
  BY <1>2, <1>3, <1>4 DEF BD!MaxOf, BD!MinOf
<1>9. \A i \in 0 .. k : i = k \/ i \in 0 .. k - 1
  BY <1>1
<1>10. \A i \in 0 .. k : met'[index[i]] \in PGmin_new' .. PGmax_new' /\ met'[index[i]] # BD!INF
  <2>1. ASSUME NEW i \in 0 .. k - 1
        PROVE  met'[index[i]] \in PGmin_new' .. PGmax_new' /\ met'[index[i]] # BD!INF
    <3>1. met[index[i]] \in PGmin_new .. PGmax_new /\ met[index[i]] # BD!INF
      BY <1>4, <2>1 DEF Covered
    <3>2. met'[index[i]] = met[index[i]]
      BY <1>7, <2>1
    <3>. QED
      BY <1>4, <1>6, <1>8, <3>1, <3>2
  <2>2. met'[index[k]] \in PGmin_new' .. PGmax_new' /\ met'[index[k]] # BD!INF
    BY <1>2, <1>7, <1>8, BNumbers
  <2>. QED
    BY <1>9, <2>1, <2>2
<1>11. (t + s)' - 1 = k
  BY <1>1, <1>3
<1>12. Covered(t + s)'
  <2>. HIDE DEF k
  <2>1. Covered(t + s)' <=> \A i \in 0 .. k : met'[index'[i]] \in PGmin_new' .. PGmax_new' /\ met'[index'[i]] # BD!INF
    BY <1>11 DEF Covered, BD!INF
  <2>2. index' = index
    BY <1>3
  <2>. QED
    BY <1>10, <2>1, <2>2
<1>13. ASSUME ~updated', workingset' = <<>> PROVE Idle(t + s)'
  <2>1. ~(10 * BD!Abs(pg) >= eps1) /\ workingset = <<>>
    <3>1. workingset \in Seq(BD!Pos)
      BY DEF BBlocks
    <3>2. Append(workingset, index[k]) # <<>>
      <4>. HIDE DEF k
      <4>. QED
        BY <1>5, <3>1
    <3>. QED
      BY <1>3, <1>13, <3>2
  <2>2. 10 * BD!Abs(pg) < eps1
    BY <1>2, <1>4, <2>1 DEF BD!Abs
  <2>3. \A i \in 0 .. k - 1 : 10 * BD!Abs(met'[index[i]]) < eps1
    BY <1>3, <1>4, <1>7, <1>13, <2>1 DEF Idle
  <2>4. \A i \in 0 .. k : 10 * BD!Abs(met'[index[i]]) < eps1
    BY <1>7, <1>9, <2>2, <2>3
  <2>5. Idle(t + s)' <=> \A i \in 0 .. k : 10 * BD!Abs(met'[index'[i]]) < eps1'
    <3>. HIDE DEF k
    <3>. QED
      BY <1>11 DEF Idle, BD!Abs
  <2>6. index' = index /\ eps1' = eps1
    BY <1>3
  <2>. QED
    BY <2>4, <2>5, <2>6
<1>. QED
  BY <1>1, <1>3, <1>4, <1>6, <1>12, <1>13 DEF BMet, BD!StopsOnAll

\* The end of a run: all instances are covered, by a gap within eps or because no
\* update was needed.
LEMMA BMetEnds ==
  ASSUME BSweeps, BBlocks, BMet, BD!EndIdle \/ BD!End
  PROVE  BMet'
<1>1. /\ L \in Nat /\ BD!Pos = 0 .. L - 1 /\ active_size \in 0 .. L /\ t \in Nat
      /\ Perm(index, BD!Pos) /\ phase = "block" /\ t >= active_size
      /\ UNCHANGED <<begun, PGmax_new, PGmin_new, met>>
  BY BFacts DEF BSweeps, BD!EndIdle, BD!End, BD!SweepOver, BD!extremes
<1>2. /\ eps1 \in Int /\ PGmax_new \in Int /\ PGmin_new \in Int /\ met \in [BD!Pos -> Int]
      /\ t <= active_size /\ Covered(t) /\ (~updated => Idle(t))
  BY <1>1 DEF BMet
<1>3. phase' \notin {"block", "select"} /\ (phase' = "done" => active_size = L /\ begun = BD!Pos)
  BY BEnds
<1>4. eps1' \in Int
  <2>1. eps1' \in {eps1, BD!Lower(eps1)}
    BY DEF BD!EndIdle, BD!End, BD!tolerances
  <2>. QED
    BY <1>2, <2>1, BLowers
<1>5. ASSUME phase' = "done", NEW i \in BD!Pos, NEW j \in BD!Pos
      PROVE  met[i] - met[j] <= Eps /\ met[i] # BD!INF
  <2>1. t = L
    BY <1>1, <1>2, <1>3, <1>5
  <2>2. PICK u \in BD!Pos, x \in BD!Pos : index[u] = i /\ index[x] = j
    <3>1. \A y \in BD!Pos : \E u \in BD!Pos : index[u] = y
      BY <1>1 DEF Perm
    <3>. QED
      BY ONLY <1>5, <3>1
  <2>3. u \in 0 .. t - 1 /\ x \in 0 .. t - 1
    BY <1>1, <2>1
  <2>4. met[i] \in Int /\ met[j] \in Int /\ Eps \in Nat
    BY <1>2, BNumbers
  <2>5. met[i] # BD!INF /\ met[i] \in PGmin_new .. PGmax_new /\ met[j] \in PGmin_new .. PGmax_new
    BY <1>2, <2>2, <2>3 DEF Covered
  <2>6. CASE BD!EndIdle
    <3>1. eps1 <= Eps /\ ~updated
      BY <1>5, <2>6 DEF BD!EndIdle, BD!Reset
    <3>2. 10 * BD!Abs(met[i]) < eps1 /\ 10 * BD!Abs(met[j]) < eps1
      BY <1>2, <2>2, <2>3, <3>1 DEF Idle
    <3>. QED
      BY <1>2, <2>4, <2>5, <3>1, <3>2 DEF BD!Abs
  <2>7. CASE BD!End
    <3>1. PGmax_new - PGmin_new <= Eps
      BY <1>5, <2>7 DEF BD!End, BD!Reset, BD!Gap
    <3>. QED
      BY <1>2, <2>4, <2>5, <3>1
  <2>. QED
    BY <2>6, <2>7
<1>6. BD!StopsOnAll'
  BY <1>1, <1>3, <1>5 DEF BD!StopsOnAll, BD!Pos, BD!INF
<1>. QED
  BY <1>1, <1>2, <1>3, <1>4, <1>6 DEF BMet

LEMMA BStep ==
  ASSUME BSweeps, BBlocks, BMet, BD!BNext
  PROVE  BSweeps' /\ BBlocks' /\ BMet'
<1>1. CASE BD!TooManySweeps
  <2>1. /\ phase' = "exhausted"
        /\ UNCHANGED <<index, active_size, t, send, s, Grad, workingset, candidates_size, eps1, PGmax_new, PGmin_new,
                       met, seen, begun>>
    BY <1>1 DEF BD!TooManySweeps, BD!tolerances, BD!extremes
  <2>2. Perm(index', BD!Pos') /\ AtMostOnce(BD!Pos', seen', begun')
    BY <2>1 DEF BSweeps
  <2>3. BSweeps'
    BY <2>1, <2>2 DEF BSweeps
  <2>4. BBlocks'
    BY <2>1 DEF BBlocks
  <2>5. BMet'
    BY <2>1 DEF BMet, BD!StopsOnAll
  <2>. QED
    BY <2>3, <2>4, <2>5
<1>2. CASE \E g0 \in BD!Met : BD!Shrink(g0) \/ BD!Select(g0)
  BY <1>2, BShrinks, BSelects, BMetShrinks, BMetSelects
<1>. QED
  BY <1>1, <1>2, BShuffles, BGradients, BUpdates, BEnds, BMetBlocks, BMetEnds DEF BD!BNext

\* What the run checks of BlockDescent.
LEMMA BChecked ==
  ASSUME BSweeps, BBlocks, BMet
  PROVE  BD!LooksOnce /\ BD!StopsOnAll /\ BD!OwnGradient
<1>1. L \in Nat /\ BD!Pos = 0 .. L - 1 /\ Perm(index, BD!Pos) /\ t \in Nat /\ active_size \in 0 .. L
  BY BFacts DEF BSweeps
<1>2. BD!Prefix(L) = BD!Pos
  <2>1. \A x \in 0 .. L - 1 : \E i \in 0 .. L - 1 : index[i] = x
    BY <1>1 DEF Perm
  <2>2. \A i \in 0 .. L - 1 : index[i] \in 0 .. L - 1
    BY <1>1 DEF Perm
  <2>. QED
    BY <1>1, <2>1, <2>2 DEF BD!Prefix
<1>3. \A i \in BD!Pos : seen[i] <= (IF i \in begun THEN 1 ELSE 0)
  BY DEF BSweeps, AtMostOnce
<1>4. ASSUME phase = "block", t >= active_size PROVE \A i \in begun : seen[i] = 1
  <2>1. Swept(index, BD!Pos, 0 .. active_size - 1, t .. active_size - 1, seen, begun)
    BY <1>4 DEF BSweeps
  <2>2. t .. active_size - 1 = {}
    BY <1>1, <1>4
  <2>. QED
    BY <1>1, <2>1, <2>2, SweepEnds
<1>5. BD!LooksOnce
  BY <1>2, <1>3, <1>4 DEF BD!LooksOnce
<1>6. BD!OwnGradient
  BY DEF BBlocks, BD!OwnGradient
<1>. QED
  BY <1>5, <1>6 DEF BMet

-----------------------------------------------------------------------------
(* MulticlassDescent: the loop that shrinks the classes of an instance. *)

LEMMA Least ==
  ASSUME NEW T \in SUBSET Nat, T # {}
  PROVE  \E x \in T : \A y \in T : x <= y
<1>. DEFINE R == OpToRel(<, Nat)
<1>1. PICK x \in T : \A y \in T : <<y, x>> \notin R
  <2>1. IsWellFoundedOn(R, Nat)
    BY NatLessThanWellFounded
  <2>. HIDE DEF R
  <2>. QED
    BY <2>1, WFMin
<1>2. \A y \in T : ~(y < x)
  BY <1>1 DEF OpToRel
<1>. QED
  BY <1>2

LEMMA Greatest ==
  ASSUME NEW k \in Nat, NEW T \in SUBSET (0 .. k), T # {}
  PROVE  XD!Max(T) \in T /\ \A y \in T : XD!Max(T) >= y
<1>. DEFINE U == {u \in 0 .. k : \E x \in T : u = k - x}
<1>1. U \in SUBSET Nat /\ U # {}
  <2>1. PICK x \in T : TRUE
    OBVIOUS
  <2>2. x \in 0 .. k /\ k - x \in 0 .. k
    BY <2>1
  <2>3. k - x \in U
    BY <2>1, <2>2
  <2>4. U # {}
    <3>. HIDE DEF U
    <3>. QED
      BY <2>3
  <2>5. U \in SUBSET Nat
    <3>1. 0 .. k \in SUBSET Nat /\ U \in SUBSET (0 .. k)
      OBVIOUS
    <3>. HIDE DEF U
    <3>. QED
      BY <3>1
  <2>. QED
    BY <2>4, <2>5
<1>2. PICK u \in U : \A y \in U : u <= y
  <2>. HIDE DEF U
  <2>. QED
    BY <1>1, Least
<1>3. k - u \in T /\ u \in 0 .. k
  <2>1. u \in 0 .. k
    BY <1>2
  <2>2. PICK x \in T : u = k - x
    BY <1>2
  <2>3. x \in 0 .. k /\ k - u = x
    BY <2>2
  <2>. QED
    BY <2>1, <2>3
<1>4. ASSUME NEW y \in T PROVE k - u >= y
  <2>1. y \in 0 .. k /\ k - y \in 0 .. k
    OBVIOUS
  <2>2. k - y \in U
    BY <2>1
  <2>3. u <= k - y
    BY <1>2, <2>2
  <2>. QED
    BY <1>3, <2>1, <2>3
<1>5. \E x \in T : \A y \in T : x >= y
  BY <1>3, <1>4
<1>. QED
  BY <1>5 DEF XD!Max

\* The state of the loop for an instance of class c.
GoodState(st, c) ==
  /\ st.a \in [XD!Class -> XD!Class] /\ st.g = st.a
  /\ st.k \in 0 .. nr_class /\ st.y \in XD!Class /\ st.a[st.y] = c

LEMMA ShrinkAtGood ==
  ASSUME NEW st, NEW c, GoodState(st, c), NEW m \in 1 .. nr_class, NEW out
  PROVE  GoodState(XD!ShrinkAt(st, m, out), c)
<1>1. nr_class \in Nat /\ XD!Class = 1 .. nr_class /\ st.k \in 0 .. nr_class
  BY SizesAssumption DEF XD!Class, GoodState
<1>2. CASE m > st.k \/ st.a[m] \notin out
  BY <1>2 DEF XD!ShrinkAt
<1>3. CASE ~(m > st.k \/ st.a[m] \notin out)
  <2>. DEFINE T == {q \in m + 1 .. st.k : st.a[q] \notin out} \cup {m}
              pos == XD!Max(T)
              to == [a |-> XD!Swap(st.a, m, pos), g |-> XD!Swap(st.g, m, pos), k |-> pos - 1,
                     y |-> IF st.y = pos THEN m ELSE IF st.y = m THEN pos ELSE st.y]
  <2>1. T \in SUBSET (0 .. st.k) /\ T # {} /\ T \subseteq m .. st.k /\ st.k \in Nat
    BY <1>1, <1>3
  <2>2. pos \in T
    <3>. HIDE DEF T
    <3>. QED
      BY <2>1, Greatest
  <2>3. pos \in m .. st.k
    BY <2>1, <2>2
  <2>4. XD!ShrinkAt(st, m, out) = to
    BY <1>3 DEF XD!ShrinkAt
  <2>. HIDE DEF pos
  <2>5. pos \in XD!Class /\ m \in XD!Class /\ pos - 1 \in 0 .. nr_class
    BY <1>1, <2>3
  <2>. DEFINE r == [st.a EXCEPT ![m] = st.a[pos], ![pos] = st.a[m]]
              y == IF st.y = pos THEN m ELSE IF st.y = m THEN pos ELSE st.y
  <2>6. st.a \in [XD!Class -> XD!Class] /\ st.g = st.a /\ st.y \in XD!Class /\ st.a[st.y] = c
    BY DEF GoodState
  <2>7. r \in [XD!Class -> XD!Class] /\ y \in XD!Class /\ r[y] = c
    BY <2>5, <2>6
  <2>8. to.a = r /\ to.g = r /\ to.k = pos - 1 /\ to.y = y
    BY <2>6 DEF XD!Swap
  <2>. HIDE DEF to, r, y
  <2>9. GoodState(to, c)
    BY <2>5, <2>7, <2>8 DEF GoodState
  <2>. QED
    BY <2>4, <2>9
<1>. QED
  BY <1>2, <1>3

\* h has the states of the first n rounds.
Rounds(st, out, n, h) ==
  /\ h = [m \in 0 .. n |-> h[m]] /\ h[0] = st
  /\ \A m \in 1 .. n : h[m] = XD!ShrinkAt(h[m - 1], m, out)

LEMMA RoundsExist ==
  ASSUME NEW st, NEW out, NEW n \in Nat
  PROVE  \E h : Rounds(st, out, n, h)
<1>. DEFINE T == {i \in Nat : \A h : ~Rounds(st, out, i, h)}
<1>. SUFFICES ASSUME T # {} PROVE FALSE
  OBVIOUS
<1>1. T \in SUBSET Nat
  OBVIOUS
<1>2. PICK i \in T : \A y \in T : i <= y
  <2>. HIDE DEF T
  <2>. QED
    BY <1>1, Least
<1>3. i # 0
  <2>1. Rounds(st, out, 0, [j \in 0 .. 0 |-> st])
    BY DEF Rounds
  <2>. QED
    BY <1>2, <2>1
<1>4. i \in Nat /\ i - 1 \in Nat /\ i - 1 \notin T
  BY <1>2, <1>3
<1>5. PICK h : Rounds(st, out, i - 1, h)
  BY <1>4
<1>. DEFINE r == [j \in 0 .. i |-> IF j = i THEN XD!ShrinkAt(h[i - 1], i, out) ELSE h[j]]
<1>6. /\ r = [j \in 0 .. i |-> r[j]] /\ r[0] = st /\ r[i] = XD!ShrinkAt(h[i - 1], i, out)
      /\ \A j \in 0 .. i - 1 : r[j] = h[j]
  BY <1>3, <1>4, <1>5 DEF Rounds
<1>. HIDE DEF r
<1>7. ASSUME NEW j \in 1 .. i PROVE r[j] = XD!ShrinkAt(r[j - 1], j, out)
  <2>1. j - 1 \in 0 .. i - 1
    BY <1>4
  <2>2. CASE j = i
    BY <1>6, <2>1, <2>2
  <2>3. CASE j # i
    <3>1. j \in 1 .. i - 1 /\ j \in 0 .. i - 1
      BY <1>4, <2>3
    <3>2. h[j] = XD!ShrinkAt(h[j - 1], j, out)
      BY <1>5, <3>1 DEF Rounds
    <3>. QED
      BY <1>6, <2>1, <3>1, <3>2
  <2>. QED
    BY <2>2, <2>3
<1>8. Rounds(st, out, i, r)
  BY <1>6, <1>7 DEF Rounds
<1>. QED
  BY <1>2, <1>8

LEMMA ShrunkGood ==
  ASSUME NEW st, NEW c, GoodState(st, c), NEW out
  PROVE  GoodState(XD!Shrunk(st, out)[nr_class], c)
<1>. DEFINE Step(h) == [m \in 0 .. nr_class |-> IF m = 0 THEN st ELSE XD!ShrinkAt(h[m - 1], m, out)]
            at1 == CHOOSE h : h = Step(h)
<1>1. nr_class \in Nat
  BY SizesAssumption
<1>2. PICK h : Rounds(st, out, nr_class, h)
  BY <1>1, RoundsExist
<1>3. h = Step(h)
  <2>1. \A m \in 0 .. nr_class : m # 0 => m \in 1 .. nr_class
    BY <1>1
  <2>2. \A m \in 0 .. nr_class : h[m] = IF m = 0 THEN st ELSE XD!ShrinkAt(h[m - 1], m, out)
    BY <1>2, <2>1 DEF Rounds
  <2>3. [m \in 0 .. nr_class |-> h[m]] = Step(h)
    BY <2>2
  <2>. QED
    BY <1>2, <2>3 DEF Rounds
<1>4. at1 = Step(at1)
  BY <1>3
<1>5. XD!Shrunk(st, out) = at1
  BY DEF XD!Shrunk
<1>. HIDE DEF at1
<1>6. at1[0] = st /\ \A m \in 1 .. nr_class : at1[m] = XD!ShrinkAt(at1[m - 1], m, out)
  BY <1>1, <1>4
<1>. DEFINE T == {m \in 0 .. nr_class : ~GoodState(at1[m], c)}
<1>7. ASSUME T # {} PROVE FALSE
  <2>1. T \in SUBSET Nat
    OBVIOUS
  <2>2. PICK m \in T : \A y \in T : m <= y
    <3>. HIDE DEF T
    <3>. QED
      BY <1>7, <2>1, Least
  <2>3. m \in 0 .. nr_class /\ ~GoodState(at1[m], c) /\ m # 0
    BY <1>6, <2>2
  <2>4. m \in 1 .. nr_class /\ m - 1 \in 0 .. nr_class /\ m - 1 \notin T
    BY <1>1, <2>2, <2>3
  <2>5. GoodState(at1[m - 1], c)
    BY <2>4
  <2>6. GoodState(XD!ShrinkAt(at1[m - 1], m, out), c)
    BY <2>4, <2>5, ShrinkAtGood
  <2>. QED
    BY <1>6, <2>3, <2>4, <2>6
<1>8. GoodState(at1[nr_class], c)
  BY <1>1, <1>7
<1>. QED
  BY <1>5, <1>8

-----------------------------------------------------------------------------
(* MulticlassDescent. *)

LEMMA XFacts ==
  /\ XL \in Nat \ {0} /\ nr_class \in Nat /\ XD!Inst = 1 .. XL /\ XD!Class = 1 .. nr_class
  /\ IsFiniteSet(XD!Inst) /\ Labels \in [XD!Inst -> XD!Class]
<1>1. XL \in Nat \ {0} /\ nr_class \in Nat /\ Labels \in [1 .. XL -> 1 .. nr_class]
  BY SizesAssumption
<1>2. IsFiniteSet(1 .. XL)
  BY <1>1, FS_Interval
<1>. QED
  BY <1>1, <1>2 DEF XD!Inst, XD!Class

LEMMA XInitial ==
  ASSUME XD!XInit
  PROVE  XSweeps /\ XClasses
<1>1. Perm(index, XD!Inst)
  BY PermIdentity DEF XD!XInit
<1>2. AtMostOnce(XD!Inst, seen, begun)
  BY DEF XD!XInit, AtMostOnce
<1>3. XSweeps
  BY <1>1, <1>2, XFacts DEF XD!XInit, XSweeps, XD!StopsOnAll
<1>4. /\ alpha_index \in [XD!Inst -> [XD!Class -> XD!Class]] /\ y_index \in [XD!Inst -> XD!Class]
      /\ active_size_i \in [XD!Inst -> 0 .. nr_class]
  BY XFacts DEF XD!XInit
<1>5. \A i \in XD!Inst : alpha_index[i][y_index[i]] = Labels[i]
  BY XFacts DEF XD!XInit
<1>6. 1 \in XD!Inst /\ \A m \in XD!Class : G[m] = alpha_index[1][m]
  BY XFacts DEF XD!XInit
<1>. QED
  BY <1>3, <1>4, <1>5, <1>6 DEF XClasses, XD!OwnGradient

LEMMA XShuffles ==
  ASSUME XSweeps, XClasses, XD!Shuffle
  PROVE  XSweeps' /\ XClasses'
<1>. DEFINE S == XD!Inst
            A == 1 .. active_size
<1>1. XL \in Nat \ {0} /\ S = 1 .. XL /\ IsFiniteSet(S) /\ active_size \in 0 .. XL /\ A \in SUBSET S
  BY XFacts DEF XSweeps
<1>2. /\ phase = "shuffle" /\ s' = 1 /\ phase' = "sweep" /\ seen' = [x \in S |-> 0]
      /\ begun' = {index[i] : i \in A} /\ full' = (\A i \in S : active_size_i[i] = nr_class)
      /\ UNCHANGED <<active_size, alpha_index, active_size_i, y_index, G, start_from_all>>
  BY DEF XD!Shuffle, XD!Prefix
<1>3. /\ index' \in [S -> S] /\ \A i \in S : i > active_size => index'[i] = index[i]
      /\ {index'[i] : i \in A} = {index[i] : i \in A}
  BY DEF XD!Shuffle, XD!Prefix
<1>4. \A i \in S \ A : index'[i] = index[i]
  BY <1>1, <1>3
<1>5. Perm(index, S)
  BY DEF XSweeps
<1>. PICK e : e = index'
  OBVIOUS
<1>. PICK first : first = begun'
  OBVIOUS
<1>. PICK looks : looks = seen'
  OBVIOUS
<1>6. e \in [S -> S] /\ (\A i \in S \ A : e[i] = index[i]) /\ \A i \in A : \E j \in A : e[j] = index[i]
  BY <1>3, <1>4
<1>7. IsFiniteSet(S) /\ A \in SUBSET S
  BY <1>1
<1>8. Perm(e, S)
  <2>. HIDE DEF S, A
  <2>. QED
    BY ONLY <1>5, <1>6, <1>7, PermShuffle
<1>9. first = {e[i] : i \in A} /\ looks = [x \in S |-> 0]
  BY <1>2, <1>3
<1>10. Swept(e, S, A, A, looks, first)
  <2>. HIDE DEF S, A
  <2>. QED
    BY <1>7, <1>8, <1>9, SweepBegins
<1>11. AtMostOnce(S, looks, first)
  <2>. HIDE DEF S, A
  <2>. QED
    BY <1>8, <1>10, SweepOnce
<1>12. ASSUME start_from_all PROVE begun' = S /\ full'
  <2>1. active_size = XL /\ \A i \in S : active_size_i[i] = nr_class
    BY <1>2, <1>12 DEF XSweeps
  <2>2. A = S
    BY <1>1, <2>1
  <2>3. first = S
    <3>. HIDE DEF S, A
    <3>. QED
      BY <1>8, <1>10, <2>2, SweepEnds
  <2>. QED
    BY <1>2, <2>1, <2>3
<1>13. Swept(index', S', 1 .. active_size', s' .. active_size', seen', begun')
  BY <1>2, <1>10 DEF XD!Inst
<1>14. Perm(index', S') /\ AtMostOnce(S', seen', begun') /\ S' = S
  BY <1>8, <1>11 DEF XD!Inst
<1>15. XSweeps'
  BY <1>1, <1>2, <1>12, <1>13, <1>14 DEF XSweeps, XD!StopsOnAll
<1>16. XClasses'
  BY <1>2 DEF XClasses, XD!OwnGradient, XD!Inst, XD!Class
<1>. QED
  BY <1>15, <1>16

\* The orders, when one instance is solved.
LEMMA XOrders ==
  ASSUME XClasses, NEW x \in XD!Inst, NEW st, GoodState(st, Labels[x]),
         alpha_index' = [alpha_index EXCEPT ![x] = st.a],
         active_size_i' = [active_size_i EXCEPT ![x] = st.k],
         y_index' = [y_index EXCEPT ![x] = st.y], G' = st.g
  PROVE  XClasses'
<1>1. /\ st.a \in [XD!Class -> XD!Class] /\ st.g = st.a /\ st.k \in 0 .. nr_class
      /\ st.y \in XD!Class /\ st.a[st.y] = Labels[x]
  BY DEF GoodState
<1>2. /\ alpha_index \in [XD!Inst -> [XD!Class -> XD!Class]] /\ y_index \in [XD!Inst -> XD!Class]
      /\ active_size_i \in [XD!Inst -> 0 .. nr_class]
      /\ \A i \in XD!Inst : alpha_index[i][y_index[i]] = Labels[i]
  BY DEF XClasses, XD!OwnGradient
<1>3. /\ alpha_index' \in [XD!Inst -> [XD!Class -> XD!Class]] /\ y_index' \in [XD!Inst -> XD!Class]
      /\ active_size_i' \in [XD!Inst -> 0 .. nr_class]
  BY <1>1, <1>2
<1>4. alpha_index'[x] = st.a /\ y_index'[x] = st.y /\ G' = st.a
  BY <1>1, <1>2
<1>5. ASSUME NEW i \in XD!Inst PROVE alpha_index'[i][y_index'[i]] = Labels[i]
  <2>1. CASE i = x
    BY <1>1, <1>4, <2>1
  <2>2. CASE i # x
    <3>1. alpha_index'[i] = alpha_index[i] /\ y_index'[i] = y_index[i]
      BY <1>2, <2>2
    <3>. QED
      BY <1>2, <3>1
  <2>. QED
    BY <2>1, <2>2
<1>6. \A m \in XD!Class : G'[m] = alpha_index'[x][m]
  BY <1>4
<1>7. XD!OwnGradient'
  BY <1>5, <1>6 DEF XD!OwnGradient, XD!Inst, XD!Class
<1>. QED
  BY <1>3, <1>7 DEF XClasses, XD!Inst, XD!Class

LEMMA XLooks ==
  ASSUME XSweeps, phase = "sweep", s <= active_size, UNCHANGED <<phase, start_from_all, begun, full>>,
         seen' = [seen EXCEPT ![index[s]] = @ + 1], s' = s + 1, UNCHANGED <<active_size, index>>
  PROVE  XSweeps'
<1>. DEFINE S == XD!Inst
            A == 1 .. active_size
            K == s .. active_size
            J == s + 1 .. active_size
<1>1. XL \in Nat /\ S = 1 .. XL /\ active_size \in 0 .. XL /\ s \in 1 .. XL /\ S' = S
  BY XFacts DEF XSweeps
<1>2. Perm(index, S) /\ Swept(index, S, A, K, seen, begun) /\ s \in K
  BY <1>1 DEF XSweeps
<1>3. K \ {s} = J
  BY <1>1
<1>4. Swept(index, S, A, K \ {s}, seen', begun)
  <2>. HIDE DEF S, A, K
  <2>. QED
    BY <1>2, SweepLooks
<1>5. Swept(index, S, A, J, seen', begun)
  BY <1>3, <1>4
<1>6. AtMostOnce(S, seen', begun)
  <2>. HIDE DEF S, A, J
  <2>. QED
    BY <1>2, <1>5, SweepOnce
<1>7. Swept(index', S', 1 .. active_size', s' .. active_size', seen', begun')
  BY <1>1, <1>5
<1>. QED
  BY <1>1, <1>2, <1>6, <1>7 DEF XSweeps, XD!StopsOnAll

LEMMA XShrinks ==
  ASSUME XSweeps, phase = "sweep", s <= active_size, UNCHANGED <<phase, start_from_all, begun, full>>,
         seen' = [seen EXCEPT ![index[s]] = @ + 1], s' = s,
         active_size' = active_size - 1, index' = XD!Swap(index, s, active_size)
  PROVE  XSweeps'
<1>. DEFINE S == XD!Inst
            A == 1 .. active_size
            K == s .. active_size
            b == active_size
            r == [index EXCEPT ![s] = index[b], ![b] = index[s]]
<1>1. /\ XL \in Nat /\ S = 1 .. XL /\ active_size \in 0 .. XL /\ s \in 1 .. XL /\ b \in 1 .. XL /\ S' = S
      /\ active_size' \in 0 .. XL
  BY XFacts DEF XSweeps
<1>2. Perm(index, S) /\ Swept(index, S, A, K, seen, begun) /\ s \in K /\ b \in K /\ s \in S /\ b \in S
  BY <1>1 DEF XSweeps
<1>3. index' = r
  BY DEF XD!Swap
<1>4. Perm(r, S)
  <2>. HIDE DEF S, b
  <2>. QED
    BY <1>2, PermSwap
<1>5. r[b] = index[s] /\ \A i \in S \ K : r[i] = index[i]
  BY <1>2 DEF Perm
<1>6. Swept(r, S, A, K \ {b}, seen', begun)
  <2>. HIDE DEF S, A, K, b, r
  <2>. QED
    BY <1>2, <1>4, <1>5, SweepLooks
<1>. DEFINE B == 1 .. active_size'
<1>7. K \ {b} = s' .. active_size' /\ K \ {b} \subseteq B /\ B \subseteq A
  BY <1>1
<1>8. Swept(r, S, B, K \ {b}, seen', begun)
  <2>. HIDE DEF S, A, K, b, r, B
  <2>. QED
    BY <1>6, <1>7, SweepShrinks
<1>9. AtMostOnce(S, seen', begun)
  <2>. HIDE DEF S, A, K, b, r
  <2>. QED
    BY <1>4, <1>6, SweepOnce
<1>10. Swept(index', S', 1 .. active_size', s' .. active_size', seen', begun')
  BY <1>1, <1>3, <1>7, <1>8
<1>11. Perm(index', S') /\ AtMostOnce(S', seen', begun')
  BY <1>1, <1>3, <1>4, <1>9
<1>. HIDE DEF r
<1>. QED
  BY <1>1, <1>10, <1>11 DEF XSweeps, XD!StopsOnAll

LEMMA XSolves ==
  ASSUME XSweeps, XClasses, NEW out, NEW gap, XD!Solve(out, gap)
  PROVE  XSweeps' /\ XClasses'
<1>. DEFINE x == index[s]
            first == [a |-> alpha_index[x], g |-> alpha_index[x], k |-> active_size_i[x], y |-> y_index[x]]
            st == XD!Shrunk(first, out)[nr_class]
<1>1. phase = "sweep" /\ s <= active_size /\ UNCHANGED <<phase, start_from_all, begun, full>>
  BY DEF XD!Solve
<1>2. s \in 1 .. XL /\ XD!Inst = 1 .. XL
  BY <1>1, XFacts DEF XSweeps
<1>3. x \in XD!Inst
  BY <1>2 DEF XSweeps, Perm
<1>4. GoodState(first, Labels[x])
  <2>1. /\ alpha_index[x] \in [XD!Class -> XD!Class] /\ active_size_i[x] \in 0 .. nr_class
        /\ y_index[x] \in XD!Class /\ alpha_index[x][y_index[x]] = Labels[x]
    BY <1>3 DEF XClasses, XD!OwnGradient
  <2>. QED
    BY <2>1 DEF GoodState
<1>5. GoodState(st, Labels[x])
  <2>. HIDE DEF first, x
  <2>. QED
    BY <1>4, ShrunkGood
<1>6. /\ alpha_index' = [alpha_index EXCEPT ![x] = st.a]
      /\ active_size_i' = [active_size_i EXCEPT ![x] = st.k]
      /\ y_index' = [y_index EXCEPT ![x] = st.y] /\ G' = st.g
      /\ seen' = [seen EXCEPT ![x] = @ + 1]
      /\ \/ active_size' = active_size - 1 /\ index' = XD!Swap(index, s, active_size) /\ s' = s
         \/ s' = s + 1 /\ UNCHANGED <<active_size, index>>
  BY DEF XD!Solve
<1>7. XClasses'
  <2>. HIDE DEF st, x
  <2>. QED
    BY <1>3, <1>5, <1>6, XOrders
<1>8. XSweeps'
  <2>. HIDE DEF st
  <2>. QED
    BY <1>1, <1>6, XLooks, XShrinks
<1>. QED
  BY <1>7, <1>8

LEMMA XEnds ==
  ASSUME XSweeps, XClasses, XD!EndSweep
  PROVE  XSweeps' /\ XClasses'
<1>1. /\ phase = "sweep" /\ UNCHANGED <<index, s, alpha_index, y_index, G, stopping, seen, begun, full>>
      /\ \/ /\ stopping <= 1 /\ start_from_all /\ phase' = "done"
            /\ UNCHANGED <<active_size, active_size_i, start_from_all>>
         \/ /\ phase' = "shuffle" /\ active_size' = XL
            /\ active_size_i' = [i \in XD!Inst |-> nr_class] /\ start_from_all' = TRUE
         \/ /\ phase' = "shuffle" /\ start_from_all' = FALSE
            /\ UNCHANGED <<active_size, active_size_i>>
  BY DEF XD!EndSweep
<1>2. XL \in Nat /\ nr_class \in Nat
  BY XFacts
<1>3. active_size' \in 0 .. XL /\ active_size_i' \in [XD!Inst -> 0 .. nr_class]
  BY <1>1, <1>2 DEF XSweeps, XClasses
<1>4. phase' = "shuffle" /\ start_from_all' =>
        active_size' = XL /\ \A i \in XD!Inst : active_size_i'[i] = nr_class
  BY <1>1
<1>6. phase' = "done" => begun' = XD!Inst /\ full' /\ stopping' <= 1
  BY <1>1 DEF XSweeps
<1>7. phase' # "sweep"
  BY <1>1
<1>8. XSweeps'
  BY <1>1, <1>3, <1>4, <1>6, <1>7 DEF XSweeps, XD!StopsOnAll, XD!Inst
<1>9. XClasses'
  BY <1>1, <1>3 DEF XClasses, XD!OwnGradient, XD!Inst, XD!Class
<1>. QED
  BY <1>8, <1>9

LEMMA XStep ==
  ASSUME XSweeps, XClasses, XD!XNext
  PROVE  XSweeps' /\ XClasses'
<1>1. CASE XD!Shuffle
  BY <1>1, XShuffles
<1>2. CASE XD!TooManySweeps
  BY <1>2 DEF XD!TooManySweeps, XSweeps, XClasses, XD!StopsOnAll, XD!OwnGradient, XD!Inst, XD!Class
<1>3. CASE XD!EndSweep
  BY <1>3, XEnds
<1>4. CASE \E out \in SUBSET XD!Class, gap \in 0 .. 3 : XD!Solve(out, gap)
  BY <1>4, XSolves
<1>. QED
  BY <1>1, <1>2, <1>3, <1>4 DEF XD!XNext

LEMMA XChecked ==
  ASSUME XSweeps, XClasses
  PROVE  XD!LooksOnce /\ XD!StopsOnAll /\ XD!OwnGradient
<1>. DEFINE S == XD!Inst
            A == 1 .. active_size
            K == s .. active_size
<1>1. Perm(index, S) /\ AtMostOnce(S, seen, begun) /\ active_size \in 0 .. XL /\ s \in Nat /\ S = 1 .. XL
      /\ XL \in Nat
  BY XFacts DEF XSweeps
<1>2. XD!Prefix(XL) = S
  <2>1. \A x \in 1 .. XL : \E i \in 1 .. XL : index[i] = x
    BY <1>1 DEF Perm
  <2>2. \A i \in 1 .. XL : index[i] \in 1 .. XL
    BY <1>1 DEF Perm
  <2>. QED
    BY <1>1, <2>1, <2>2 DEF XD!Prefix
<1>3. ASSUME phase = "sweep", s > active_size PROVE \A i \in begun : seen[i] = 1
  <2>1. Swept(index, S, A, K, seen, begun)
    BY <1>3 DEF XSweeps
  <2>2. K = {}
    BY <1>1, <1>3
  <2>. HIDE DEF S, A, K
  <2>. QED
    BY <1>1, <2>1, <2>2, SweepEnds
<1>4. XD!LooksOnce
  BY <1>1, <1>2, <1>3 DEF XD!LooksOnce, AtMostOnce
<1>. QED
  BY <1>4 DEF XSweeps, XClasses

-----------------------------------------------------------------------------
(* Losses: the objectives of whole numbers are whole numbers. *)

\* h is the running total of q up to n.
Running(q, n, h) ==
  /\ h \in [0 .. n -> Int] /\ h[0] = 0
  /\ \A i \in 1 .. n : h[i] = h[i - 1] + q[i]

LEMMA RunningExists ==
  ASSUME NEW k \in Nat, NEW q \in [1 .. k -> Int], NEW n \in 0 .. k
  PROVE  \E h : Running(q, n, h)
<1>. DEFINE T == {i \in 0 .. k : \A h : ~Running(q, i, h)}
<1>. SUFFICES ASSUME T # {} PROVE FALSE
  OBVIOUS
<1>1. T \in SUBSET Nat
  OBVIOUS
<1>2. PICK i \in T : \A y \in T : i <= y
  <2>. HIDE DEF T
  <2>. QED
    BY <1>1, Least
<1>3. i \in 0 .. k
  BY <1>2
<1>4. i # 0
  <2>1. Running(q, 0, [j \in 0 .. 0 |-> 0])
    BY DEF Running
  <2>. QED
    BY <1>2, <2>1
<1>5. i \in 1 .. k /\ i - 1 \in 0 .. k /\ i - 1 \notin T
  BY <1>2, <1>3, <1>4
<1>6. PICK h : Running(q, i - 1, h)
  BY <1>5
<1>. DEFINE r == [j \in 0 .. i |-> IF j = i THEN h[i - 1] + q[i] ELSE h[j]]
<1>7. q[i] \in Int /\ h \in [0 .. i - 1 -> Int] /\ \A j \in 0 .. i : j # i => j \in 0 .. i - 1
  BY <1>5, <1>6 DEF Running
<1>8. r \in [0 .. i -> Int] /\ r[0] = 0 /\ r[i] = h[i - 1] + q[i] /\ \A j \in 0 .. i - 1 : r[j] = h[j]
  BY <1>5, <1>6, <1>7 DEF Running
<1>. HIDE DEF r
<1>9. ASSUME NEW j \in 1 .. i PROVE r[j] = r[j - 1] + q[j]
  <2>1. j - 1 \in 0 .. i - 1
    BY <1>5
  <2>2. CASE j = i
    BY <1>8, <2>1, <2>2
  <2>3. CASE j # i
    <3>1. j \in 1 .. i - 1 /\ j \in 0 .. i - 1
      BY <1>5, <2>3
    <3>2. h[j] = h[j - 1] + q[j]
      BY <1>6, <3>1 DEF Running
    <3>. QED
      BY <1>8, <2>1, <3>1, <3>2
  <2>. QED
    BY <2>2, <2>3
<1>10. Running(q, i, r)
  BY <1>8, <1>9 DEF Running
<1>. QED
  BY <1>2, <1>10

LEMMA SumInt ==
  ASSUME NEW k \in Nat, NEW q \in [1 .. k -> Int]
  PROVE  TR!SumSeq(q) \in Int
<1>1. Len(q) = k
  OBVIOUS
<1>. DEFINE Step(h) == [n \in 0 .. Len(q) |-> IF n = 0 THEN 0 ELSE h[n - 1] + q[n]]
            sum == CHOOSE h : h = Step(h)
<1>2. PICK h : Running(q, k, h)
  BY RunningExists
<1>3. h = Step(h)
  <2>1. \A n \in 0 .. k : n # 0 => n \in 1 .. k
    OBVIOUS
  <2>2. \A n \in 0 .. k : h[n] = IF n = 0 THEN 0 ELSE h[n - 1] + q[n]
    BY <1>2, <2>1 DEF Running
  <2>3. [n \in 0 .. k |-> h[n]] = Step(h)
    BY <1>1, <2>2
  <2>. QED
    BY <1>2, <2>3 DEF Running
<1>4. sum = Step(sum)
  BY <1>3
<1>5. TR!Sums(q) = sum
  BY DEF TR!Sums
<1>. HIDE DEF sum
<1>6. sum[0] = 0 /\ \A i \in 1 .. k : sum[i] = sum[i - 1] + q[i]
  BY <1>1, <1>4
<1>. DEFINE T == {i \in 0 .. k : sum[i] \notin Int}
<1>7. ASSUME T # {} PROVE FALSE
  <2>1. T \in SUBSET Nat
    OBVIOUS
  <2>2. PICK i \in T : \A y \in T : i <= y
    <3>. HIDE DEF T
    <3>. QED
      BY <1>7, <2>1, Least
  <2>3. i \in 0 .. k /\ sum[i] \notin Int /\ i # 0
    BY <1>6, <2>2
  <2>4. i \in 1 .. k /\ i - 1 \in 0 .. k /\ i - 1 \notin T
    BY <2>2, <2>3
  <2>5. sum[i - 1] \in Int /\ q[i] \in Int
    BY <2>4
  <2>. QED
    BY <1>6, <2>3, <2>4, <2>5
<1>8. sum[k] \in Int
  BY <1>7
<1>. QED
  BY <1>1, <1>5, <1>8 DEF TR!SumSeq

LEMMA RowFacts ==
  /\ Features \in Nat /\ TR!Feats = 1 .. Features /\ Len(X) \in Nat /\ TR!Insts = 1 .. Len(X)
  /\ \A i \in TR!Insts : X[i] \in Seq((1 .. Features) \X Int)
  /\ Y \in [TR!Insts -> Int] /\ C \in [TR!Insts -> Int] /\ p \in Int
<1>. DEFINE R == Seq((1 .. Features) \X Int)
<1>1. X \in Seq(R)
  BY RowsAssumption
<1>. HIDE DEF R
<1>2. Len(X) \in Nat /\ DOMAIN X = 1 .. Len(X) /\ \A i \in 1 .. Len(X) : X[i] \in R
  BY <1>1
<1>. QED
  BY <1>2, RowsAssumption DEF TR!Insts, TR!Feats, R

LEMMA DotInt ==
  ASSUME NEW u \in [TR!Feats -> Int], NEW i \in TR!Insts
  PROVE  TR!dot(u, X[i]) \in Int
<1>. DEFINE R == (1 .. Features) \X Int
            x == X[i]
<1>1. x \in Seq(R)
  BY RowFacts
<1>. HIDE DEF R, x
<1>2. Len(x) \in Nat /\ DOMAIN x = 1 .. Len(x) /\ \A n \in 1 .. Len(x) : x[n] \in R
  BY <1>1
<1>. DEFINE q == [n \in DOMAIN x |-> u[x[n][1]] * x[n][2]]
<1>3. ASSUME NEW n \in 1 .. Len(x) PROVE u[x[n][1]] * x[n][2] \in Int
  <2>1. x[n][1] \in 1 .. Features /\ x[n][2] \in Int
    BY <1>2 DEF R
  <2>2. u[x[n][1]] \in Int
    BY <2>1, RowFacts
  <2>. QED
    BY <2>1, <2>2
<1>4. q \in [1 .. Len(x) -> Int]
  BY <1>2, <1>3
<1>. HIDE DEF q
<1>5. TR!SumSeq(q) \in Int
  BY <1>2, <1>4, SumInt
<1>. QED
  BY <1>5 DEF TR!dot, q, x

LEMMA SqInt ==
  ASSUME NEW u \in [TR!Feats -> Int]
  PROVE  TR!sq(u) \in Int
<1>. DEFINE q == [j \in DOMAIN u |-> u[j] * u[j]]
<1>1. Features \in Nat /\ q \in [1 .. Features -> Int]
  BY RowFacts
<1>. HIDE DEF q
<1>2. TR!SumSeq(q) \in Int
  BY <1>1, SumInt
<1>. QED
  BY <1>2 DEF TR!sq, q

LEMMA LrInt ==
  ASSUME NEW u \in [TR!Feats -> Int]
  PROVE  TR!LrFun(u).f \in Int
<1>. DEFINE zz == TR!Xv(u)
            loss(i) == LET yz == Y[i] * zz[i]
                       IN  C[i] * (IF yz >= 0 THEN TR!Soft(yz) ELSE -10 * yz + TR!Soft(-yz))
            q == [i \in TR!Insts |-> loss(i)]
<1>1. \A i \in TR!Insts : zz[i] \in Int
  BY DotInt DEF TR!Xv
<1>2. ASSUME NEW m \in Nat PROVE TR!Soft(m) \in Int
  BY DEF TR!Soft
<1>. HIDE DEF zz
<1>3. ASSUME NEW i \in TR!Insts PROVE loss(i) \in Int
  <2>. DEFINE yz == Y[i] * zz[i]
  <2>0. zz[i] \in Int /\ Y[i] \in Int /\ C[i] \in Int
    BY <1>1, RowFacts
  <2>1. yz \in Int /\ C[i] \in Int
    BY <2>0
  <2>. HIDE DEF yz
  <2>2. (IF yz >= 0 THEN TR!Soft(yz) ELSE -10 * yz + TR!Soft(-yz)) \in Int
    <3>1. CASE yz >= 0
      <4>1. TR!Soft(yz) \in Int
        BY <1>2, <2>1, <3>1
      <4>. QED
        BY <3>1, <4>1
    <3>2. CASE ~(yz >= 0)
      <4>1. -yz \in Nat /\ -10 * yz \in Int
        BY <2>1, <3>2
      <4>2. TR!Soft(-yz) \in Int
        BY <1>2, <4>1
      <4>3. -10 * yz + TR!Soft(-yz) \in Int
        BY <4>1, <4>2
      <4>. QED
        BY <3>2, <4>3
    <3>. QED
      BY <3>1, <3>2
  <2>. QED
    BY <2>1, <2>2 DEF yz
<1>4. q \in [1 .. Len(X) -> Int] /\ Len(X) \in Nat
  BY <1>3, RowFacts
<1>5. TR!LrFun(u).f = 10 * TR!sq(u) + 2 * TR!SumSeq(q)
  BY DEF TR!LrFun, zz
<1>. HIDE DEF q
<1>6. TR!SumSeq(q) \in Int
  BY <1>4, SumInt
<1>. QED
  BY <1>5, <1>6, SqInt

LEMMA SvcInt ==
  ASSUME NEW u \in [TR!Feats -> Int]
  PROVE  TR!SvcFun(u).f \in Int
<1>. DEFINE zz == [i \in TR!Insts |-> Y[i] * TR!dot(u, X[i])]
            loss(i) == IF 1 - zz[i] > 0 THEN C[i] * (1 - zz[i]) * (1 - zz[i]) ELSE 0
            q == [i \in TR!Insts |-> loss(i)]
<1>1. \A i \in TR!Insts : zz[i] \in Int
  <2>1. \A i \in TR!Insts : TR!dot(u, X[i]) \in Int /\ Y[i] \in Int
    BY DotInt, RowFacts
  <2>. QED
    BY <2>1
<1>. HIDE DEF zz
<1>2. ASSUME NEW i \in TR!Insts PROVE loss(i) \in Int
  <2>1. zz[i] \in Int /\ C[i] \in Int
    BY <1>1, RowFacts
  <2>2. 1 - zz[i] \in Int /\ C[i] * (1 - zz[i]) \in Int
    BY <2>1
  <2>3. C[i] * (1 - zz[i]) * (1 - zz[i]) \in Int
    BY <2>2
  <2>. QED
    BY <2>3
<1>3. q \in [1 .. Len(X) -> Int] /\ Len(X) \in Nat
  BY <1>2, RowFacts
<1>4. TR!SvcFun(u).f = TR!sq(u) + 2 * TR!SumSeq(q)
  BY DEF TR!SvcFun, zz
<1>. HIDE DEF q
<1>5. TR!SumSeq(q) \in Int
  BY <1>3, SumInt
<1>. QED
  BY <1>4, <1>5, SqInt

LEMMA SvrInt ==
  ASSUME NEW u \in [TR!Feats -> Int]
  PROVE  TR!SvrFun(u).f \in Int
<1>. DEFINE zz == TR!Xv(u)
            loss(i) == C[i] * TR!Excess(zz[i] - Y[i]) * TR!Excess(zz[i] - Y[i])
            q == [i \in TR!Insts |-> loss(i)]
<1>1. \A i \in TR!Insts : zz[i] \in Int
  BY DotInt DEF TR!Xv
<1>. HIDE DEF zz
<1>2. ASSUME NEW i \in TR!Insts PROVE loss(i) \in Int
  <2>1. zz[i] \in Int /\ C[i] \in Int /\ Y[i] \in Int /\ p \in Int
    BY <1>1, RowFacts
  <2>2. TR!Excess(zz[i] - Y[i]) \in Int
    BY <2>1 DEF TR!Excess
  <2>3. C[i] * TR!Excess(zz[i] - Y[i]) \in Int
    BY <2>1, <2>2
  <2>. QED
    BY <2>2, <2>3
<1>3. q \in [1 .. Len(X) -> Int] /\ Len(X) \in Nat
  BY <1>2, RowFacts
<1>4. TR!SvrFun(u).f = TR!sq(u) + 2 * TR!SumSeq(q)
  BY DEF TR!SvrFun, zz
<1>. HIDE DEF q
<1>5. TR!SumSeq(q) \in Int
  BY <1>3, SumInt
<1>. QED
  BY <1>4, <1>5, SqInt

LEMMA FunInt ==
  ASSUME NEW k \in {"lr", "svc", "svr"}, NEW u \in [TR!Feats -> Int]
  PROVE  TR!fun(k, u).f \in Int
<1>1. CASE k = "lr"
  BY <1>1, LrInt DEF TR!fun
<1>2. CASE k = "svc"
  BY <1>2, SvcInt DEF TR!fun
<1>3. CASE k = "svr"
  BY <1>3, SvrInt DEF TR!fun
<1>. QED
  BY <1>1, <1>2, <1>3

-----------------------------------------------------------------------------
(* TrustRegion. *)

LEMMA PointsInt ==
  ASSUME NEW u \in TR!Points
  PROVE  u \in [TR!Feats -> Int]
BY RowsAssumption DEF TR!Points

LEMMA TInitial ==
  ASSUME TR!TInit
  PROVE  TNumbers
<1>1. wt \in TR!Points /\ w_new \in [TR!Feats -> Int]
  BY DEF TR!TInit, TR!Zero
<1>. QED
  BY <1>1, PointsInt DEF TR!TInit, TNumbers

LEMMA TStep ==
  ASSUME TNumbers, TR!TNext
  PROVE  TNumbers'
<1>0. TR!Feats' = TR!Feats
  BY DEF TR!Feats
<1>1. CASE TR!AtZero \/ TR!TooMany
  BY <1>0, <1>1 DEF TNumbers, TR!AtZero, TR!TooMany
<1>2. CASE TR!Start
  <2>1. f' = TR!fun(kind, wt).f /\ UNCHANGED <<kind, wt, w_new, fnew, prered>>
    BY <1>2 DEF TR!Start
  <2>2. f' \in Int
    BY <2>1, FunInt DEF TNumbers
  <2>. QED
    BY <1>0, <2>1, <2>2 DEF TNumbers
<1>3. CASE TR!Test
  <2>1. UNCHANGED <<kind, w_new, fnew, prered>> /\ wt' \in {wt, w_new} /\ f' \in {f, fnew}
    BY <1>3 DEF TR!Test
  <2>. QED
    BY <1>0, <2>1 DEF TNumbers
<1>4. ASSUME NEW to \in TR!Points, NEW pre \in {-1, 0, 1, 8}, NEW edge \in BOOLEAN,
             TR!Trpcg(to, pre, edge)
      PROVE  TNumbers'
  <2>1. w_new' = to /\ prered' = pre /\ fnew' = TR!fun(kind, to).f /\ UNCHANGED <<kind, wt, f>>
    BY <1>4 DEF TR!Trpcg
  <2>2. to \in [TR!Feats -> Int]
    BY PointsInt
  <2>3. fnew' \in Int
    BY <2>1, <2>2, FunInt DEF TNumbers
  <2>. QED
    BY <1>0, <2>1, <2>2, <2>3 DEF TNumbers
<1>. QED
  BY <1>1, <1>2, <1>3, <1>4 DEF TR!TNext

LEMMA TDescends ==
  ASSUME TNumbers, TR!TNext
  PROVE  TR!Descends
<1>1. CASE TR!AtZero \/ TR!TooMany \/ TR!Start
  BY <1>1 DEF TR!Descends, TR!AtZero, TR!TooMany, TR!Start
<1>2. CASE TR!Test
  <2>1. CASE 10000 * (f - fnew) > prered
    <3>1. f' = fnew /\ (prered <= 0 => tpc' = "returned")
      BY <1>2, <2>1 DEF TR!Test, TR!TooSmall
    <3>2. f \in Int /\ fnew \in Int /\ prered \in Int
      BY DEF TNumbers
    <3>3. prered > 0 => fnew < f
      BY <2>1, <3>2
    <3>. QED
      BY <3>1, <3>2, <3>3 DEF TR!Descends
  <2>2. CASE ~(10000 * (f - fnew) > prered)
    BY <1>2, <2>2 DEF TR!Test, TR!Descends
  <2>. QED
    BY <2>1, <2>2
<1>3. CASE \E to \in TR!Points, pre \in {-1, 0, 1, 8}, edge \in BOOLEAN : TR!Trpcg(to, pre, edge)
  BY <1>3 DEF TR!Trpcg, TR!Descends
<1>. QED
  BY <1>1, <1>2, <1>3 DEF TR!TNext

-----------------------------------------------------------------------------
(* The theorems. *)

LEMMA Initial ==
  ASSUME MCInit
  PROVE  IInv
<1>1. CASE part = "descent" /\ CD!DInit
  BY <1>1, DInitial DEF IInv
<1>2. CASE part = "blocks" /\ BD!BInit
  BY <1>2, BInitial, BMetInitial DEF IInv
<1>3. CASE part = "multiclass" /\ XD!XInit
  BY <1>3, XInitial DEF IInv
<1>4. CASE part = "tron" /\ TR!TInit
  BY <1>4, TInitial DEF IInv
<1>5. CASE part \in {"loops", "programs", "search"}
  BY <1>5 DEF IInv
<1>. QED
  BY <1>1, <1>2, <1>3, <1>4, <1>5 DEF MCInit

LEMMA Stutters ==
  ASSUME IInv, UNCHANGED vars
  PROVE  IInv'
<1>1. UNCHANGED <<part, sharedVars, cdVars, bdVars, xdVars, trVars>>
  BY DEF vars
<1>2. UNCHANGED <<phase, index, active_size, s, seen, begun>>
  BY <1>1 DEF sharedVars
<1>3. ASSUME DSweeps, DCaches PROVE DSweeps' /\ DCaches'
  <2>1. UNCHANGED <<solver, level, QP_active_size, Gmax_new, Gnorm1_new, w, wpd, d, applied, dist, xTd, exp_fits, given_up>>
    BY <1>1 DEF cdVars
  <2>2. CD!Size' = CD!Size /\ CD!Coord' = CD!Coord /\ CD!StopsOnAll' = CD!StopsOnAll
    BY <1>2, <2>1 DEF CD!Size, CD!Coord, CD!StopsOnAll, CD!WithinEps
  <2>3. DSweeps'
    BY <1>2, <1>3, <2>1, <2>2 DEF DSweeps
  <2>4. DCaches'
    BY <1>2, <1>3, <2>1 DEF DCaches
  <2>. QED
    BY <2>3, <2>4
<1>4. ASSUME BSweeps, BBlocks, BMet PROVE BSweeps' /\ BBlocks' /\ BMet'
  <2>1. UNCHANGED <<t, send, Grad, workingset, candidates_size, eps1, PGmax_new, PGmin_new, updated, met>>
    BY <1>1 DEF bdVars
  <2>2. BD!Pos' = BD!Pos /\ BD!StopsOnAll' = BD!StopsOnAll
    BY <1>2, <2>1 DEF BD!Pos, BD!StopsOnAll
  <2>3. BSweeps'
    BY <1>2, <1>4, <2>1, <2>2 DEF BSweeps
  <2>4. BBlocks'
    BY <1>2, <1>4, <2>1, <2>2 DEF BBlocks
  <2>5. BMet'
    BY <1>2, <1>4, <2>1, <2>2 DEF BMet, Covered, Idle
  <2>. QED
    BY <2>3, <2>4, <2>5
<1>5. ASSUME XSweeps, XClasses PROVE XSweeps' /\ XClasses'
  <2>1. UNCHANGED <<alpha_index, active_size_i, y_index, G, start_from_all, stopping, full>>
    BY <1>1 DEF xdVars
  <2>2. /\ XD!Inst' = XD!Inst /\ XD!Class' = XD!Class /\ XD!StopsOnAll' = XD!StopsOnAll
        /\ XD!OwnGradient' = XD!OwnGradient
    BY <1>2, <2>1 DEF XD!Inst, XD!Class, XD!StopsOnAll, XD!OwnGradient
  <2>3. XSweeps'
    BY <1>2, <1>5, <2>1, <2>2 DEF XSweeps
  <2>4. XClasses'
    BY <1>2, <1>5, <2>1, <2>2 DEF XClasses
  <2>. QED
    BY <2>3, <2>4
<1>6. ASSUME TNumbers PROVE TNumbers'
  BY <1>1, <1>6 DEF TNumbers, trVars, TR!Feats
<1>. QED
  BY <1>1, <1>3, <1>4, <1>5, <1>6 DEF IInv

LEMMA Step ==
  ASSUME IInv, [MCNext]_vars
  PROVE  IInv'
<1>1. CASE part = "descent" /\ CD!DNext /\ part' = part
  BY <1>1, DStep DEF IInv
<1>2. CASE part = "blocks" /\ BD!BNext /\ part' = part
  BY <1>2, BStep DEF IInv
<1>3. CASE part = "multiclass" /\ XD!XNext /\ part' = part
  BY <1>3, XStep DEF IInv
<1>4. CASE part = "tron" /\ TR!TNext /\ part' = part
  BY <1>4, TStep DEF IInv
<1>5. CASE part \in {"loops", "programs", "search"} /\ part' = part
  BY <1>5 DEF IInv
<1>6. CASE UNCHANGED vars
  BY <1>6, Stutters
<1>. QED
  BY <1>1, <1>2, <1>3, <1>4, <1>5, <1>6 DEF MCNext, Ended

\* After every step of solve_l2r_l1l2_svc, solve_l2r_l1l2_svr, solve_l2r_lr_dual,
\* solve_l1r_l2_svc, solve_l1r_lr and Solver_MCSVM_CS::Solve (linear.cpp) the order
\* of the coordinates, the account of the sweep and the caches are as stated above,
\* and the objectives TRON::tron compares are numbers.
THEOREM IInvInvariant == MCSpec => []IInv
<1>1. MCInit => IInv
  BY Initial
<1>2. IInv /\ [MCNext]_vars => IInv'
  BY Step
<1>. QED
  BY <1>1, <1>2, PTL DEF MCSpec

\* Whatever is shrunk, swapped and shuffled, no sweep of a solver of linear.cpp
\* skips an active coordinate or looks at one twice, and a solver that stops short
\* of max_iter has just swept over all coordinates and passed its stop test: the
\* violations it met are within eps, except that solve_l2r_l1l2_svc asks only that
\* the projected gradients are within eps of each other, however large.
THEOREM SweepsCompleteCorrect == MCSpec => []SweepsComplete
<1>1. IInv => SweepsComplete
  BY DChecked, BChecked, XChecked DEF IInv, SweepsComplete
<1>. QED
  BY <1>1, IInvInvariant, PTL

\* Between the coordinates of solve_l1r_l2_svc, b has the step that w[j] was given;
\* as long as no line search of solve_l1r_lr was given up, its exp_wTx is that of w,
\* and its wpd and xTd are in step (after one was given up, nothing is said); and
\* the gradients of a block of candidates and of the classes of an instance are at
\* the positions of what they are the gradients of, whatever was swapped.
THEOREM CachesFitCorrect == MCSpec => []CachesFit
<1>1. IInv => CachesFit
  BY DChecked, BChecked, XChecked DEF IInv, CachesFit
<1>. QED
  BY <1>1, IInvInvariant, PTL

\* TRON::tron moves w only to a point of lower objective, except in the step in
\* which it finds that no reduction was predicted and returns.
THEOREM StepsDescendCorrect == MCSpec => StepsDescend
<1>1. ASSUME IInv, [MCNext]_vars, part = "tron", ~UNCHANGED vars PROVE TR!Descends
  <2>1. TNumbers
    BY <1>1 DEF IInv
  <2>2. TR!TNext
    BY <1>1 DEF MCNext, Ended
  <2>. QED
    BY <2>1, <2>2, TDescends
<1>2. IInv /\ [MCNext]_vars => [part = "tron" => TR!Descends]_vars
  BY <1>1
<1>. QED
  BY <1>2, IInvInvariant, PTL DEF MCSpec, StepsDescend
=============================================================================
