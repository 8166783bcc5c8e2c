----------------------------- MODULE MCKernels -----------------------------
(***************************************************************************)
(* The gapbs programs bfs, cc, cc_sv, sssp, bc, pr, tc and converter: a    *)
(* run is one of them.  The components kernels are at hand by the names    *)
(* that their proofs use, the others through an INSTANCE, bfs and sssp     *)
(* together with what is proved about them; the proofs at the end carry    *)
(* that over to the program that runs, whichever it is.                    *)
(***************************************************************************)
EXTENDS Components, TLAPS

CONSTANTS
  LocalSize, Alphas, Betas, BitsPerWord, ChunkWords,   \* bfs, bc
  Deltas, kDistInf, kMaxBin,                                   \* sssp
  One, Unit, MinDegree, BlockSize,                             \* bc, pr, tc
  WeightRange, Comment, None                                      \* converter

VARIABLES
  cli, source, val, iter, scores,
  slots, sharedIn, outStart, outEnd, lq, copyStart,
  alpha, beta, parent, front, curr, edgesToCheck, scoutCount, awakeCount, oldAwakeCount, word,
  delta, oracle_dist, dist, frontier, shared_indexes, frontier_tails,
  nextSlot, single, local_bins, relax,
  sources, depths, path_counts, depth, depth_index, succ, deltas,
  outgoing_contrib, error,
  h, total, overrun,
  input, needs_weights, el, num_nodes, transpose, degrees, offsets, index, neighs, made,
  graph, disk, slot

-----------------------------------------------------------------------------
(* The graphs. *)

\* A path into a fork and back, with a cycle, both ways to vertex 4; and a
\* graph in which part of the vertices cannot be reached.  From some sources
\* the search goes bottom-up and returns to the queue with levels to come.
BFSGraphs == { << <<1, 2>>, <<3>>, <<3, 4>>, <<0, 4>>, <<>> >>,
               << <<1, 2, 3>>, <<0>>, <<4>>, <<>>, <<1>> >> }

\* A vertex with two others hooked to it at a time; an edge that only the last
\* loop looks at, from the other side; and a path whose middle edge both
\* sampling rounds can miss.
CCGraphs ==
  { [directed |-> TRUE,  out |-> << <<3>>, <<3>>, <<3, 1>>, <<>> >>,
                         inn |-> << <<>>, <<2>>, <<>>, <<0, 1, 2>> >>],
    [directed |-> TRUE,  out |-> << <<>>, <<>>, <<0, 1, 3>>, <<>> >>,
                         inn |-> << <<2>>, <<2>>, <<>>, <<2>> >>],
    [directed |-> FALSE, out |-> << <<2>>, <<3>>, <<0, 3>>, <<1, 2>> >>,
                         inn |-> << <<2>>, <<3>>, <<0, 3>>, <<1, 2>> >>] }

Edge(n, x) == [v |-> n, w |-> x]

\* A cycle with shortcuts, and a fork whose branches improve the same vertex
\* in either order.
WGraphs ==
  { << <<Edge(1, 1), Edge(2, 5)>>, <<Edge(2, 1), Edge(3, 6)>>, <<Edge(3, 1)>>, <<Edge(0, 1)>> >>,
    << <<Edge(1, 1), Edge(2, 1), Edge(3, 4)>>, <<Edge(3, 2)>>, <<Edge(3, 1), Edge(4, 3)>>,
       <<Edge(4, 1)>>, <<>> >> }

\* Two shortest paths to a vertex and an edge back; a triangle and a vertex
\* without edges.
BCGraphs == { << <<1, 2>>, <<3>>, <<3, 4>>, <<1, 4>>, <<>> >>, << <<1, 2>>, <<0, 2>>, <<0, 1>>, <<>> >> }

\* A star with an edge back, and a vertex that keeps what it gets.
PRGraphs == { << <<1, 2>>, <<0>>, <<0, 1>> >>, << <<1, 2>>, <<2>>, <<>> >> }

Arg(o, a) == [opt |-> o, arg |-> a]
BCArgs == { <<>>, <<Arg("i", 2), Arg("r", 3)>>, <<Arg("r", 1)>> }
PRArgs == { <<Arg("i", 3), Arg("t", n)>> : n \in {Unit \div 2, Unit \div 5, Unit \div 20} }

-----------------------------------------------------------------------------
BF == INSTANCE BFSProofs WITH Graphs <- BFSGraphs
SP == INSTANCE DeltaSteppingProofs WITH Graphs <- WGraphs
BC == INSTANCE Betweenness WITH Graphs <- BCGraphs, Args <- BCArgs
PR == INSTANCE PageRank WITH Graphs <- PRGraphs, Args <- PRArgs
CS == INSTANCE CSR

\* Undirected graphs by their rows: two triangles that share an edge and a
\* tail; a graph dense enough to relabel; and a directed one.
Side(rows) ==
  CS!FromRows([v \in 0 .. Len(rows) - 1 |->
                 [i \in DOMAIN rows[v + 1] |-> Edge(rows[v + 1][i], 1)]], Len(rows))
TCGraphs ==
  { CS!Undirected(5, Side(<< <<1, 2>>, <<0, 2, 3>>, <<0, 1, 3>>, <<1, 2, 4>>, <<3>> >>)),
    CS!Undirected(5, Side(<< <<1, 2, 3, 4>>, <<0, 2>>, <<0, 1, 4>>, <<0>>, <<0, 2>> >>)),
    CS!Directed(2, Side(<< <<1>>, <<>> >>), Side(<< <<>>, <<0>> >>)) }

TC == INSTANCE TriangleCount WITH Graphs <- TCGraphs

\* What the proofs about bfs and about sssp assume.
ASSUME BFSGraphsAssumption == BF!ConstantsSound
ASSUME WGraphsAssumption == SP!ConstantsSound

\* The command lines, files and generated edges that the converter is run on.
E(src, dst)     == [u |-> src, v |-> Edge(dst, 1)]
WE(src, dst, x) == [u |-> src, v |-> Edge(dst, x)]

InFile     == Arg("f", "in")
OutSg      == Arg("b", "out")
OutEl      == Arg("e", "out")
Weighted   == Arg("w", "")
AsDirected == Arg("g", -1)   \* the only way not to symmetrize

\* Parallel edges of different weight, both directions of an edge, a self-loop.
Edges1 == << <<0, 1, 3>>, <<1, 0, 1>>, <<0, 1, 2>> >>
Edges2 == << <<2, 0, 2>>, <<2, 2, 1>>, <<2, 1, 1>> >>

Meant(es) == {WE(es[i][1], es[i][2], es[i][3]) : i \in DOMAIN es}
Unweighted(es) == [i \in DOMAIN es |-> <<es[i][1], es[i][2]>>]
Plain(es) == {E(es[i][1], es[i][2]) : i \in DOMAIN es}

Banner(field, symmetry) ==
  [start |-> "%%MatrixMarket", object |-> "matrix", format |-> "coordinate",
   field |-> field, symmetry |-> symmetry]

\* A file with the edges that its lines list; a matrix may say that it is symmetric.
FileOf(args, suffix, lines, listed) ==
  [args |-> args, suffix |-> suffix, lines |-> lines, listed |-> listed, symmetry |-> "general"]
MatrixOf(args, field, symmetry, lines, listed) ==
  [FileOf(args, ".mtx", <<Banner(field, symmetry)>> \o lines, listed) EXCEPT !.symmetry = symmetry]

Formats ==
  { FileOf(<<InFile, OutEl, AsDirected>>, ".el", Unweighted(Edges1), Plain(Edges1)),
    FileOf(<<InFile, OutSg>>, ".el", Unweighted(Edges2), Plain(Edges2)),
    FileOf(<<InFile, Weighted, OutEl>>, ".el", Unweighted(Edges2), Plain(Edges2)),
    FileOf(<<InFile, Weighted, OutEl, AsDirected>>, ".wel", Edges1, Meant(Edges1)),
    FileOf(<<InFile, Weighted, OutSg, AsDirected>>, ".wel", Edges2, Meant(Edges2)),
    FileOf(<<InFile, Weighted, OutSg>>, ".wel", Edges1, Meant(Edges1)),
    FileOf(<<InFile, OutSg, AsDirected>>, ".wel", Edges2, Meant(Edges2)),
    FileOf(<<InFile, Weighted, OutEl, AsDirected>>, ".gr",
         <<Comment, <<"p", 3, 3>>, <<"a", 3, 1, 2>>, Comment, <<"a", 3, 3, 1>>, <<"a", 3, 2, 1>> >>,
         Meant(Edges2)),
    FileOf(<<InFile, Weighted, OutSg, AsDirected>>, ".graph", <<Comment, <<3, 3, 1>>, <<>>, Comment, <<>>, <<1, 2, 3, 1, 2, 1>> >>,
         Meant(Edges2)),
    FileOf(<<InFile, OutSg, AsDirected>>, ".graph", << <<3, 3>>, <<>>, <<>>, <<1, 3, 2>> >>, Plain(Edges2)),
    FileOf(<<InFile, OutSg>>, ".graph", << <<1, 1, 11>>, <<1>> >>, {}),
    MatrixOf(<<InFile, Weighted, OutEl, AsDirected>>, "real", "general",
         <<Comment, <<3, 3, 3>>, <<3, 1, 2>>, <<3, 3, 1>>, <<3, 2, 1>> >>, Meant(Edges2)),
    MatrixOf(<<InFile, OutSg>>, "pattern", "symmetric", << <<2, 2, 1>>, <<2, 1>> >>, {E(1, 0)}),
    MatrixOf(<<InFile, Weighted, OutSg, AsDirected>>, "integer", "symmetric", << <<2, 2, 1>>, <<2, 1, 3>> >>, {WE(1, 0, 3)}),
    MatrixOf(<<InFile, Weighted, OutEl, AsDirected>>, "real", "skew-symmetric", << <<2, 2, 1>>, <<2, 1, 3>> >>, {WE(1, 0, 3)}),
    MatrixOf(<<InFile, OutSg>>, "complex", "general", << <<1, 1, 1>> >>, {}),
    MatrixOf(<<InFile, OutSg>>, "real", "general", << <<1, 2, 1>> >>, {}),
    FileOf(<<InFile, OutSg>>, ".txt", <<>>, {}),
    FileOf(<<InFile>>, ".el", << <<0, 1>> >>, {E(0, 1)}),
    FileOf(<<InFile, OutSg>>, ".el", << >>, {}) }

\* The image of a graph of two vertices, and the wrong type for it.
SgImage == CS!WriteSerializedGraph(CS!Undirected(2, CS!FromRows([v \in 0 .. 1 |-> <<[v |-> 1 - v, w |-> 1]>>], 2)))
Images == { FileOf(<<InFile, OutEl>>, ".sg", SgImage, {}), FileOf(<<InFile, Weighted, OutEl>>, ".sg", SgImage, {}) }

Generated ==
  { [args |-> <<Arg("u", 1), Arg("k", 1), OutSg>>, suffix |-> "", draws |-> << <<0, 1>>, <<1, 1>> >>],
    [args |-> <<Arg("g", 2), Arg("k", 1), OutSg>>, suffix |-> "",
     draws |-> << <<"A", "A">>, <<"B", "A">>, <<"D", "C">>, <<"C", "C">> >>],
    [args |-> <<Arg("g", 1), Arg("k", 1), Weighted, OutEl, Arg("h", ""), OutSg>>, suffix |-> "", draws |-> <<>>] }

ConverterInputs == Formats \cup Images \cup Generated

GB == INSTANCE GraphBuilder WITH Inputs <- ConverterInputs

queueVars == <<slots, sharedIn, outStart, outEnd, lq, copyStart>>
bfVars == <<alpha, beta, parent, front, curr, edgesToCheck, scoutCount, awakeCount,
            oldAwakeCount, word>>
ccVars == <<neighbor_rounds, comp, round, c, change, lab>>
spVars == <<delta, oracle_dist, dist, frontier, shared_indexes, frontier_tails,
            nextSlot, single, local_bins, relax>>
bcVars == <<sources, depths, path_counts, depth, depth_index, succ, deltas>>
prVars == <<outgoing_contrib, error>>
tcVars == <<h, total, overrun>>
gbVars == <<input, needs_weights, el, num_nodes, transpose, degrees, offsets, index,
            neighs, made, graph, disk, slot>>
allVars == <<kernel, g, cli, source, phase, todo, pc, work, u, val, iter, scores,
          queueVars, bfVars, ccVars, spVars, bcVars, prVars, tcVars, gbVars>>

\* The variables of the programs that do not run.
NoTeam  == pc = <<>> /\ work = <<>>
NoQueue == /\ slots = <<>> /\ sharedIn = 0 /\ outStart = 0 /\ outEnd = 0
           /\ lq = <<>> /\ copyStart = <<>>
NoBF == /\ alpha = 0 /\ beta = 0 /\ parent = <<>> /\ front = <<>> /\ curr = <<>>
        /\ edgesToCheck = 0 /\ scoutCount = 0 /\ awakeCount = 0 /\ oldAwakeCount = 0
        /\ word = <<>>
NoCC == neighbor_rounds = 0 /\ comp = <<>> /\ round = 0 /\ c = 0 /\ change = FALSE /\ lab = <<>>
NoSP == /\ delta = 0 /\ oracle_dist = <<>> /\ dist = <<>> /\ frontier = <<>>
        /\ shared_indexes = <<>> /\ frontier_tails = <<>> /\ nextSlot = 0
        /\ single = FALSE /\ local_bins = <<>> /\ relax = <<>>
NoBC == /\ sources = <<>> /\ depths = <<>> /\ path_counts = <<>> /\ depth = 0
        /\ depth_index = <<>> /\ succ = {} /\ deltas = <<>>
NoPR == outgoing_contrib = <<>> /\ error = 0
NoTC == h = <<>> /\ total = 0 /\ overrun = FALSE
NoGB == /\ input = <<>> /\ needs_weights = FALSE /\ el = <<>> /\ num_nodes = 0 /\ transpose = FALSE
        /\ degrees = <<>> /\ offsets = <<>> /\ index = <<>> /\ neighs = <<>> /\ made = <<>>
        /\ graph = <<>> /\ disk = <<>> /\ slot = <<>>

InitAll ==
  \/ /\ BF!Init /\ kernel = "bfs" /\ cli = <<>> /\ u = <<>> /\ iter = 0 /\ scores = <<>>
     /\ NoCC /\ NoSP /\ NoBC /\ NoPR /\ NoTC /\ NoGB
  \/ /\ Init /\ cli = <<>> /\ source = 0 /\ val = <<>> /\ iter = 0 /\ scores = <<>>
     /\ NoQueue /\ NoBF /\ NoSP /\ NoBC /\ NoPR /\ NoTC /\ NoGB
  \/ /\ SP!Init /\ kernel = "sssp" /\ cli = <<>> /\ phase = "none" /\ todo = {}
     /\ val = <<>> /\ scores = <<>>
     /\ NoQueue /\ NoBF /\ NoCC /\ NoBC /\ NoPR /\ NoTC /\ NoGB
  \/ /\ BC!Init /\ kernel = "bc" /\ source = 0 /\ u = <<>>
     /\ NoBF /\ NoCC /\ NoSP /\ NoPR /\ NoTC /\ NoGB
  \/ /\ PR!Init /\ kernel = "pr" /\ source = 0 /\ u = <<>> /\ val = <<>>
     /\ NoTeam /\ NoQueue /\ NoBF /\ NoCC /\ NoSP /\ NoBC /\ NoTC /\ NoGB
  \/ /\ TC!Init /\ kernel = "tc" /\ cli = <<>> /\ source = 0 /\ u = <<>> /\ val = <<>>
     /\ iter = 0 /\ scores = <<>>
     /\ NoTeam /\ NoQueue /\ NoBF /\ NoCC /\ NoSP /\ NoBC /\ NoPR /\ NoGB
  \/ /\ GB!Init /\ kernel = "converter" /\ g = <<>> /\ source = 0 /\ u = <<>> /\ val = <<>>
     /\ iter = 0 /\ scores = <<>>
     /\ NoQueue /\ NoBF /\ NoCC /\ NoSP /\ NoBC /\ NoPR /\ NoTC

InBF == /\ kernel = "bfs"
        /\ UNCHANGED <<kernel, cli, u, iter, scores, ccVars, spVars, bcVars, prVars, tcVars, gbVars>>
InCC == /\ kernel \in {"afforest", "sv"}
        /\ UNCHANGED <<cli, source, val, iter, scores, queueVars, bfVars, spVars, bcVars,
                       prVars, tcVars, gbVars>>
InSP == /\ kernel = "sssp"
        /\ UNCHANGED <<kernel, cli, phase, todo, val, scores, queueVars, bfVars, ccVars,
                       bcVars, prVars, tcVars, gbVars>>
InBC == /\ kernel = "bc"
        /\ UNCHANGED <<kernel, source, u, bfVars, ccVars, spVars, prVars, tcVars, gbVars>>
InPR == /\ kernel = "pr"
        /\ UNCHANGED <<kernel, source, u, val, pc, work, queueVars, bfVars, ccVars, spVars,
                       bcVars, tcVars, gbVars>>
InTC == /\ kernel = "tc"
        /\ UNCHANGED <<kernel, cli, source, u, val, iter, scores, pc, work, queueVars, bfVars,
                       ccVars, spVars, bcVars, prVars, gbVars>>
InGB == /\ kernel = "converter"
        /\ UNCHANGED <<kernel, g, source, u, val, iter, scores, queueVars, bfVars, ccVars, spVars,
                       bcVars, prVars, tcVars>>

BFStep(t) == InBF /\ BF!Step(t)
CCStep(t) == InCC /\ Step(t)
SPStep(t) == InSP /\ SP!Step(t)
BCStep(t) == InBC /\ BC!Step(t)
GBStep(t) == InGB /\ GB!Step(t)
BFMain    == InBF /\ BF!DOBFS
CCMain    == InCC /\ Main
SPMain    == InSP /\ SP!Barriers
BCMain    == InBC /\ BC!Main
PRMain    == InPR /\ PR!Main
TCMain    == InTC /\ TC!Main
GBMain    == InGB /\ GB!Main

Returned == IF kernel = "sssp" THEN SP!Done ELSE phase \in {"done", "exit"}
Stopped  == Returned /\ UNCHANGED allVars

NextAll ==
  \/ \E t \in Thread : BFStep(t) \/ CCStep(t) \/ SPStep(t) \/ BCStep(t) \/ GBStep(t)
  \/ BFMain \/ CCMain \/ SPMain \/ BCMain \/ PRMain \/ TCMain \/ GBMain
  \/ Stopped

\* The OpenMP runtime runs every thread of the team, and the main thread.  Of
\* the converter only what it builds and writes is of interest.
FairnessAll ==
  /\ WF_allVars(BFMain \/ CCMain \/ SPMain \/ BCMain \/ PRMain \/ TCMain)
  /\ \A t \in Thread : WF_allVars(BFStep(t) \/ CCStep(t) \/ SPStep(t) \/ BCStep(t))

SpecAll == InitAll /\ [][NextAll]_allVars /\ FairnessAll

-----------------------------------------------------------------------------
\* bfs: its queue never overflows and never shows a slot before it is written,
\* its tree descends one level per edge at every moment, and BFSVerifier accepts
\* it at the end (sliding_queue.h:103-108, bfs.cc:57-79, 190-240).
BFSRight == kernel = "bfs" => BF!QueueFits /\ BF!TreeEdgesDescend /\ BF!VerifierAccepts

\* sssp: no edge that still improves a distance is forgotten, the distances
\* settle bin by bin, and SSSPVerifier accepts them at the end (sssp.cc:79-123,
\* 139-172).
SSSPRight == kernel = "sssp" => SP!NoLostRelaxation /\ SP!SettledBelow /\ SP!SSSPAccepted

\* BCVerifier, PRVerifier or TCVerifier accepts what the kernel returns.  On the
\* way, bc finds its levels in its queue again (bc.cc:116-130).
KernelAccepts ==
  /\ kernel = "bc" => BC!LevelsKept /\ BC!BCAccepted
  /\ kernel = "pr" => PR!PRAccepted
  /\ kernel = "tc" => TC!TCAccepted

\* The converter's graph is sorted, without duplicates and its own inverse.
BuildsGraph == kernel = "converter" => GB!BuildsGraph

\* Files are read as the edges that they list and, but for two cases of .mtx files,
\* imply; they are read back as they were written.
FilesFaithful == kernel = "converter" => GB!FilesFaithful

\* Every kernel returns, under every schedule of the threads.
KernelReturns == <>(IF kernel = "converter" THEN TRUE ELSE Returned)

-----------------------------------------------------------------------------
(* Proofs. *)

\* The invariants of the kernels.
IInv == (kernel = "bfs" => BF!IInv) /\ (kernel = "sssp" => SP!IInv /\ SP!Bounded /\ SP!OracleKnown)

LEMMA Constants == BF!ConstantsSound /\ SP!ConstantsSound
BY BFSGraphsAssumption, WGraphsAssumption

LEMMA InitIInv == ASSUME InitAll PROVE IInv
<1>1. CASE kernel = "bfs"
  <2>1. BF!Init
    BY <1>1 DEF InitAll, Init, Kernels
  <2>2. BF!IInv
    BY <2>1, Constants, BF!InitStep
  <2>. QED
    BY <1>1, <2>2 DEF IInv
<1>2. CASE kernel = "sssp"
  <2>1. SP!Init
    BY <1>2 DEF InitAll, Init, Kernels
  <2>2. SP!IInv /\ SP!Bounded
    BY <2>1, Constants, SP!InitIInv, SP!InitBounded
  <2>3. SP!OracleKnown
    BY <2>1 DEF SP!Init, SP!OracleKnown
  <2>. QED
    BY <1>2, <2>2, <2>3 DEF IInv
<1>. QED
  BY <1>1, <1>2 DEF IInv

\* A step of one program is not a step of another.
LEMMA OneProgram ==
  ASSUME NextAll
  PROVE  /\ kernel' = kernel
         /\ kernel = "bfs" => BF!Next \/ UNCHANGED allVars
         /\ kernel = "sssp" => SP!Next \/ UNCHANGED allVars
<1>1. ASSUME InCC, Main \/ \E t \in Thread : Step(t) PROVE kernel' = kernel
  <2>1. ASSUME NEW t \in Thread, Take(t) \/ LoadU(t) \/ LoadV(t) \/ LinkHigh(t) \/ LinkCas(t) \/ LinkParent(t) PROVE UNCHANGED config
    BY <2>1 DEF Take, LoadU, LoadV, LinkHigh, LinkCas, LinkParent
  <2>2. ASSUME NEW t \in Thread, LinkGrandparent(t) \/ HookTest(t) \/ HookStore(t) \/ CompressTest(t) \/ CompressJump(t)
        PROVE  UNCHANGED config
    BY <2>2 DEF LinkGrandparent, HookTest, HookStore, CompressTest, CompressJump
  <2>3. ASSUME Main PROVE UNCHANGED config
    BY <2>3 DEF Main, StartCompress, NextRound, SampleFrequentElement, NextIteration, Return, Enter
  <2>4. UNCHANGED config
    BY <1>1, <2>1, <2>2, <2>3 DEF Step
  <2>. QED
    BY <2>4 DEF config
<1>2. CASE BFMain \/ \E t \in Thread : BFStep(t)
  BY <1>2 DEF BFMain, BFStep, InBF, BF!Next
<1>3. CASE CCMain \/ \E t \in Thread : CCStep(t)
  BY <1>1, <1>3 DEF CCMain, CCStep, InCC
<1>4. CASE SPMain \/ \E t \in Thread : SPStep(t)
  BY <1>4 DEF SPMain, SPStep, InSP, SP!Next
<1>5. CASE BCMain \/ \E t \in Thread : BCStep(t)
  BY <1>5 DEF BCMain, BCStep, InBC
<1>6. CASE PRMain
  BY <1>6 DEF PRMain, InPR
<1>7. CASE TCMain
  BY <1>7 DEF TCMain, InTC
<1>8. CASE GBMain \/ \E t \in Thread : GBStep(t)
  BY <1>8 DEF GBMain, GBStep, InGB
<1>9. CASE Stopped
  BY <1>9 DEF Stopped, allVars
<1>. QED
  BY <1>2, <1>3, <1>4, <1>5, <1>6, <1>7, <1>8, <1>9 DEF NextAll

LEMMA Stutter == ASSUME UNCHANGED allVars PROVE UNCHANGED kernel /\ UNCHANGED BF!vars /\ UNCHANGED SP!vars
<1>1. UNCHANGED <<kernel, g, source, phase, todo, pc, work, u, val, iter, queueVars, bfVars, spVars>>
  BY DEF allVars
<1>2. UNCHANGED BF!vars
  BY <1>1 DEF queueVars, bfVars, BF!vars, BF!config, BF!heuristic, BF!team, BF!queueVars
<1>3. UNCHANGED SP!vars
  BY <1>1 DEF spVars, SP!vars, SP!config, SP!shared, SP!locals
<1>. QED
  BY <1>1, <1>2, <1>3

LEMMA NextIInv == ASSUME IInv, [NextAll]_allVars PROVE IInv'
<1>1. kernel' = kernel
  BY OneProgram, Stutter
<1>2. CASE kernel = "bfs"
  <2>1. BF!IInv /\ [BF!Next]_(BF!vars)
    BY <1>2, OneProgram, Stutter DEF IInv
  <2>2. BF!IInv'
    BY <2>1, Constants, BF!NextStep
  <2>. QED
    BY <1>1, <1>2, <2>2 DEF IInv
<1>3. CASE kernel = "sssp"
  <2>1. SP!IInv /\ SP!Bounded /\ SP!OracleKnown /\ [SP!Next]_(SP!vars)
    BY <1>3, OneProgram, Stutter DEF IInv
  <2>2. SP!IInv' /\ SP!Bounded' /\ SP!OracleKnown'
    BY <2>1, Constants, SP!NextIInv, SP!NextBounded, SP!NextOracle
  <2>. QED
    BY <1>1, <1>3, <2>2 DEF IInv
<1>. QED
  BY <1>1, <1>2, <1>3 DEF IInv

\* A run of a gapbs program keeps the invariant of its kernel.
THEOREM IInvInvariant == SpecAll => []IInv
<1>1. InitAll => IInv
  BY InitIInv
<1>2. IInv /\ [NextAll]_allVars => IInv'
  BY NextIInv
<1>. QED
  BY <1>1, <1>2, PTL DEF SpecAll

\* In bfs no vertex is queued twice, so that the queue of num_nodes entries
\* never overflows; its window is written; the tree descends one level per edge;
\* and BFSVerifier accepts it (sliding_queue.h:103-108, bfs.cc:57-79, 190-240).
THEOREM BFSRightCorrect == SpecAll => []BFSRight
<1>1. ASSUME IInv PROVE BFSRight
  <2>1. ASSUME kernel = "bfs" PROVE BF!QueueFits /\ BF!TreeEdgesDescend /\ BF!VerifierAccepts
    <3>1. BF!IInv
      BY <1>1, <2>1 DEF IInv
    <3>. QED
      BY <3>1, Constants, BF!Fits, BF!EdgesDescend, BF!Accepted
  <2>. QED
    BY <2>1 DEF BFSRight
<1>. QED
  BY <1>1, IInvInvariant, PTL

\* In sssp an edge that still improves a distance has its source waiting
\* somewhere; every vertex whose distance lies below the current bin has it;
\* and SSSPVerifier accepts the distances (sssp.cc:79-123, 139-172).
THEOREM SSSPRightCorrect == SpecAll => []SSSPRight
<1>1. ASSUME IInv PROVE SSSPRight
  <2>1. ASSUME kernel = "sssp" PROVE SP!NoLostRelaxation /\ SP!SettledBelow /\ SP!SSSPAccepted
    <3>1. SP!IInv /\ SP!Bounded /\ SP!OracleKnown
      BY <1>1, <2>1 DEF IInv
    <3>. QED
      BY <3>1, Constants, SP!NoneForgotten, SP!Settled, SP!Accepted
  <2>. QED
    BY <2>1 DEF SSSPRight
<1>. QED
  BY <1>1, IInvInvariant, PTL
=============================================================================
