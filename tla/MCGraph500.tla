----------------------------- MODULE MCGraph500 -----------------------------
(***************************************************************************)
(* The parts of graph500, each on inputs of its own: a run is one of them. *)
(* The parallel search is the module extended; the others are instances    *)
(* that share its variables of the same name.                              *)
(***************************************************************************)
EXTENDS Graph500BFS

CONSTANT Parts   \* the parts that are run

VARIABLES
  part,
  IJ, maxvtx, XOFF, XENDOFF, xadj,                           \* both constructions
  tmaxvtx, gmaxvtx, scatter, where,                          \* omp-csr's
  version, head, chain, deg, newk2, k, p,                    \* seq-csr and seq-list
  root, err, level, seen_edge, rc, terr, parent, nhop, lastlvl, nedge_traversed,  \* verify
  generator, draws, val0, val1, newlabel, stage, place, Ak, Aplace,               \* generate
  program, args, opts, bfs_root, NBFS, m, searched, drawn, files,                \* main
  size, words, old_val, pos, found                           \* bitmap

-----------------------------------------------------------------------------
(* The inputs. *)

\* Undirected: a hexagon-like cycle with a spur, a path into a hub, and a hub
\* with a tail, where the search goes bottom-up and then top-down again.
MCGraphs == { << <<3, 5>>, <<4, 5>>, <<3, 5>>, <<0, 2>>, <<1>>, <<0, 1, 2, 6>>, <<5>> >>,
              << <<1, 4>>, <<0, 5>>, <<4, 6>>, <<6>>, <<0, 2, 6>>, <<1, 6>>, <<2, 3, 4, 5>> >>,
              << <<1, 2, 3, 5>>, <<0>>, <<0>>, <<0>>, <<5, 6>>, <<0, 4>>, <<4>> >> }

\* Edges twice, in both directions and from a vertex to itself; a vertex
\* without edges below the largest; self-edges only.
BuildLists == { << <<0, 2>>, <<2, 0>>, <<1, 1>>, <<2, 3>>, <<0, 2>> >>,
                << <<4, 1>>, <<1, 2>>, <<1, 4>>, <<4, 2>> >>,
                << <<2, 2>>, <<0, 0>> >> }

\* A triangle with a tail and a doubled edge; two components and a vertex
\* without edges.
SeqLists == { << <<0, 1>>, <<2, 1>>, <<0, 2>>, <<2, 3>>, <<1, 0>> >>,
              << <<0, 1>>, <<4, 2>>, <<2, 2>>, <<1, 0>>, <<4, 5>>, <<5, 2>> >> }

\* Every array of parents for a path with a chord and for a cycle, from
\* vertex 0.
VerifyCases ==
  [IJ : { << <<0, 1>>, <<1, 2>>, <<2, 3>>, <<3, 3>> >>, << <<1, 0>>, <<0, 2>>, <<2, 1>>, <<1, 2>> >> },
   tree : [0 .. 3 -> -1 .. 3], root : {0}]

\* Three edges of two levels, all different, and two of them equal.
QuadrantDraws == { << <<0, 3>>, <<2, 1>>, <<3, 2>> >>, << <<1, 2>>, <<1, 2>>, <<3, 3>> >> }

Arg(o, a) == [opt |-> o, arg |-> a]
Lines ==
  { <<>>, <<Arg("V", 0), Arg("s", 2)>>, <<Arg("s", 0)>>, <<Arg("o", 0), Arg("r", 0)>>,
    <<Arg("R", 0), Arg("A", 20), Arg("B", 20), Arg("C", 20)>>,
    <<Arg("A", 80), Arg("C", 20), Arg("D", 20)>>, <<Arg("A", 20), Arg("A", 30)>>,
    <<Arg("e", 3), Arg("B", 20)>>, <<Arg("r", 0), Arg("s", 2)>>,
    <<Arg("s", 2), Arg("h", 0), Arg("e", 0)>>,
    <<Arg("A", 10), Arg("B", 10), Arg("C", 30), Arg("D", 20)>>, <<Arg("e", 0)>> }
ListsOfScale ==
  << { << <<0, 1>>, <<1, 1>> >>, << <<1, 1>> >> },
     { << <<0, 2>>, <<2, 1>>, <<0, 2>> >>, << <<1, 1>>, <<3, 2>>, <<2, 3>> >>, << <<0, 0>> >> } >>

\* Bits of one word set by both threads, and a part that ends within a word.
BitQueues == { [nv |-> 7, vlist |-> <<0, 4, 3, 6>>], [nv |-> 8, vlist |-> <<5, 7, 2>>],
               [nv |-> 1, vlist |-> <<0>>] }

-----------------------------------------------------------------------------
BuildThreads == 0 .. 2
BD == INSTANCE Graph500Build WITH EdgeLists <- BuildLists, NT <- 3
SQ == INSTANCE Graph500Seq WITH EdgeLists <- SeqLists
VF == INSTANCE Graph500Verify WITH Cases <- VerifyCases
GN == INSTANCE Graph500Generate WITH
        SCALE <- 2, Draws <- QuadrantDraws, WordBits <- 4, Values <- {0, 1, 2, 3, 6, 11, 15},
        Odd0 <- 1, Odd1 <- 5
MN == INSTANCE Graph500Main WITH
        CommandLines <- Lines, EdgeLists <- ListsOfScale, NBFS_max <- 2,
        Defaults <- [SCALE |-> 1, edgefactor |-> 2, p |-> <<57, 19, 19, 5>>, den |-> 100]
BM == INSTANCE Graph500Bitmap WITH nv <- size, Queues <- BitQueues, WordBits <- 2, PosBits <- 3

\* The variables that one part alone has, and those that several share.
bfsVars  == <<g, scout_count, past, next, awake, atBarrier, awake_count, oldk2, lag, raced>>
treeVars == <<srcvtx, bfs_tree, vlist, k1, k2>>
rowVars  == <<maxvtx, XOFF, XENDOFF, xadj>>
bdVars   == <<tmaxvtx, gmaxvtx, scatter, where>>
sqVars   == <<version, head, chain, deg, newk2, p>>
vfVars   == <<root, err, level, seen_edge, rc, terr, parent, nhop, lastlvl, nedge_traversed>>
gnVars   == <<generator, draws, val0, val1, newlabel, stage, place, Ak, Aplace>>
mnVars   == <<program, args, opts, bfs_root, NBFS, m, searched, drawn, files>>
bmVars   == <<size, words, old_val, pos, found>>
allVars  == <<part, pc, edges, todo, buf, IJ, k, treeVars, bfsVars, rowVars, bdVars, sqVars,
              vfVars, gnVars, mnVars, bmVars>>

\* The variables of the parts that do not run.
NoBFS == /\ g = <<>> /\ scout_count = 0 /\ past = {} /\ next = {} /\ awake = 0 /\ atBarrier = <<>>
         /\ awake_count = <<>> /\ oldk2 = <<>> /\ lag = <<>> /\ raced = FALSE
NoTree == srcvtx = 0 /\ bfs_tree = <<>> /\ vlist = <<>> /\ k1 = 0 /\ k2 = 0
NoRows == maxvtx = 0 /\ XOFF = <<>> /\ XENDOFF = <<>> /\ xadj = <<>>
NoBD == tmaxvtx = <<>> /\ gmaxvtx = <<>> /\ scatter = <<>> /\ where = <<>>
NoSQ == version = "none" /\ head = <<>> /\ chain = <<>> /\ deg = <<>> /\ newk2 = 0 /\ p = 0
NoVF == /\ root = 0 /\ err = 0 /\ level = <<>> /\ seen_edge = {} /\ rc = 0 /\ terr = <<>>
        /\ parent = <<>> /\ nhop = <<>> /\ lastlvl = <<>> /\ nedge_traversed = <<>>
NoGN == /\ generator = "none" /\ draws = <<>> /\ val0 = 0 /\ val1 = 0 /\ newlabel = <<>>
        /\ stage = "none" /\ place = <<>> /\ Ak = <<>> /\ Aplace = <<>>
NoMN == /\ program = "none" /\ args = <<>> /\ opts = <<>> /\ bfs_root = <<>> /\ NBFS = 0 /\ m = 0
        /\ searched = <<>> /\ drawn = 0 /\ files = {}
NoBM == size = 0 /\ words = <<>> /\ old_val = <<>> /\ pos = <<>> /\ found = <<>>

InitAll ==
  /\ part \in Parts
  /\ \/ /\ Init /\ part = "bfs" /\ IJ = <<>> /\ k = 0
        /\ NoRows /\ NoBD /\ NoSQ /\ NoVF /\ NoGN /\ NoMN /\ NoBM
     \/ /\ BD!Init /\ part = "build" /\ edges = <<>> /\ todo = <<>> /\ k = 0
        /\ NoBFS /\ NoTree /\ NoSQ /\ NoVF /\ NoGN /\ NoMN /\ NoBM
     \/ /\ SQ!Init /\ part = "seq" /\ edges = <<>> /\ todo = <<>> /\ buf = <<>>
        /\ NoBFS /\ NoBD /\ NoVF /\ NoGN /\ NoMN /\ NoBM
     \/ /\ VF!Init /\ part = "verify" /\ edges = <<>> /\ buf = <<>> /\ k = 0
        /\ srcvtx = 0 /\ vlist = <<>> /\ k1 = 0 /\ k2 = 0
        /\ NoBFS /\ NoRows /\ NoBD /\ NoSQ /\ NoGN /\ NoMN /\ NoBM
     \/ /\ GN!Init /\ part = "generate" /\ buf = <<>> /\ IJ = <<>> /\ k = 0
        /\ NoBFS /\ NoTree /\ NoRows /\ NoBD /\ NoSQ /\ NoVF /\ NoMN /\ NoBM
     \/ /\ MN!Init /\ part = "main" /\ edges = <<>> /\ todo = <<>> /\ buf = <<>>
        /\ NoBFS /\ NoTree /\ NoRows /\ NoBD /\ NoSQ /\ NoVF /\ NoGN /\ NoBM
     \/ /\ BM!Init /\ part = "bitmap" /\ edges = <<>> /\ buf = <<>> /\ IJ = <<>> /\ k = 0
        /\ srcvtx = 0 /\ bfs_tree = <<>> /\ k1 = 0 /\ k2 = 0
        /\ NoBFS /\ NoRows /\ NoBD /\ NoSQ /\ NoVF /\ NoGN /\ NoMN

InBFS == /\ part = "bfs" /\ InBounds
         /\ UNCHANGED <<part, IJ, k, rowVars, bdVars, sqVars, vfVars, gnVars, mnVars, bmVars>>
InBD  == /\ part = "build"
         /\ UNCHANGED <<part, edges, todo, k, bfsVars, treeVars, sqVars, vfVars, gnVars, mnVars, bmVars>>
InSQ  == /\ part = "seq"
         /\ UNCHANGED <<part, edges, todo, buf, bfsVars, bdVars, vfVars, gnVars, mnVars, bmVars>>
InVF  == /\ part = "verify"
         /\ UNCHANGED <<part, edges, buf, k, srcvtx, vlist, k1, k2,
                        bfsVars, rowVars, bdVars, sqVars, gnVars, mnVars, bmVars>>
InGN  == /\ part = "generate"
         /\ UNCHANGED <<part, buf, IJ, k, bfsVars, treeVars, rowVars, bdVars, sqVars, vfVars, mnVars, bmVars>>
InMN  == /\ part = "main"
         /\ UNCHANGED <<part, edges, todo, buf, bfsVars, treeVars, rowVars, bdVars, sqVars, vfVars, gnVars, bmVars>>
InBM  == /\ part = "bitmap"
         /\ UNCHANGED <<part, edges, buf, IJ, k, srcvtx, bfs_tree, k1, k2,
                        bfsVars, rowVars, bdVars, sqVars, vfVars, gnVars, mnVars>>

BFSStep(t) == InBFS /\ Step(t)
BDStep(t)  == InBD /\ BD!Step(t)
VFStep(t)  == InVF /\ VF!Step(t)
GNStep(t)  == InGN /\ GN!Step(t)
BMStep(t)  == InBM /\ BM!Step(t)

BFSTeam == InBFS /\ Release
BDTeam  == InBD /\ BD!Team
VFTeam  == InVF /\ VF!Team
GNTeam  == InGN /\ GN!Barrier
BMTeam  == InBM /\ BM!Filled
SQMain  == InSQ /\ SQ!Main
MNMain  == InMN /\ MN!Main

NextAll ==
  \/ \E t \in Thread : BFSStep(t) \/ VFStep(t) \/ GNStep(t) \/ BMStep(t)
  \/ \E t \in BuildThreads : BDStep(t)
  \/ BFSTeam \/ BDTeam \/ VFTeam \/ GNTeam \/ BMTeam
  \/ SQMain \/ MNMain

\* The scheduler runs every thread that does not wait at a barrier.
FairnessAll ==
  /\ WF_allVars(BFSTeam \/ BDTeam \/ VFTeam \/ GNTeam \/ BMTeam \/ SQMain \/ MNMain)
  /\ \A t \in Thread : WF_allVars(BFSStep(t) \/ VFStep(t) \/ GNStep(t) \/ BMStep(t))
  /\ \A t \in BuildThreads : WF_allVars(BDStep(t))

SpecAll == InitAll /\ [][NextAll]_allVars /\ FairnessAll

-----------------------------------------------------------------------------
\* The asserts of the parallel code hold in every schedule: the queue of the
\* search never outgrows vlist (omp-csr.c:361, 373), the races of
\* compute_levels are benign (verify.c:40-67), and what the generators release
\* was taken (rmat.c:241, 261).
AssertsHold ==
  /\ part = "bfs" => QueueAssertsHold
  /\ part = "verify" => VF!RacesBenign
  /\ part = "generate" => GN!GeneratorAssertsHold

\* At every moment every tree edge of the parallel search joins a vertex to one
\* of the level above, unless the threads disagree.
SearchLevelsRight == part = "bfs" => LevelsRight

\* The searches find the whole component: the parallel one, the two sequential
\* ones, and the bitmaps between them lose no vertex of the frontier.
SearchesComplete ==
  /\ part = "bfs" => ComponentCovered
  /\ part = "seq" => SQ!SearchRight
  /\ part = "bitmap" => BM!FrontierKept

\* The generators rename the vertices of the edges they drew and lose none, and
\* the graph built in parallel has the edges of the list.
EdgesKept ==
  /\ part = "generate" => GN!EdgesRenamed
  /\ part = "build" => BD!GraphOfEdges

\* verify_bfs_tree accepts exactly the breadth-first trees.
VerdictRight == part = "verify" => VF!VerdictRight

\* The parameters that the generator gets are a distribution, and the roots are
\* what the benchmark says they are.
DriverRight == part = "main" => MN!OptionsRight /\ MN!RootsRight

\* Every part ends: the threads that permute in place never wait for each other
\* in a circle (rmat.c:98-108), no compare-and-swap is tried for ever.  The
\* search may hang if the threads disagree (omp-csr.c:427), and verify_bfs_tree
\* if one thread met an error and another did not (verify.c:159), which cannot
\* happen to a breadth-first tree.
EveryPartEnds ==
  <>(CASE part = "bfs"      -> Returned \/ raced
       [] part = "build"    -> BD!Ended
       [] part = "seq"      -> pc = "done"
       [] part = "verify"   -> VF!Returned \/ VF!Aborted \/ (VF!Parted /\ ~VF!BFSTree)
       [] part = "generate" -> GN!Done
       [] part = "main"     -> MN!Ended
       [] part = "bitmap"   -> BM!Done)
=============================================================================
