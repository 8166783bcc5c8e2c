# A TLA+ model of the Trident artifact's workloads and experiment scripts

This repository is the artifact of the Trident paper (MICRO'21): the benchmark
programs (`trident-workloads/`), the scripts that run them under different
memory-management configurations (`scripts/`), and the programs that report the
results. The Trident and HawkEye kernels are git submodules and are not here.
The modules below model the parts with logic of their own: concurrent data
structures and graph kernels, graph construction and verification, an index
structure, the solvers of a linear classifier, the protocol between the
experiment scripts and the benchmarks, and the report on their results. TLC checks
them on small instances. TLAPS proves the central facts about seven of them for every
number of threads and every input: canneal's lock-free pointer, its annealer and
netlist, gapbs' breadth-first search, connected components and shortest paths,
liblinear's solvers, and the experiment scripts.

Paths below are relative to the repository; workloads are under
`trident-workloads/`.

## Inventory

| Part | State it keeps | Operations | What is hard | What makes it correct |
|---|---|---|---|---|
| canneal `AtomicPtr.h` | one word; a sentinel marks it checked out | Get, Set, Swap, Checkout, Checkin and Try variants | CAS loops, two-pointer swaps that lock in address order, rollback of a failed TrySwap | exclusive checkout, linearizability, no deadlock |
| canneal `atomic/*` | a memory cell | add, cmpset, load/store, with acquire or release, on six processors | sequences of instructions with retries, missing or misplaced barriers | results of some order; a release publishes |
| canneal netlist | elements, fanins/fanouts, location of each | construction from a file, swap, routing cost | names used before they are defined, element pool at its limit | the netlist of the file, a placement that stays a permutation |
| canneal annealer | threads, barrier, convergence flag | temperature steps of random moves | costs from stale locations, barrier against leaving threads | same temperature, all steps done, the run ends |
| gapbs `bfs.cc` | parent array, queue with per-thread buffers, bitmaps | top-down and bottom-up steps, conversions | CAS races, non-atomic bit writes, leftovers between phases | `BFSVerifier` |
| gapbs `cc.cc`, `cc_sv.cc` | labels as a forest of parent pointers | link/hook, compress, sampling | lost hooks, skipping on a sampled label | `CCVerifier` |
| gapbs `sssp.cc` | distances, shared frontier, local bins, double-buffered indexes | relax, vote, copy | failed CAS, vote, single region without a barrier | `SSSPVerifier` |
| gapbs `bc.cc`, `pr.cc`, `tc.cc` | depths, path counts, successor bitmap; scores; a total | search and sweep back; pull iterations; ordered intersection | path counts added while the level is still found; queue indexes kept across levels; rows scanned without a bound | their verifiers |
| gapbs `builder.h`, `reader.h`, `writer.h` | edge list, degrees, offsets, rows | read, generate, count, scatter, squish, transpose, write | slots reserved atomically and filled later, formats that count from 1 or give an edge once | the graph is that of the file |
| graph500 `omp-csr.c` | tree, queue, two bitmaps, private and shared counters | top-down and bottom-up steps | threads that disagree about a branch meet different barriers | a valid breadth-first tree |
| graph500 generators | edges, labels, cells taken for a swap | draw, permute labels and edges in place | threads that take two cells each | a renaming of what was drawn, no deadlock |
| graph500 `verify.c` | levels, flags, error code | compute levels, check edges and tree | unlocked writes of levels along a path, threads leaving at an error | accepts exactly the breadth-first trees |
| graph500 drivers, sequential versions | options, edge list, roots | options, files, sample of roots, list and CSR searches | rejection sampling, uninitialised count | parameters a distribution, roots with edges |
| liblinear | coefficients, permutations, active sets, caches; files and models | coordinate descent solvers, TRON, cross validation, search for C, train and predict | shrinking and unshrinking, caches after a rejected step, shared loop variables | every coordinate looked at, caches of the current point, predictions of the model trained |
| `btree1.c` | nodes, free list, leaf chain, records | insert, delete, find, find_range | splits, merges and borrowings over several levels | search finds every record; a dictionary |
| `common/main-*.c` | flag files in /tmp | .ready, .done, SIGUSR1 | dies or fails between signals | signals of its own run |
| `scripts/*.sh` | kernel knobs, shell variables, flag files | the figures' loops, knob setup, launch and wait | state left by earlier runs, a benchmark that never signals | each run under its own configuration, one at a time |
| `compile_results.py` | label lists, summary | walk over the logs, averages, figures | lists matched by position, numbers kept from file to file, directory order | a label describes the run, a run has its own numbers |
| hashjoin, gups, xsbench, stream, memops | tables and grids | not modelled | | see the end |

The parts meet in these places. The annealer's threads share element locations
only through AtomicPtr, whose steps are the machine-level operations. The gapbs
kernels run on the graph that the builder makes; bfs and bc use the sliding queue
and the bitmap. graph500's driver generates an edge list, builds the graph from
it and searches it; the search converts between its queue and the bitmaps. The
scripts start benchmark processes, which answer through the files
`/tmp/alloctest-bench.ready` and `.done`; perf is attached between the two, and
the report reads the directories that are left.

`PROJECT.json` lists the components with their sources, the hazards with the
line where each bites, and maps every definition to the lines it models.

## Modules

**AtomicPtr** (`canneal/AtomicPtr.h`). `p` is the word in each pointer; `pc`,
`op`, `val`, `valFirst`, `valLast`, `res` are a thread's place in its call, its
arguments and its locals. One action per atomic access: `LoadFirst`,
`CasFirst`/`CasFirstFails` (PrivateSet/TryPrivateSet), `LoadLast`, `CasLast`,
`Checkin` (end or rollback of a swap), `CallerCheckin`. The spinning of Get is
the guard that the word is not the sentinel. `SwapCall` orders the two pointers
as the code does. **AtomicCells** is the abstract specification: cells on which
every call takes effect in one step. `Linearizable` is its `Spec` under the
mapping `Content`/`Phase`. **AtomicPtrProofs** has the theorems.

**MachineAtomics** (`canneal/atomic/*/atomic.h`). For each
processor, the instructions that an operation of its header expands to
(`Amd64Code`, `PowerpcCode`, ...), as programs over a few kinds of instruction;
and two threads that run one operation each on a shared cell. Store-conditionals
may fail (`MaxLost` times without a reason); stores of a payload are delayed and
loads of it made early until a barrier says otherwise, by the processor or by the
compiler. What an instruction does is external to the repository.

**Annealer** (`canneal/*.cpp`). Reading the file entry by entry
(including the extra entry a trailing newline produces), the placement, and the
threads of `annealer_thread::Run`. An element's location is read and swapped in
single steps, which the theorem on AtomicPtr justifies. Random numbers and
temperature decide only whether a worse move is accepted, so both outcomes are
allowed. A file is a header and a sequence of entries with names as model values. Sums
are running totals, written as recursive functions. **AnnealerProofs** has the
theorems.

**SlidingQueue**, **BFS** (`gapbs/src/sliding_queue.h`, `bitmap.h`, `bfs.cc`).
The main thread's actions are the steps of `DOBFS`; a thread's actions are the
iterations of the parallel loops, one shared access each. A loop's iterations
may go to any thread. The bitmap has two bits per word, a chunk is one word.
**BFSProofs** has the theorems.

**Components** (`cc.cc`, `cc_sv.cc`), **DeltaStepping** (`sssp.cc`). One access
to a shared label or distance per step. A graph of Components is a record of its
out- and in-neighbours; a directed one has both, as cc.cc uses both. `MCKernels`
extends Components, instantiates the other kernels (bfs and sssp through their proof
modules) and runs one of the gapbs programs per behaviour; it ends with theorems about
whichever program runs. Afforest's sampled label may be any label that occurs.
`oracle_dist` holds what the verifier computes. **ComponentsProofs** and
**DeltaSteppingProofs** have the theorems.

**Betweenness** (`bc.cc`), **PageRank** (`pr.cc`), **TriangleCount** (`tc.cc`).
bc's parallel search has one step per compare-and-swap, atomic add and push; the
sweep back takes one vertex per step, since it reads only the level below. pr
and tc take an iteration of a loop as a step: it writes entries of its own vertex
or adds to a reduction. Scores are integers in units (`One`, `Unit`) that the
divisions of the instances fit. **CSR** (`graph.h`, the sequential parts of
`builder.h`), **CommandLine** (`command_line.h`) and **GraphBuilder**
(`builder.h`, `reader.h`, `writer.h`, `generator.h`, `converter.cc`) are the
converter: a file is a sequence of lines, a line a sequence of numbers or words;
the threads reserve a slot in one step and fill it in another.

**Graph500BFS** (`graph500/omp-csr/omp-csr.c`). Each thread runs the whole of
`make_bfs_tree`. Barriers follow libgomp: there is one barrier per team, and a
`single` goes to the first thread that reaches its n-th one. This matters
because the threads can take different branches. `raced` records that they did.

**Graph500Build** (construction in `omp-csr.c`: largest vertex, prefix sums over
the threads' slices, scatter, packing), **Graph500Bitmap** (`bitmap.h`, a word is
a set of bits), **Graph500Seq** (`seq-csr.c`, `seq-list.c`), **Graph500Verify**
(`verify.c`: every access to another iteration's level is a step),
**Graph500Generate** (`rmat.c`, `kronecker.c`, `graph_generator.c`: what a random
number decides is a choice, a cell that a thread has taken holds -1) and
**Graph500Main** (`graph500.c`, `options.c`, `make-edgelist.c`). `MCGraph500` runs
one part per behaviour, each on inputs of its own.

**BTree**, **Dictionary** (`btree/btree1.c`). A call of insert or delete is one
step for the leaf and one per level that the recursion climbs; `call` is the
pending recursive call and `unwind` the nodes freed when it returns. `Dictionary`
is what the tree implements. Its configurations give the constants directly.

**liblinear** is modelled by what its numbers decide. **CoordinateDescent**
(`solve_l2r_l1l2_svr`, `solve_l1r_l2_svc`, `solve_l1r_lr`, `solve_l2r_lr_dual`):
a coefficient is where it lies relative to 0 and its bounds, a gradient any of a
few numbers from which violations are computed as in the code. **BlockDescent**
(`solve_l2r_l1l2_svc` with blocks of candidates; an alpha is at 0, between its bounds
or at the upper one; gradients are signed whole numbers of one unit, and all the same
while every alpha is 0; a sweep ends on the spread `PGmax_new - PGmin_new` of the
projected gradients, as at `linear.cpp:1121`), **MulticlassDescent**
(`Solver_MCSVM_CS`, two levels of shrinking), **TrustRegion** (`tron.cpp` with the
caches of its function object), **Losses** (the three function objects, over
integers), **ParallelSums** (their OpenMP loops, access by access),
**TrainPredict**
(grouping of classes, folds, `find_parameter_C`, model file, `train.c`, `predict.c`;
a solver is abstracted there to a function of what it may depend on). **LiblinearProofs**
has the theorems about the solvers that shrink and about TRON.

**SystemConfigs** (`scripts/common.sh` setup functions, `configs.sh`, label
lists of `compile_results.py`), **Experiments** (the figure scripts, `run_guest.sh`,
`launch_workload`, and the benchmark process: `common/main-st.c`, `main-mt.c` and the
signals of the workloads). A configuration name is the
sequence of its parts and the shell patterns are searches in it. A benchmark is
its sequence of stages; it may die, return an error or be signalled at any
stage. What the kernel does with a knob is external, and a guest boots with
default knobs and an empty /tmp. **ExperimentsProofs** has the theorems.

**Report** (`scripts/compile_results.py`). A directory is one run with its three
logs; the walk takes directories and files in any order, as os.walk does; a value
of a figure is the pair that the program divides. `MCExperiments` runs either a
campaign of figures or the report on an evaluation that one could have left.

MC modules give the constants; no configuration replaces a definition.

## Runs

| Run | Instance | Shows |
|---|---|---|
| `canneal_atomic_ptr` | 2 threads, 2 pointers, 2 values, 2 calls each of all 8 kinds; and 2 threads with any two machine-level operations on each of 6 processors | `IInv` (with mutual exclusion), `Linearizable`; `AsIfInOrder` (machine operations are atomic), `ReleasePublishes` (release and acquire order the payload), `EveryOperationReturns` |
| `canneal_annealer` | 2 threads, files that fit exactly, with and without newline and one that is rejected; 2 steps or until convergence | `BuiltAsWritten`, `PlacementValid` (one element per position), `SameTemperature`, `CostsRight` (the printed cost is the length of the wires, and a move that lowers it is accepted when nobody interfered), `Finishes` for a fixed number of steps |
| `canneal_convergence` (violation) | the same until convergence | a thread is left at the barrier (finding) |
| `gapbs_kernels` | 2 threads; graphs of 3-5 vertices for each of bfs, cc, cc_sv, sssp, bc, pr, tc, every source where there is one; tunings, sampling rounds, deltas; the converter on every format, on images and on generated edges | `BFSRight` (the queue fits, trees descend at every moment, `BFSVerifier` accepts), `LabelsDescend` (labels of cc and cc_sv, at every moment), `CCAccepted`, `LinksKept`, `SSSPRight` (no relaxation is lost, bins settle in order, `SSSPVerifier` accepts), `KernelAccepts` (the verifiers of bc, pr and tc), `BuildsGraph`, `FilesFaithful` (a file is read as the edges it lists and implies, with two exceptions for MatrixMarket files that the property names, see Findings), `KernelReturns` |
| `graph500` | search: 2 threads, three graphs of 7 vertices, every source; construction: 3 threads; verification: every array of parents on two graphs of 4 vertices; generators, sequential versions, driver, bitmaps on small inputs | `AssertsHold`, `SearchLevelsRight`, `SearchesComplete`, `EdgesKept`, `VerdictRight` (accepts exactly the breadth-first trees), `DriverRight` (options; the roots found are distinct and have edges), `EveryPartEnds` (the search may hang after the race, the verification only on an array that is no breadth-first tree) |
| `graph500_bfs_race` (violation) | a tuning at which the race happens | the team can hang or return a wrong tree (finding) |
| `liblinear` | 2-3 coordinates or instances, 3 classes, 2 threads; three training rows with every labelling | `SweepsComplete` (every active coordinate is looked at, and a stop is decided over all of them), `CachesFit` (with the exception after a line search that was given up), `AnswersRight` (sums of the function objects and their loops, predictions, refusals, choice of C), `StepsDescend` |
| `btree` | orders 3, 4, 5, six keys, ten nodes: three levels at order 3 | shape, search, leaf chain, node pool, dictionary |
| `btree_find_range` (violation) | the same | a range that starts in a gap is reported empty (finding) |
| `experiments` | two figures in any order, host and guest, faults and missing files; and the report on five evaluations | `OwnSignals`, `OneAtATime`, `HistoryIndependent` (knobs), `CampaignEnds` unless a benchmark fails; `ReportFaithful` |
| `experiments_pool` (violation) | figure 1 | later benchmarks get graph500's pool (finding) |
| `experiments_report` (violation) | figure 10 | TRIDENT-F runs as 4KB and is reported as Trident (finding) |

`AnswersRight`, `ReportFaithful`, `AssertsHold`, `SearchesComplete` and `KernelAccepts`
are conjunctions over the parts; the property of each part is stated and
commented in its own module.

### Bounds and why they are enough

Two threads suffice for every race listed: each is between one thread that reads
and one that writes in between. The construction of graph500 has three, so that a
thread's slice lies between two others. Two calls per thread let a value be changed
and changed back between a load and its CAS. The BFS graphs have a vertex reached by
two parents at once, unreachable vertices, and levels large and small enough
that both tunings change direction; two bits per word make neighbouring vertices
share a word. A buffer of one element makes every push flush. The graphs of bc have
two shortest paths to a vertex and an edge back to an earlier level; those of tc two
triangles that share an edge and one dense enough to be relabelled. The edge lists
have parallel edges, both directions of an edge, self-edges and a vertex without
edges. Verification gets every array of parents, right or wrong,
for two graphs of four vertices. Six keys fill three
levels of order 3, so that a deletion can merge at a level whose parent merges
too. Two coordinates are enough for a swap of the shrunk one with the last, three
where the one after it must still be looked at. The gradients of BlockDescent
(-1000, -60, 5 and 1000, with tolerances of 100) are inside and outside the tolerance,
alone and as a spread, so that a sweep with violations can pass the stop test and one
with small gradients is shrunk and swept again. Chunks of sssp's
`schedule(dynamic, 64)` are scaled to one vertex; on graphs of this size a chunk
of 64 would leave one thread with everything, so this only adds interleavings. Two figures are enough for state left
behind by an earlier one, since the knobs depend only on the configurations before.

`StepCap`, `PoolSize`, `MaxCalls`, `MaxLost`, `MaxFigures`, `kDistInf`, `kMaxBin`,
`max_iter`, `max_newton_iter`, `max_num_linesearch`, `MaxDelta` and `MaxTry` are bounds
of the model (the last ones take the place of larger bounds in the code).
DeltaStepping stops at a copy past the frontier's end (see the hazard at
`sssp.cc:59`), and Graph500BFS stops at a queue index past `vlist`, which can happen
only after the race.

### Fairness

Weak fairness per thread: pthreads and OpenMP threads are scheduled by the
kernel and none of them holds another back except at a barrier, whose release
is a fair step too. A processor eventually makes a delayed store visible, and a
store-conditional fails without a reason only boundedly often (`MaxLost`), an
assumption about the processors without which no retry loop ends. The scripts and the
benchmark processes are scheduled by the
kernel; a fault has no fairness, it may or may not happen. No strong fairness is
used anywhere. Deadlock checking is off where the code may really stop: canneal
until convergence, graph500 after a race or an error met by one thread only, and a
script that waits for a benchmark that failed or a report that crashed. liblinear
and the converter have no liveness property.

## Proofs

Each theorem holds for every value of the constants that satisfies the assumptions
named with it; TLC evaluates those on the instances of the runs.

**AtomicPtrProofs**, for all sets of threads, pointers (integers, for the
locking order) and values, any subset of the calls and any number of them:

* `IInvInvariant`, `TypeCorrect`: the inductive invariant
  `IInv == TypeOK /\ CallState /\ MutualExclusion` holds always;
* `MutexCorrect`: a pointer holds the sentinel exactly while one thread has it
  checked out;
* `LinearizableCorrect`: the CAS-level specification implements AtomicCells.

Mutual exclusion alone is not inductive: a CAS whose expected value is the
sentinel would succeed on a pointer that is already out. `CallState` says which
locals hold real values at which step. The refinement proof takes the steps one
by one; the lemmas `ContentOf`, `ContentElsewhere` and `NotCheckedOut` compute
the abstract content of a pointer before and after each of them (a checked-out
pointer's content is what its only holder will put back), and each step is an
abstract step or a stutter. The assumptions are those named in AtomicPtr: the
sentinel is not a value, pointers are constructed with values, `MaxCalls` is a
natural number. `Linearizable` speaks of AtomicPtr over atomic accesses; that the
headers provide those is `AsIfInOrder`, which is only model-checked.

**AnnealerProofs**, for any files, any finite team and any number of moves and steps:

* `BuiltAsWrittenCorrect`: the netlist built is that of the file;
* `PlacementValidCorrect`: every grid position holds exactly one element;
* `SameTemperatureCorrect`: with a fixed number of steps no two threads make moves at
  different temperatures, and who leaves leaves nobody at the barrier;
* `CostsRightCorrect`: the cost printed is the length of the wires, and a swap that
  shortens them is counted as good unless another thread swapped meanwhile.

`IInv == TypeOK /\ Chosen /\ Together /\ Placed /\ Netted`. `Together` is the barrier
argument: the threads are at one step, or some of them wait and have done one more
than the others. `Placed` says that the placement is a permutation, which a swap of
two locations keeps. `Netted` says how far reading has come: the entries left are a
suffix of the file's, the names met are numbered without a gap, and the wires so far
are those of the entries read. Its arithmetic shows that the elements never run out,
even with the extra entry of a trailing newline: a file that passes the assert on the
header has fewer entries than the grid has positions.

Costs need the stronger `CInv == IInv /\ Accounted /\ Costed`. Running totals are
recursive functions; facts about them are shown by the least index at which they
would fail. `Accounted` says, entry by entry while the file is read, that the
distances summed over the fanins of all elements and over their fanouts are the same
total, since a wire enters both at once; the printed cost halves their sum. `Costed`
says that the cost a thread has so far is the running total over the fans it has seen,
for a thread whose locations nobody has changed (`fresh`). `Accounted` also says that
a swap costs no more than it changes the length of the wires: for a wire to a third element the two are equal,
and a wire between the two elements is counted as if the other one stayed, which makes
the cost too low, never too high. Assumptions: `FilesAssumption`
(one entry per element, every fanin has one, nothing drives itself),
`ThreadAssumption`, `StepsAssumption`.

**ComponentsProofs**, for any graphs, threads and numbers of sampling rounds, and both
kernels:

* `LabelsDescendCorrect`: a label is at no moment greater than its vertex or outside
  the vertex's component;
* `LinksKeptCorrect`: no step of Afforest takes two vertices of one tree apart;
* `CCAcceptedCorrect`: the labels returned are exactly the connected components.

Reachability would need induction over paths. Instead a set of vertices is `Closed`
when no edge leaves or enters it, and the invariant `Within` says for every closed set
that labels and the locals of threads stay inside it. The other half, that vertices
joined by an edge end with the same label, is kept per edge: `Afforest` says which
edges a kernel has linked by now, in the sense that every set saturated by the labels
holds both ends or neither, and which vertices may be skipped because they had the
sampled label; `ShiloachVishkin` says that without a change in a round every edge is
settled. `Compressed` says which trees are flat after which loop. Together they give
the verifier's condition: the vertices of one label are a closed set, and closed sets
are saturated. Assumptions: `GraphsAssumption` (neighbours are vertices, in- and
out-arrays are converse, and the same for an undirected graph), `RoundsAssumption`.

**BFSProofs**, for any graphs, team, buffer size, chunk size and choice of direction,
from `ConstantsSound` (neighbours are vertices; a word has bits, a chunk has words):

* `TreeEdgesDescendCorrect`: at every moment a tree edge goes one level down;
* `QueueFitsCorrect`: the queue never overflows and its window is written;
* `VerifierAcceptsCorrect`: `BFSVerifier` accepts what the search returns;
* `LevelsExist`, `SerialSearchCorrect`: every graph has levels, the lengths of shortest
  walks, and the verifier's serial search computes them.

`IInv == Structure /\ \A lv : IsLevels(lv) => Progress(lv)`. `Structure` is about the
queue and the threads: reserved ranges are disjoint and cover what is behind the window
and not yet written (`Slots`), no vertex is twice in the queue or on its way into it
(`Once`), and two threads in a bottom-up step never have vertices of one word
(`OwnChunks`). `Progress` is about levels, characterised by the edges alone
(`IsLevels`): for some level `L`, all vertices up to it are visited, and each phase
accounts for what is left: in a top-down step every edge from the window to an unvisited
vertex is still to be followed, in a bottom-up step the bits of the front contain the
level and those of the next bitmap are of the level below, and whatever earlier phases
left in a bitmap is of an earlier level (`NotAhead`). The serial search is a recursive
function: the rounds of the levels satisfy its equation, and there is no least round at
which another solution could differ from them.

**DeltaSteppingProofs**, for any weighted graphs without negative weights, any team and
any delta, from `ConstantsSound` (the infinities of `sssp.cc:52-53` are above every
distance and bin; stated as an assumption of each theorem, evaluated in `MCKernels`):

* `NoLostRelaxationCorrect`: an edge that still improves a distance has its source
  waiting somewhere;
* `BinSettledCorrect`, `SettledBelowCorrect`: while a bin is processed, every vertex
  whose shortest distance lies below it has it already;
* `DistancesShortest`: when the loop ends the distances are the shortest;
* `OracleCorrect`, `SSSPAcceptedCorrect`: the verifier's algorithm computes them, so
  that `SSSPVerifier` accepts;
* `DistancesFall`: no step raises a distance.

`IInv == TypeOK /\ Control /\ Slots /\ Relaxation /\ NoneLost`. `NoneLost` is stronger
than `NoLostRelaxation`: a thread counts as a waiting place of its first edge only if
what it is about to write is no more than what the edge now allows (otherwise the
source has been lowered since, and waits in a bin), and a slot of the next frontier
counts only if nobody has reserved it. `Slots` says that reserved ranges are disjoint
and cover what is not yet written, `Control` that the vote is no higher than any bin of
a thread that has voted. Shortest distances are characterised without paths: a
potential is `Feasible` when no edge exceeds it and the source has at most 0, every
potential bounds every walk from below, and the lengths of the shortest walks (up to
`kDistInf`) are the greatest potential. `Bounded` says that every distance, and every
distance about to be written, is above every potential; at the end nothing waits, so
the distances are themselves one. The same holds of the distances cut off at the
current bin, which is why bins settle. The oracle relaxes all edges as many times as
there are vertices, a recursive function of rounds. Its rounds are the walks of so many
edges, so no potential is above it. The vertices at which a round has the greatest
potential grow with each round until they are all: if a round adds none, the greatest
potential could be raised by one on all others, against its being the greatest. So the
oracle is the greatest potential. The model stops
before a copy past the frontier's end; the theorems say nothing of what happens after
one.

**MCKernels** ends with theorems about the program that runs, whichever it is:
`BFSRightCorrect` and `SSSPRightCorrect` state the properties of the run
`gapbs_kernels`, from the lemmas of the two proof modules and the fact that a step of
one program is not a step of another. (Components is extended there, so that its
theorems are about the run's own names already.) The assumptions are the two
`ConstantsSound`.

**LiblinearProofs**, for any number of coordinates, instances and classes, and whatever
the gradients and objectives turn out to be:

* `SweepsCompleteCorrect`: a sweep looks once at each coordinate that was active when it
  began, whatever is shrunk, swapped and shuffled, and a solver stops short of its
  bounds only after a sweep over all coordinates that passed its stop test: violations
  within `eps`, or, in `solve_l2r_l1l2_svc`, projected gradients within `eps` of each
  other, which is less (see Findings);
* `CachesFitCorrect`: residuals, block gradients and class gradients are those of the
  point and of the positions at which they are used; so are `exp_wTx`, `xTd` and `wpd`
  of `solve_l1r_lr`, as long as no line search has been given up;
* `StepsDescendCorrect`: a step that TRON takes lowers the objective, unless no
  reduction was predicted, which ends the run.

All solvers keep their coordinates in an order `e` with an active prefix, a part of
which is to come. `Perm` says that the order is one, `Swept` that what is to come
has not been looked at and everything else that was active has been looked at once.
Six lemmas say what a swap, a shuffle, a look, a shrinking, the begin and the end of a
sweep do to these two, for any set and order; `DSweeps`, `BSweeps`, `XSweeps` apply them
to the solvers, whose sweeps differ in what they swap. `DCaches`, `BBlocks`, `XClasses`
hold the caches: where a block's gradients stand while its coordinates are swapped away,
and in which order an instance's classes are, which the inner shrinking loop (a
recursive function) rearranges. `BMet` is for the stop test of `solve_l2r_l1l2_svc`:
`PGmin_new` and `PGmax_new` enclose the projected gradients of all instances looked at
so far, however they have been swapped, and without an update in the sweep all of them
are small against `eps1`. TRON's objectives are sums over the rows; the proof
needs them to be integers, by the same argument about running totals as canneal's.
Assumptions: `SizesAssumption` (there are instances, a block has at least two candidates),
`TolerancesAssumption` (tolerances are natural numbers, gradients integers below the
number that stands for the code's infinity), `RowsAssumption` (rows are pairs of a feature and an integer).

**ExperimentsProofs**, for any programs, figures and configurations of the shape the
scripts have:

* `OwnSignalsCorrect`: the flag files that the script obeys are of the benchmark it
  launched;
* `OneAtATimeCorrect`: no benchmark is measured while another one lives;
* `HistoryIndependentCorrect`: the relevant knobs are those of a fresh machine,
  whatever ran before.

`IInv == TypeOK /\ RunKnown /\ Alone /\ Flags /\ KnobsKnown`. `KnobsKnown` follows the
setup function by function: after `cleanup_system_configs` and `setup_4kb_configs` all
knobs but four are known; of these, two are set again by every configuration in which
they matter. The other two are the pool sizes, which are kept (see the findings) and
which `HistoryIndependent` leaves out. Assumptions: `ProgramsAssumption`, `FiguresAssumption`.

### Only model-checked

* All liveness, and with it that loops end: fairness and ENABLED are outside the prover.
* What folds and recursive operators compute. A recursive function can be reasoned about
  by its least counterexample once the function it ought to be is written down, as above;
  the provers cannot unfold the folds of the library or `RECURSIVE` operators, which
  compute over trees and files here: the searches and the leaf chain of BTree (`Shape`,
  `SearchFinds`, `ChainAscends`, `NoNodeLostOrShared`, `Dictionary`), the serial versions
  and verifiers of graph500 and of bc, pr and tc (`SearchLevelsRight`, `VerdictRight`,
  `EdgesKept`, `KernelAccepts`), the prefix sums and files of the converter
  (`BuildsGraph`, `FilesFaithful`), and the sums of liblinear's function objects
  (`AnswersRight`).
* `AsIfInOrder`, `ReleasePublishes`: the machine-level operations use bitwise operators.
* `AssertsHold`, `SearchesComplete`, `DriverRight`: their modules are not proved about. The
  search of graph500 would need an invariant like the one of BFS under the premise that
  no race has happened.
* `ReportFaithful`: the report walks directories in any order and folds over its
  lists of labels.

## Findings

* `canneal/annealer_thread.cpp:139`: convergence leaves a thread at the barrier.
* `graph500/omp-csr/omp-csr.c:427`: a race on `scout_count` makes threads take
  different branches.
* `btree/btree1.c:541`: `find_range` stops at a leaf without keys in the range.
* `scripts/common.sh:173`: pool sizes changed for one benchmark are kept.
* `scripts/common.sh:201`: TRIDENT-F matches no branch.

Seen while modelling, without a run of their own (the modules do what the code
does in each case, and properties state the exceptions):

* canneal: `TrySet` also returns false when the pointer was changed, and not checked
  out, between its load and its CAS (`AtomicPtr.h:148`, against the comment at
  182-184); the cost of a move between two connected elements takes the other's
  location as unchanged and is too low by twice their distance for each wire between
  them. In `atomic/`, several operations (amd64 and i386 `store_rel` and arithmetic,
  alpha `load`, `store`, `mb`) do not tell the compiler that they order memory, and
  the pointer operations of i386 and powerpc work on 32 bits. `AtomicPtr.h:293` tests
  `ENABLE_TRHEADS`, so that `Checkin` is a plain store and not a release. AtomicPtr takes
  it as one write, which that of an aligned word is; `ReleasePublishes` speaks of the
  stores of `atomic/`, which this line does not use.
* gapbs: the reverse edge of a symmetric weighted MatrixMarket entry has weight 1
  whatever the entry's (`reader.h:206`), and a skew-symmetric file is read as if it were
  general (176); graphs are symmetrized by default, although the help of
  `command_line.h` says false; `SourcePicker::PickNext` (`benchmark.h:58`) never
  returns on a graph without edges; a bc source without edges makes the scores 0/0;
  isolated vertices after the last edge are dropped.
* graph500: `t` is read uninitialised when roots run out (`graph500.c:178`, against
  the comment at 165-166), and where it happens to be small, `NBFS` stays above the number
  of roots found and the remaining searches start from vertex 0; the last vertex is never sampled; the call of the
  verification is compiled out (230-241); roots read from a file are not checked;
  `verify_bfs_tree` can leave threads at different barriers after an error (159).
* liblinear: `d` (`linear.cpp:525-551`) and the arrays at 2261-2270 are shared by
  parallel iterations; `find_parameter_C` leaves `best_C` unassigned when every rate
  is 0; `README` says that `-s 1` and 3 stop when the dual maximal violation is within
  `eps`, but `solve_l2r_l1l2_svc` (`linear.cpp:1121`) tests how far the projected
  gradients are apart: with at most 256 instances those of the first sweep are all -1,
  their spread is 0 and it stops with every instance violating, and the model reaches
  this; when `solve_l1r_lr` gives a line search up, `w` stays but `wpd` and `xTd` remain a
  little way off, and `exp_wTx` is computed again by racing loops (2254-2275); by default `-s 4`, 7, 12 and 13 are refused because of `flag_omp`; train signals .ready and .done only
  in plain training.
* scripts: `compile_results.py:18` lacks a comma, which merges two names and shifts the
  labels after them; the report keeps the denominator of the workload before where a
  baseline is missing, counts a run once or twice with the order of its files, and
  crashes on an event that perf did not count; on the TRIDENTPV host `max_cpu` is
  set and then reset before the guest boots; both `main` functions ignore the result
  of `real_main`.

## Not modelled

* Random-number generators (`rng.cpp`, `MersenneTwister.h`, `prng.c`,
  `splittable_mrg.c` and the 6,207 lines of tables in `mrg_transitions.c`): modular
  recurrences without a small instance. Where their results steer modelled control
  they are nondeterministic choices.
* Floating-point values: liblinear's steps, xsbench's interpolation, stream; scores of
  bc and pr are exact fractions in the models.
* `svm-scale.c`, the MATLAB and Python bindings and the BLAS of liblinear, which the
  experiments do not use; `omp-csr-old.c`, which is not built; graph500's
  `output_results`, which is never reached.
* Character-level file formats, printing and timing; `pvector.h`'s and `xalloc.c`'s
  memory management; the page-table dump main, the fragmentation client, the VM
  configuration and data set generators; the kernels.
* btree's lookup loop (threads that only read the tree, with an unsynchronised sum).
* hashjoin, gups, xsbench's searches and memops: see the possible extensions.

## Possible extensions

1. Theorems: a parent is one level above in Graph500BFS as long as no race has
   happened; reserved slots are disjoint in GraphBuilder; Graph500Generate renames by a
   permutation.
2. hashjoin's table with its chains, gups' update stream (its index reaches
   `TableSize` for a random number of 0, within the allocation's slack), xsbench's grid
   search and choice of materials.
3. An abstract specification of breadth-first search that the searches of gapbs and
   graph500 both implement.
