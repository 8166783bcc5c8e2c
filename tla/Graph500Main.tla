---------------------------- MODULE Graph500Main ----------------------------
(***************************************************************************)
(* The two programs of graph500: the benchmark (graph500.c, real_main and  *)
(* run_bfs) and make-edgelist (make-edgelist.c), from the command line to  *)
(* the searches or the files.  The edge list, and what a file of roots     *)
(* holds, are inputs; generation, construction and search have their own   *)
(* modules.                                                                *)
(*                                                                         *)
(* The R-MAT parameters are kept as integers over `den`.                   *)
(***************************************************************************)
EXTENDS Integers, Sequences, FiniteSets, SequencesExt, FiniteSetsExt

CONSTANTS
  CommandLines,     \* sequences of [opt, arg]
  EdgeLists,        \* of each scale the edge lists
  NBFS_max,
  Defaults          \* [SCALE, edgefactor, p, den]: p = <<A, B, C, D>>

VARIABLES
  program,          \* "graph500" or "make-edgelist"
  args, opts,       \* the options left to parse; the options parsed
  IJ, bfs_root, NBFS,
  m, k,
  searched,         \* the roots searched from, in order
  drawn,            \* history: how many roots the sampling found
  files,            \* the files written
  pc

input  == <<program, args, opts>>
vars   == <<input, IJ, bfs_root, NBFS, m, k, searched, drawn, files, pc>>

NoOptions == [SCALE |-> Defaults.SCALE, edgefactor |-> Defaults.edgefactor,
              p |-> Defaults.p, den |-> Defaults.den,
              whichset |-> {}, use_RMAT |-> FALSE, verbose |-> FALSE,
              dumpname |-> FALSE, rootname |-> FALSE, err |-> FALSE]

Init ==
  /\ program \in {"graph500", "make-edgelist"}
  /\ args \in CommandLines
  /\ opts = NoOptions
  /\ IJ = <<>> /\ bfs_root = [i \in 1 .. NBFS_max |-> 0] /\ NBFS = NBFS_max
  /\ m = 0 /\ k = 0
  /\ searched = <<>> /\ drawn = 0 /\ files = {}
  /\ pc = "options"

Exit(code) == pc' = code

-----------------------------------------------------------------------------
(* get_options *)

\* A, B, C or D: set twice or negative is an error, and the value stands.
SetParameter(o, n, x) ==
  [o EXCEPT !.p[n] = x, !.whichset = @ \cup {n}, !.err = @ \/ n \in o.whichset \/ x < 0]

Parameters == [A |-> 1, B |-> 2, C |-> 3, D |-> 4]

SetOption(o, a) ==
  CASE a.opt = "V" -> [o EXCEPT !.verbose = TRUE]
    [] a.opt = "R" -> [o EXCEPT !.use_RMAT = TRUE]
    [] a.opt = "o" -> [o EXCEPT !.dumpname = TRUE]
    [] a.opt = "r" -> [o EXCEPT !.rootname = TRUE]
    [] a.opt = "s" -> [o EXCEPT !.SCALE = a.arg, !.err = @ \/ a.arg <= 0]
    [] a.opt = "e" -> [o EXCEPT !.edgefactor = a.arg, !.err = @ \/ a.arg <= 0]
    [] a.opt \in DOMAIN Parameters -> SetParameter(o, Parameters[a.opt], a.arg)

\* The version and the help end the program where they stand.
GetOption ==
  /\ pc = "options" /\ args # <<>>
  /\ IF Head(args).opt \in {"v", "h"} THEN Exit("success") /\ UNCHANGED <<args, opts>>
     ELSE /\ opts' = SetOption(opts, Head(args))
          /\ args' = Tail(args)
          /\ UNCHANGED pc
  /\ UNCHANGED <<program, IJ, bfs_root, NBFS, m, k, searched, drawn, files>>

Sum4(p) == p[1] + p[2] + p[3] + p[4]

\* With three of them set the fourth is the rest; with one, two or four all are
\* divided by their sum.
Completed(o) ==
  IF Cardinality(o.whichset) = 3
  THEN LET n == CHOOSE i \in 1 .. 4 : i \notin o.whichset
       IN [o EXCEPT !.p[n] = o.den - (Sum4(o.p) - o.p[n])]
  ELSE IF o.whichset # {} THEN [o EXCEPT !.den = Sum4(o.p)]
  ELSE o

EndOptions ==
  /\ pc = "options" /\ args = <<>>
  /\ opts' = IF opts.err THEN opts ELSE Completed(opts)
  /\ Exit(IF opts.err \/ \E n \in 1 .. 4 : Completed(opts).p[n] < 0 THEN "failure" ELSE "edges")
  /\ UNCHANGED <<program, args, IJ, bfs_root, NBFS, m, k, searched, drawn, files>>

-----------------------------------------------------------------------------
nvtx_scale == 2^opts.SCALE

\* The edge list is generated ...
Generate ==
  /\ pc = "edges" /\ (program = "make-edgelist" \/ ~opts.dumpname)
  /\ IJ' \in EdgeLists[opts.SCALE]
  /\ pc' = IF program = "make-edgelist" THEN "dump" ELSE "create"
  /\ UNCHANGED <<input, bfs_root, NBFS, m, k, searched, drawn, files>>

\* ... or read from the file, as many edges as nedge says: none, for nothing
\* has set it.
ReadDump ==
  /\ pc = "edges" /\ program = "graph500" /\ opts.dumpname
  /\ \/ Exit("failure")
     \/ pc' = "create"
  /\ UNCHANGED <<input, IJ, bfs_root, NBFS, m, k, searched, drawn, files>>

maxvtx == Max({-1} \cup {e[1] : e \in ToSet(IJ)} \cup {e[2] : e \in ToSet(IJ)})
HasAdj(v) == \E e \in ToSet(IJ) : e[1] # e[2] /\ v \in {e[1], e[2]}
Connected == Cardinality({v \in 0 .. nvtx_scale - 1 : HasAdj(v)})

\* run_bfs: create_graph_from_edgelist, and the loops over has_adj.
CreateGraph ==
  /\ pc = "create"
  /\ \/ Exit("failure")
     \/ pc' = IF opts.rootname THEN "roots" ELSE "sample"
  /\ UNCHANGED <<input, IJ, bfs_root, NBFS, m, k, searched, drawn, files>>

NewRootAny(v) == HasAdj(v)
NewRoot(v) == HasAdj(v) /\ \A i \in 1 .. m : bfs_root[i] # v

\* A challenge below nvtx_scale - 1 becomes a root if it has an edge and is new.
Sample ==
  /\ pc = "sample" /\ k < nvtx_scale /\ m < NBFS
  /\ \E challenge \in 0 .. nvtx_scale - 2 :
       IF NewRoot(challenge)
       THEN bfs_root' = [bfs_root EXCEPT ![m + 1] = challenge] /\ m' = m + 1
       ELSE UNCHANGED <<bfs_root, m>>
  /\ k' = k + 1
  /\ UNCHANGED <<input, IJ, NBFS, searched, drawn, files, pc>>

\* `t >= nvtx_connected` compares a variable that is never set.
Sampled ==
  /\ pc = "sample" /\ ~(k < nvtx_scale /\ m < NBFS)
  /\ \E t \in {-1, Connected} :
       LET short == t >= Connected /\ m < NBFS IN
       /\ NBFS' = IF short /\ m > 0 THEN m ELSE NBFS
       /\ drawn' = m
       /\ Exit(IF short /\ m = 0 THEN "failure" ELSE "first")
  /\ UNCHANGED <<input, IJ, bfs_root, m, k, searched, files>>

\* The roots of a file: it must have NBFS of them; what they are is not looked at.
ReadRoots ==
  /\ pc = "roots"
  /\ \/ Exit("failure") /\ UNCHANGED <<bfs_root, m>>
     \/ /\ bfs_root' \in [1 .. NBFS -> 0 .. nvtx_scale]
        /\ m' = NBFS
        /\ pc' = "first"
  /\ UNCHANGED <<input, IJ, NBFS, k, searched, drawn, files>>

Write(f) == files' = files \cup {f}

\* A search that is not measured, then .ready.  Beyond the graph, which only a
\* root from a file can be, it may also crash.
FirstSearch ==
  /\ pc = "first"
  /\ searched' = Append(searched, bfs_root[1])
  /\ \/ Write("ready") /\ pc' = "searches" /\ m' = 0
     \/ Exit("failure") /\ UNCHANGED <<files, m>>
     \/ bfs_root[1] > maxvtx /\ Exit("aborted") /\ UNCHANGED <<files, m>>
  /\ UNCHANGED <<input, IJ, bfs_root, NBFS, k, drawn>>

\* The assert that the root is below nvtx_scale comes after the first search.
Search ==
  /\ pc = "searches" /\ m < NBFS
  /\ IF bfs_root[m + 1] < nvtx_scale
     THEN searched' = Append(searched, bfs_root[m + 1]) /\ m' = m + 1 /\ UNCHANGED pc
     ELSE Exit("aborted") /\ UNCHANGED <<searched, m>>
  /\ UNCHANGED <<input, IJ, bfs_root, NBFS, k, drawn, files>>

\* .done, and exit(0): real_main never gets to output_results.
EndSearches ==
  /\ pc = "searches" /\ m = NBFS
  /\ \/ Write("done") /\ Exit("success")
     \/ Exit("failure") /\ UNCHANGED files
  /\ UNCHANGED <<input, IJ, bfs_root, NBFS, m, k, searched, drawn>>

-----------------------------------------------------------------------------
(* make-edgelist *)

\* The edges go to the file or to the standard output.  Roots are looked for
\* whether a file was named or not.
Dump ==
  /\ pc = "dump"
  /\ \/ Write("edges") /\ pc' = "choose"
     \/ opts.dumpname /\ Exit("failure") /\ UNCHANGED files
  /\ UNCHANGED <<input, IJ, bfs_root, NBFS, m, k, searched, drawn>>

\* Selection sampling over the vertices in order, k standing for t.
Skip ==
  /\ pc = "choose" /\ m < NBFS /\ k < nvtx_scale
  /\ ~HasAdj(k) \/ nvtx_scale - k > NBFS - m
  /\ k' = k + 1
  /\ UNCHANGED <<input, IJ, bfs_root, NBFS, m, searched, drawn, files, pc>>
Choose ==
  /\ pc = "choose" /\ m < NBFS /\ k < nvtx_scale /\ HasAdj(k)
  /\ bfs_root' = [bfs_root EXCEPT ![m + 1] = k]
  /\ m' = m + 1 /\ k' = k + 1
  /\ UNCHANGED <<input, IJ, NBFS, searched, drawn, files, pc>>

WriteRoots ==
  /\ pc = "choose" /\ (m = NBFS \/ k = nvtx_scale)
  /\ IF m = 0 THEN Exit("failure") /\ UNCHANGED <<NBFS, files>>
     ELSE /\ NBFS' = m
          /\ IF opts.rootname THEN Write("roots") ELSE UNCHANGED files
          /\ Exit("success")
  /\ UNCHANGED <<input, IJ, bfs_root, m, k, searched, drawn>>

Main == \/ GetOption \/ EndOptions \/ Generate \/ ReadDump \/ CreateGraph \/ Sample \/ Sampled
        \/ ReadRoots \/ FirstSearch \/ Search \/ EndSearches
        \/ Dump \/ Skip \/ Choose \/ WriteRoots
Ended == pc \in {"success", "failure", "aborted"}

Spec == Init /\ [][Main]_vars

-----------------------------------------------------------------------------
Distinct(s) == \A i, j \in DOMAIN s : i # j => s[i] # s[j]
Roots(n) == SubSeq(bfs_root, 1, n)

\* "Setting 3 of A,B,C,D requires the arguments to sum to at most 1. Otherwise,
\* the parameters are added and normalized so that the sum is 1"
\* (options.c:69-71): the parameters that the generator gets are a distribution.
OptionsRight ==
  pc \in {"create", "dump"} => Sum4(opts.p) = opts.den /\ \A n \in 1 .. 4 : opts.p[n] >= 0

\* Whatever was drawn, the searches start from vertices of the graph, and the roots
\* that the sampling found are different vertices that have an edge, as "without
\* replacement, but only from vertices with degree > 0" says (graph500.c:165-166);
\* so are the roots that make-edgelist writes.  NBFS is the number found, unless t
\* was below nvtx_connected: then it stays, and the searches that are left over all
\* start from vertex 0, which bfs_root is filled with, edge or not.
RootsRight ==
  /\ IJ # <<>> /\ ~opts.rootname => \A i \in DOMAIN searched : searched[i] \in 0 .. maxvtx
  /\ pc = "searches" /\ ~opts.rootname =>
       /\ Distinct(Roots(drawn)) /\ \A i \in 1 .. drawn : HasAdj(bfs_root[i])
       /\ \A i \in drawn + 1 .. NBFS : bfs_root[i] = 0
  /\ program = "make-edgelist" /\ pc = "success" /\ "roots" \in files =>
       Distinct(Roots(NBFS)) /\ \A i \in 1 .. NBFS : HasAdj(bfs_root[i])
  /\ "done" \in files => "ready" \in files /\ Len(searched) = NBFS + 1
=============================================================================
