---------------------------- MODULE ParallelSums ----------------------------
(***************************************************************************)
(* The parallel loops of liblinear's functions, at the level of the reads  *)
(* and writes of their threads: the sum over the instances in fun, and     *)
(* XTv, which adds rows into one array per thread (Reduce_Vectors) and     *)
(* then adds up the arrays.  In l2r_l2_svr_fun::fun the variable d is      *)
(* declared outside the loop and shared.                                   *)
(***************************************************************************)
EXTENDS Losses

CONSTANTS Threads, Point     \* the threads, and the w of the call

VARIABLES
  call,                      \* "svcfun", "svrfun", "XTv"
  team,                      \* the threads of the parallel regions
  todo,                      \* iterations that no thread has taken
  at,                        \* thread -> <<pc, iteration, position, value read>>
  zs,                        \* z, from Xv
  d_shared, d_private,
  f_private,                 \* the reduction variable of each thread
  tmp_array,                 \* thread -> feature -> sum
  v, result                  \* what is returned

sumVars == <<call, team, todo, at, zs, d_shared, d_private, f_private, tmp_array, v, result>>

Idle == <<"idle", 0, 0, 0>>
Each(x) == [th \in Threads |-> x]

PInit ==
  /\ call \in {"svcfun", "svrfun", "XTv"} /\ team \in {th \in SUBSET Threads : th # {}}
  /\ todo = Insts /\ at = Each(Idle)
  /\ zs = Xv(Point)
  /\ d_shared = 0 /\ d_private = Each(0) /\ f_private = Each(0)
  /\ tmp_array = Each(Zero) /\ v = Zero /\ result = <<>>

\* schedule(guided) and schedule(static): some thread takes each iteration.
Take(th, i) ==
  /\ result = <<>> /\ th \in team /\ at[th] = Idle /\ i \in todo
  /\ todo' = todo \ {i}
  /\ at' = [at EXCEPT ![th] = IF call = "XTv" THEN <<"read", i, 1, 0>> ELSE <<"d", i, 0, 0>>]
  /\ UNCHANGED <<call, team, zs, d_shared, d_private, f_private, tmp_array, v, result>>

\* fun: d is computed, and read again by the tests and by the sum.
Deviation(i) == IF call = "svcfun" THEN 1 - Y[i] * zs[i] ELSE zs[i] - Y[i]
SetD(th) ==
  /\ at[th][1] = "d"
  /\ IF call = "svrfun" THEN d_shared' = Deviation(at[th][2]) /\ UNCHANGED d_private
     ELSE d_private' = [d_private EXCEPT ![th] = Deviation(at[th][2])] /\ UNCHANGED d_shared
  /\ at' = [at EXCEPT ![th][1] = "test"]
  /\ UNCHANGED <<call, team, todo, zs, f_private, tmp_array, v, result>>

D(th) == IF call = "svrfun" THEN d_shared ELSE d_private[th]

TestD(th) ==
  /\ at[th][1] = "test"
  /\ LET side == CASE call = "svcfun" -> IF D(th) > 0 THEN "add" ELSE "idle"
                   [] call = "svrfun" -> IF D(th) < -p THEN "below" ELSE IF D(th) > p THEN "above" ELSE "idle"
     IN  at' = [at EXCEPT ![th] = IF side = "idle" THEN Idle ELSE <<side, @[2], 0, 0>>]
  /\ UNCHANGED <<call, team, todo, zs, d_shared, d_private, f_private, tmp_array, v, result>>

AddLoss(th) ==
  /\ at[th][1] \in {"add", "below", "above"}
  /\ LET e == CASE at[th][1] = "add" -> D(th) [] at[th][1] = "below" -> D(th) + p [] at[th][1] = "above" -> D(th) - p
     IN  f_private' = [f_private EXCEPT ![th] = @ + C[at[th][2]] * e * e]
  /\ at' = [at EXCEPT ![th] = Idle]
  /\ UNCHANGED <<call, team, todo, zs, d_shared, d_private, tmp_array, v, result>>

\* sum_scale_x: the row of the instance goes to the thread's own array, one
\* element read and written after the other.
Array(th)       == th

ReadElement(th) ==
  /\ at[th][1] = "read"
  /\ at' = [at EXCEPT ![th] = <<"write", @[2], @[3], tmp_array[Array(th)][X[@[2]][@[3]][1]]>>]
  /\ UNCHANGED <<call, team, todo, zs, d_shared, d_private, f_private, tmp_array, v, result>>

WriteElement(th) ==
  LET i == at[th][2]
      k == at[th][3]
  IN
  /\ at[th][1] = "write"
  /\ tmp_array' = [tmp_array EXCEPT ![Array(th)][X[i][k][1]] = at[th][4] + zs[i] * X[i][k][2]]
  /\ at' = [at EXCEPT ![th] = IF k < Len(X[i]) THEN <<"read", i, k + 1, 0>> ELSE Idle]
  /\ UNCHANGED <<call, team, todo, zs, d_shared, d_private, f_private, v, result>>

\* The end of the region: the partial sums are added up.
Reduce ==
  /\ result = <<>> /\ todo = {} /\ \A th \in Threads : at[th] = Idle
  /\ v' = [j \in Feats |-> MapThenSumSet(LAMBDA th : tmp_array[th][j], Threads)]
  /\ result' = <<MapThenSumSet(LAMBDA th : f_private[th], Threads)>>
  /\ UNCHANGED <<call, team, todo, at, zs, d_shared, d_private, f_private, tmp_array>>

PNext ==
  \/ \E th \in Threads, i \in Insts : Take(th, i)
  \/ \E th \in Threads : SetD(th) \/ TestD(th) \/ AddLoss(th) \/ ReadElement(th) \/ WriteElement(th)
  \/ Reduce

-----------------------------------------------------------------------------
\* The parallel loops compute what a single thread computes, except that the
\* shared d of l2r_l2_svr_fun::fun may give another sum with several threads.
SumsAsOne ==
  result # <<>> =>
    CASE call = "svcfun" -> sq(Point) + 2 * result[1] = SvcFun(Point).f
      [] call = "svrfun" -> (Cardinality(team) = 1 => sq(Point) + 2 * result[1] = SvrFun(Point).f)
      [] call = "XTv"    -> v = subXTv(zs, [k \in Insts |-> k])
=============================================================================
