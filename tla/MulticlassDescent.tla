------------------------- MODULE MulticlassDescent -------------------------
(***************************************************************************)
(* Solver_MCSVM_CS of liblinear: coordinate descent with two levels of     *)
(* shrinking, of instances and of the classes of each instance.            *)
(* The gap maxG - minG of an instance is abstracted to 0 (none), 1 (below  *)
(* eps), 2 and 3 (more); eps_shrink to the level 2 or 1 (eps).             *)
(***************************************************************************)
EXTENDS Integers, Sequences, FiniteSets, FiniteSetsExt

CONSTANTS
  L, nr_class, max_iter,
  Labels                 \* instance -> its class

VARIABLES
  phase, index, active_size, s, iter,
  alpha_index,           \* per instance: the order of its classes
  active_size_i,         \* per instance: how many of them are active
  y_index,               \* per instance: where its own class is
  G,                     \* G[m]: the class whose gradient is at position m
  eps_shrink, start_from_all, stopping,
  seen, begun, full      \* history: the sweep began with all classes of all instances

multiVars == <<phase, index, active_size, s, iter, alpha_index, active_size_i, y_index, G,
               eps_shrink, start_from_all, stopping, seen, begun, full>>

Inst  == 1 .. L
Class == 1 .. nr_class
Swap(f, i, j) == [f EXCEPT ![i] = f[j], ![j] = f[i]]
Prefix(k)     == {index[i] : i \in 1 .. k}

XInit ==
  /\ phase = "shuffle" /\ index = [i \in Inst |-> i] /\ active_size = L /\ s = 1 /\ iter = 0
  /\ alpha_index = [i \in Inst |-> [m \in Class |-> m]]
  /\ active_size_i = [i \in Inst |-> nr_class] /\ y_index = Labels
  /\ G = [m \in Class |-> m]
  /\ eps_shrink = 2 /\ start_from_all = TRUE /\ stopping = 0
  /\ seen = [i \in Inst |-> 0] /\ begun = Inst /\ full = TRUE

Shuffle ==
  /\ phase = "shuffle" /\ iter < max_iter
  /\ index' \in {f \in [Inst -> Inst] : /\ \A i \in Inst : i > active_size => f[i] = index[i]
                                        /\ {f[i] : i \in 1 .. active_size} = Prefix(active_size)}
  /\ s' = 1 /\ stopping' = 0 /\ phase' = "sweep"
  /\ seen' = [i \in Inst |-> 0] /\ begun' = Prefix(active_size)
  /\ full' = \A i \in Inst : active_size_i[i] = nr_class
  /\ UNCHANGED <<active_size, iter, alpha_index, active_size_i, y_index, G, eps_shrink, start_from_all>>

TooManySweeps ==
  /\ phase = "shuffle" /\ iter >= max_iter /\ phase' = "exhausted"
  /\ UNCHANGED <<index, active_size, s, iter, alpha_index, active_size_i, y_index, G,
                 eps_shrink, start_from_all, stopping, seen, begun, full>>

\* be_shrunk at position m: if the class there goes, the last active class
\* that stays takes its place, and the shrinkable ones behind it go too.
\* st has the order a, the gradients g, the active size k and the place y.
ShrinkAtForgettingLabel(st, m, out) ==
  IF m > st.k \/ st.a[m] \notin out THEN st
  ELSE LET pos == Max({q \in m + 1 .. st.k : st.a[q] \notin out} \cup {m})
       IN  [a |-> Swap(st.a, m, pos), g |-> Swap(st.g, m, pos), k |-> pos - 1, y |-> st.y]

ShrinkAt(st, m, out) ==
  IF m > st.k \/ st.a[m] \notin out THEN st
  ELSE LET pos == Max({q \in m + 1 .. st.k : st.a[q] \notin out} \cup {m})
       IN  [a |-> Swap(st.a, m, pos), g |-> Swap(st.g, m, pos), k |-> pos - 1,
            y |-> IF st.y = pos THEN m ELSE IF st.y = m THEN pos ELSE st.y]

\* The loop over the positions, which ends at the active size it has left.
Shrunk(st, out) ==
  LET at[m \in 0 .. nr_class] == IF m = 0 THEN st ELSE ShrinkAt(at[m - 1], m, out) IN at

\* One instance: its gradients, the classes out that are at their bound, and
\* then either it goes as well or its sub-problem is solved.
Solve(out, gap) ==
  LET i  == index[s]
      st == Shrunk([a |-> alpha_index[i], g |-> alpha_index[i], k |-> active_size_i[i],
                    y |-> y_index[i]], out)[nr_class]
  IN
  /\ phase = "sweep" /\ s <= active_size
  /\ out \subseteq {alpha_index[i][m] : m \in 1 .. active_size_i[i]}
  /\ alpha_index' = [alpha_index EXCEPT ![i] = st.a]
  /\ active_size_i' = [active_size_i EXCEPT ![i] = st.k]
  /\ y_index' = [y_index EXCEPT ![i] = st.y]
  /\ G' = st.g
  /\ seen' = [seen EXCEPT ![i] = @ + 1]
  /\ IF st.k <= 1
     THEN /\ active_size' = active_size - 1 /\ index' = Swap(index, s, active_size)
          /\ UNCHANGED <<s, stopping>>
     ELSE /\ s' = s + 1 /\ stopping' = Max({stopping, gap})
          /\ UNCHANGED <<active_size, index>>
  /\ UNCHANGED <<phase, iter, eps_shrink, start_from_all, begun, full>>

\* Small gaps end the run if the sweep started from all; else everything comes
\* back, in the order it has.
EndSweep ==
  /\ phase = "sweep" /\ s > active_size /\ iter' = iter + 1
  /\ CASE stopping <= 1 /\ start_from_all ->
            phase' = "done" /\ UNCHANGED <<active_size, active_size_i, eps_shrink, start_from_all>>
       [] stopping <= eps_shrink /\ ~(stopping <= 1 /\ start_from_all) ->
            /\ phase' = "shuffle" /\ active_size' = L
            /\ active_size_i' = [i \in Inst |-> nr_class]
            /\ eps_shrink' = Max({eps_shrink - 1, 1}) /\ start_from_all' = TRUE
       [] OTHER -> /\ phase' = "shuffle" /\ start_from_all' = FALSE
                   /\ UNCHANGED <<active_size, active_size_i, eps_shrink>>
  /\ UNCHANGED <<index, s, alpha_index, y_index, G, stopping, seen, begun, full>>

XNext ==
  \/ Shuffle \/ TooManySweeps \/ EndSweep
  \/ \E out \in SUBSET Class, gap \in 0 .. 3 : Solve(out, gap)

-----------------------------------------------------------------------------
\* The positions follow the classes: an instance's own class is where y_index
\* says, and after the shrinking of an instance each gradient is at the
\* position of its class.
OwnGradient ==
  /\ \A i \in Inst : alpha_index[i][y_index[i]] = Labels[i]
  /\ \E i \in Inst : \A m \in Class : G[m] = alpha_index[i][m]

\* A sweep looks once at each instance active at its start.
LooksOnce ==
  /\ Prefix(L) = Inst
  /\ \A i \in Inst : seen[i] <= (IF i \in begun THEN 1 ELSE 0)
  /\ (phase = "sweep" /\ s > active_size) => \A i \in begun : seen[i] = 1

\* Done, short of max_iter, only after a sweep that began with all classes of
\* all instances and left no gap of eps or more.
StopsOnAll == phase = "done" => begun = Inst /\ full /\ stopping <= 1
=============================================================================
