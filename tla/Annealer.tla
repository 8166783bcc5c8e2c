------------------------------ MODULE Annealer ------------------------------
(***************************************************************************)
(* canneal: its netlist (netlist.cpp, netlist_elem.cpp) and the threads    *)
(* main.cpp starts on it, each running annealer_thread::Run on one shared  *)
(* object.                                                                 *)
(*                                                                         *)
(* The netlist's constructor reads a file: a header and one entry per      *)
(* element, its name and the names of its fanins up to "END".  Names may   *)
(* be used before their own entry.  A file that ends in a newline is not   *)
(* at eof after its last entry, so the loop runs once more and reads an    *)
(* empty name without fanins.  An element is its index in _elements; the   *)
(* chip has one element per grid position, those beyond the named ones     *)
(* being blank.                                                            *)
(*                                                                         *)
(* An element's location is an AtomicPtr, so a read of it and a swap of    *)
(* two are single steps here (theorem LinearizableCorrect of               *)
(* AtomicPtrProofs); the cost of a move is computed from many such reads   *)
(* while others swap.  The random numbers and the temperature only decide  *)
(* whether a move that raises the cost is accepted: both outcomes are      *)
(* possible.                                                               *)
(***************************************************************************)
EXTENDS Integers, Sequences, SequencesExt, FiniteSets, FiniteSetsExt

CONSTANTS
  Files,    \* records maxX, maxY, entries, newline
  Blank     \* the empty string

VARIABLES
  file,        \* the file given on the command line
  entries,     \* what is left of it to read
  reading,     \* "header", "entries", "aborted", "threw", "built"
  present,     \* present_elem, or -1 between entries
  elemNames,   \* _elem_names
  unusedElem,  \* unused_elem: the first unused element
  fanins, fanouts,
  loc          \* present_loc of every element

netlistVars == <<file, entries, reading, present, elemNames, unusedElem,
                 fanins, fanouts, loc>>

Names(f) == {f.entries[i].name : i \in DOMAIN f.entries}

\* One entry per element, every fanin has an entry, and nothing drives itself.
ASSUME FilesAssumption ==
  \A f \in Files :
    /\ f.maxX \in Nat /\ f.maxY \in Nat /\ f.newline \in BOOLEAN
    /\ f.entries \in Seq([name : Names(f), fanins : Seq(Names(f))]) /\ Blank \notin Names(f)
    /\ \A i, j \in DOMAIN f.entries :
         f.entries[i].name = f.entries[j].name => i = j
    /\ \A i \in DOMAIN f.entries :
         ~Contains(f.entries[i].fanins, f.entries[i].name)

ChipSize == file.maxX * file.maxY
Elem     == 0 .. ChipSize - 1
Location == (0 .. file.maxX - 1) \X (0 .. file.maxY - 1)

\* What `while (!fin.eof())` iterates over.
Iterations(f) ==
  IF f.newline THEN Append(f.entries, [name |-> Blank, fanins |-> <<>>])
               ELSE f.entries

NetlistInit ==
  /\ file \in Files
  /\ entries = <<>>
  /\ reading = "header"
  /\ present = -1
  /\ elemNames = << >>
  /\ unusedElem = 0
  /\ fanins = << >> /\ fanouts = << >> /\ loc = << >>

-----------------------------------------------------------------------------
\* assert(_num_elements < _chip_size)
HeaderFits(f) == Len(f.entries) < f.maxX * f.maxY

\* The double loop over x and y: element i_elem gets the next grid position.
GridPosition(e) == <<e \div file.maxY, e % file.maxY>>

ReadHeader ==
  /\ reading = "header"
  /\ IF HeaderFits(file)
     THEN /\ reading' = "entries"
          /\ entries' = Iterations(file)
          /\ fanins' = [e \in Elem |-> <<>>]
          /\ fanouts' = [e \in Elem |-> <<>>]
          /\ loc' = [e \in Elem |-> GridPosition(e)]
     ELSE /\ reading' = "aborted"
          /\ UNCHANGED <<entries, fanins, fanouts, loc>>
  /\ UNCHANGED <<file, present, elemNames, unusedElem>>

\* create_elem_if_necessary: the element a name stands for, taken from the
\* pool when the name is new; _elements.at throws when the pool is used up.
Known(name) == name \in DOMAIN elemNames

ElementAlwaysNew(name) == unusedElem
Element(name) == IF Known(name) THEN elemNames[name] ELSE unusedElem

create_elem_if_necessary(name) ==
  /\ elemNames' = [n \in DOMAIN elemNames \cup {name} |-> IF n = name THEN Element(name) ELSE elemNames[n]]
  /\ unusedElem' = IF Known(name) THEN unusedElem ELSE unusedElem + 1

PoolHasRoomFor(name) == Known(name) \/ unusedElem < ChipSize

OutOfRange ==
  /\ reading' = "threw"
  /\ UNCHANGED <<file, entries, present, elemNames, unusedElem, fanins, fanouts, loc>>

ReadName ==
  /\ reading = "entries" /\ present = -1 /\ entries # <<>>
  /\ LET name == Head(entries).name IN
     IF PoolHasRoomFor(name)
     THEN /\ create_elem_if_necessary(name)
          /\ present' = Element(name)
          /\ UNCHANGED <<file, entries, reading, fanins, fanouts, loc>>
     ELSE OutOfRange

ReadFanin ==
  /\ reading = "entries" /\ present # -1 /\ Head(entries).fanins # <<>>
  /\ LET name == Head(Head(entries).fanins)
         f    == Element(name)
     IN
     IF PoolHasRoomFor(name)
     THEN /\ create_elem_if_necessary(name)
          /\ fanins' = [fanins EXCEPT ![present] = Append(@, f)]
          /\ fanouts' = [fanouts EXCEPT ![f] = Append(@, present)]
          /\ entries' = [entries EXCEPT ![1].fanins = Tail(@)]
          /\ UNCHANGED <<file, reading, present, loc>>
     ELSE OutOfRange

ReadEnd ==
  /\ reading = "entries" /\ present # -1 /\ Head(entries).fanins = <<>>
  /\ entries' = Tail(entries)
  /\ present' = -1
  /\ UNCHANGED <<file, reading, elemNames, unusedElem, fanins, fanouts, loc>>

Eof ==
  /\ reading = "entries" /\ present = -1 /\ entries = <<>>
  /\ reading' = "built"
  /\ UNCHANGED <<file, entries, present, elemNames, unusedElem, fanins, fanouts, loc>>

netlist == ReadHeader \/ ReadName \/ ReadFanin \/ ReadEnd \/ Eof

-----------------------------------------------------------------------------
\* The loops of routing_cost_given_loc and swap_cost: fanin, then fanout.
FansInOnly(e) == fanins[e]
Fans(e) == fanins[e] \o fanouts[e]

Abs(n) == IF n < 0 THEN -n ELSE n
Distance(l, m) == Abs(l[1] - m[1]) + Abs(l[2] - m[2])

\* The running total of a loop over s, and what it ends with.
Sums(s) ==
  LET sum[n \in 0 .. Len(s)] == IF n = 0 THEN 0 ELSE sum[n - 1] + s[n] IN sum
SumSeq(s) == Sums(s)[Len(s)]

routing_cost_given_loc(e, l) ==
  SumSeq([i \in DOMAIN Fans(e) |-> Distance(l, loc[Fans(e)[i]])])

\* Blank elements have no wires and add nothing.
total_routing_cost ==
  SumSeq([i \in 1 .. ChipSize |-> routing_cost_given_loc(i - 1, loc[i - 1])]) \div 2

\* What one fan adds to yes_swap - no_swap in swap_cost.
FanCost(old, new, at) == Distance(new, at) - Distance(old, at)

\* swap_locations, the effect of AtomicPtr::Swap.
SwappedHalf(l, d, e) == [l EXCEPT ![d] = l[e]]
Swapped(l, d, e) == [l EXCEPT ![d] = l[e], ![e] = l[d]]

-----------------------------------------------------------------------------
Count(s, e) == Cardinality({i \in DOMAIN s : s[i] = e})

\* The netlist built is the one in the file, whatever the order of entries and
\* uses (netlist.cpp:219-237): names are distinct elements, an element's
\* fanins are those of its entry, and fanouts are the converse.  Reading never runs
\* out of elements, although a trailing newline makes the loop create one that
\* is not in the file: the assert on the header (netlist.cpp:165) is strict.
BuiltAsWritten ==
  /\ reading # "threw"
  /\ reading = "built" =>
    /\ \A m, n \in DOMAIN elemNames : elemNames[m] = elemNames[n] => m = n
    /\ \A f \in ToSet(file.entries) :
         fanins[elemNames[f.name]]
           = [k \in DOMAIN f.fanins |-> elemNames[f.fanins[k]]]
    /\ \A d, e \in Elem : Count(fanins[e], d) = Count(fanouts[d], e)

\* The wires of the file, each counted once, at placement l.
WireLength(l) ==
  SumSeq([i \in DOMAIN file.entries |->
    SumSeq([k \in DOMAIN file.entries[i].fanins |->
      Distance(l[elemNames[file.entries[i].name]],
               l[elemNames[file.entries[i].fanins[k]]])])])

-----------------------------------------------------------------------------
\* The annealer.
CONSTANTS
  Thread,            \* argument 1: the threads
  SwapsPerTemp,      \* argument 2: swaps per temperature step
  TempSteps,         \* the values of argument 5; -1: until convergence
  StepCap            \* bound: the step counter saturates here

ASSUME ThreadAssumption == IsFiniteSet(Thread) /\ Thread # {}
ASSUME StepsAssumption ==
  /\ SwapsPerTemp \in Nat /\ TempSteps \subseteq Nat \cup {-1}
  /\ StepCap \in Nat /\ \A n \in TempSteps : n <= StepCap

VARIABLES
  numberTempSteps,   \* _number_temp_steps
  keepGoing,         \* _keep_going_global_flag
  waiting,           \* threads blocked in pthread_barrier_wait
  main,              \* main.cpp: "netlist", "join", "done"
  pc, a, b, aLoc, bLoc, fan, delta, good, bad, move, steps,
  fresh              \* history: nobody swapped since t read its locations

shared == <<netlistVars, numberTempSteps, keepGoing, waiting, main>>
locals == <<a, b, aLoc, bLoc, fan, delta, good, bad, move, steps, fresh>>
vars   == <<shared, pc, locals>>

_moves_per_thread_temp == SwapsPerTemp \div Cardinality(Thread)

Init ==
  /\ NetlistInit
  /\ numberTempSteps \in TempSteps
  /\ keepGoing = TRUE
  /\ waiting = {}
  /\ main = "netlist"
  /\ pc = [t \in Thread |-> "new"]
  /\ a = [t \in Thread |-> 0] /\ b = [t \in Thread |-> 0]
  /\ aLoc = [t \in Thread |-> <<0, 0>>] /\ bLoc = [t \in Thread |-> <<0, 0>>]
  /\ fan = [t \in Thread |-> 0] /\ delta = [t \in Thread |-> 0]
  /\ good = [t \in Thread |-> 0] /\ bad = [t \in Thread |-> -1]
  /\ move = [t \in Thread |-> 0] /\ steps = [t \in Thread |-> 0]
  /\ fresh = [t \in Thread |-> TRUE]

Goto(t, to) == pc' = [pc EXCEPT ![t] = to]

\* main: the netlist is constructed before any thread exists.
BuildNetlist ==
  /\ main = "netlist"
  /\ netlist
  /\ UNCHANGED <<numberTempSteps, keepGoing, waiting, main, pc, locals>>

\* main: pthread_create for every thread.
CreateThreads ==
  /\ main = "netlist"
  /\ reading = "built"
  /\ main' = "join"
  /\ pc' = [t \in Thread |-> "entry"]
  /\ UNCHANGED <<netlistVars, numberTempSteps, keepGoing, waiting, locals>>

\* Run, up to the loop: the first a is overwritten before it is used, so only
\* the first b matters.
Enter(t) ==
  /\ pc[t] = "entry"
  /\ \E e \in Elem : b' = [b EXCEPT ![t] = e]
  /\ Goto(t, "keep_going")
  /\ UNCHANGED <<shared, a, aLoc, bLoc, fan, delta, good, bad, move, steps, fresh>>

\* keep_going: fixed number of steps, or until nobody signalled convergence.
KeepGoingEither(t) ==
  steps[t] < numberTempSteps /\ keepGoing /\ good[t] > bad[t]

KeepGoing(t) ==
  IF numberTempSteps = -1
  THEN keepGoing /\ good[t] > bad[t]
  ELSE steps[t] < numberTempSteps

StartStep(t) ==
  /\ pc[t] = "keep_going"
  /\ KeepGoing(t)
  /\ good' = [good EXCEPT ![t] = 0]
  /\ bad' = [bad EXCEPT ![t] = 0]
  /\ move' = [move EXCEPT ![t] = 0]
  /\ Goto(t, "move")
  /\ UNCHANGED <<shared, a, b, aLoc, bLoc, fan, delta, steps, fresh>>

\* The flag is a plain bool, written in a step of its own after the test.
Stop(t) ==
  /\ pc[t] = "keep_going"
  /\ ~KeepGoing(t)
  /\ Goto(t, IF numberTempSteps = -1 THEN "signal" ELSE "exit")
  /\ UNCHANGED <<shared, locals>>

SignalConverged(t) ==
  /\ pc[t] = "signal"
  /\ keepGoing' = FALSE
  /\ Goto(t, "exit")
  /\ UNCHANGED <<netlistVars, numberTempSteps, waiting, main, locals>>

\* a = b; b = get_random_element(different from a).
PickPair(t) ==
  /\ pc[t] = "move"
  /\ move[t] < _moves_per_thread_temp
  /\ a' = [a EXCEPT ![t] = b[t]]
  /\ \E e \in Elem \ {b[t]} : b' = [b EXCEPT ![t] = e]
  /\ Goto(t, "aLoc")
  /\ UNCHANGED <<shared, aLoc, bLoc, fan, delta, good, bad, move, steps, fresh>>

GetALoc(t) ==
  /\ pc[t] = "aLoc"
  /\ aLoc' = [aLoc EXCEPT ![t] = loc[a[t]]]
  /\ fresh' = [fresh EXCEPT ![t] = TRUE]
  /\ Goto(t, "bLoc")
  /\ UNCHANGED <<shared, a, b, bLoc, fan, delta, good, bad, move, steps>>

GetBLoc(t) ==
  /\ pc[t] = "bLoc"
  /\ bLoc' = [bLoc EXCEPT ![t] = loc[b[t]]]
  /\ fan' = [fan EXCEPT ![t] = 1]
  /\ delta' = [delta EXCEPT ![t] = 0]
  /\ Goto(t, "cost")
  /\ UNCHANGED <<shared, a, b, aLoc, good, bad, move, steps, fresh>>

\* a->swap_cost(a_loc, b_loc) + b->swap_cost(b_loc, a_loc), one fan at a time.
AddFan(t) ==
  LET fa == Fans(a[t])
      fb == Fans(b[t])
      i  == fan[t]
  IN
  /\ pc[t] = "cost"
  /\ i <= Len(fa) + Len(fb)
  /\ delta' = [delta EXCEPT ![t] = @ +
       IF i <= Len(fa) THEN FanCost(aLoc[t], bLoc[t], loc[fa[i]])
                       ELSE FanCost(bLoc[t], aLoc[t], loc[fb[i - Len(fa)]])]
  /\ fan' = [fan EXCEPT ![t] = i + 1]
  /\ UNCHANGED <<shared, pc, a, b, aLoc, bLoc, good, bad, move, steps, fresh>>

CostKnown(t) ==
  pc[t] = "cost" /\ fan[t] > Len(Fans(a[t])) + Len(Fans(b[t]))

\* accept_move: a negative cost change is always accepted; otherwise
\* exp(-delta/T) is compared with a random number.
accept_move(d) == IF d < 0 THEN {"good"} ELSE {"bad", "rejected"}

Decide(t) ==
  /\ CostKnown(t)
  /\ \E decision \in accept_move(delta[t]) :
       /\ loc' = IF decision = "rejected" THEN loc ELSE Swapped(loc, a[t], b[t])
       /\ good' = [good EXCEPT ![t] = IF decision = "good" THEN @ + 1 ELSE @]
       /\ bad' = [bad EXCEPT ![t] = IF decision = "bad" THEN @ + 1 ELSE @]
       /\ fresh' = [u \in Thread |-> fresh[u] /\ (decision = "rejected" \/ u = t)]
  /\ move' = [move EXCEPT ![t] = @ + 1]
  /\ Goto(t, "move")
  /\ UNCHANGED <<file, entries, reading, present, elemNames, unusedElem, fanins,
                 fanouts, numberTempSteps, keepGoing, waiting, main,
                 a, b, aLoc, bLoc, fan, delta, steps>>

\* temp_steps_completed++ and pthread_barrier_wait: the last of the threads
\* the barrier was initialised for releases the others.
BarrierShort(t) ==
  /\ pc[t] = "move"
  /\ move[t] >= _moves_per_thread_temp
  /\ steps' = [steps EXCEPT ![t] = IF @ < StepCap THEN @ + 1 ELSE @]
  /\ Goto(t, "keep_going")
  /\ UNCHANGED <<shared, a, b, aLoc, bLoc, fan, delta, good, bad, move, fresh>>

Barrier(t) ==
  /\ pc[t] = "move"
  /\ move[t] >= _moves_per_thread_temp
  /\ steps' = [steps EXCEPT ![t] = IF @ < StepCap THEN @ + 1 ELSE @]
  /\ IF Cardinality(waiting) + 1 < Cardinality(Thread)
     THEN waiting' = waiting \cup {t} /\ Goto(t, "barrier")
     ELSE /\ waiting' = {}
          /\ pc' = [u \in Thread |->
                      IF u = t \/ u \in waiting THEN "keep_going" ELSE pc[u]]
  /\ UNCHANGED <<netlistVars, numberTempSteps, keepGoing, main,
                 a, b, aLoc, bLoc, fan, delta, good, bad, move, fresh>>

\* main: every pthread_join returned; .done is written and the cost printed.
JoinAll ==
  /\ main = "join"
  /\ \A t \in Thread : pc[t] = "exit"
  /\ main' = "done"
  /\ UNCHANGED <<netlistVars, numberTempSteps, keepGoing, waiting, pc, locals>>

Run(t) ==
  \/ Enter(t) \/ StartStep(t) \/ Stop(t) \/ SignalConverged(t) \/ PickPair(t)
  \/ GetALoc(t) \/ GetBLoc(t) \/ AddFan(t) \/ Decide(t) \/ Barrier(t)

Terminated == (main = "done" \/ reading = "aborted") /\ UNCHANGED vars

Next == BuildNetlist \/ CreateThreads \/ (\E t \in Thread : Run(t)) \/ JoinAll \/ Terminated

\* Every created pthread and main keep being scheduled.
Fairness == WF_vars(BuildNetlist) /\ WF_vars(CreateThreads) /\ WF_vars(JoinAll)
            /\ \A t \in Thread : WF_vars(Run(t))

Spec == Init /\ [][Next]_vars
FairSpec == Spec /\ Fairness

-----------------------------------------------------------------------------
\* Whatever the threads swap, from however stale costs, the placement stays a
\* placement: every grid position holds exactly one element
\* (netlist.cpp:81-85).
PlacementValid ==
  reading = "built" =>
    /\ \A l \in Location : \E e \in Elem : loc[e] = l
    /\ \A d, e \in Elem : loc[d] = loc[e] => d = e

Moving(t) == pc[t] \in {"move", "aLoc", "bLoc", "cost"}

Fixed == numberTempSteps # -1

\* All threads anneal at the same temperature: T is divided once per step, and
\* the barrier (annealer_thread.cpp:90) keeps the steps together.  With a fixed
\* number of steps each thread that exits has done all of them, and nobody is
\* left at the barrier.
SameTemperature ==
  Fixed =>
    /\ \A t, u \in Thread : Moving(t) /\ Moving(u) => steps[t] = steps[u]
    /\ \A t \in Thread : pc[t] = "exit" =>
         waiting = {} /\ \A u \in Thread : steps[u] = numberTempSteps

\* The costs are those of the wires.  The cost printed at the end is their
\* length, although each wire has two ends: "we have double counted"
\* (netlist.cpp:61).  And "always accept moves that lower the cost function"
\* (annealer_thread.cpp:100): unless another thread swapped meanwhile, a swap
\* that shortens the wires is counted as good.
CostsRight ==
  /\ reading = "built" => total_routing_cost = WireLength(loc)
  /\ \A t \in Thread :
       /\ CostKnown(t) /\ fresh[t]
       /\ WireLength(Swapped(loc, a[t], b[t])) < WireLength(loc)
       => accept_move(delta[t]) = {"good"}

\* "run until design converges ... signal we have converged"
\* (annealer_thread.cpp:137-139): once a thread signals convergence the run
\* ends.
ConvergenceEndsRun == ~keepGoing ~> main = "done"

\* With a fixed number of steps the run ends: no thread is left at the barrier
\* (annealer_thread.cpp:90) and main joins every thread.
Finishes == Fixed ~> (main = "done" \/ reading = "aborted")
=============================================================================
