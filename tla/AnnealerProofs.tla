--------------------------- MODULE AnnealerProofs ---------------------------
(***************************************************************************)
(* Proofs about Annealer and the netlist it reads, for any files, threads  *)
(* and temperature steps: the netlist built is the one in the file and     *)
(* reading it never runs out of elements, the placement stays a            *)
(* permutation whatever the threads swap, the barrier keeps them at one    *)
(* temperature, and the costs are those of the wires.                      *)
(***************************************************************************)
EXTENDS Annealer, FiniteSetTheorems, FunctionTheorems, WellFoundedInduction, TLAPS

Readings == {"header", "entries", "aborted", "threw", "built"}
Places   == {"aLoc", "bLoc", "cost"}
Points   == {"new", "entry", "keep_going", "signal", "exit", "barrier", "move"} \cup Places

TypeOK ==
  /\ file \in Files /\ reading \in Readings
  /\ numberTempSteps \in TempSteps
  /\ pc \in [Thread -> Points]
  /\ waiting \in SUBSET Thread
  /\ steps \in [Thread -> Nat]
  /\ a \in [Thread -> Int] /\ b \in [Thread -> Int]

-----------------------------------------------------------------------------
(* The threads. *)

\* The elements a thread is going to swap are elements, and main creates the
\* threads once.
Chosen ==
  /\ main = "netlist" => \A t \in Thread : pc[t] = "new"
  /\ \A t \in Thread : /\ pc[t] \notin {"new", "entry"} => b[t] \in Elem
                       /\ pc[t] \in Places => a[t] \in Elem

\* With a fixed number of steps there is a step s that all threads are in: those
\* at the barrier have counted it, and nobody is past it.
AtStep(s) ==
  /\ \A t \in Thread : steps[t] = IF t \in waiting THEN s + 1 ELSE s
  /\ \A t \in Thread : Moving(t) \/ pc[t] = "barrier" => s < numberTempSteps
  /\ \A t \in Thread : pc[t] = "exit" => s = numberTempSteps

Together ==
  /\ waiting = {t \in Thread : pc[t] = "barrier"} /\ waiting # Thread
  /\ Fixed => (\E s \in 0 .. numberTempSteps : AtStep(s)) /\ \A t \in Thread : pc[t] # "signal"

-----------------------------------------------------------------------------
(* The placement. *)

Permutation(l) ==
  /\ l \in [Elem -> Location]
  /\ \A p \in Location : \E e \in Elem : l[e] = p
  /\ \A d, e \in Elem : l[d] = l[e] => d = e

Placed == reading \in {"entries", "built"} => Permutation(loc)

-----------------------------------------------------------------------------
(* The netlist.  It is read from the list of iterations; the one at Position *)
(* is being read, and the first Read(i) fanins of the i-th are read.         *)

List     == Iterations(file)
Position == Len(List) - Len(entries) + 1
Done     == Len(List[Position].fanins) - Len(entries[1].fanins)
Read(i)  == IF i < Position THEN Len(List[i].fanins) ELSE IF i = Position THEN Done ELSE 0

AllNames == Names(file) \cup {Blank}
Entry    == [name : AllNames, fanins : Seq(Names(file))]

\* What is left is the rest of the list.
Suffix ==
  /\ entries \in Seq(Entry) /\ Len(entries) <= Len(List)
  /\ \A j \in 2 .. Len(entries) : entries[j] = List[Position + j - 1]
  /\ entries # <<>> =>
       /\ entries[1].name = List[Position].name
       /\ Len(entries[1].fanins) <= Len(List[Position].fanins)
       /\ \A j \in DOMAIN entries[1].fanins : entries[1].fanins[j] = List[Position].fanins[Done + j]
       /\ present = -1 => Done = 0
       /\ present # -1 => entries[1].name \in DOMAIN elemNames /\ present = elemNames[entries[1].name]
  /\ entries = <<>> => present = -1

\* Names stand for the elements used so far, each for another one.
Named ==
  /\ unusedElem \in Nat /\ unusedElem <= ChipSize
  /\ elemNames \in [DOMAIN elemNames -> 0 .. unusedElem - 1]
  /\ DOMAIN elemNames \in SUBSET AllNames /\ Cardinality(DOMAIN elemNames) = unusedElem
  /\ \A m, n \in DOMAIN elemNames : elemNames[m] = elemNames[n] => m = n
  /\ \A i \in 1 .. Position - 1 : List[i].name \in DOMAIN elemNames

\* The fanins read are those in the list, and the fanouts are their converse.
Wired ==
  /\ fanins \in [Elem -> Seq(Elem)] /\ fanouts \in [Elem -> Seq(Elem)]
  /\ \A e \in Elem : e >= unusedElem => fanins[e] = <<>>
  /\ \A i \in DOMAIN List : List[i].name \in DOMAIN elemNames =>
       LET f == fanins[elemNames[List[i].name]] IN
       /\ Len(f) = Read(i)
       /\ \A j \in 1 .. Read(i) :
            List[i].fanins[j] \in DOMAIN elemNames /\ f[j] = elemNames[List[i].fanins[j]]
  /\ \A d, e \in Elem : Count(fanins[e], d) = Count(fanouts[d], e)

Netted ==
  /\ reading # "threw"
  /\ reading = "header" => elemNames = <<>> /\ unusedElem = 0 /\ present = -1
  /\ reading \in {"entries", "built"} => HeaderFits(file) /\ Suffix /\ Named /\ Wired
  /\ reading = "built" => entries = <<>>

IInv == TypeOK /\ Chosen /\ Together /\ Placed /\ Netted

-----------------------------------------------------------------------------
(* The threads and the barrier. *)

LEMMA StepFacts ==
  ASSUME TypeOK, Fixed
  PROVE  numberTempSteps \in Nat /\ numberTempSteps <= StepCap /\ StepCap \in Nat
BY StepsAssumption DEF TypeOK, Fixed

\* A thread on its way between two barriers.
LEMMA ThreadStep ==
  ASSUME TypeOK, Together, NEW t \in Thread, NEW p \in Points \ {"barrier"}, pc[t] # "barrier",
         pc' = [pc EXCEPT ![t] = p], UNCHANGED <<waiting, steps, numberTempSteps>>,
         Fixed => /\ p # "signal"
                  /\ p \in {"move"} \cup Places => Moving(t) \/ steps[t] < numberTempSteps
                  /\ p = "exit" => steps[t] >= numberTempSteps
  PROVE  Together'
<1>1. pc'[t] = p /\ \A u \in Thread : u # t => pc'[u] = pc[u]
  BY DEF TypeOK
<1>2. waiting' = {u \in Thread : pc'[u] = "barrier"} /\ waiting' # Thread /\ t \notin waiting
  BY <1>1 DEF Together
<1>3. ASSUME Fixed PROVE (\E s \in 0 .. numberTempSteps : AtStep(s)') /\ \A u \in Thread : pc'[u] # "signal"
  <2>1. PICK s \in 0 .. numberTempSteps : AtStep(s)
    BY <1>3 DEF Together
  <2>2. steps[t] = s /\ numberTempSteps \in Nat
    BY <1>2, <1>3, <2>1, StepFacts DEF AtStep
  <2>3. Moving(t)' => s < numberTempSteps
    BY <1>1, <1>3, <2>1, <2>2 DEF AtStep, Moving, Places
  <2>4. pc'[t] = "exit" => s = numberTempSteps
    BY <1>1, <1>3, <2>2
  <2>5. AtStep(s)'
    BY <1>1, <2>1, <2>3, <2>4 DEF AtStep, Moving
  <2>. QED
    BY <1>1, <1>3, <2>5 DEF Together
<1>. QED
  BY <1>2, <1>3 DEF Together, Fixed

\* The last thread to arrive releases all: with a fixed number of steps they
\* have all counted the step then.
LEMMA BarrierTogether ==
  ASSUME TypeOK, Together, NEW t \in Thread, Barrier(t)
  PROVE  /\ Together' /\ pc' \in [Thread -> Points] /\ waiting' \in SUBSET Thread /\ steps' \in [Thread -> Nat]
         /\ \A u \in Thread : pc'[u] # pc[u] => pc[u] \in {"move", "barrier"} /\ pc'[u] \in {"barrier", "keep_going"}
<1>1. pc[t] = "move" /\ t \notin waiting /\ numberTempSteps' = numberTempSteps
  BY DEF Barrier, Together
<1>2. steps' = [steps EXCEPT ![t] = IF @ < StepCap THEN @ + 1 ELSE @]
  BY DEF Barrier
<1>3. steps' \in [Thread -> Nat] /\ \A u \in Thread : u # t => steps'[u] = steps[u]
  BY <1>2 DEF TypeOK
<1>4. ASSUME NEW s \in 0 .. numberTempSteps, AtStep(s), Fixed
      PROVE  s < numberTempSteps /\ steps[t] = s /\ steps'[t] = s + 1
  BY <1>1, <1>2, <1>4, StepFacts DEF AtStep, Moving, TypeOK
<1>5. /\ IsFiniteSet(Thread) /\ IsFiniteSet(waiting)
      /\ Cardinality(waiting) \in Nat /\ Cardinality(Thread) \in Nat
      /\ IsFiniteSet(waiting \cup {t}) /\ Cardinality(waiting \cup {t}) = Cardinality(waiting) + 1
  BY <1>1, ThreadAssumption, FS_Subset, FS_AddElement, FS_CardinalityType DEF TypeOK
<1>6. CASE Cardinality(waiting) + 1 < Cardinality(Thread)
  <2>1. waiting' = waiting \cup {t} /\ pc' = [pc EXCEPT ![t] = "barrier"]
    BY <1>6 DEF Barrier, Goto
  <2>2. pc'[t] = "barrier" /\ \A u \in Thread : u # t => pc'[u] = pc[u]
    BY <2>1 DEF TypeOK
  <2>3. waiting' = {u \in Thread : pc'[u] = "barrier"} /\ waiting' # Thread
    BY <1>5, <1>6, <2>1, <2>2 DEF Together
  <2>4. ASSUME Fixed PROVE (\E s \in 0 .. numberTempSteps : AtStep(s)') /\ \A u \in Thread : pc'[u] # "signal"
    <3>1. PICK s \in 0 .. numberTempSteps : AtStep(s)
      BY <2>4 DEF Together
    <3>2. s < numberTempSteps /\ steps'[t] = s + 1
      BY <1>4, <2>4, <3>1
    <3>3. AtStep(s)'
      BY <1>1, <1>3, <2>1, <2>2, <3>1, <3>2 DEF AtStep, Moving
    <3>. QED
      BY <2>2, <2>4, <3>3 DEF Together
  <2>5. Together'
    BY <1>1, <2>3, <2>4 DEF Together, Fixed
  <2>6. pc' \in [Thread -> Points] /\ waiting' \in SUBSET Thread
    BY <2>1 DEF TypeOK, Points
  <2>. QED
    BY <1>1, <1>3, <2>2, <2>5, <2>6
<1>7. CASE ~(Cardinality(waiting) + 1 < Cardinality(Thread))
  <2>1. /\ waiting' = {}
        /\ pc' = [u \in Thread |-> IF u = t \/ u \in waiting THEN "keep_going" ELSE pc[u]]
    BY <1>7 DEF Barrier
  <2>2. waiting \cup {t} = Thread
    <3>1. waiting \cup {t} \in SUBSET Thread /\ Cardinality(waiting \cup {t}) >= Cardinality(Thread)
      BY <1>5, <1>7 DEF TypeOK
    <3>. QED
      BY <1>5, <3>1, FS_Subset
  <2>3. \A u \in Thread : pc'[u] = "keep_going"
    BY <2>1, <2>2
  <2>4. ASSUME Fixed PROVE \E s \in 0 .. numberTempSteps : AtStep(s)'
    <3>1. PICK s \in 0 .. numberTempSteps : AtStep(s)
      BY <2>4 DEF Together
    <3>2. s < numberTempSteps /\ steps'[t] = s + 1 /\ numberTempSteps \in Nat
      BY <1>4, <2>4, <3>1, StepFacts
    <3>3. s + 1 \in 0 .. numberTempSteps /\ \A u \in Thread : steps'[u] = s + 1
      BY <1>3, <2>2, <3>1, <3>2 DEF AtStep
    <3>4. AtStep(s + 1)'
      BY <2>1, <2>3, <3>3 DEF AtStep, Moving
    <3>. QED
      BY <3>3, <3>4
  <2>5. Together'
    BY <1>1, <2>1, <2>3, <2>4 DEF Together, Fixed
  <2>6. pc' \in [Thread -> Points]
    BY <2>1, <2>2, <2>3 DEF TypeOK, Points
  <2>7. \A u \in Thread : pc[u] \in {"move", "barrier"}
    BY <1>1, <2>2 DEF Together
  <2>. QED
    BY <1>3, <2>1, <2>3, <2>5, <2>6, <2>7
<1>. QED
  BY <1>6, <1>7

Threads == TypeOK /\ Chosen /\ Together

\* A step of a thread that leaves the netlist, the barrier and the step counts
\* alone, and takes its elements from the netlist's.
LEMMA WalkStep ==
  ASSUME Threads, NEW t \in Thread, NEW p \in Points \ {"new", "entry", "barrier"}, pc[t] \notin {"barrier", "new"},
         pc' = [pc EXCEPT ![t] = p], UNCHANGED <<file, reading, waiting, steps, numberTempSteps, main>>,
         NEW x \in Int, NEW y \in Elem, a' = [a EXCEPT ![t] = x], b' = [b EXCEPT ![t] = y],
         p \in Places => x \in Elem,
         Fixed => /\ p # "signal"
                  /\ p \in {"move"} \cup Places => Moving(t) \/ steps[t] < numberTempSteps
                  /\ p = "exit" => steps[t] >= numberTempSteps
  PROVE  Threads'
<1>. USE DEF Threads
<1>1. Together'
  BY ThreadStep
<1>2. Elem' = Elem /\ y \in Int
  BY DEF Elem, ChipSize
<1>3. TypeOK'
  BY <1>2 DEF TypeOK
<1>4. /\ pc'[t] = p /\ a'[t] = x /\ b'[t] = y
      /\ \A u \in Thread : u # t => pc'[u] = pc[u] /\ a'[u] = a[u] /\ b'[u] = b[u]
  BY DEF TypeOK
<1>5. Chosen'
  BY <1>2, <1>4 DEF Chosen
<1>. QED
  BY <1>1, <1>3, <1>5

LEMMA RunThreads == ASSUME Threads, NEW t \in Thread, Run(t) PROVE Threads'
<1>. USE DEF Threads
<1>0. /\ a[t] \in Int /\ a = [a EXCEPT ![t] = a[t]] /\ b = [b EXCEPT ![t] = b[t]]
      /\ pc[t] \notin {"new", "entry"} => b[t] \in Elem
      /\ pc[t] \in Places => a[t] \in Elem
  BY DEF TypeOK, Chosen
<1>1. CASE Enter(t)
  <2>1. PICK e \in Elem : b' = [b EXCEPT ![t] = e]
    BY <1>1 DEF Enter
  <2>2. /\ pc[t] = "entry" /\ pc' = [pc EXCEPT ![t] = "keep_going"] /\ a' = [a EXCEPT ![t] = a[t]]
        /\ UNCHANGED <<file, reading, waiting, steps, numberTempSteps, main>>
    BY <1>0, <1>1 DEF Enter, Goto, shared, netlistVars
  <2>3. "keep_going" \in Points \ {"new", "entry", "barrier"} /\ "keep_going" \notin {"move"} \cup Places
    BY DEF Points, Places
  <2>. QED
    BY <1>0, <2>1, <2>2, <2>3, WalkStep
<1>2. CASE StartStep(t)
  <2>1. /\ pc[t] = "keep_going" /\ pc' = [pc EXCEPT ![t] = "move"] /\ a' = [a EXCEPT ![t] = a[t]]
        /\ b' = [b EXCEPT ![t] = b[t]]
        /\ UNCHANGED <<file, reading, waiting, steps, numberTempSteps, main>>
    BY <1>0, <1>2 DEF StartStep, Goto, shared, netlistVars
  <2>2. "move" \in Points \ {"new", "entry", "barrier"} /\ "move" \notin Places
    BY DEF Points, Places
  <2>3. Fixed => steps[t] < numberTempSteps
    BY <1>2 DEF StartStep, KeepGoing, Fixed
  <2>. QED
    BY <1>0, <2>1, <2>2, <2>3, WalkStep
<1>3. CASE Stop(t)
  <2>. DEFINE p == IF numberTempSteps = -1 THEN "signal" ELSE "exit"
  <2>1. /\ pc[t] = "keep_going" /\ pc' = [pc EXCEPT ![t] = p] /\ a' = [a EXCEPT ![t] = a[t]]
        /\ b' = [b EXCEPT ![t] = b[t]]
        /\ UNCHANGED <<file, reading, waiting, steps, numberTempSteps, main>>
    BY <1>0, <1>3 DEF Stop, Goto, shared, netlistVars, locals
  <2>2. p \in Points \ {"new", "entry", "barrier"} /\ p \notin {"move"} \cup Places /\ (Fixed => p # "signal")
    BY DEF Points, Places, Fixed
  <2>3. Fixed => steps[t] >= numberTempSteps
    BY <1>3, StepFacts DEF Stop, KeepGoing, Fixed, TypeOK
  <2>. HIDE DEF p
  <2>. QED
    BY <1>0, <2>1, <2>2, <2>3, WalkStep
<1>4. CASE SignalConverged(t)
  <2>1. /\ pc[t] = "signal" /\ pc' = [pc EXCEPT ![t] = "exit"] /\ a' = [a EXCEPT ![t] = a[t]]
        /\ b' = [b EXCEPT ![t] = b[t]]
        /\ UNCHANGED <<file, reading, waiting, steps, numberTempSteps, main>>
    BY <1>0, <1>4 DEF SignalConverged, Goto, shared, netlistVars, locals
  <2>2. "exit" \in Points \ {"new", "entry", "barrier"} /\ "exit" \notin {"move"} \cup Places
    BY DEF Points, Places
  <2>3. ~Fixed
    BY <2>1 DEF Together
  <2>. QED
    BY <1>0, <2>1, <2>2, <2>3, WalkStep
<1>5. CASE PickPair(t)
  <2>1. PICK e \in Elem \ {b[t]} : b' = [b EXCEPT ![t] = e]
    BY <1>5 DEF PickPair
  <2>2. /\ pc[t] = "move" /\ pc' = [pc EXCEPT ![t] = "aLoc"] /\ a' = [a EXCEPT ![t] = b[t]]
        /\ UNCHANGED <<file, reading, waiting, steps, numberTempSteps, main>>
    BY <1>5 DEF PickPair, Goto, shared, netlistVars
  <2>3. "aLoc" \in Points \ {"new", "entry", "barrier"} /\ b[t] \in Elem /\ b[t] \in Int /\ Moving(t)
    BY <1>0, <2>2 DEF Points, Places, Moving, TypeOK
  <2>. QED
    BY <2>1, <2>2, <2>3, WalkStep
<1>6. CASE GetALoc(t) \/ GetBLoc(t) \/ AddFan(t)
  <2>. DEFINE p == IF pc[t] = "aLoc" THEN "bLoc" ELSE "cost"
  <2>1. /\ pc[t] \in Places /\ pc' = [pc EXCEPT ![t] = p] /\ a' = [a EXCEPT ![t] = a[t]]
        /\ b' = [b EXCEPT ![t] = b[t]]
        /\ UNCHANGED <<file, reading, waiting, steps, numberTempSteps, main>>
    <3>1. CASE GetALoc(t)
      BY <1>0, <3>1 DEF GetALoc, Goto, shared, netlistVars, Places
    <3>2. CASE GetBLoc(t)
      BY <1>0, <3>2 DEF GetBLoc, Goto, shared, netlistVars, Places
    <3>3. CASE AddFan(t)
      BY <1>0, <3>3 DEF AddFan, shared, netlistVars, Places, TypeOK
    <3>. QED
      BY <1>6, <3>1, <3>2, <3>3
  <2>2. p \in Points \ {"new", "entry", "barrier"} /\ Moving(t) /\ p # "exit" /\ p # "signal" /\ pc[t] \notin {"new", "entry", "barrier"}
    BY <2>1 DEF Points, Places, Moving
  <2>. HIDE DEF p
  <2>. QED
    BY <1>0, <2>1, <2>2, WalkStep
<1>7. CASE Decide(t)
  <2>1. /\ pc[t] = "cost" /\ pc' = [pc EXCEPT ![t] = "move"] /\ a' = [a EXCEPT ![t] = a[t]]
        /\ b' = [b EXCEPT ![t] = b[t]]
        /\ UNCHANGED <<file, reading, waiting, steps, numberTempSteps, main>>
    BY <1>0, <1>7 DEF Decide, CostKnown, Goto
  <2>2. "move" \in Points \ {"new", "entry", "barrier"} /\ "move" \notin Places /\ Moving(t)
    BY <2>1 DEF Points, Places, Moving
  <2>. QED
    BY <1>0, <2>1, <2>2, WalkStep
<1>8. CASE Barrier(t)
  <2>1. UNCHANGED <<file, reading, numberTempSteps, main, a, b>> /\ pc[t] = "move"
    BY <1>8 DEF Barrier, netlistVars
  <2>2. TypeOK' /\ Together'
    BY <1>8, <2>1, BarrierTogether DEF TypeOK
  <2>3. Elem' = Elem
    BY <2>1 DEF Elem, ChipSize
  <2>4. \A u \in Thread : pc'[u] = pc[u] \/ (pc[u] \in {"move", "barrier"} /\ pc'[u] \in {"barrier", "keep_going"})
    BY <1>8, BarrierTogether
  <2>5. Chosen'
    BY <2>1, <2>3, <2>4 DEF Chosen, Places
  <2>. QED
    BY <2>2, <2>5
<1>. QED
  BY <1>1, <1>2, <1>3, <1>4, <1>5, <1>6, <1>7, <1>8 DEF Run

-----------------------------------------------------------------------------
(* The placement. *)

LEMMA DivMod ==
  ASSUME NEW Y \in Int, NEW e \in Int, Y > 0
  PROVE  /\ e = (e \div Y) * Y + (e % Y)
         /\ e \div Y \in Int /\ e % Y \in 0 .. Y - 1
<1>1. e = (e \div Y) * Y + (e % Y)
  BY SMTT(30)
<1>. QED
  BY <1>1

LEMMA Unique ==
  ASSUME NEW Y \in Nat, NEW p \in Int, NEW q \in Int, NEW r \in 0 .. Y - 1, NEW s \in 0 .. Y - 1,
         p * Y + r = q * Y + s
  PROVE  p = q /\ r = s
<1>1. ASSUME NEW m \in Int, NEW n \in Int, m < n PROVE m * Y + Y <= n * Y
  <2>1. (m + 1) * Y <= n * Y
    BY <1>1
  <2>2. (m + 1) * Y = m * Y + Y
    OBVIOUS
  <2>. QED
    BY <2>1, <2>2
<1>2. p * Y \in Int /\ q * Y \in Int
  OBVIOUS
<1>3. ~(p < q)
  BY <1>1, <1>2
<1>4. ~(q < p)
  BY <1>1, <1>2
<1>. QED
  BY <1>3, <1>4

\* The double loop gives every element a position of its own and leaves none
\* empty.
LEMMA GridPermutation ==
  ASSUME file \in Files
  PROVE  Permutation([e \in Elem |-> GridPosition(e)])
<1>. DEFINE X == file.maxX
            Y == file.maxY
            l == [e \in Elem |-> GridPosition(e)]
<1>1. X \in Nat /\ Y \in Nat /\ X * Y \in Nat
  <2>1. X \in Nat /\ Y \in Nat
    BY FilesAssumption, Zenon
  <2>. HIDE DEF X, Y
  <2>. QED
    BY <2>1
<1>2. Elem = 0 .. X * Y - 1 /\ Location = (0 .. X - 1) \X (0 .. Y - 1)
  BY DEF Elem, ChipSize, Location
<1>3. \A e \in Elem : l[e] = <<e \div Y, e % Y>>
  BY DEF GridPosition
<1>. HIDE DEF X, Y, l
<1>4. ASSUME NEW e \in Elem
      PROVE  e \div Y \in 0 .. X - 1 /\ e % Y \in 0 .. Y - 1 /\ e = (e \div Y) * Y + (e % Y) /\ Y > 0
  <2>1. Y > 0 /\ e \in Int /\ 0 <= e /\ e < X * Y
    BY <1>1, <1>2
  <2>. DEFINE q == e \div Y
              r == e % Y
  <2>2. q \in Int /\ r \in 0 .. Y - 1 /\ e = q * Y + r
    BY <1>1, <2>1, DivMod
  <2>. HIDE DEF q, r
  <2>3. ~(q < 0)
    <3>. SUFFICES ASSUME q < 0 PROVE FALSE
      OBVIOUS
    <3>1. q * Y <= (-1) * Y
      BY <1>1, <2>2
    <3>. QED
      BY <1>1, <2>1, <2>2, <3>1
  <2>4. ~(q >= X)
    <3>. SUFFICES ASSUME q >= X PROVE FALSE
      OBVIOUS
    <3>1. q * Y >= X * Y
      BY <1>1, <2>2
    <3>. QED
      BY <1>1, <2>1, <2>2, <3>1
  <2>5. q \in 0 .. X - 1
    BY <1>1, <2>2, <2>3, <2>4
  <2>. QED
    BY <2>1, <2>2, <2>5 DEF q, r
<1>5. l \in [Elem -> Location]
  <2>1. ASSUME NEW e \in Elem PROVE l[e] \in Location
    <3>1. e \div Y \in 0 .. X - 1 /\ e % Y \in 0 .. Y - 1
      BY <1>4
    <3>2. <<e \div Y, e % Y>> \in (0 .. X - 1) \X (0 .. Y - 1)
      BY <3>1, Zenon
    <3>. QED
      BY <1>2, <1>3, <3>2
  <2>. QED
    BY <2>1 DEF l
<1>6. ASSUME NEW p \in Location PROVE \E e \in Elem : l[e] = p
  <2>1. PICK x \in 0 .. X - 1, y \in 0 .. Y - 1 : p = <<x, y>>
    BY <1>2
  <2>. DEFINE e == x * Y + y
  <2>2. (x + 1) * Y <= X * Y /\ (x + 1) * Y = x * Y + Y /\ x * Y \in Nat
    BY <1>1
  <2>3. e \in Elem /\ e \in Int
    BY <1>1, <1>2, <2>2
  <2>4. e = (e \div Y) * Y + (e % Y) /\ e \div Y \in Int /\ e % Y \in 0 .. Y - 1
    BY <1>4, <2>3
  <2>5. e \div Y = x /\ e % Y = y
    <3>. HIDE DEF e
    <3>1. e = x * Y + y
      BY DEF e
    <3>2. ASSUME NEW q \in Int, NEW r \in 0 .. Y - 1, e = q * Y + r PROVE q = x /\ r = y
      <4>1. q * Y + r = x * Y + y /\ x \in Int
        BY <3>1, <3>2
      <4>. QED
        BY <1>1, <4>1, Unique
    <3>. QED
      BY <2>4, <3>2
  <2>. QED
    BY <1>3, <2>1, <2>3, <2>5
<1>7. ASSUME NEW d \in Elem, NEW e \in Elem, l[d] = l[e] PROVE d = e
  <2>1. d \div Y = e \div Y /\ d % Y = e % Y
    BY <1>3, <1>7
  <2>. QED
    BY <1>4, <2>1
<1>. QED
  BY <1>5, <1>6, <1>7 DEF Permutation, l

\* A swap permutes.
LEMMA SwapPermutes ==
  ASSUME NEW l, Permutation(l), NEW x \in Elem, NEW y \in Elem
  PROVE  Permutation(Swapped(l, x, y))
<1>. DEFINE m == Swapped(l, x, y)
            pi(e) == IF e = x THEN y ELSE IF e = y THEN x ELSE e
<1>1. l \in [Elem -> Location] /\ m \in [Elem -> Location]
  BY DEF Permutation, Swapped
<1>2. \A e \in Elem : pi(e) \in Elem /\ pi(pi(e)) = e /\ m[e] = l[pi(e)]
  BY <1>1 DEF Swapped
<1>. HIDE DEF m, pi
<1>3. \A p \in Location : \E e \in Elem : m[e] = p
  BY <1>2 DEF Permutation
<1>4. \A d, e \in Elem : m[d] = m[e] => d = e
  BY <1>2 DEF Permutation
<1>. QED
  BY <1>1, <1>3, <1>4 DEF Permutation, m

-----------------------------------------------------------------------------
(* The netlist. *)

LEMMA ListFacts ==
  ASSUME file \in Files
  PROVE  /\ ChipSize \in Nat /\ Len(file.entries) \in Nat
         /\ List \in Seq(Entry) /\ Len(List) <= Len(file.entries) + 1
         /\ DOMAIN file.entries \subseteq DOMAIN List /\ DOMAIN file.entries = 1 .. Len(file.entries)
         /\ \A i \in DOMAIN file.entries : List[i] = file.entries[i]
         /\ \A i, j \in DOMAIN List : List[i].name = List[j].name => i = j
<1>. DEFINE N == Names(file)
            F == [name : N, fanins : Seq(N)]
            blank == [name |-> Blank, fanins |-> <<>>]
            es == file.entries
<1>1. file.maxX \in Nat /\ file.maxY \in Nat /\ file.newline \in BOOLEAN
  BY FilesAssumption, Zenon
<1>2. es \in Seq(F) /\ Blank \notin N
  BY FilesAssumption, Zenon
<1>3. \A i, j \in DOMAIN es : es[i].name = es[j].name => i = j
  BY FilesAssumption, Zenon
<1>4. F \subseteq Entry /\ blank \in Entry
  BY DEF Entry, AllNames
<1>5. List = IF file.newline THEN Append(es, blank) ELSE es
  BY DEF List, Iterations
<1>6. \A i \in DOMAIN es : es[i].name \in N
  BY DEF Names
<1>7. blank.name = Blank
  OBVIOUS
<1>. HIDE DEF N, F, blank, es
<1>8. es \in Seq(Entry) /\ Len(es) \in Nat /\ DOMAIN es = 1 .. Len(es)
  BY <1>2, <1>4
<1>9. ChipSize \in Nat
  BY <1>1 DEF ChipSize
<1>10. CASE file.newline
  <2>1. /\ List \in Seq(Entry) /\ Len(List) = Len(es) + 1 /\ DOMAIN List = 1 .. Len(es) + 1
        /\ \A i \in DOMAIN es : List[i] = es[i]
        /\ List[Len(es) + 1] = blank
    BY <1>4, <1>5, <1>8, <1>10
  <2>2. \A i \in DOMAIN List : i \in DOMAIN es \/ i = Len(es) + 1
    BY <1>8, <2>1
  <2>3. \A i, j \in DOMAIN List : List[i].name = List[j].name => i = j
    BY <1>2, <1>3, <1>6, <1>7, <2>1, <2>2
  <2>. QED
    BY <1>8, <1>9, <2>1, <2>3 DEF es
<1>11. CASE ~file.newline
  BY <1>1, <1>3, <1>5, <1>8, <1>9, <1>11 DEF es
<1>. QED
  BY <1>1, <1>10, <1>11

\* There are no more names than entries, and Blank.
LEMMA NamesFinite ==
  ASSUME file \in Files
  PROVE  IsFiniteSet(AllNames) /\ Cardinality(AllNames) <= Len(file.entries) + 1
<1>. DEFINE n == Len(file.entries)
            f == [i \in 1 .. n |-> file.entries[i].name]
<1>1. n \in Nat /\ DOMAIN file.entries = 1 .. n
  BY ListFacts
<1>2. f \in Surjection(1 .. n, Names(file))
  BY <1>1 DEF Names, Surjection
<1>3. IsFiniteSet(1 .. n) /\ Cardinality(1 .. n) = n
  BY <1>1, FS_Interval
<1>. HIDE DEF n, f
<1>4. IsFiniteSet(Names(file)) /\ Cardinality(Names(file)) <= n
  BY <1>2, <1>3, FS_Surjection
<1>5. Cardinality(Names(file)) \in Nat
  BY <1>4, FS_CardinalityType
<1>6. /\ IsFiniteSet(Names(file) \cup {Blank})
      /\ Cardinality(Names(file) \cup {Blank}) = IF Blank \in Names(file) THEN Cardinality(Names(file)) ELSE Cardinality(Names(file)) + 1
  BY <1>4, FS_AddElement
<1>. QED
  BY <1>1, <1>4, <1>5, <1>6 DEF AllNames, n

LEMMA CountAppend ==
  ASSUME NEW V, NEW s \in Seq(V), NEW x \in V, NEW e
  PROVE  /\ Count(s, e) \in Nat
         /\ Count(Append(s, x), e) = Count(s, e) + IF x = e THEN 1 ELSE 0
<1>. DEFINE A == {i \in DOMAIN s : s[i] = e}
            B == {i \in DOMAIN Append(s, x) : Append(s, x)[i] = e}
<1>1. Len(s) \in Nat /\ DOMAIN s = 1 .. Len(s) /\ DOMAIN Append(s, x) = 1 .. Len(s) + 1
  OBVIOUS
<1>2. (\A i \in DOMAIN s : Append(s, x)[i] = s[i]) /\ Append(s, x)[Len(s) + 1] = x
  OBVIOUS
<1>3. IsFiniteSet(DOMAIN s)
  BY <1>1, FS_Interval
<1>4. IsFiniteSet(A) /\ Cardinality(A) \in Nat
  <2>1. A \in SUBSET DOMAIN s
    OBVIOUS
  <2>2. IsFiniteSet(A)
    BY <1>3, <2>1, FS_Subset
  <2>. QED
    BY <2>2, FS_CardinalityType
<1>5. Len(s) + 1 \notin A
  BY <1>1
<1>6. B = IF x = e THEN A \cup {Len(s) + 1} ELSE A
  BY <1>1, <1>2
<1>7. Count(s, e) = Cardinality(A) /\ Count(Append(s, x), e) = Cardinality(B)
  BY DEF Count
<1>. HIDE DEF A, B
<1>8. Cardinality(A \cup {Len(s) + 1}) = Cardinality(A) + 1
  BY <1>4, <1>5, FS_AddElement
<1>. QED
  BY <1>4, <1>6, <1>7, <1>8

LEMMA SameFile ==
  ASSUME file' = file
  PROVE  /\ List' = List /\ Elem' = Elem /\ ChipSize' = ChipSize /\ AllNames' = AllNames /\ Entry' = Entry
         /\ HeaderFits(file)' = HeaderFits(file) /\ Location' = Location
BY DEF List, Elem, ChipSize, AllNames, Entry, HeaderFits, Location

\* What the loop has of the list.
LEMMA PositionFacts ==
  ASSUME file \in Files, Suffix
  PROVE  /\ Position \in 1 .. Len(List) + 1 /\ (entries # <<>> <=> Position \in DOMAIN List)
         /\ entries # <<>> => /\ entries[1] = Head(entries) /\ entries[1] \in Entry /\ List[Position] \in Entry
                               /\ entries[1].fanins \in Seq(Names(file)) /\ entries[1].name \in AllNames
                               /\ List[Position].fanins \in Seq(Names(file)) /\ Done \in Nat
<1>1. List \in Seq(Entry) /\ entries \in Seq(Entry) /\ Len(entries) <= Len(List)
  BY ListFacts DEF Suffix
<1>2. /\ Position \in 1 .. Len(List) + 1 /\ (entries # <<>> <=> Position \in DOMAIN List)
      /\ entries # <<>> => entries[1] = Head(entries) /\ entries[1] \in Entry
  BY <1>1 DEF Position
<1>3. entries # <<>> => List[Position] \in Entry
  BY <1>1, <1>2
<1>4. \A e \in Entry : e.fanins \in Seq(Names(file)) /\ e.name \in AllNames
  BY DEF Entry
<1>5. entries # <<>> => Done \in Nat
  <2>. SUFFICES ASSUME entries # <<>> PROVE Done \in Nat
    OBVIOUS
  <2>1. Len(entries[1].fanins) <= Len(List[Position].fanins) /\ Len(entries[1].fanins) \in Nat /\ Len(List[Position].fanins) \in Nat
    BY <1>2, <1>3, <1>4 DEF Suffix
  <2>. QED
    BY <2>1 DEF Done
<1>. QED
  BY <1>2, <1>3, <1>4, <1>5

\* The pool has an element for every name of the file: the header's assert
\* leaves room for the blank one.
LEMMA RoomForName ==
  ASSUME file \in Files, HeaderFits(file), Named, NEW name \in AllNames
  PROVE  PoolHasRoomFor(name)
<1>. DEFINE D == DOMAIN elemNames
<1>. SUFFICES ASSUME name \notin D PROVE unusedElem < ChipSize
  BY DEF PoolHasRoomFor, Known
<1>1. /\ IsFiniteSet(AllNames) /\ Cardinality(AllNames) <= Len(file.entries) + 1 /\ Cardinality(AllNames) \in Nat
  BY NamesFinite, FS_CardinalityType
<1>2. D \in SUBSET AllNames /\ D \cup {name} \in SUBSET AllNames /\ Cardinality(D) = unusedElem
  BY DEF Named
<1>. HIDE DEF D
<1>3. IsFiniteSet(D) /\ Cardinality(D \cup {name}) <= Cardinality(AllNames)
  BY <1>1, <1>2, FS_Subset
<1>4. Cardinality(D \cup {name}) = unusedElem + 1
  BY <1>2, <1>3, FS_AddElement
<1>5. Len(file.entries) < ChipSize /\ Len(file.entries) \in Nat /\ ChipSize \in Nat /\ unusedElem \in Nat
  BY ListFacts DEF HeaderFits, ChipSize, Named
<1>. QED
  BY <1>1, <1>3, <1>4, <1>5

LEMMA UsedElem ==
  ASSUME ChipSize \in Nat, NEW n \in Nat, n <= ChipSize
  PROVE  \A e \in 0 .. n - 1 : e \in Elem
BY DEF Elem

\* A name gets an element of its own, and the others keep theirs.
LEMMA CreateNamed ==
  ASSUME file \in Files, HeaderFits(file), Named, NEW name \in AllNames, create_elem_if_necessary(name),
         file' = file, NEW k \in Int, Position' = k, \A i \in 1 .. k - 1 : i < Position \/ List[i].name \in DOMAIN elemNames'
  PROVE  /\ Named' /\ DOMAIN elemNames' = DOMAIN elemNames \cup {name}
         /\ \A n \in DOMAIN elemNames : elemNames'[n] = elemNames[n] /\ elemNames[n] \in Elem /\ elemNames[n] < unusedElem
         /\ elemNames'[name] = Element(name) /\ Element(name) \in Elem
         /\ name \notin DOMAIN elemNames => Element(name) = unusedElem
         /\ unusedElem' \in Nat /\ unusedElem' >= unusedElem /\ unusedElem \in Nat
<1>. DEFINE D == DOMAIN elemNames
<1>1. PoolHasRoomFor(name) /\ unusedElem \in Nat /\ unusedElem <= ChipSize /\ ChipSize \in Nat
  BY RoomForName, ListFacts DEF Named
<1>2. /\ elemNames' = [n \in D \cup {name} |-> IF n = name THEN Element(name) ELSE elemNames[n]]
      /\ unusedElem' = IF name \in D THEN unusedElem ELSE unusedElem + 1
      /\ Element(name) = IF name \in D THEN elemNames[name] ELSE unusedElem
  BY DEF create_elem_if_necessary, Known, Element
<1>3. /\ unusedElem' \in Nat /\ unusedElem' <= ChipSize /\ unusedElem' >= unusedElem
      /\ Element(name) \in 0 .. unusedElem' - 1
  BY <1>1, <1>2 DEF Named, PoolHasRoomFor, Known
<1>4. \A n \in D : elemNames'[n] = elemNames[n] /\ elemNames[n] \in 0 .. unusedElem - 1
  BY <1>2 DEF Named
<1>5. DOMAIN elemNames' = D \cup {name} /\ elemNames'[name] = Element(name)
  BY <1>2
<1>6. elemNames' \in [D \cup {name} -> 0 .. unusedElem' - 1]
  <2>1. \A n \in D \cup {name} : elemNames'[n] \in 0 .. unusedElem' - 1
    BY <1>1, <1>3, <1>4, <1>5
  <2>. QED
    BY <1>2, <2>1
<1>7. \A m, n \in D \cup {name} : elemNames'[m] = elemNames'[n] => m = n
  <2>1. CASE name \in D
    BY <1>4, <2>1 DEF Named
  <2>2. CASE name \notin D
    <3>1. elemNames'[name] = unusedElem
      BY <1>2, <1>5, <2>2
    <3>2. \A n \in D : elemNames'[n] # unusedElem
      BY <1>1, <1>4
    <3>. QED
      BY <1>4, <3>1, <3>2 DEF Named
  <2>. QED
    BY <2>1, <2>2
<1>8. Cardinality(D \cup {name}) = unusedElem'
  <2>1. IsFiniteSet(AllNames) /\ D \in SUBSET AllNames /\ Cardinality(D) = unusedElem
    BY NamesFinite DEF Named
  <2>2. IsFiniteSet(D)
    BY <2>1, FS_Subset
  <2>. HIDE DEF D
  <2>. QED
    BY <1>2, <2>1, <2>2, FS_AddElement
<1>9. \A i \in 1 .. k - 1 : List[i].name \in DOMAIN elemNames'
  <2>1. Position \in Int
    BY ListFacts DEF Position
  <2>. QED
    BY <1>5, <2>1 DEF Named
<1>10. Named'
  BY <1>3, <1>5, <1>6, <1>7, <1>8, <1>9, SameFile DEF Named
<1>11. (\A e \in 0 .. unusedElem - 1 : e \in Elem) /\ (\A e \in 0 .. unusedElem' - 1 : e \in Elem)
  BY <1>1, <1>3, UsedElem
<1>. QED
  BY <1>1, <1>2, <1>3, <1>4, <1>5, <1>10, <1>11

Reader == HeaderFits(file) /\ Suffix /\ Named /\ Wired

\* No fanin of a name without element is read.
LEMMA UnreadEmpty ==
  ASSUME file \in Files, Suffix, Named, NEW i \in DOMAIN List, List[i].name \notin DOMAIN elemNames, i # Position
  PROVE  Read(i) = 0
<1>1. Position \in Int /\ DOMAIN List = 1 .. Len(List)
  BY PositionFacts, ListFacts
<1>2. ~(i < Position)
  BY <1>1 DEF Named
<1>. QED
  BY <1>2 DEF Read

\* The list is read the same way as long as no entry is consumed.
LEMMA SamePlace ==
  ASSUME file' = file, entries' = entries
  PROVE  Position' = Position /\ Done' = Done /\ \A i : Read(i)' = Read(i)
<1>1. Position' = Position /\ Done' = Done /\ List' = List
  BY SameFile DEF Position, Done
<1>. QED
  BY <1>1 DEF Read

LEMMA ReadNameStep ==
  ASSUME file \in Files, Reader, ReadName
  PROVE  UNCHANGED <<file, entries, reading, loc>> /\ Reader'
<1>. DEFINE name == Head(entries).name
            D == DOMAIN elemNames
<1>1. present = -1 /\ entries # <<>> /\ HeaderFits(file) /\ Suffix /\ Named /\ Wired
  BY DEF ReadName, Reader
<1>2. name = List[Position].name /\ name \in AllNames /\ Position \in DOMAIN List /\ Done = 0 /\ entries[1].name = name
  BY <1>1, PositionFacts DEF Suffix
<1>3. create_elem_if_necessary(name) /\ present' = Element(name) /\ UNCHANGED <<file, entries, reading, fanins, fanouts, loc>>
  BY <1>1, <1>2, RoomForName DEF ReadName
<1>4. /\ Position' = Position /\ Done' = Done /\ List' = List /\ Elem' = Elem /\ Entry' = Entry
      /\ HeaderFits(file)' /\ \A i : Read(i)' = Read(i)
  BY <1>1, <1>3, SamePlace, SameFile
<1>5. Position \in Int
  BY <1>1, PositionFacts
<1>. HIDE DEF name
<1>6. /\ Named' /\ DOMAIN elemNames' = D \cup {name} /\ elemNames'[name] = Element(name) /\ Element(name) \in Elem
      /\ \A n \in D : elemNames'[n] = elemNames[n] /\ elemNames[n] \in Elem /\ elemNames[n] < unusedElem
      /\ name \notin D => Element(name) = unusedElem
      /\ unusedElem' \in Nat /\ unusedElem' >= unusedElem /\ unusedElem \in Nat
  <2>1. \A i \in 1 .. Position - 1 : i < Position \/ List[i].name \in DOMAIN elemNames'
    BY <1>5
  <2>2. file' = file /\ Position' = Position
    BY <1>3, <1>4
  <2>. QED
    BY <1>1, <1>2, <1>3, <1>5, <2>1, <2>2, CreateNamed
<1>7. Suffix'
  BY <1>1, <1>2, <1>3, <1>4, <1>6 DEF Suffix
<1>8. \A e \in Elem : e >= unusedElem' => fanins[e] = <<>>
  BY <1>1, <1>6 DEF Wired, Elem
<1>9. ASSUME NEW i \in DOMAIN List, List[i].name \in D \cup {name}
      PROVE  LET f == fanins[elemNames'[List[i].name]] IN
             /\ Len(f) = Read(i)
             /\ \A j \in 1 .. Read(i) : List[i].fanins[j] \in D \cup {name} /\ f[j] = elemNames'[List[i].fanins[j]]
  <2>1. CASE List[i].name \in D
    <3>. DEFINE f == fanins[elemNames[List[i].name]]
    <3>1. elemNames'[List[i].name] = elemNames[List[i].name]
      BY <1>6, <2>1
    <3>2. Len(f) = Read(i) /\ \A j \in 1 .. Read(i) : List[i].fanins[j] \in D /\ f[j] = elemNames[List[i].fanins[j]]
      BY <1>1, <2>1 DEF Wired
    <3>. HIDE DEF f, D
    <3>3. \A j \in 1 .. Read(i) : List[i].fanins[j] \in D \cup {name} /\ f[j] = elemNames'[List[i].fanins[j]]
      BY <1>6, <3>2
    <3>. QED
      BY <3>1, <3>2, <3>3 DEF f
  <2>2. CASE List[i].name \notin D
    <3>1. i = Position /\ Read(i) = 0
      BY <1>2, <1>9, <2>2, ListFacts DEF Read
    <3>2. fanins[elemNames'[List[i].name]] = <<>>
      BY <1>1, <1>6, <1>9, <2>2 DEF Wired
    <3>. QED
      BY <3>1, <3>2
  <2>. QED
    BY <2>1, <2>2
<1>10. Wired'
  BY <1>1, <1>3, <1>4, <1>6, <1>8, <1>9 DEF Wired
<1>. QED
  BY <1>3, <1>4, <1>6, <1>7, <1>10 DEF Reader

LEMMA ReadEndStep ==
  ASSUME file \in Files, Reader, ReadEnd
  PROVE  UNCHANGED <<file, reading, loc>> /\ Reader'
<1>. DEFINE P == Position
<1>1. present # -1 /\ HeaderFits(file) /\ Suffix /\ Named /\ Wired
  BY DEF ReadEnd, Reader
<1>2. entries # <<>> /\ Head(entries).fanins = <<>> /\ entries' = Tail(entries) /\ present' = -1
  BY <1>1 DEF ReadEnd, Suffix
<1>3. UNCHANGED <<file, reading, elemNames, unusedElem, fanins, fanouts, loc>>
  BY DEF ReadEnd
<1>4. /\ List' = List /\ Elem' = Elem /\ Entry' = Entry /\ ChipSize' = ChipSize /\ AllNames' = AllNames
      /\ HeaderFits(file)'
  BY <1>1, <1>3, SameFile
<1>5. /\ List \in Seq(Entry) /\ entries \in Seq(Entry) /\ Len(entries) <= Len(List)
      /\ P \in DOMAIN List /\ DOMAIN List = 1 .. Len(List) /\ P \in Int
  BY <1>1, <1>2, ListFacts, PositionFacts DEF Suffix
<1>6. Len(entries') = Len(entries) - 1 /\ entries' \in Seq(Entry) /\ \A j \in 1 .. Len(entries') : entries'[j] = entries[j + 1]
  BY <1>2, <1>5
<1>7. Position' = P + 1
  BY <1>4, <1>5, <1>6 DEF Position
<1>. HIDE DEF P
<1>8. \A j \in 1 .. Len(entries') : entries'[j] = List[P + j]
  <2>1. \A j \in 2 .. Len(entries) : entries[j] = List[P + j - 1]
    BY <1>1 DEF Suffix, P
  <2>2. Len(entries) \in Nat
    BY <1>5
  <2>3. ASSUME NEW j \in 1 .. Len(entries') PROVE entries'[j] = List[P + j]
    <3>1. j + 1 \in 2 .. Len(entries) /\ entries'[j] = entries[j + 1]
      BY <1>6, <2>2
    <3>. QED
      BY <1>5, <2>1, <3>1
  <2>. QED
    BY <2>3
<1>9. Len(entries[1].fanins) = 0 /\ Done = Len(List[P].fanins) /\ Len(List[P].fanins) \in Nat
  <2>1. /\ entries[1] = Head(entries) /\ List[P].fanins \in Seq(Names(file))
    BY <1>1, <1>2, PositionFacts DEF P
  <2>2. Len(entries[1].fanins) = 0 /\ Len(List[P].fanins) \in Nat
    BY <1>2, <2>1
  <2>3. Done = Len(List[P].fanins) - Len(entries[1].fanins)
    BY DEF Done, P
  <2>. QED
    BY <2>2, <2>3
<1>10. ASSUME entries' # <<>>
       PROVE  entries'[1] = List[P + 1] /\ Done' = 0 /\ Len(entries'[1].fanins) \in Nat /\ P + 1 \in DOMAIN List
  <2>1. Len(entries') >= 1
    BY <1>6, <1>10
  <2>2. entries'[1] = List[P + 1] /\ entries'[1] \in Entry
    BY <1>6, <1>8, <2>1
  <2>3. Len(entries'[1].fanins) \in Nat
    BY <2>2 DEF Entry
  <2>4. Len(entries) = Len(List) - P + 1
    BY <1>5 DEF P, Position
  <2>. QED
    BY <1>4, <1>5, <1>6, <1>7, <2>1, <2>2, <2>3, <2>4 DEF Done
<1>11. Suffix'
  <2>1. entries' \in Seq(Entry)' /\ Len(entries') <= Len(List')
    BY <1>4, <1>5, <1>6
  <2>2. \A j \in 2 .. Len(entries') : entries'[j] = List'[Position' + j - 1]
    <3>1. \A j \in 2 .. Len(entries') : Position' + j - 1 = P + j /\ j \in 1 .. Len(entries')
      BY <1>5, <1>6, <1>7
    <3>. QED
      BY <1>4, <1>8, <3>1
  <2>3. ASSUME entries' # <<>>
        PROVE  /\ entries'[1] = List'[Position'] /\ Done' = 0
               /\ Len(entries'[1].fanins) \in Nat
               /\ \A j \in DOMAIN entries'[1].fanins : entries'[1].fanins[j] = List'[Position'].fanins[Done' + j]
    <3>1. entries'[1] = List'[Position'] /\ Done' = 0 /\ Len(entries'[1].fanins) \in Nat /\ entries'[1] \in Entry
      BY <1>4, <1>5, <1>7, <1>10, <2>3
    <3>2. entries'[1].fanins \in Seq(Names(file))
      BY <3>1 DEF Entry
    <3>3. \A j \in DOMAIN entries'[1].fanins : 0 + j = j
      BY <3>2
    <3>. QED
      BY <3>1, <3>3
  <2>. QED
    BY <1>2, <2>1, <2>2, <2>3 DEF Suffix
<1>12. Named'
  <2>1. List[P].name \in DOMAIN elemNames
    BY <1>1, <1>2 DEF Suffix, P
  <2>2. \A i \in 1 .. Position' - 1 : List[i].name \in DOMAIN elemNames
    <3>1. \A i \in 1 .. P - 1 : List[i].name \in DOMAIN elemNames
      BY <1>1 DEF Named, P
    <3>. QED
      BY <1>5, <1>7, <2>1, <3>1
  <2>. QED
    BY <1>1, <1>3, <1>4, <2>2 DEF Named
<1>13. ASSUME NEW i \in DOMAIN List PROVE Read(i)' = Read(i)
  <2>1. Read(i) = IF i < P THEN Len(List[i].fanins) ELSE IF i = P THEN Done ELSE 0
    BY DEF Read, P
  <2>2. Read(i)' = IF i < P + 1 THEN Len(List[i].fanins) ELSE IF i = P + 1 THEN Done' ELSE 0
    BY <1>4, <1>7 DEF Read
  <2>3. i = P + 1 => Done' = 0
    <3>1. Len(entries) = Len(List) - P + 1
      BY <1>5 DEF P, Position
    <3>2. i = P + 1 => entries' # <<>>
      BY <1>5, <1>6, <3>1
    <3>. QED
      BY <1>10, <3>2
  <2>. QED
    BY <1>5, <1>9, <2>1, <2>2, <2>3
<1>14. Wired'
  BY <1>1, <1>3, <1>4, <1>13 DEF Wired
<1>. QED
  BY <1>3, <1>4, <1>11, <1>12, <1>14 DEF Reader

LEMMA NewHead ==
  ASSUME NEW V, NEW s \in Seq(V), s # <<>>, NEW h \in V, NEW r, r = [s EXCEPT ![1] = h]
  PROVE  /\ r \in Seq(V) /\ Len(r) = Len(s) /\ r # <<>> /\ DOMAIN r = DOMAIN s /\ r[1] = h
         /\ \A j \in 2 .. Len(s) : r[j] = s[j]
<1>1. Len(s) \in Nat /\ Len(s) >= 1 /\ DOMAIN s = 1 .. Len(s)
  OBVIOUS
<1>2. r = [i \in 1 .. Len(s) |-> IF i = 1 THEN h ELSE s[i]]
  BY <1>1
<1>3. \A i \in 1 .. Len(s) : s[i] \in V
  BY <1>1
<1>4. r \in Seq(V) /\ Len(r) = Len(s) /\ DOMAIN r = 1 .. Len(s)
  BY <1>1, <1>2, <1>3
<1>. QED
  BY <1>1, <1>2, <1>4

\* One more fanin is read: the wire is added at both of its ends.
LEMMA ReadFaninStep ==
  ASSUME file \in Files, Reader, ReadFanin
  PROVE  UNCHANGED <<file, reading, loc>> /\ Reader'
<1>. DEFINE P == Position
            rest == entries[1].fanins
            name == Head(rest)
            D == DOMAIN elemNames
            f == Element(name)
            k == Done
            me == List[P].name
<1>1. present # -1 /\ HeaderFits(file) /\ Suffix /\ Named /\ Wired
  BY DEF ReadFanin, Reader
<1>2. entries # <<>> /\ entries \in Seq(Entry) /\ Head(entries) = entries[1] /\ P \in DOMAIN List /\ P \in Int
  BY <1>1, PositionFacts DEF Suffix
<1>3. /\ rest \in Seq(Names(file)) /\ rest # <<>> /\ entries[1] \in Entry /\ k \in Nat
      /\ List[P].fanins \in Seq(Names(file))
  BY <1>1, <1>2, PositionFacts DEF ReadFanin
<1>4. name \in Names(file) /\ name \in AllNames /\ name = rest[1]
  BY <1>3 DEF AllNames
<1>5. /\ create_elem_if_necessary(name)
      /\ fanins' = [fanins EXCEPT ![present] = Append(@, f)]
      /\ fanouts' = [fanouts EXCEPT ![f] = Append(@, present)]
      /\ entries' = [entries EXCEPT ![1].fanins = Tail(@)]
      /\ UNCHANGED <<file, reading, present, loc>>
  BY <1>1, <1>2, <1>4, RoomForName DEF ReadFanin
<1>6. /\ List' = List /\ Elem' = Elem /\ Entry' = Entry /\ HeaderFits(file)' /\ file' = file
  BY <1>1, <1>5, SameFile
<1>7. me \in D /\ present = elemNames[me] /\ entries[1].name = me
  BY <1>1, <1>2 DEF Suffix
<1>8. /\ \A j \in DOMAIN rest : rest[j] = List[P].fanins[k + j]
      /\ Len(rest) <= Len(List[P].fanins) /\ k = Len(List[P].fanins) - Len(rest)
  BY <1>1, <1>2 DEF Suffix, Done
<1>9. /\ Len(entries') = Len(entries) /\ entries' # <<>> /\ entries' \in Seq(Entry)
      /\ entries'[1].fanins = Tail(rest) /\ entries'[1].name = me /\ entries'[1] \in Entry
      /\ \A j \in 2 .. Len(entries) : entries'[j] = entries[j]
  <2>. DEFINE h == [entries[1] EXCEPT !.fanins = Tail(rest)]
  <2>1. entries' = [entries EXCEPT ![1] = h]
    BY <1>5
  <2>2. Tail(rest) \in Seq(Names(file))
    BY <1>3
  <2>3. h \in Entry /\ h.name = me /\ h.fanins = Tail(rest)
    BY <1>3, <1>7, <2>2 DEF Entry
  <2>. HIDE DEF h
  <2>4. /\ entries' \in Seq(Entry) /\ Len(entries') = Len(entries) /\ entries' # <<>> /\ entries'[1] = h
        /\ \A j \in 2 .. Len(entries) : entries'[j] = entries[j]
    BY <1>2, <2>1, <2>3, NewHead
  <2>. QED
    BY <2>3, <2>4
<1>12. Len(Tail(rest)) = Len(rest) - 1 /\ Len(rest) \in Nat \ {0} /\ \A j \in 1 .. Len(rest) - 1 : Tail(rest)[j] = rest[j + 1]
  BY <1>3
<1>13. Position' = P /\ Done' = k + 1
  <2>1. Position' = P
    BY <1>6, <1>9 DEF Position
  <2>2. Done' = Len(List[P].fanins) - Len(Tail(rest))
    BY <1>6, <1>9, <2>1 DEF Done
  <2>3. Len(List[P].fanins) \in Nat
    BY <1>3
  <2>4. k = Len(List[P].fanins) - Len(rest) /\ Len(Tail(rest)) = Len(rest) - 1 /\ Len(rest) \in Nat
    BY <1>8, <1>12
  <2>. DEFINE x == Len(List[P].fanins)
              y == Len(Tail(rest))
              z == Len(rest)
  <2>5. Done' = x - y /\ x \in Nat /\ k = x - z /\ y = z - 1 /\ z \in Nat
    BY <2>2, <2>3, <2>4
  <2>. HIDE DEF x, y, z, k
  <2>6. Done' = k + 1
    BY <2>5
  <2>. QED
    BY <2>1, <2>6
<1>14. name = List[P].fanins[k + 1]
  <2>1. 1 \in DOMAIN rest
    BY <1>3
  <2>. QED
    BY <1>4, <1>8, <2>1
<1>. HIDE DEF name, P, rest, k, f, me
<1>15. /\ Named' /\ DOMAIN elemNames' = D \cup {name} /\ elemNames'[name] = f /\ f \in Elem
       /\ \A n \in D : elemNames'[n] = elemNames[n] /\ elemNames[n] \in Elem /\ elemNames[n] < unusedElem
       /\ name \notin D => f = unusedElem
       /\ unusedElem' \in Nat /\ unusedElem' >= unusedElem /\ unusedElem \in Nat
  <2>1. \A i \in 1 .. P - 1 : i < Position \/ List[i].name \in DOMAIN elemNames'
    BY <1>2 DEF P
  <2>. QED
    BY <1>1, <1>2, <1>4, <1>5, <1>6, <1>13, <2>1, CreateNamed DEF f
<1>16. Suffix'
  <2>1. entries' \in Seq(Entry') /\ Len(entries') <= Len(List')
    BY <1>1, <1>6, <1>9 DEF Suffix
  <2>2. \A j \in 2 .. Len(entries') : entries'[j] = List'[Position' + j - 1]
    BY <1>1, <1>6, <1>9, <1>13 DEF Suffix, P
  <2>3. /\ entries'[1].name = List'[Position'].name
        /\ Len(entries'[1].fanins) <= Len(List'[Position'].fanins)
    <3>1. Len(List[P].fanins) \in Nat
      BY <1>3
    <3>. QED
      BY <1>6, <1>8, <1>9, <1>12, <1>13, <3>1 DEF me
  <2>4. \A j \in DOMAIN entries'[1].fanins : entries'[1].fanins[j] = List'[Position'].fanins[Done' + j]
    <3>. SUFFICES ASSUME NEW j \in DOMAIN Tail(rest) PROVE Tail(rest)[j] = List[P].fanins[(k + 1) + j]
      BY <1>6, <1>9, <1>13
    <3>1. j \in 1 .. Len(rest) - 1 /\ j + 1 \in DOMAIN rest
      BY <1>3, <1>12
    <3>2. (k + 1) + j = k + (j + 1)
      BY <1>3, <3>1
    <3>. QED
      BY <1>8, <1>12, <3>1, <3>2
  <2>5. entries'[1].name \in DOMAIN elemNames' /\ present' = elemNames'[entries'[1].name] /\ present' # -1
    BY <1>1, <1>5, <1>7, <1>9, <1>15
  <2>. QED
    BY <1>9, <2>1, <2>2, <2>3, <2>4, <2>5 DEF Suffix
<1>17. ASSUME NEW i \in DOMAIN List PROVE Read(i)' = (IF i = P THEN k + 1 ELSE Read(i)) /\ Read(P) = k
  BY <1>2, <1>6, <1>13 DEF Read, P, k
<1>18. /\ fanins \in [Elem -> Seq(Elem)] /\ fanouts \in [Elem -> Seq(Elem)]
       /\ present \in Elem /\ present < unusedElem /\ f \in Elem
  BY <1>1, <1>7, <1>15 DEF Wired
<1>19. /\ fanins' \in [Elem -> Seq(Elem)] /\ fanouts' \in [Elem -> Seq(Elem)]
       /\ fanins'[present] = Append(fanins[present], f) /\ fanouts'[f] = Append(fanouts[f], present)
       /\ \A e \in Elem : (e # present => fanins'[e] = fanins[e]) /\ (e # f => fanouts'[e] = fanouts[e])
  BY <1>5, <1>18
<1>20. \A e \in Elem : e >= unusedElem' => fanins'[e] = <<>>
  BY <1>1, <1>15, <1>18, <1>19 DEF Wired, Elem
<1>21. ASSUME NEW i \in DOMAIN List, List[i].name \in D \cup {name}
       PROVE  LET g == fanins'[elemNames'[List[i].name]] IN
              /\ Len(g) = Read(i)'
              /\ \A j \in 1 .. Read(i)' : List[i].fanins[j] \in D \cup {name} /\ g[j] = elemNames'[List[i].fanins[j]]
  <2>1. CASE i = P
    <3>. DEFINE g == fanins[present]
    <3>1. elemNames'[List[i].name] = present /\ fanins'[present] = Append(g, f) /\ Read(i)' = k + 1
      BY <1>7, <1>15, <1>17, <1>19, <2>1 DEF me
    <3>2. Len(g) = k /\ g \in Seq(Elem) /\ \A j \in 1 .. k : List[P].fanins[j] \in D /\ g[j] = elemNames[List[P].fanins[j]]
      BY <1>1, <1>2, <1>7, <1>17, <1>18 DEF Wired, me
    <3>. HIDE DEF g, D
    <3>3. Len(Append(g, f)) = k + 1 /\ Append(g, f)[k + 1] = f /\ \A j \in 1 .. k : Append(g, f)[j] = g[j]
      BY <1>15, <3>2
    <3>4. \A j \in 1 .. k + 1 : j \in 1 .. k \/ j = k + 1
      BY <1>3
    <3>5. ASSUME NEW j \in 1 .. k + 1
          PROVE  List[P].fanins[j] \in D \cup {name} /\ Append(g, f)[j] = elemNames'[List[P].fanins[j]]
      <4>1. CASE j \in 1 .. k
        BY <1>15, <3>2, <3>3, <4>1
      <4>2. CASE j = k + 1
        BY <1>14, <1>15, <3>3, <4>2
      <4>. QED
        BY <3>4, <4>1, <4>2
    <3>. QED
      BY <2>1, <3>1, <3>3, <3>5
  <2>2. CASE i # P /\ List[i].name \in D
    <3>. DEFINE g == fanins[elemNames[List[i].name]]
    <3>1. List[i].name # me
      BY <1>2, <2>2, ListFacts DEF me
    <3>2. elemNames'[List[i].name] = elemNames[List[i].name] /\ elemNames[List[i].name] # present /\ elemNames[List[i].name] \in Elem
      BY <1>1, <1>7, <1>15, <2>2, <3>1 DEF Named
    <3>3. fanins'[elemNames'[List[i].name]] = g /\ Read(i)' = Read(i)
      BY <1>17, <1>19, <2>2, <3>2
    <3>4. Len(g) = Read(i) /\ \A j \in 1 .. Read(i) : List[i].fanins[j] \in D /\ g[j] = elemNames[List[i].fanins[j]]
      BY <1>1, <2>2 DEF Wired
    <3>. HIDE DEF g, D
    <3>5. \A j \in 1 .. Read(i) : List[i].fanins[j] \in D \cup {name} /\ g[j] = elemNames'[List[i].fanins[j]]
      BY <1>15, <3>4
    <3>. QED
      BY <3>3, <3>4, <3>5
  <2>3. CASE i # P /\ List[i].name \notin D
    <3>1. Read(i)' = 0
      BY <1>1, <1>17, <2>3, UnreadEmpty DEF P
    <3>2. elemNames'[List[i].name] = unusedElem /\ unusedElem \in Elem /\ unusedElem # present
      BY <1>15, <1>18, <1>21, <2>3
    <3>3. fanins'[unusedElem] = <<>>
      BY <1>1, <1>15, <1>19, <3>2 DEF Wired
    <3>. QED
      BY <3>1, <3>2, <3>3
  <2>. QED
    BY <2>1, <2>2, <2>3
<1>22. ASSUME NEW d \in Elem, NEW e \in Elem PROVE Count(fanins'[e], d) = Count(fanouts'[d], e)
  <2>. DEFINE one == IF e = present /\ d = f THEN 1 ELSE 0
  <2>1. Count(fanins[e], d) = Count(fanouts[d], e) /\ fanins[e] \in Seq(Elem) /\ fanouts[d] \in Seq(Elem)
    BY <1>1, <1>18 DEF Wired
  <2>2. Count(fanins[e], d) \in Nat /\ Count(fanouts[d], e) \in Nat
    BY <2>1, <1>18, CountAppend
  <2>3. Count(fanins'[e], d) = Count(fanins[e], d) + one
    <3>1. CASE e = present
      <4>1. Count(Append(fanins[e], f), d) = Count(fanins[e], d) + IF f = d THEN 1 ELSE 0
        BY <1>18, <2>1, CountAppend
      <4>. QED
        BY <1>19, <3>1, <4>1
    <3>2. CASE e # present
      BY <1>19, <2>2, <3>2
    <3>. QED
      BY <3>1, <3>2
  <2>4. Count(fanouts'[d], e) = Count(fanouts[d], e) + one
    <3>1. CASE d = f
      <4>1. Count(Append(fanouts[d], present), e) = Count(fanouts[d], e) + IF present = e THEN 1 ELSE 0
        BY <1>18, <2>1, CountAppend
      <4>. QED
        BY <1>19, <3>1, <4>1
    <3>2. CASE d # f
      BY <1>19, <2>2, <3>2
    <3>. QED
      BY <3>1, <3>2
  <2>. QED
    BY <2>1, <2>3, <2>4
<1>23. Wired'
  BY <1>6, <1>15, <1>19, <1>20, <1>21, <1>22 DEF Wired
<1>. QED
  BY <1>5, <1>6, <1>15, <1>16, <1>23 DEF Reader

LEMMA ReadHeaderStep ==
  ASSUME file \in Files, elemNames = <<>>, unusedElem = 0, present = -1, ReadHeader
  PROVE  /\ file' = file /\ reading' \in {"entries", "aborted"}
         /\ reading' = "entries" => Reader' /\ Permutation(loc)'
         /\ reading' = "aborted" => UNCHANGED loc
<1>1. UNCHANGED <<file, present, elemNames, unusedElem>> /\ reading' \in {"entries", "aborted"}
  BY DEF ReadHeader
<1>. SUFFICES ASSUME reading' = "entries" PROVE Reader' /\ Permutation(loc)'
  BY <1>1 DEF ReadHeader
<1>2. /\ HeaderFits(file) /\ entries' = List
      /\ fanins' = [e \in Elem |-> <<>>] /\ fanouts' = [e \in Elem |-> <<>>] /\ loc' = [e \in Elem |-> GridPosition(e)]
  BY DEF ReadHeader, List
<1>3. /\ List' = List /\ Elem' = Elem /\ Entry' = Entry /\ HeaderFits(file)' /\ ChipSize' = ChipSize /\ AllNames' = AllNames
      /\ Location' = Location
  BY <1>1, <1>2, SameFile
<1>4. ChipSize \in Nat /\ List \in Seq(Entry)
  BY ListFacts
<1>5. Position' = 1
  BY <1>2, <1>3, <1>4 DEF Position
<1>6. List # <<>> => Done' = 0 /\ Len(List[1].fanins) \in Nat /\ List[1].fanins \in Seq(Names(file))
  <2>1. List # <<>> => List[1] \in Entry
    BY <1>4
  <2>2. List # <<>> => List[1].fanins \in Seq(Names(file))
    BY <2>1 DEF Entry
  <2>. QED
    BY <1>2, <1>3, <1>5, <2>2 DEF Done
<1>7. Suffix'
  <2>1. \A j \in 2 .. Len(List) : j = 1 + j - 1
    BY <1>4
  <2>2. List # <<>> => \A j \in DOMAIN List[1].fanins : j = 0 + j
    BY <1>6
  <2>. QED
    BY <1>1, <1>2, <1>3, <1>4, <1>5, <1>6, <2>1, <2>2 DEF Suffix
<1>8. Named'
  <2>1. DOMAIN elemNames' = {} /\ Cardinality({}) = 0 /\ elemNames' \in [{} -> 0 .. 0 - 1]
    BY <1>1, FS_EmptySet
  <2>. QED
    BY <1>1, <1>3, <1>4, <1>5, <2>1 DEF Named
<1>9. Wired'
  <2>1. fanins' \in [Elem -> Seq(Elem)] /\ fanouts' \in [Elem -> Seq(Elem)]
    BY <1>2
  <2>2. \A e \in Elem : fanins'[e] = <<>> /\ fanouts'[e] = <<>>
    BY <1>2
  <2>3. \A d, e \in Elem : Count(fanins'[e], d) = Count(fanouts'[d], e)
    <3>1. \A d : Count(<<>>, d) = Cardinality({})
      BY DEF Count
    <3>. QED
      BY <2>2, <3>1
  <2>4. DOMAIN elemNames' = {}
    BY <1>1
  <2>. QED
    BY <1>3, <2>1, <2>2, <2>3, <2>4 DEF Wired
<1>10. Permutation(loc)'
  BY <1>2, <1>3, GridPermutation DEF Permutation
<1>. QED
  BY <1>3, <1>7, <1>8, <1>9, <1>10 DEF Reader

LEMMA PlacedStays ==
  ASSUME Placed, UNCHANGED <<file, reading, loc>>
  PROVE  Placed'
BY SameFile DEF Placed, Permutation

LEMMA ReaderStays ==
  ASSUME Reader, UNCHANGED <<file, entries, present, elemNames, unusedElem, fanins, fanouts>>
  PROVE  Reader'
<1>1. /\ List' = List /\ Elem' = Elem /\ Entry' = Entry /\ ChipSize' = ChipSize /\ AllNames' = AllNames
      /\ HeaderFits(file)' = HeaderFits(file)
  BY SameFile
<1>2. Position' = Position /\ Done' = Done /\ \A i : Read(i)' = Read(i)
  BY SamePlace
<1>3. Suffix' /\ Named'
  BY <1>1, <1>2 DEF Reader, Suffix, Named
<1>4. Wired'
  BY <1>1, <1>2 DEF Reader, Wired
<1>. QED
  BY <1>1, <1>3, <1>4 DEF Reader

LEMMA NettedStays ==
  ASSUME Netted, UNCHANGED <<file, entries, present, elemNames, unusedElem, fanins, fanouts>>, reading' = reading
  PROVE  Netted'
BY ReaderStays DEF Netted, Reader

\* Reading the file never throws, and what it builds stays as read.
LEMMA BuildStep ==
  ASSUME file \in Files, Netted, Placed, netlist
  PROVE  file' = file /\ reading' \in Readings /\ Netted' /\ Placed'
<1>1. CASE ReadHeader
  <2>1. elemNames = <<>> /\ unusedElem = 0 /\ present = -1
    BY <1>1 DEF ReadHeader, Netted
  <2>2. /\ file' = file /\ reading' \in {"entries", "aborted"}
        /\ reading' = "entries" => Reader' /\ Permutation(loc)'
    BY <1>1, <2>1, ReadHeaderStep
  <2>. QED
    BY <2>2 DEF Netted, Placed, Readings, Reader
<1>2. CASE ReadName
  <2>1. reading = "entries" /\ Reader
    BY <1>2 DEF ReadName, Netted, Reader
  <2>2. UNCHANGED <<file, entries, reading, loc>> /\ Reader'
    BY <1>2, <2>1, ReadNameStep
  <2>. QED
    BY <2>1, <2>2, PlacedStays DEF Netted, Readings, Reader
<1>3. CASE ReadFanin
  <2>1. reading = "entries" /\ Reader
    BY <1>3 DEF ReadFanin, Netted, Reader
  <2>2. UNCHANGED <<file, reading, loc>> /\ Reader'
    BY <1>3, <2>1, ReadFaninStep
  <2>. QED
    BY <2>1, <2>2, PlacedStays DEF Netted, Readings, Reader
<1>4. CASE ReadEnd
  <2>1. reading = "entries" /\ Reader
    BY <1>4 DEF ReadEnd, Netted, Reader
  <2>2. UNCHANGED <<file, reading, loc>> /\ Reader'
    BY <1>4, <2>1, ReadEndStep
  <2>. QED
    BY <2>1, <2>2, PlacedStays DEF Netted, Readings, Reader
<1>5. CASE Eof
  <2>1. /\ reading = "entries" /\ entries = <<>> /\ reading' = "built"
        /\ UNCHANGED <<file, entries, present, elemNames, unusedElem, fanins, fanouts>> /\ loc' = loc
    BY <1>5 DEF Eof
  <2>2. Reader
    BY <2>1 DEF Netted, Reader
  <2>3. Reader'
    BY <2>1, <2>2, ReaderStays
  <2>4. Permutation(loc)'
    BY <2>1, SameFile DEF Placed, Permutation
  <2>. QED
    BY <2>1, <2>3, <2>4 DEF Netted, Placed, Readings, Reader
<1>. QED
  BY <1>1, <1>2, <1>3, <1>4, <1>5 DEF netlist

-----------------------------------------------------------------------------
(* The program. *)

LEMMA RunPlaced ==
  ASSUME TypeOK, Chosen, Placed, NEW t \in Thread, Run(t)
  PROVE  Placed'
<1>1. CASE Decide(t)
  <2>1. a[t] \in Elem /\ b[t] \in Elem /\ UNCHANGED <<file, reading>>
    BY <1>1 DEF Decide, CostKnown, Chosen, Places
  <2>2. loc' = loc \/ loc' = Swapped(loc, a[t], b[t])
    BY <1>1 DEF Decide
  <2>3. Permutation(loc) => Permutation(Swapped(loc, a[t], b[t]))
    BY <2>1, SwapPermutes
  <2>4. Permutation(loc) => Permutation(loc')
    BY <2>2, <2>3
  <2>5. Permutation(loc') => Permutation(loc)'
    BY <2>1, SameFile DEF Permutation
  <2>. QED
    BY <2>1, <2>4, <2>5 DEF Placed
<1>2. CASE ~Decide(t)
  <2>1. UNCHANGED <<file, reading, loc>>
    BY <1>2 DEF Run, Enter, StartStep, Stop, SignalConverged, PickPair, GetALoc, GetBLoc, AddFan, Barrier, shared, netlistVars
  <2>. QED
    BY <2>1, PlacedStays
<1>. QED
  BY <1>1, <1>2

LEMMA InitIInv == ASSUME Init PROVE IInv
<1>1. file \in Files /\ reading = "header" /\ present = -1 /\ elemNames = <<>> /\ unusedElem = 0
  BY DEF Init, NetlistInit
<1>2. numberTempSteps \in TempSteps /\ waiting = {} /\ \A t \in Thread : pc[t] = "new" /\ steps[t] = 0
  BY DEF Init
<1>3. TypeOK
  BY <1>1 DEF Init, TypeOK, Readings, Points
<1>4. Chosen
  BY <1>2 DEF Chosen, Places
<1>5. Together
  <2>1. waiting = {t \in Thread : pc[t] = "barrier"} /\ waiting # Thread
    BY <1>2, ThreadAssumption
  <2>2. ASSUME Fixed PROVE \E s \in 0 .. numberTempSteps : AtStep(s)
    <3>1. 0 \in 0 .. numberTempSteps
      BY <1>3, <2>2, StepFacts
    <3>2. AtStep(0)
      BY <1>2 DEF AtStep, Moving
    <3>. QED
      BY <3>1, <3>2
  <2>. QED
    BY <1>2, <2>1, <2>2 DEF Together
<1>6. Placed /\ Netted
  BY <1>1 DEF Placed, Netted
<1>. QED
  BY <1>3, <1>4, <1>5, <1>6 DEF IInv

LEMMA NextIInv == ASSUME IInv, [Next]_vars PROVE IInv'
<1>. USE DEF IInv
<1>1. CASE BuildNetlist
  <2>1. file' = file /\ reading' \in Readings /\ Netted' /\ Placed'
    BY <1>1, BuildStep DEF BuildNetlist, TypeOK
  <2>2. UNCHANGED <<numberTempSteps, waiting, main, pc, a, b, steps>>
    BY <1>1 DEF BuildNetlist, locals
  <2>3. TypeOK'
    BY <2>1, <2>2 DEF TypeOK
  <2>4. Chosen'
    BY <2>1, <2>2, SameFile DEF Chosen
  <2>5. Together'
    BY <2>2 DEF Together, AtStep, Moving, Fixed
  <2>. QED
    BY <2>1, <2>3, <2>4, <2>5
<1>2. CASE CreateThreads
  <2>1. /\ main = "netlist" /\ main' = "join" /\ pc' = [t \in Thread |-> "entry"]
        /\ UNCHANGED <<netlistVars, numberTempSteps, waiting, a, b, steps>>
    BY <1>2 DEF CreateThreads, locals
  <2>2. UNCHANGED <<file, reading, loc>> /\ UNCHANGED <<file, entries, present, elemNames, unusedElem, fanins, fanouts>>
    BY <2>1 DEF netlistVars
  <2>3. Placed' /\ Netted'
    BY <2>2, PlacedStays, NettedStays
  <2>4. TypeOK'
    BY <2>1, <2>2 DEF TypeOK, Points
  <2>5. Chosen'
    BY <2>1 DEF Chosen, Places
  <2>6. waiting = {} /\ waiting' = {t \in Thread : pc'[t] = "barrier"} /\ waiting' # Thread
    BY <2>1, ThreadAssumption DEF Chosen, Together
  <2>7. Fixed => \E s \in 0 .. numberTempSteps : AtStep(s)'
    <3>. SUFFICES ASSUME Fixed PROVE \E s \in 0 .. numberTempSteps : AtStep(s)'
      OBVIOUS
    <3>1. PICK s \in 0 .. numberTempSteps : AtStep(s)
      BY DEF Together
    <3>2. AtStep(s)'
      BY <2>1, <3>1 DEF AtStep, Moving
    <3>. QED
      BY <3>2
  <2>8. Together'
    BY <2>1, <2>6, <2>7 DEF Together, Fixed
  <2>. QED
    BY <2>3, <2>4, <2>5, <2>8
<1>3. ASSUME NEW t \in Thread, Run(t) PROVE IInv'
  <2>1. TypeOK' /\ Chosen' /\ Together'
    BY <1>3, RunThreads DEF Threads
  <2>2. Placed'
    BY <1>3, RunPlaced
  <2>3. UNCHANGED <<file, entries, present, elemNames, unusedElem, fanins, fanouts>> /\ reading' = reading
    BY <1>3 DEF Run, Enter, StartStep, Stop, SignalConverged, PickPair, GetALoc, GetBLoc, AddFan, Decide, Barrier, shared, netlistVars
  <2>4. Netted'
    BY <2>3, NettedStays
  <2>. QED
    BY <2>1, <2>2, <2>4
<1>4. CASE JoinAll \/ Terminated \/ UNCHANGED vars
  <2>1. /\ UNCHANGED <<netlistVars, numberTempSteps, waiting, pc, a, b, steps>>
        /\ main' = "netlist" => main = "netlist"
    BY <1>4 DEF JoinAll, Terminated, vars, shared, locals
  <2>2. UNCHANGED <<file, reading, loc>> /\ UNCHANGED <<file, entries, present, elemNames, unusedElem, fanins, fanouts>>
    BY <2>1 DEF netlistVars
  <2>3. Placed' /\ Netted'
    BY <2>2, PlacedStays, NettedStays
  <2>4. TypeOK'
    BY <2>1, <2>2 DEF TypeOK
  <2>5. Chosen'
    BY <2>1, <2>2, SameFile DEF Chosen
  <2>6. Together'
    BY <2>1 DEF Together, AtStep, Moving, Fixed
  <2>. QED
    BY <2>3, <2>4, <2>5, <2>6
<1>. QED
  BY <1>1, <1>2, <1>3, <1>4 DEF Next

-----------------------------------------------------------------------------
\* The inductive invariant of the annealer: types, elements chosen, threads
\* together at the barrier, the placement a permutation, the netlist read so
\* far that of the file.
THEOREM IInvInvariant == Spec => []IInv
<1>1. Init => IInv
  BY InitIInv
<1>2. IInv /\ [Next]_vars => IInv'
  BY NextIInv
<1>. QED
  BY <1>1, <1>2, PTL DEF Spec

\* All threads anneal at one temperature, for any number of threads, moves and
\* steps: the barrier of annealer_thread::Run.
THEOREM SameTemperatureCorrect == Spec => []SameTemperature
<1>1. IInv => SameTemperature
  <2>. SUFFICES ASSUME IInv, Fixed
                PROVE  /\ \A t, u \in Thread : Moving(t) /\ Moving(u) => steps[t] = steps[u]
                       /\ \A t \in Thread : pc[t] = "exit" =>
                            waiting = {} /\ \A u \in Thread : steps[u] = numberTempSteps
    BY DEF SameTemperature
  <2>1. PICK s \in 0 .. numberTempSteps : AtStep(s)
    BY DEF IInv, Together
  <2>2. waiting = {t \in Thread : pc[t] = "barrier"}
    BY DEF IInv, Together
  <2>3. ASSUME NEW t \in Thread, Moving(t) PROVE steps[t] = s
    BY <2>1, <2>2, <2>3 DEF AtStep, Moving
  <2>4. ASSUME NEW t \in Thread, pc[t] = "exit"
        PROVE  waiting = {} /\ \A u \in Thread : steps[u] = numberTempSteps
    <3>1. s = numberTempSteps /\ numberTempSteps \in Nat
      BY <2>1, <2>4, StepFacts DEF AtStep, IInv
    <3>2. \A u \in Thread : pc[u] # "barrier"
      BY <2>1, <3>1 DEF AtStep
    <3>. QED
      BY <2>1, <2>2, <3>1, <3>2 DEF AtStep
  <2>. QED
    BY <2>3, <2>4
<1>. QED
  BY <1>1, IInvInvariant, PTL

\* The placement stays one element per grid position, whatever swaps the
\* threads decide on, from however stale costs (netlist::swap_locations).
THEOREM PlacementValidCorrect == Spec => []PlacementValid
<1>1. IInv => PlacementValid
  BY DEF IInv, Placed, Permutation, PlacementValid
<1>. QED
  BY <1>1, IInvInvariant, PTL

LEMMA BuiltRight == ASSUME IInv PROVE BuiltAsWritten
<1>. SUFFICES ASSUME reading = "built"
              PROVE  /\ \A m, n \in DOMAIN elemNames : elemNames[m] = elemNames[n] => m = n
                     /\ \A f \in ToSet(file.entries) :
                          fanins[elemNames[f.name]] = [k \in DOMAIN f.fanins |-> elemNames[f.fanins[k]]]
                     /\ \A d, e \in Elem : Count(fanins[e], d) = Count(fanouts[d], e)
  BY DEF BuiltAsWritten, IInv, Netted
<1>1. file \in Files /\ Suffix /\ Named /\ Wired /\ entries = <<>>
  BY DEF IInv, TypeOK, Netted
<1>2. Position = Len(List) + 1 /\ List \in Seq(Entry)
  BY <1>1, ListFacts DEF Position
<1>3. ASSUME NEW f \in ToSet(file.entries)
      PROVE  fanins[elemNames[f.name]] = [k \in DOMAIN f.fanins |-> elemNames[f.fanins[k]]]
  <2>1. PICK i \in DOMAIN file.entries : f = file.entries[i]
    BY DEF ToSet
  <2>2. i \in DOMAIN List /\ List[i] = f /\ i \in 1 .. Position - 1 /\ i < Position
    BY <1>1, <1>2, <2>1, ListFacts
  <2>3. f \in Entry
    BY <1>2, <2>2
  <2>4. f.fanins \in Seq(Names(file))
    BY <2>3 DEF Entry
  <2>5. f.name \in DOMAIN elemNames /\ Read(i) = Len(f.fanins)
    BY <1>1, <2>2 DEF Named, Read
  <2>. DEFINE g == fanins[elemNames[f.name]]
  <2>6. Len(g) = Read(i) /\ \A j \in 1 .. Read(i) : g[j] = elemNames[f.fanins[j]]
    BY <1>1, <2>2, <2>5 DEF Wired
  <2>7. elemNames[f.name] \in Elem
    <3>1. ChipSize \in Nat /\ unusedElem \in Nat /\ unusedElem <= ChipSize /\ elemNames[f.name] \in 0 .. unusedElem - 1
      BY <1>1, <2>5, ListFacts DEF Named
    <3>. QED
      BY <3>1, UsedElem
  <2>8. g \in Seq(Elem)
    BY <1>1, <2>7 DEF Wired
  <2>. HIDE DEF g
  <2>9. DOMAIN g = 1 .. Len(f.fanins) /\ DOMAIN f.fanins = 1 .. Len(f.fanins) /\ g = [k \in DOMAIN g |-> g[k]]
    BY <2>4, <2>5, <2>6, <2>8
  <2>10. g = [k \in DOMAIN f.fanins |-> elemNames[f.fanins[k]]]
    BY <2>5, <2>6, <2>9
  <2>. QED
    BY <2>10 DEF g
<1>. QED
  BY <1>1, <1>3 DEF Named, Wired

\* The constructor builds the netlist of any file that passes the assert on
\* its header, forward references and a trailing newline included, and never
\* runs out of elements (netlist::netlist, create_elem_if_necessary).
THEOREM BuiltAsWrittenCorrect == Spec => []BuiltAsWritten
BY BuiltRight, IInvInvariant, PTL

-----------------------------------------------------------------------------
(* Sums.  A running total is a recursive function; that it exists and what   *)
(* it adds up to is shown by the least index at which it would fail.         *)

LEMMA Least ==
  ASSUME NEW T \in SUBSET Nat, T # {}
  PROVE  \E x \in T : \A y \in T : x <= y
<1>. DEFINE R == OpToRel(<, Nat)
<1>1. PICK x \in T : \A y \in T : <<y, x>> \notin R
  <2>1. IsWellFoundedOn(R, Nat)
    BY NatLessThanWellFounded
  <2>. HIDE DEF R
  <2>. QED
    BY <2>1, WFMin
<1>2. \A y \in T : ~(y < x)
  BY <1>1 DEF OpToRel
<1>. QED
  BY <1>2

\* f is the running total of s up to n.
Running(s, n, f) ==
  /\ f \in [0 .. n -> Int] /\ f[0] = 0
  /\ \A i \in 1 .. n : f[i] = f[i - 1] + s[i]

LEMMA RunningUnique ==
  ASSUME NEW s, NEW n \in Nat, NEW f, NEW h, Running(s, n, f), Running(s, n, h)
  PROVE  f = h
<1>. DEFINE T == {i \in 0 .. n : f[i] # h[i]}
<1>1. ASSUME T # {} PROVE FALSE
  <2>1. T \in SUBSET Nat
    OBVIOUS
  <2>2. PICK i \in T : \A y \in T : i <= y
    <3>. HIDE DEF T
    <3>. QED
      BY <1>1, <2>1, Least
  <2>3. i \in 0 .. n /\ f[i] # h[i] /\ i # 0
    BY <2>2 DEF Running
  <2>4. i \in 1 .. n /\ i - 1 \in 0 .. n /\ i - 1 \notin T
    BY <2>2, <2>3
  <2>5. f[i - 1] = h[i - 1]
    BY <2>4
  <2>. QED
    BY <2>3, <2>4, <2>5 DEF Running
<1>2. \A i \in 0 .. n : f[i] = h[i]
  BY <1>1
<1>. QED
  BY <1>2 DEF Running

LEMMA RunningExists ==
  ASSUME NEW s \in Seq(Int), NEW n \in 0 .. Len(s)
  PROVE  \E f : Running(s, n, f)
<1>. DEFINE T == {i \in 0 .. Len(s) : \A f : ~Running(s, i, f)}
<1>. SUFFICES ASSUME T # {} PROVE FALSE
  OBVIOUS
<1>1. T \in SUBSET Nat
  OBVIOUS
<1>2. PICK i \in T : \A y \in T : i <= y
  <2>. HIDE DEF T
  <2>. QED
    BY <1>1, Least
<1>3. i \in 0 .. Len(s) /\ Len(s) \in Nat
  BY <1>2
<1>4. i # 0
  <2>1. Running(s, 0, [j \in 0 .. 0 |-> 0])
    BY DEF Running
  <2>. QED
    BY <1>2, <2>1
<1>5. i \in 1 .. Len(s) /\ i - 1 \in 0 .. Len(s) /\ i - 1 \notin T
  BY <1>2, <1>3, <1>4
<1>6. PICK f : Running(s, i - 1, f)
  BY <1>5
<1>. DEFINE h == [j \in 0 .. i |-> IF j = i THEN f[i - 1] + s[i] ELSE f[j]]
<1>7. s[i] \in Int /\ f \in [0 .. i - 1 -> Int] /\ \A j \in 0 .. i : j # i => j \in 0 .. i - 1
  BY <1>5, <1>6 DEF Running
<1>8. h \in [0 .. i -> Int] /\ h[0] = 0 /\ h[i] = f[i - 1] + s[i] /\ \A j \in 0 .. i - 1 : h[j] = f[j]
  BY <1>5, <1>6, <1>7 DEF Running
<1>9. ASSUME NEW j \in 1 .. i PROVE h[j] = h[j - 1] + s[j]
  <2>1. j - 1 \in 0 .. i - 1
    BY <1>5
  <2>2. CASE j = i
    BY <1>8, <2>1, <2>2
  <2>3. CASE j # i
    <3>1. j \in 1 .. i - 1 /\ j \in 0 .. i - 1
      BY <1>5, <2>3
    <3>. QED
      BY <1>6, <1>8, <2>1, <3>1 DEF Running
  <2>. QED
    BY <2>2, <2>3
<1>10. Running(s, i, h)
  BY <1>8, <1>9 DEF Running
<1>. QED
  BY <1>2, <1>10

LEMMA SumsRun ==
  ASSUME NEW s \in Seq(Int)
  PROVE  Running(s, Len(s), Sums(s))
<1>. DEFINE N == Len(s)
            Step(f) == [n \in 0 .. N |-> IF n = 0 THEN 0 ELSE f[n - 1] + s[n]]
            sum == CHOOSE f : f = Step(f)
<1>1. N \in Nat /\ N \in 0 .. N
  OBVIOUS
<1>2. PICK f : Running(s, N, f)
  BY <1>1, RunningExists
<1>3. f = Step(f)
  BY <1>1, <1>2 DEF Running
<1>4. sum = Step(sum)
  BY <1>3
<1>5. Sums(s) = sum
  BY DEF Sums
<1>. HIDE DEF sum
<1>6. Running(s, N, sum)
  <2>1. sum[0] = 0 /\ \A i \in 1 .. N : sum[i] = sum[i - 1] + s[i]
    BY <1>1, <1>4
  <2>2. DOMAIN sum = 0 .. N /\ sum = [n \in 0 .. N |-> sum[n]]
    BY <1>4
  <2>. DEFINE T == {i \in 0 .. N : sum[i] \notin Int}
  <2>3. ASSUME T # {} PROVE FALSE
    <3>1. T \in SUBSET Nat
      OBVIOUS
    <3>2. PICK i \in T : \A y \in T : i <= y
      <4>. HIDE DEF T
      <4>. QED
        BY <2>3, <3>1, Least
    <3>3. i \in 0 .. N /\ sum[i] \notin Int /\ i # 0
      BY <2>1, <3>2
    <3>4. i \in 1 .. N /\ i - 1 \in 0 .. N /\ i - 1 \notin T
      BY <1>1, <3>2, <3>3
    <3>5. sum[i - 1] \in Int /\ s[i] \in Int
      BY <3>4
    <3>. QED
      BY <2>1, <3>3, <3>4, <3>5
  <2>4. \A i \in 0 .. N : sum[i] \in Int
    BY <2>3
  <2>. QED
    BY <2>1, <2>2, <2>4 DEF Running
<1>. QED
  BY <1>5, <1>6

\* What has the steps of the running total is the running total.
LEMMA SumsAre ==
  ASSUME NEW s \in Seq(Int), NEW f, Running(s, Len(s), f)
  PROVE  Sums(s) = f /\ SumSeq(s) = f[Len(s)]
<1>1. Len(s) \in Nat
  OBVIOUS
<1>. QED
  BY <1>1, SumsRun, RunningUnique DEF SumSeq

LEMMA SumInt ==
  ASSUME NEW s \in Seq(Int)
  PROVE  SumSeq(s) \in Int
BY SumsRun DEF SumSeq, Running

LEMMA SumAppend ==
  ASSUME NEW s \in Seq(Int), NEW x \in Int
  PROVE  SumSeq(Append(s, x)) = SumSeq(s) + x
<1>. DEFINE N == Len(s)
            r == Append(s, x)
            f == [n \in 0 .. N + 1 |-> IF n = N + 1 THEN Sums(s)[N] + x ELSE Sums(s)[n]]
<1>1. N \in Nat /\ r \in Seq(Int) /\ Len(r) = N + 1 /\ r[N + 1] = x /\ \A n \in 1 .. N : r[n] = s[n]
  OBVIOUS
<1>2. Running(s, N, Sums(s))
  BY SumsRun
<1>. HIDE DEF r, N
<1>3. f \in [0 .. N + 1 -> Int] /\ f[0] = 0 /\ f[N + 1] = Sums(s)[N] + x /\ \A n \in 0 .. N : f[n] = Sums(s)[n]
  BY <1>1, <1>2 DEF Running
<1>4. ASSUME NEW n \in 1 .. N + 1 PROVE f[n] = f[n - 1] + r[n]
  <2>1. n - 1 \in 0 .. N
    BY <1>1
  <2>2. CASE n = N + 1
    <3>1. n - 1 = N
      BY <1>1, <2>2
    <3>. QED
      BY <1>1, <1>3, <2>1, <2>2, <3>1
  <2>3. CASE n # N + 1
    <3>1. n \in 1 .. N /\ n \in 0 .. N
      BY <1>1, <2>3
    <3>. QED
      BY <1>1, <1>2, <1>3, <2>1, <3>1 DEF Running
  <2>. QED
    BY <2>2, <2>3
<1>. HIDE DEF f
<1>5. Running(r, Len(r), f)
  BY <1>1, <1>3, <1>4 DEF Running
<1>6. SumSeq(r) = f[N + 1]
  BY <1>1, <1>5, SumsAre
<1>. QED
  BY <1>3, <1>6 DEF r, N, SumSeq

LEMMA SumEmpty == SumSeq(<<>>) = 0
<1>1. <<>> \in Seq(Int) /\ Len(<<>>) = 0
  OBVIOUS
<1>. QED
  BY <1>1, SumsRun DEF SumSeq, Running

LEMMA SumConcat ==
  ASSUME NEW s \in Seq(Int), NEW r \in Seq(Int)
  PROVE  SumSeq(s \o r) = SumSeq(s) + SumSeq(r)
<1>. DEFINE M == Len(s)
            N == Len(r)
            q == s \o r
            f == [n \in 0 .. M + N |-> IF n <= M THEN Sums(s)[n] ELSE Sums(s)[M] + Sums(r)[n - M]]
<1>1. /\ M \in Nat /\ N \in Nat /\ q \in Seq(Int) /\ Len(q) = M + N
      /\ \A n \in 1 .. M : q[n] = s[n]
      /\ \A n \in 1 .. M + N : n > M => q[n] = r[n - M]
  OBVIOUS
<1>2. Running(s, M, Sums(s)) /\ Running(r, N, Sums(r))
  BY SumsRun
<1>. HIDE DEF q, M, N
<1>3. \A n \in 0 .. M + N : n > M => n - M \in 1 .. N /\ n - M - 1 \in 0 .. N
  BY <1>1
<1>4. f \in [0 .. M + N -> Int] /\ f[0] = 0
  <2>1. ASSUME NEW n \in 0 .. M + N PROVE (IF n <= M THEN Sums(s)[n] ELSE Sums(s)[M] + Sums(r)[n - M]) \in Int
    <3>1. M \in 0 .. M /\ (n <= M => n \in 0 .. M) /\ (~(n <= M) => n - M \in 0 .. N)
      BY <1>1
    <3>2. Sums(s)[M] \in Int /\ (n <= M => Sums(s)[n] \in Int)
      BY <1>2, <3>1 DEF Running
    <3>3. ~(n <= M) => Sums(r)[n - M] \in Int
      BY <1>2, <3>1 DEF Running
    <3>. QED
      BY <3>2, <3>3
  <2>2. 0 \in 0 .. M + N /\ 0 <= M
    BY <1>1
  <2>. QED
    BY <1>2, <2>1, <2>2 DEF Running
<1>5. ASSUME NEW n \in 1 .. M + N PROVE f[n] = f[n - 1] + q[n]
  <2>1. n \in 0 .. M + N /\ n - 1 \in 0 .. M + N
    BY <1>1
  <2>2. CASE n <= M
    <3>1. n \in 1 .. M /\ n - 1 <= M
      BY <1>1, <2>2
    <3>2. Sums(s)[n] = Sums(s)[n - 1] + s[n] /\ q[n] = s[n]
      BY <1>1, <1>2, <3>1 DEF Running
    <3>3. f[n] = Sums(s)[n] /\ f[n - 1] = Sums(s)[n - 1]
      BY <2>1, <2>2, <3>1
    <3>. QED
      BY <3>2, <3>3
  <2>3. CASE n = M + 1
    <3>1. n - 1 = M /\ n - M = 1 /\ 1 \in 1 .. N /\ ~(n <= M) /\ n - 1 <= M
      BY <1>1, <2>3
    <3>2. Sums(r)[1] = 0 + r[1]
      BY <1>2, <3>1 DEF Running
    <3>3. f[n] = Sums(s)[M] + Sums(r)[1] /\ f[n - 1] = Sums(s)[M] /\ q[n] = r[1] /\ r[1] \in Int /\ Sums(s)[M] \in Int
      <4>1. r[1] \in Int
        BY <3>1 DEF N
      <4>2. Sums(s)[M] \in Int
        BY <1>1, <1>2 DEF Running
      <4>. QED
        BY <1>1, <2>1, <3>1, <4>1, <4>2
    <3>. QED
      BY <3>2, <3>3
  <2>4. CASE n > M + 1
    <3>1. ~(n <= M) /\ ~(n - 1 <= M) /\ n - M \in 1 .. N /\ (n - 1) - M = (n - M) - 1 /\ n > M /\ n - M - 1 \in 0 .. N
      BY <1>1, <2>4
    <3>2. Sums(r)[n - M] = Sums(r)[n - M - 1] + r[n - M]
      BY <1>2, <3>1 DEF Running
    <3>3. f[n] = Sums(s)[M] + Sums(r)[n - M] /\ f[n - 1] = Sums(s)[M] + Sums(r)[n - M - 1] /\ q[n] = r[n - M]
      BY <1>1, <2>1, <3>1
    <3>4. Sums(s)[M] \in Int /\ Sums(r)[n - M - 1] \in Int /\ r[n - M] \in Int
      <4>1. r[n - M] \in Int
        BY <3>1 DEF N
      <4>. QED
        BY <1>1, <1>2, <3>1, <4>1 DEF Running
    <3>. QED
      BY <3>2, <3>3, <3>4
  <2>. QED
    BY <1>1, <2>2, <2>3, <2>4
<1>6. f[M + N] = Sums(s)[M] + Sums(r)[N]
  <2>1. M + N \in 0 .. M + N /\ (M + N) - M = N /\ (M + N <= M => N = 0 /\ M + N = M)
    BY <1>1
  <2>2. Sums(r)[0] = 0 /\ Sums(s)[M] \in Int
    BY <1>1, <1>2 DEF Running
  <2>. QED
    BY <2>1, <2>2
<1>. HIDE DEF f
<1>7. Running(q, Len(q), f)
  BY <1>1, <1>4, <1>5 DEF Running
<1>8. SumSeq(q) = f[M + N]
  BY <1>1, <1>7, SumsAre
<1>. QED
  BY <1>6, <1>8 DEF q, M, N, SumSeq

\* Changing one term.
LEMMA SumUpdate ==
  ASSUME NEW s \in Seq(Int), NEW r \in Seq(Int), Len(r) = Len(s), NEW k \in 1 .. Len(s),
         \A i \in 1 .. Len(s) : i # k => r[i] = s[i]
  PROVE  SumSeq(r) = SumSeq(s) + r[k] - s[k]
<1>. DEFINE N == Len(s)
            f == [n \in 0 .. N |-> IF n < k THEN Sums(s)[n] ELSE Sums(s)[n] + r[k] - s[k]]
<1>1. N \in Nat /\ \A i \in 1 .. N : s[i] \in Int /\ r[i] \in Int
  OBVIOUS
<1>2. Running(s, N, Sums(s))
  BY SumsRun
<1>. HIDE DEF N
<1>a. k \in 1 .. N /\ Len(r) = N /\ r[k] \in Int /\ s[k] \in Int /\ \A i \in 1 .. N : i # k => r[i] = s[i]
  BY <1>1 DEF N
<1>3. f \in [0 .. N -> Int] /\ f[0] = 0
  <2>1. \A n \in 0 .. N : Sums(s)[n] \in Int
    BY <1>2 DEF Running
  <2>2. Sums(s)[0] = 0 /\ 0 < k /\ 0 \in 0 .. N
    BY <1>1, <1>2, <1>a DEF Running
  <2>. QED
    BY <1>a, <2>1, <2>2
<1>4. ASSUME NEW n \in 1 .. N PROVE f[n] = f[n - 1] + r[n]
  <2>1. n \in 0 .. N /\ n - 1 \in 0 .. N /\ Sums(s)[n] = Sums(s)[n - 1] + s[n] /\ Sums(s)[n - 1] \in Int /\ s[n] \in Int
    BY <1>1, <1>2 DEF Running
  <2>2. CASE n < k
    <3>1. f[n] = Sums(s)[n] /\ f[n - 1] = Sums(s)[n - 1] /\ r[n] = s[n]
      BY <1>a, <2>1, <2>2
    <3>. QED
      BY <2>1, <3>1
  <2>3. CASE n = k
    <3>1. f[n] = Sums(s)[n] + r[n] - s[n] /\ f[n - 1] = Sums(s)[n - 1]
      BY <1>a, <2>1, <2>3
    <3>. QED
      BY <1>a, <2>1, <2>3, <3>1
  <2>4. CASE n > k
    <3>1. ~(n < k) /\ ~(n - 1 < k) /\ r[n] = s[n]
      BY <1>a, <2>4
    <3>2. f[n] = Sums(s)[n] + r[k] - s[k] /\ f[n - 1] = Sums(s)[n - 1] + r[k] - s[k]
      BY <2>1, <3>1
    <3>. HIDE DEF f
    <3>3. Sums(s)[n - 1] + s[n] + r[k] - s[k] = Sums(s)[n - 1] + r[k] - s[k] + s[n]
      <4>1. \A u, v, w, x \in Int : u + v + w - x = u + w - x + v
        OBVIOUS
      <4>2. Sums(s)[n - 1] \in Int /\ s[n] \in Int /\ r[k] \in Int /\ s[k] \in Int
        BY <1>a, <2>1
      <4>. QED
        BY <4>1, <4>2
    <3>. QED
      BY <2>1, <3>1, <3>2, <3>3
  <2>. QED
    BY <1>a, <2>2, <2>3, <2>4
<1>5. f[N] = Sums(s)[N] + r[k] - s[k]
  BY <1>1, <1>a
<1>. HIDE DEF f
<1>6. Running(r, Len(r), f)
  BY <1>1, <1>a, <1>3, <1>4 DEF Running
<1>7. SumSeq(r) = f[N]
  BY <1>1, <1>a, <1>6, SumsAre
<1>. QED
  BY <1>5, <1>7 DEF N, SumSeq

LEMMA SumZero ==
  ASSUME NEW s \in Seq(Int), \A i \in 1 .. Len(s) : s[i] = 0
  PROVE  SumSeq(s) = 0
<1>. DEFINE f == [n \in 0 .. Len(s) |-> 0]
<1>1. Running(s, Len(s), f)
  BY DEF Running
<1>. QED
  BY <1>1, SumsAre

LEMMA SumAdd ==
  ASSUME NEW s \in Seq(Int), NEW r \in Seq(Int), NEW q \in Seq(Int), Len(r) = Len(s), Len(q) = Len(s),
         \A i \in 1 .. Len(s) : q[i] = s[i] + r[i]
  PROVE  SumSeq(q) = SumSeq(s) + SumSeq(r)
<1>. DEFINE N == Len(s)
            f == [n \in 0 .. N |-> Sums(s)[n] + Sums(r)[n]]
<1>1. N \in Nat /\ \A i \in 1 .. N : s[i] \in Int /\ r[i] \in Int
  OBVIOUS
<1>2. Running(s, N, Sums(s)) /\ Running(r, N, Sums(r))
  BY SumsRun
<1>. HIDE DEF N
<1>3. f \in [0 .. N -> Int] /\ f[0] = 0
  BY <1>1, <1>2 DEF Running
<1>4. ASSUME NEW n \in 1 .. N PROVE f[n] = f[n - 1] + q[n]
  <2>1. n \in 0 .. N /\ n - 1 \in 0 .. N /\ q[n] = s[n] + r[n] /\ s[n] \in Int /\ r[n] \in Int
    BY <1>1 DEF N
  <2>2. /\ Sums(s)[n] = Sums(s)[n - 1] + s[n] /\ Sums(r)[n] = Sums(r)[n - 1] + r[n]
        /\ Sums(s)[n - 1] \in Int /\ Sums(r)[n - 1] \in Int
    BY <1>2, <2>1 DEF Running
  <2>. QED
    BY <2>1, <2>2
<1>5. f[N] = Sums(s)[N] + Sums(r)[N]
  BY <1>1
<1>. HIDE DEF f
<1>6. Running(q, Len(q), f)
  BY <1>1, <1>3, <1>4 DEF Running, N
<1>7. SumSeq(q) = f[N]
  BY <1>1, <1>6, SumsAre DEF N
<1>. QED
  BY <1>5, <1>7 DEF N, SumSeq

\* The sum of h over the elements in s, and over the numbers below n.
Along(s, h)  == [i \in DOMAIN s |-> h[s[i]]]
Values(n, h) == [i \in 1 .. n |-> h[i - 1]]
Total(n, h)  == SumSeq(Values(n, h))

LEMMA AlongSeq ==
  ASSUME NEW E, NEW s \in Seq(E), NEW h \in [E -> Int]
  PROVE  /\ Along(s, h) \in Seq(Int) /\ Len(Along(s, h)) = Len(s) /\ SumSeq(Along(s, h)) \in Int
         /\ \A i \in 1 .. Len(s) : Along(s, h)[i] = h[s[i]]
<1>1. DOMAIN s = 1 .. Len(s) /\ Len(s) \in Nat /\ \A i \in 1 .. Len(s) : s[i] \in E
  OBVIOUS
<1>2. Along(s, h) \in Seq(Int) /\ Len(Along(s, h)) = Len(s) /\ \A i \in 1 .. Len(s) : Along(s, h)[i] = h[s[i]]
  BY <1>1 DEF Along
<1>. QED
  BY <1>2, SumInt

LEMMA AlongAppend ==
  ASSUME NEW E, NEW s \in Seq(E), NEW h \in [E -> Int], NEW e \in E
  PROVE  SumSeq(Along(Append(s, e), h)) = SumSeq(Along(s, h)) + h[e]
<1>1. Append(s, e) \in Seq(E) /\ Len(Append(s, e)) = Len(s) + 1 /\ Append(s, e)[Len(s) + 1] = e /\ Len(s) \in Nat
  OBVIOUS
<1>2. \A i \in 1 .. Len(s) : Append(s, e)[i] = s[i]
  OBVIOUS
<1>. DEFINE r == Append(s, e)
            u == Along(s, h)
            w == Along(r, h)
            x == h[e]
<1>. HIDE DEF r
<1>3. /\ u \in Seq(Int) /\ Len(u) = Len(s) /\ \A i \in 1 .. Len(s) : u[i] = h[s[i]]
      /\ w \in Seq(Int) /\ Len(w) = Len(r) /\ \A i \in 1 .. Len(r) : w[i] = h[r[i]]
  <2>1. r \in Seq(E)
    BY <1>1 DEF r
  <2>. QED
    BY <2>1, AlongSeq
<1>4. x \in Int
  OBVIOUS
<1>. HIDE DEF u, w, x
<1>5. w[Len(u) + 1] = x /\ \A i \in 1 .. Len(u) : w[i] = u[i]
  BY <1>1, <1>2, <1>3 DEF r, x
<1>6. u \in Seq(Int) /\ w \in Seq(Int) /\ Len(w) = Len(u) + 1
  BY <1>1, <1>3 DEF r
<1>7. w = Append(u, x)
  BY <1>4, <1>5, <1>6
<1>8. SumSeq(w) = SumSeq(u) + x
  BY <1>4, <1>6, <1>7, SumAppend
<1>. QED
  BY <1>8 DEF r, u, w, x

LEMMA AlongConcat ==
  ASSUME NEW E, NEW s \in Seq(E), NEW r \in Seq(E), NEW h \in [E -> Int]
  PROVE  SumSeq(Along(s \o r, h)) = SumSeq(Along(s, h)) + SumSeq(Along(r, h))
<1>1. /\ s \o r \in Seq(E) /\ Len(s \o r) = Len(s) + Len(r) /\ Len(s) \in Nat /\ Len(r) \in Nat
      /\ \A i \in 1 .. Len(s) + Len(r) : (s \o r)[i] = IF i <= Len(s) THEN s[i] ELSE r[i - Len(s)]
  OBVIOUS
<1>. DEFINE u == Along(s, h)
            w == Along(r, h)
            both == s \o r
            q == Along(both, h)
<1>. HIDE DEF both
<1>2. /\ u \in Seq(Int) /\ Len(u) = Len(s) /\ \A i \in 1 .. Len(s) : u[i] = h[s[i]]
      /\ w \in Seq(Int) /\ Len(w) = Len(r) /\ \A i \in 1 .. Len(r) : w[i] = h[r[i]]
      /\ q \in Seq(Int) /\ Len(q) = Len(s) + Len(r) /\ \A i \in 1 .. Len(s) + Len(r) : q[i] = h[(s \o r)[i]]
  <2>1. both \in Seq(E) /\ Len(both) = Len(s) + Len(r)
    BY <1>1 DEF both
  <2>2. q \in Seq(Int) /\ Len(q) = Len(both) /\ \A i \in 1 .. Len(both) : q[i] = h[both[i]]
    BY <2>1, AlongSeq
  <2>3. \A i \in 1 .. Len(s) + Len(r) : q[i] = h[(s \o r)[i]]
    BY <2>1, <2>2 DEF both
  <2>4. u \in Seq(Int) /\ Len(u) = Len(s) /\ \A i \in 1 .. Len(s) : u[i] = h[s[i]]
    BY AlongSeq
  <2>5. w \in Seq(Int) /\ Len(w) = Len(r) /\ \A i \in 1 .. Len(r) : w[i] = h[r[i]]
    BY AlongSeq
  <2>. QED
    BY <2>1, <2>2, <2>3, <2>4, <2>5
<1>. HIDE DEF u, w, q
<1>3. ASSUME NEW i \in 1 .. Len(u) + Len(w) PROVE q[i] = IF i <= Len(u) THEN u[i] ELSE w[i - Len(u)]
  <2>1. CASE i <= Len(s)
    BY <1>1, <1>2, <2>1
  <2>2. CASE ~(i <= Len(s))
    <3>1. i - Len(s) \in 1 .. Len(r)
      BY <1>1, <1>2, <2>2
    <3>2. i \in 1 .. Len(s) + Len(r)
      BY <1>2
    <3>3. (s \o r)[i] = r[i - Len(s)]
      BY <1>1, <2>2, <3>2
    <3>4. q[i] = h[(s \o r)[i]] /\ w[i - Len(s)] = h[r[i - Len(s)]]
      BY <1>2, <3>1, <3>2
    <3>. QED
      BY <1>2, <2>2, <3>3, <3>4
  <2>. QED
    BY <1>2, <2>1, <2>2
<1>4. q = u \o w
  <2>. DEFINE z == u \o w
  <2>1. z \in Seq(Int) /\ Len(z) = Len(u) + Len(w) /\ Len(u) \in Nat /\ Len(w) \in Nat
    BY <1>2
  <2>2. \A i \in 1 .. Len(u) + Len(w) : z[i] = IF i <= Len(u) THEN u[i] ELSE w[i - Len(u)]
    <3>1. u \in Seq(Int) /\ w \in Seq(Int)
      BY <1>2
    <3>. QED
      BY <3>1
  <2>. HIDE DEF z
  <2>3. \A i \in 1 .. Len(u) + Len(w) : z[i] = q[i]
    BY <1>3, <2>2
  <2>4. Len(q) = Len(z) /\ q \in Seq(Int) /\ DOMAIN q = 1 .. Len(q) /\ DOMAIN z = 1 .. Len(z)
    BY <1>2, <2>1
  <2>5. q = [i \in 1 .. Len(u) + Len(w) |-> q[i]] /\ z = [i \in 1 .. Len(u) + Len(w) |-> z[i]]
    BY <2>1, <2>4
  <2>6. q = z
    BY <2>3, <2>5
  <2>. QED
    BY <2>6 DEF z
<1>5. SumSeq(q) = SumSeq(u) + SumSeq(w)
  BY <1>2, <1>4, SumConcat
<1>. QED
  BY <1>5 DEF u, w, q, both

LEMMA ValuesSeq ==
  ASSUME NEW n \in Nat, NEW h \in [0 .. n - 1 -> Int]
  PROVE  /\ Values(n, h) \in Seq(Int) /\ Len(Values(n, h)) = n /\ Total(n, h) \in Int
         /\ \A i \in 1 .. n : Values(n, h)[i] = h[i - 1]
<1>1. \A i \in 1 .. n : i - 1 \in 0 .. n - 1
  OBVIOUS
<1>2. Values(n, h) \in Seq(Int) /\ Len(Values(n, h)) = n /\ \A i \in 1 .. n : Values(n, h)[i] = h[i - 1]
  BY <1>1 DEF Values
<1>. QED
  BY <1>2, SumInt DEF Total

LEMMA TotalUpdate ==
  ASSUME NEW n \in Nat, NEW h \in [0 .. n - 1 -> Int], NEW g \in [0 .. n - 1 -> Int], NEW k \in 0 .. n - 1,
         \A i \in 0 .. n - 1 : i # k => g[i] = h[i]
  PROVE  Total(n, g) = Total(n, h) + g[k] - h[k]
<1>. DEFINE u == Values(n, h)
            w == Values(n, g)
<1>1. /\ u \in Seq(Int) /\ Len(u) = n /\ \A i \in 1 .. n : u[i] = h[i - 1]
      /\ w \in Seq(Int) /\ Len(w) = n /\ \A i \in 1 .. n : w[i] = g[i - 1]
  BY ValuesSeq
<1>2. k + 1 \in 1 .. n /\ (k + 1) - 1 = k /\ \A i \in 1 .. n : i # k + 1 => i - 1 \in 0 .. n - 1 /\ i - 1 # k
  OBVIOUS
<1>. HIDE DEF u, w
<1>3. \A i \in 1 .. n : i # k + 1 => w[i] = u[i]
  BY <1>1, <1>2
<1>4. u[k + 1] = h[k] /\ w[k + 1] = g[k]
  BY <1>1, <1>2
<1>5. SumSeq(w) = SumSeq(u) + w[k + 1] - u[k + 1]
  <2>. DEFINE m == k + 1
  <2>1. m \in 1 .. Len(u) /\ Len(w) = Len(u) /\ \A i \in 1 .. Len(u) : i # m => w[i] = u[i]
    BY <1>1, <1>2, <1>3
  <2>. HIDE DEF m
  <2>2. SumSeq(w) = SumSeq(u) + w[m] - u[m]
    BY <1>1, <2>1, SumUpdate
  <2>. QED
    BY <2>2 DEF m
<1>. QED
  BY <1>4, <1>5 DEF u, w, Total

LEMMA TotalZero ==
  ASSUME NEW n \in Nat, NEW h \in [0 .. n - 1 -> Int], \A i \in 0 .. n - 1 : h[i] = 0
  PROVE  Total(n, h) = 0
<1>1. Values(n, h) \in Seq(Int) /\ Len(Values(n, h)) = n /\ \A i \in 1 .. n : Values(n, h)[i] = h[i - 1]
  BY ValuesSeq
<1>2. \A i \in 1 .. n : i - 1 \in 0 .. n - 1
  OBVIOUS
<1>. QED
  BY <1>1, <1>2, SumZero DEF Total

LEMMA TotalAdd ==
  ASSUME NEW n \in Nat, NEW h \in [0 .. n - 1 -> Int], NEW g \in [0 .. n - 1 -> Int], NEW q \in [0 .. n - 1 -> Int],
         \A i \in 0 .. n - 1 : q[i] = h[i] + g[i]
  PROVE  Total(n, q) = Total(n, h) + Total(n, g)
<1>. DEFINE u == Values(n, h)
            w == Values(n, g)
            v == Values(n, q)
<1>1. /\ u \in Seq(Int) /\ Len(u) = n /\ \A i \in 1 .. n : u[i] = h[i - 1]
      /\ w \in Seq(Int) /\ Len(w) = n /\ \A i \in 1 .. n : w[i] = g[i - 1]
      /\ v \in Seq(Int) /\ Len(v) = n /\ \A i \in 1 .. n : v[i] = q[i - 1]
  BY ValuesSeq
<1>2. \A i \in 1 .. n : i - 1 \in 0 .. n - 1
  OBVIOUS
<1>. HIDE DEF u, w, v
<1>3. \A i \in 1 .. n : v[i] = u[i] + w[i]
  BY <1>1, <1>2
<1>4. SumSeq(v) = SumSeq(u) + SumSeq(w)
  <2>1. Len(w) = Len(u) /\ Len(v) = Len(u) /\ \A i \in 1 .. Len(u) : v[i] = u[i] + w[i]
    BY <1>1, <1>3
  <2>. QED
    BY <1>1, <2>1, SumAdd
<1>. QED
  BY <1>4 DEF u, w, v, Total

\* Only the places in the range of an injection count.
LEMMA Reindex ==
  ASSUME NEW n \in Nat, NEW h \in [0 .. n - 1 -> Int], NEW at \in Seq(0 .. n - 1),
         \A i, j \in 1 .. Len(at) : at[i] = at[j] => i = j,
         \A k \in 0 .. n - 1 : h[k] # 0 => \E i \in 1 .. Len(at) : at[i] = k
  PROVE  SumSeq(Along(at, h)) = Total(n, h)
<1>. DEFINE N == Len(at)
            E == 0 .. n - 1
            Reached(j) == {at[i] : i \in 1 .. j}
            part(j) == [k \in E |-> IF k \in Reached(j) THEN h[k] ELSE 0]
            f == [j \in 0 .. N |-> Total(n, part(j))]
<1>1. N \in Nat /\ \A i \in 1 .. N : at[i] \in E
  OBVIOUS
<1>2. \A j \in 0 .. N : part(j) \in [E -> Int]
  OBVIOUS
<1>3. \A j \in 0 .. N : Total(n, part(j)) \in Int
  <2>1. ASSUME NEW j \in 0 .. N PROVE Total(n, part(j)) \in Int
    <3>. DEFINE g == part(j)
    <3>1. g \in [E -> Int]
      BY <1>2
    <3>. HIDE DEF g, part
    <3>2. Total(n, g) \in Int
      BY <3>1, ValuesSeq
    <3>. QED
      BY <3>2 DEF g
  <2>. QED
    BY <2>1
<1>4. Total(n, part(0)) = 0
  <2>. DEFINE g == part(0)
  <2>1. g \in [E -> Int] /\ \A k \in E : g[k] = 0
    BY <1>1, <1>2
  <2>. HIDE DEF g, part
  <2>2. Total(n, g) = 0
    BY <2>1, TotalZero
  <2>. QED
    BY <2>2 DEF g
<1>5. ASSUME NEW j \in 1 .. N PROVE Total(n, part(j)) = Total(n, part(j - 1)) + h[at[j]]
  <2>. DEFINE g == part(j)
              p == part(j - 1)
              k == at[j]
  <2>1. j \in 0 .. N /\ j - 1 \in 0 .. N /\ k \in E
    BY <1>1
  <2>2. g \in [E -> Int] /\ p \in [E -> Int]
    BY <1>2, <2>1
  <2>3. \A i \in 1 .. j : i \in 1 .. j - 1 \/ i = j
    BY <1>1
  <2>4. \A i \in 1 .. j - 1 : i \in 1 .. N /\ i \in 1 .. j /\ i # j
    BY <1>1
  <2>5. k \in Reached(j) /\ k \notin Reached(j - 1)
    BY <1>1, <2>4
  <2>6. ASSUME NEW i \in E, i # k PROVE i \in Reached(j) <=> i \in Reached(j - 1)
    BY <2>3, <2>4, <2>6
  <2>. HIDE DEF Reached
  <2>7. \A i \in E : i # k => g[i] = p[i]
    BY <2>6
  <2>8. g[k] = h[k] /\ p[k] = 0
    BY <2>1, <2>5
  <2>9. h[k] \in Int
    BY <2>1
  <2>. HIDE DEF g, p, k, part
  <2>10. Total(n, g) = Total(n, p) + g[k] - p[k]
    <3>1. p \in [0 .. n - 1 -> Int] /\ g \in [0 .. n - 1 -> Int] /\ k \in 0 .. n - 1
      BY <2>1, <2>2
    <3>2. \A i \in 0 .. n - 1 : i # k => g[i] = p[i]
      BY <2>7
    <3>3. n \in Nat
      OBVIOUS
    <3>. QED
      BY ONLY <3>1, <3>2, <3>3, TotalUpdate
  <2>11. Total(n, p) \in Int
    BY <2>2, ValuesSeq
  <2>12. Total(n, g) = Total(n, p) + h[k]
    BY <2>8, <2>9, <2>10, <2>11
  <2>. QED
    BY <2>12 DEF g, p, k
<1>6. part(N) = h
  <2>1. \A k \in E : k \notin Reached(N) => h[k] = 0
    OBVIOUS
  <2>. HIDE DEF Reached
  <2>. QED
    BY <2>1
<1>. DEFINE s == Along(at, h)
<1>7. s \in Seq(Int) /\ Len(s) = N /\ \A i \in 1 .. N : s[i] = h[at[i]]
  BY AlongSeq
<1>. HIDE DEF part, s, N
<1>8. Running(s, Len(s), f)
  <2>1. f \in [0 .. N -> Int] /\ f[0] = 0
    BY <1>1, <1>3, <1>4
  <2>2. \A j \in 1 .. N : j \in 0 .. N /\ j - 1 \in 0 .. N
    BY <1>1
  <2>3. ASSUME NEW j \in 1 .. N PROVE f[j] = f[j - 1] + s[j]
    BY <1>5, <1>7, <2>2
  <2>. QED
    BY <1>7, <2>1, <2>3 DEF Running
<1>9. f[N] = Total(n, h)
  BY <1>1, <1>6
<1>. HIDE DEF f
<1>. QED
  BY <1>7, <1>8, <1>9, SumsAre DEF s

-----------------------------------------------------------------------------
(* The wires.  What the loops of swap_cost and of total_routing_cost add up  *)
(* to, of n elements with the fans w (or ins and outs) placed by l.          *)

Point         == Int \X Int
Below(n)      == 0 .. n - 1
Nets(n)       == [Below(n) -> Seq(Below(n))]
Placements(n) == [Below(n) -> Point]

From(n, l, e)         == [x \in Below(n) |-> Distance(l[e], l[x])]
Lengths(n, w, l)      == [e \in Below(n) |-> SumSeq(Along(w[e], From(n, l, e)))]
Length(n, w, l)       == Total(n, Lengths(n, w, l))
Moved(n, l, x, y)     == [z \in Below(n) |-> FanCost(l[x], l[y], l[z])]
SwapCost(n, s, l, x, y) == SumSeq(Along(s, Moved(n, l, x, y)))

LEMMA DistanceInt ==
  ASSUME NEW p \in Point, NEW q \in Point
  PROVE  Distance(p, q) \in Int /\ Distance(p, q) = Distance(q, p) /\ Distance(p, q) >= 0 /\ Distance(p, p) = 0
<1>1. p[1] \in Int /\ p[2] \in Int /\ q[1] \in Int /\ q[2] \in Int
  BY DEF Point
<1>. QED
  BY <1>1 DEF Distance, Abs

LEMMA FromType ==
  ASSUME NEW n \in Nat, NEW l \in Placements(n), NEW e \in Below(n)
  PROVE  From(n, l, e) \in [Below(n) -> Int]
BY DistanceInt DEF From, Placements

LEMMA MovedType ==
  ASSUME NEW n \in Nat, NEW l \in Placements(n), NEW x \in Below(n), NEW y \in Below(n)
  PROVE  /\ Moved(n, l, x, y) \in [Below(n) -> Int]
         /\ \A z \in Below(n) : Moved(n, l, x, y)[z] = Distance(l[y], l[z]) - Distance(l[x], l[z])
<1>1. \A z \in Below(n) : Distance(l[y], l[z]) \in Int /\ Distance(l[x], l[z]) \in Int
  BY DistanceInt DEF Placements
<1>. QED
  BY <1>1 DEF Moved, FanCost

LEMMA LengthsType ==
  ASSUME NEW n \in Nat, NEW w \in Nets(n), NEW l \in Placements(n)
  PROVE  /\ Lengths(n, w, l) \in [Below(n) -> Int] /\ Length(n, w, l) \in Int
         /\ \A e \in Below(n) : Lengths(n, w, l)[e] = SumSeq(Along(w[e], From(n, l, e)))
<1>1. ASSUME NEW e \in Below(n) PROVE SumSeq(Along(w[e], From(n, l, e))) \in Int
  <2>1. w[e] \in Seq(Below(n)) /\ From(n, l, e) \in [Below(n) -> Int]
    BY FromType DEF Nets
  <2>. QED
    BY <2>1, AlongSeq
<1>2. /\ Lengths(n, w, l) \in [Below(n) -> Int]
      /\ \A e \in Below(n) : Lengths(n, w, l)[e] = SumSeq(Along(w[e], From(n, l, e)))
  BY <1>1 DEF Lengths
<1>3. Length(n, w, l) \in Int
  BY <1>2, ValuesSeq DEF Length, Below
<1>. QED
  BY <1>2, <1>3

\* One more fan of p.
LEMMA LengthAppend ==
  ASSUME NEW n \in Nat, NEW w \in Nets(n), NEW v \in Nets(n), NEW l \in Placements(n), NEW p \in Below(n), NEW f \in Below(n),
         v[p] = Append(w[p], f), \A e \in Below(n) : e # p => v[e] = w[e]
  PROVE  Length(n, v, l) = Length(n, w, l) + Distance(l[p], l[f])
<1>. DEFINE g == Lengths(n, w, l)
            h == Lengths(n, v, l)
<1>1. /\ g \in [Below(n) -> Int] /\ \A e \in Below(n) : g[e] = SumSeq(Along(w[e], From(n, l, e)))
      /\ h \in [Below(n) -> Int] /\ \A e \in Below(n) : h[e] = SumSeq(Along(v[e], From(n, l, e)))
      /\ Length(n, w, l) = Total(n, g) /\ Length(n, v, l) = Total(n, h) /\ Total(n, g) \in Int
  BY LengthsType DEF Length
<1>2. h[p] = g[p] + Distance(l[p], l[f])
  <2>1. w[p] \in Seq(Below(n)) /\ From(n, l, p) \in [Below(n) -> Int] /\ From(n, l, p)[f] = Distance(l[p], l[f])
    BY FromType DEF Nets, From
  <2>2. SumSeq(Along(Append(w[p], f), From(n, l, p))) = SumSeq(Along(w[p], From(n, l, p))) + From(n, l, p)[f]
    BY <2>1, AlongAppend
  <2>. QED
    BY <1>1, <2>1, <2>2
<1>. HIDE DEF g, h
<1>3. \A e \in Below(n) : e # p => h[e] = g[e]
  BY <1>1
<1>4. Total(n, h) = Total(n, g) + h[p] - g[p]
  BY <1>1, <1>3, TotalUpdate DEF Below
<1>5. Distance(l[p], l[f]) \in Int /\ g[p] \in Int
  BY <1>1, DistanceInt DEF Placements
<1>. QED
  BY <1>1, <1>2, <1>4, <1>5

\* What a wire from p to f adds to the cost of moving x to y's place.
Extra(l, p, f, x, y) ==
  (IF x = p THEN FanCost(l[x], l[y], l[f]) ELSE 0) + (IF x = f THEN FanCost(l[x], l[y], l[p]) ELSE 0)

\* ins2 and outs2 have one wire more than ins and outs, from f to p.
OneMore(n, ins, outs, ins2, outs2, p, f) ==
  /\ ins \in Nets(n) /\ outs \in Nets(n) /\ ins2 \in Nets(n) /\ outs2 \in Nets(n)
  /\ p \in Below(n) /\ f \in Below(n) /\ p # f
  /\ ins2[p] = Append(ins[p], f) /\ \A e \in Below(n) : e # p => ins2[e] = ins[e]
  /\ outs2[f] = Append(outs[f], p) /\ \A e \in Below(n) : e # f => outs2[e] = outs[e]

LEMMA SwapCostAppend ==
  ASSUME NEW n \in Nat, NEW ins, NEW outs, NEW ins2, NEW outs2, NEW p, NEW f, OneMore(n, ins, outs, ins2, outs2, p, f),
         NEW l \in Placements(n), NEW x \in Below(n), NEW y \in Below(n)
  PROVE  /\ SwapCost(n, ins2[x] \o outs2[x], l, x, y) = SwapCost(n, ins[x] \o outs[x], l, x, y) + Extra(l, p, f, x, y)
         /\ SwapCost(n, ins[x] \o outs[x], l, x, y) \in Int
<1>. DEFINE m == Moved(n, l, x, y)
            E == Below(n)
<1>. USE DEF OneMore
<1>1. m \in [E -> Int] /\ m[f] = FanCost(l[x], l[y], l[f]) /\ m[p] = FanCost(l[x], l[y], l[p])
  BY MovedType DEF Moved
<1>2. ins[x] \in Seq(E) /\ outs[x] \in Seq(E) /\ ins2[x] \in Seq(E) /\ outs2[x] \in Seq(E) /\ p \in E /\ f \in E
  BY DEF Nets
<1>. HIDE DEF m, E
<1>3. /\ SumSeq(Along(ins[x] \o outs[x], m)) = SumSeq(Along(ins[x], m)) + SumSeq(Along(outs[x], m))
      /\ SumSeq(Along(ins2[x] \o outs2[x], m)) = SumSeq(Along(ins2[x], m)) + SumSeq(Along(outs2[x], m))
  BY <1>1, <1>2, AlongConcat
<1>4. SumSeq(Along(ins[x], m)) \in Int /\ SumSeq(Along(outs[x], m)) \in Int
  BY <1>1, <1>2, AlongSeq
<1>5. SumSeq(Along(ins2[x], m)) = SumSeq(Along(ins[x], m)) + IF x = p THEN m[f] ELSE 0
  <2>1. CASE x = p
    <3>1. SumSeq(Along(Append(ins[x], f), m)) = SumSeq(Along(ins[x], m)) + m[f]
      <4>. DEFINE s == ins[x]
      <4>1. s \in Seq(E) /\ m \in [E -> Int] /\ f \in E
        BY <1>1, <1>2
      <4>. HIDE DEF s
      <4>2. SumSeq(Along(Append(s, f), m)) = SumSeq(Along(s, m)) + m[f]
        BY <4>1, AlongAppend
      <4>. QED
        BY <4>2 DEF s
    <3>. QED
      BY <2>1, <3>1
  <2>2. CASE x # p
    BY <1>4, <2>2
  <2>. QED
    BY <2>1, <2>2
<1>6. SumSeq(Along(outs2[x], m)) = SumSeq(Along(outs[x], m)) + IF x = f THEN m[p] ELSE 0
  <2>1. CASE x = f
    <3>1. SumSeq(Along(Append(outs[x], p), m)) = SumSeq(Along(outs[x], m)) + m[p]
      <4>. DEFINE s == outs[x]
      <4>1. s \in Seq(E) /\ m \in [E -> Int] /\ p \in E
        BY <1>1, <1>2
      <4>. HIDE DEF s
      <4>2. SumSeq(Along(Append(s, p), m)) = SumSeq(Along(s, m)) + m[p]
        BY <4>1, AlongAppend
      <4>. QED
        BY <4>2 DEF s
    <3>. QED
      BY <2>1, <3>1
  <2>2. CASE x # f
    BY <1>4, <2>2
  <2>. QED
    BY <2>1, <2>2
<1>7. m[p] \in Int /\ m[f] \in Int
  BY <1>1 DEF E
<1>8. Extra(l, p, f, x, y) = (IF x = p THEN m[f] ELSE 0) + (IF x = f THEN m[p] ELSE 0)
  BY <1>1 DEF Extra
<1>. QED
  BY <1>3, <1>4, <1>5, <1>6, <1>7, <1>8 DEF SwapCost, m

\* The cost of a swap counts the wires between the two elements as if the other
\* one stayed: no less than their lengths is missing.
LEMMA OneWire ==
  ASSUME NEW n \in Nat, NEW l \in Placements(n), NEW p \in Below(n), NEW f \in Below(n), p # f,
         NEW x \in Below(n), NEW y \in Below(n), x # y
  PROVE  /\ Swapped(l, x, y) \in Placements(n) /\ Extra(l, p, f, x, y) \in Int /\ Extra(l, p, f, y, x) \in Int
         /\ Extra(l, p, f, x, y) + Extra(l, p, f, y, x)
              <= Distance(Swapped(l, x, y)[p], Swapped(l, x, y)[f]) - Distance(l[p], l[f])
<1>. DEFINE k == Swapped(l, x, y)
            d(u, w) == Distance(l[u], l[w])
<1>1. \A u, w \in Below(n) : d(u, w) \in Int /\ d(u, w) = d(w, u) /\ d(u, w) >= 0 /\ d(u, u) = 0
  BY DistanceInt DEF Placements
<1>2. k \in Placements(n) /\ k[x] = l[y] /\ k[y] = l[x] /\ \A e \in Below(n) : e \notin {x, y} => k[e] = l[e]
  BY DEF Swapped, Placements
<1>3. /\ Extra(l, p, f, x, y) = (IF x = p THEN d(y, f) - d(x, f) ELSE 0) + (IF x = f THEN d(y, p) - d(x, p) ELSE 0)
      /\ Extra(l, p, f, y, x) = (IF y = p THEN d(x, f) - d(y, f) ELSE 0) + (IF y = f THEN d(x, p) - d(y, p) ELSE 0)
  BY DEF Extra, FanCost
<1>4. Extra(l, p, f, x, y) \in Int /\ Extra(l, p, f, y, x) \in Int
  BY <1>1, <1>3
<1>. DEFINE moved(u) == IF u = x THEN y ELSE IF u = y THEN x ELSE u
<1>5. \A u \in Below(n) : moved(u) \in Below(n) /\ k[u] = l[moved(u)]
  BY <1>2
<1>6. Distance(k[p], k[f]) = d(moved(p), moved(f))
  BY <1>5
<1>. HIDE DEF k, d
<1>7. Extra(l, p, f, x, y) + Extra(l, p, f, y, x) <= d(moved(p), moved(f)) - d(p, f)
  <2>1. CASE p = x /\ f = y
    <3>1. moved(p) = y /\ moved(f) = x /\ d(y, x) = d(x, y) /\ d(y, y) = 0 /\ d(x, x) = 0 /\ d(x, y) \in Int /\ d(x, y) >= 0
      BY <1>1, <2>1
    <3>. QED
      BY <1>3, <2>1, <3>1
  <2>2. CASE p = y /\ f = x
    <3>1. moved(p) = x /\ moved(f) = y /\ d(y, x) = d(x, y) /\ d(y, y) = 0 /\ d(x, x) = 0 /\ d(x, y) \in Int /\ d(x, y) >= 0
      BY <1>1, <2>2
    <3>. QED
      BY <1>3, <2>2, <3>1
  <2>3. CASE p \in {x, y} /\ f \notin {x, y}
    <3>1. moved(f) = f /\ d(x, f) \in Int /\ d(y, f) \in Int
      BY <1>1, <2>3
    <3>. QED
      BY <1>3, <2>3, <3>1
  <2>4. CASE p \notin {x, y} /\ f \in {x, y}
    <3>1. /\ moved(p) = p /\ d(x, p) \in Int /\ d(y, p) \in Int /\ d(x, p) = d(p, x) /\ d(y, p) = d(p, y)
      BY <1>1, <2>4
    <3>. QED
      BY <1>3, <2>4, <3>1
  <2>5. CASE p \notin {x, y} /\ f \notin {x, y}
    <3>1. moved(p) = p /\ moved(f) = f /\ d(p, f) \in Int
      BY <1>1, <2>5
    <3>. QED
      BY <1>3, <2>5, <3>1
  <2>. QED
    BY <2>1, <2>2, <2>3, <2>4, <2>5
<1>. QED
  BY <1>2, <1>4, <1>6, <1>7 DEF k, d

\* The wires read so far: each is once in the fanins and once in the fanouts,
\* and the cost of a swap is at most what it does to their length.
Accounts(n, ins, outs) ==
  /\ \A l \in Placements(n) : Length(n, ins, l) = Length(n, outs, l)
  /\ \A l \in Placements(n) : \A x, y \in Below(n) : x # y =>
       SwapCost(n, ins[x] \o outs[x], l, x, y) + SwapCost(n, ins[y] \o outs[y], l, y, x)
         <= Length(n, ins, Swapped(l, x, y)) - Length(n, ins, l)

LEMMA AccountsEmpty ==
  ASSUME NEW n \in Nat, NEW ins \in Nets(n), NEW outs \in Nets(n),
         \A e \in Below(n) : ins[e] = <<>> /\ outs[e] = <<>>
  PROVE  Accounts(n, ins, outs)
<1>1. ASSUME NEW h, NEW s, s = <<>> PROVE SumSeq(Along(s, h)) = 0
  <2>1. Along(s, h) = <<>>
    BY <1>1 DEF Along
  <2>. QED
    BY <2>1, SumEmpty
<1>2. ASSUME NEW l \in Placements(n), NEW w \in Nets(n), \A e \in Below(n) : w[e] = <<>> PROVE Length(n, w, l) = 0
  <2>. DEFINE h == Lengths(n, w, l)
  <2>1. h \in [Below(n) -> Int] /\ \A e \in Below(n) : h[e] = 0
    BY <1>1, <1>2, LengthsType
  <2>. HIDE DEF h
  <2>2. Total(n, h) = 0
    BY <2>1, TotalZero DEF Below
  <2>. QED
    BY <2>2 DEF h, Length
<1>3. ASSUME NEW l \in Placements(n), NEW x \in Below(n), NEW y \in Below(n) PROVE SwapCost(n, ins[x] \o outs[x], l, x, y) = 0
  <2>1. ins[x] \o outs[x] = <<>>
    BY SMT
  <2>. QED
    BY <1>1, <2>1 DEF SwapCost
<1>4. ASSUME NEW l \in Placements(n), NEW x \in Below(n), NEW y \in Below(n) PROVE Swapped(l, x, y) \in Placements(n)
  BY DEF Swapped, Placements
<1>5. \A l \in Placements(n) : Length(n, ins, l) = 0 /\ Length(n, outs, l) = 0
  BY <1>2
<1>. QED
  BY <1>3, <1>4, <1>5 DEF Accounts

LEMMA AccountsAppend ==
  ASSUME NEW n \in Nat, NEW ins, NEW outs, NEW ins2, NEW outs2, NEW p, NEW f, OneMore(n, ins, outs, ins2, outs2, p, f),
         Accounts(n, ins, outs)
  PROVE  Accounts(n, ins2, outs2)
<1>1. ASSUME NEW l \in Placements(n)
      PROVE  /\ Length(n, ins2, l) = Length(n, ins, l) + Distance(l[p], l[f])
             /\ Length(n, outs2, l) = Length(n, outs, l) + Distance(l[p], l[f])
             /\ Length(n, ins, l) \in Int /\ Distance(l[p], l[f]) \in Int
  <2>1. Length(n, ins2, l) = Length(n, ins, l) + Distance(l[p], l[f])
    BY LengthAppend DEF OneMore
  <2>2. Length(n, outs2, l) = Length(n, outs, l) + Distance(l[f], l[p])
    BY LengthAppend DEF OneMore
  <2>3. Distance(l[p], l[f]) = Distance(l[f], l[p]) /\ Distance(l[p], l[f]) \in Int
    BY DistanceInt DEF Placements, OneMore
  <2>. QED
    BY <2>1, <2>2, <2>3, LengthsType DEF OneMore
<1>2. \A l \in Placements(n) : Length(n, ins2, l) = Length(n, outs2, l)
  BY <1>1 DEF Accounts
<1>3. ASSUME NEW l \in Placements(n), NEW x \in Below(n), NEW y \in Below(n), x # y
      PROVE  SwapCost(n, ins2[x] \o outs2[x], l, x, y) + SwapCost(n, ins2[y] \o outs2[y], l, y, x)
               <= Length(n, ins2, Swapped(l, x, y)) - Length(n, ins2, l)
  <2>. DEFINE k == Swapped(l, x, y)
              c == SwapCost(n, ins[x] \o outs[x], l, x, y)
              d == SwapCost(n, ins[y] \o outs[y], l, y, x)
              c2 == SwapCost(n, ins2[x] \o outs2[x], l, x, y)
              d2 == SwapCost(n, ins2[y] \o outs2[y], l, y, x)
              u == Extra(l, p, f, x, y)
              v == Extra(l, p, f, y, x)
  <2>1. c2 = c + u /\ c \in Int
    BY SwapCostAppend
  <2>2. d2 = d + v /\ d \in Int
    BY SwapCostAppend
  <2>3. k \in Placements(n) /\ u \in Int /\ v \in Int /\ u + v <= Distance(k[p], k[f]) - Distance(l[p], l[f])
    BY <1>3, OneWire DEF OneMore
  <2>4. c + d <= Length(n, ins, k) - Length(n, ins, l)
    BY <1>3 DEF Accounts
  <2>. HIDE DEF k, c, d, c2, d2, u, v
  <2>5. /\ Length(n, ins2, l) = Length(n, ins, l) + Distance(l[p], l[f])
        /\ Length(n, ins, l) \in Int /\ Distance(l[p], l[f]) \in Int
        /\ Length(n, ins2, k) = Length(n, ins, k) + Distance(k[p], k[f])
        /\ Length(n, ins, k) \in Int /\ Distance(k[p], k[f]) \in Int
    BY <1>1, <2>3
  <2>6. c2 + d2 <= Length(n, ins2, k) - Length(n, ins2, l)
    BY <2>1, <2>2, <2>3, <2>4, <2>5
  <2>. QED
    BY <2>6 DEF c2, d2, k
<1>. QED
  BY <1>2, <1>3 DEF Accounts

\* Only elements of the file have fanins.
Driven ==
  \A e \in Elem : fanins[e] # <<>> =>
    \E i \in DOMAIN file.entries : file.entries[i].name \in DOMAIN elemNames /\ e = elemNames[file.entries[i].name]

Accounted == reading \in {"entries", "built"} => Accounts(ChipSize, fanins, fanouts) /\ Driven

\* The terms of the cost of swapping x and y, in the order of the loops.
CostList(x, y) == Along(Fans(x), Moved(ChipSize, loc, x, y)) \o Along(Fans(y), Moved(ChipSize, loc, y, x))

\* As long as nobody else swaps, the cost so far is that of the fans seen.
Costing(t) ==
  /\ pc[t] \in Places => a[t] # b[t]
  /\ pc[t] \in {"bLoc", "cost"} /\ fresh[t] => aLoc[t] = loc[a[t]]
  /\ pc[t] = "cost" => fan[t] \in 1 .. Len(Fans(a[t])) + Len(Fans(b[t])) + 1
  /\ pc[t] = "cost" /\ fresh[t] => bLoc[t] = loc[b[t]] /\ delta[t] = Sums(CostList(a[t], b[t]))[fan[t] - 1]

Costed ==
  /\ main # "netlist" => reading = "built"
  /\ DOMAIN aLoc = Thread /\ DOMAIN bLoc = Thread /\ DOMAIN fan = Thread /\ DOMAIN delta = Thread /\ DOMAIN fresh = Thread
  /\ \A t \in Thread : Costing(t)

CInv == IInv /\ Accounted /\ Costed

-----------------------------------------------------------------------------
LEMMA NotBlank ==
  ASSUME file \in Files, NEW i \in DOMAIN List, List[i].fanins # <<>>
  PROVE  i \in DOMAIN file.entries /\ List[i] = file.entries[i]
<1>. DEFINE es == file.entries
            blank == [name |-> Blank, fanins |-> <<>>]
<1>1. List = IF file.newline THEN Append(es, blank) ELSE es
  BY DEF List, Iterations
<1>2. DOMAIN es = 1 .. Len(es) /\ Len(es) \in Nat /\ List \in Seq(Entry) /\ \A j \in DOMAIN es : List[j] = es[j]
  BY ListFacts
<1>3. blank.fanins = <<>>
  OBVIOUS
<1>4. es \in Seq([name : Names(file), fanins : Seq(Names(file))])
  BY FilesAssumption, Zenon
<1>. HIDE DEF es, blank
<1>5. CASE file.newline
  <2>1. Len(List) = Len(es) + 1 /\ List[Len(es) + 1] = blank
    BY <1>1, <1>2, <1>4, <1>5
  <2>2. i \in 1 .. Len(es) + 1 /\ i # Len(es) + 1
    BY <1>2, <1>3, <2>1
  <2>. QED
    BY <1>2, <2>2 DEF es
<1>6. CASE ~file.newline
  BY <1>1, <1>6 DEF es
<1>. QED
  BY <1>5, <1>6

LEMMA ReadFaninWire ==
  ASSUME file \in Files, Reader, ReadFanin
  PROVE  /\ \E f : OneMore(ChipSize, fanins, fanouts, fanins', fanouts', present, f)
         /\ \E i \in DOMAIN file.entries : file.entries[i].name \in DOMAIN elemNames /\ present = elemNames[file.entries[i].name]
         /\ DOMAIN elemNames \subseteq DOMAIN elemNames' /\ \A n \in DOMAIN elemNames : elemNames'[n] = elemNames[n]
<1>. DEFINE P == Position
            rest == entries[1].fanins
            name == Head(rest)
            f == Element(name)
            me == List[P].name
<1>1. present # -1 /\ HeaderFits(file) /\ Suffix /\ Named /\ Wired
  BY DEF ReadFanin, Reader
<1>2. entries # <<>> /\ Head(entries) = entries[1] /\ P \in DOMAIN List
  BY <1>1, PositionFacts DEF Suffix
<1>3. rest \in Seq(Names(file)) /\ rest # <<>> /\ Done \in Nat /\ List[P].fanins \in Seq(Names(file))
  BY <1>1, <1>2, PositionFacts DEF ReadFanin
<1>4. name \in Names(file) /\ name \in AllNames /\ name = rest[1] /\ 1 \in DOMAIN rest
  BY <1>3 DEF AllNames
<1>5. /\ create_elem_if_necessary(name) /\ file' = file
      /\ fanins' = [fanins EXCEPT ![present] = Append(@, f)]
      /\ fanouts' = [fanouts EXCEPT ![f] = Append(@, present)]
  BY <1>1, <1>2, <1>4, RoomForName DEF ReadFanin
<1>6. me \in DOMAIN elemNames /\ present = elemNames[me]
  BY <1>1, <1>2 DEF Suffix
<1>7. name = List[P].fanins[Done + 1] /\ Done + 1 \in 1 .. Len(List[P].fanins)
  <2>1. rest[1] = List[P].fanins[Done + 1] /\ Len(rest) <= Len(List[P].fanins) /\ Done = Len(List[P].fanins) - Len(rest)
    BY <1>1, <1>2, <1>4 DEF Suffix, Done
  <2>2. Len(rest) \in Nat \ {0} /\ Len(List[P].fanins) \in Nat
    BY <1>3
  <2>. DEFINE x == Len(List[P].fanins)
              y == Len(rest)
              z == Done
  <2>3. z = x - y /\ x \in Nat /\ y \in Nat \ {0} /\ y <= x /\ z \in Nat
    BY <1>3, <2>1, <2>2
  <2>. HIDE DEF x, y, z
  <2>4. z + 1 \in 1 .. x
    BY <2>3
  <2>. QED
    BY <1>4, <2>1, <2>4 DEF x, z
<1>8. P \in DOMAIN file.entries /\ List[P] = file.entries[P]
  <2>1. List[P].fanins # <<>>
    BY <1>3, <1>7
  <2>. QED
    BY <1>2, <2>1, NotBlank
<1>9. name # me
  <2>1. ~Contains(file.entries[P].fanins, file.entries[P].name)
    BY <1>8, FilesAssumption, Zenon
  <2>. QED
    BY <1>7, <1>8, <2>1 DEF Contains
<1>. HIDE DEF name, P, rest, f, me
<1>10. /\ unusedElem \in Nat /\ unusedElem <= ChipSize /\ ChipSize \in Nat /\ PoolHasRoomFor(name)
       /\ elemNames \in [DOMAIN elemNames -> 0 .. unusedElem - 1]
  BY <1>1, <1>4, RoomForName, ListFacts DEF Named
<1>11. f = IF name \in DOMAIN elemNames THEN elemNames[name] ELSE unusedElem
  BY DEF f, Element, Known
<1>12. name \in DOMAIN elemNames \/ unusedElem < ChipSize
  BY <1>10 DEF PoolHasRoomFor, Known
<1>13. present \in 0 .. unusedElem - 1 /\ (name \in DOMAIN elemNames => f \in 0 .. unusedElem - 1)
  BY <1>6, <1>10, <1>11
<1>14. present \in Below(ChipSize) /\ f \in Below(ChipSize)
  BY <1>10, <1>11, <1>12, <1>13 DEF Below
<1>15. present # f
  <2>1. CASE name \in DOMAIN elemNames
    BY <1>1, <1>6, <1>9, <1>11, <2>1 DEF Named
  <2>2. CASE name \notin DOMAIN elemNames
    BY <1>10, <1>11, <1>13, <2>2
  <2>. QED
    BY <2>1, <2>2
<1>16. fanins \in Nets(ChipSize) /\ fanouts \in Nets(ChipSize)
  BY <1>1 DEF Wired, Nets, Below, Elem
<1>17. OneMore(ChipSize, fanins, fanouts, fanins', fanouts', present, f)
  <2>1. fanins[present] \in Seq(Below(ChipSize)) /\ fanouts[f] \in Seq(Below(ChipSize))
    BY <1>14, <1>16 DEF Nets
  <2>2. fanins' \in Nets(ChipSize) /\ fanouts' \in Nets(ChipSize)
    BY <1>5, <1>14, <1>16, <2>1 DEF Nets
  <2>3. fanins'[present] = Append(fanins[present], f) /\ \A e \in Below(ChipSize) : e # present => fanins'[e] = fanins[e]
    BY <1>5, <1>14, <1>16 DEF Nets
  <2>4. fanouts'[f] = Append(fanouts[f], present) /\ \A e \in Below(ChipSize) : e # f => fanouts'[e] = fanouts[e]
    BY <1>5, <1>14, <1>16 DEF Nets
  <2>. QED
    BY <1>14, <1>15, <1>16, <2>2, <2>3, <2>4 DEF OneMore
<1>18. DOMAIN elemNames \subseteq DOMAIN elemNames' /\ \A n \in DOMAIN elemNames : elemNames'[n] = elemNames[n]
  BY <1>5, <1>11 DEF create_elem_if_necessary, f
<1>. QED
  BY <1>6, <1>8, <1>17, <1>18 DEF me

LEMMA ReadAccounted ==
  ASSUME file \in Files, Netted, Accounted, netlist, Netted'
  PROVE  Accounted'
<1>1. file' = file
  BY DEF netlist, ReadHeader, ReadName, ReadFanin, ReadEnd, Eof, OutOfRange
<1>2. ChipSize' = ChipSize /\ Elem' = Elem /\ ChipSize \in Nat /\ Elem = Below(ChipSize)
  BY <1>1, SameFile, ListFacts DEF Elem, Below
<1>. SUFFICES ASSUME reading' \in {"entries", "built"}
              PROVE  Accounts(ChipSize, fanins', fanouts') /\ Driven'
  BY <1>2 DEF Accounted
<1>3. fanins' \in Nets(ChipSize) /\ fanouts' \in Nets(ChipSize)
  BY <1>2 DEF Netted, Wired, Nets
<1>4. CASE ReadHeader
  <2>1. fanins' = [e \in Elem |-> <<>>] /\ fanouts' = [e \in Elem |-> <<>>]
    BY <1>4 DEF ReadHeader
  <2>2. \A e \in Below(ChipSize) : fanins'[e] = <<>> /\ fanouts'[e] = <<>>
    BY <1>2, <2>1
  <2>3. Accounts(ChipSize, fanins', fanouts')
    BY <1>2, <1>3, <2>2, AccountsEmpty
  <2>4. Driven'
    BY <1>2, <2>2 DEF Driven
  <2>. QED
    BY <2>3, <2>4
<1>5. CASE ReadName
  <2>1. reading = "entries" /\ UNCHANGED <<fanins, fanouts>>
    BY <1>5 DEF ReadName, OutOfRange
  <2>2. Accounts(ChipSize, fanins, fanouts) /\ Driven
    BY <2>1 DEF Accounted
  <2>3. DOMAIN elemNames \subseteq DOMAIN elemNames' /\ \A n \in DOMAIN elemNames : elemNames'[n] = elemNames[n]
    <3>. DEFINE name == Head(entries).name
    <3>1. elemNames' = elemNames \/ create_elem_if_necessary(name)
      BY <1>5 DEF ReadName, OutOfRange
    <3>. HIDE DEF name
    <3>. QED
      BY <3>1 DEF create_elem_if_necessary, Element, Known
  <2>4. Driven'
    BY <1>1, <1>2, <2>1, <2>2, <2>3 DEF Driven
  <2>. QED
    BY <2>1, <2>2, <2>4
<1>6. CASE ReadFanin
  <2>1. reading = "entries" /\ Reader
    BY <1>6 DEF ReadFanin, Netted, Reader
  <2>2. Accounts(ChipSize, fanins, fanouts) /\ Driven
    BY <2>1 DEF Accounted
  <2>3. PICK f : OneMore(ChipSize, fanins, fanouts, fanins', fanouts', present, f)
    BY <1>6, <2>1, ReadFaninWire
  <2>4. Accounts(ChipSize, fanins', fanouts')
    BY <1>2, <2>2, <2>3, AccountsAppend
  <2>5. \E i \in DOMAIN file.entries : file.entries[i].name \in DOMAIN elemNames /\ present = elemNames[file.entries[i].name]
    BY <1>6, <2>1, ReadFaninWire
  <2>6. DOMAIN elemNames \subseteq DOMAIN elemNames' /\ \A n \in DOMAIN elemNames : elemNames'[n] = elemNames[n]
    BY <1>6, <2>1, ReadFaninWire
  <2>7. \A e \in Elem : e # present => fanins'[e] = fanins[e]
    BY <1>2, <2>3 DEF OneMore
  <2>8. Driven'
    BY <1>1, <1>2, <2>2, <2>5, <2>6, <2>7 DEF Driven
  <2>. QED
    BY <2>4, <2>8
<1>7. CASE ReadEnd \/ Eof
  <2>1. reading = "entries" /\ UNCHANGED <<fanins, fanouts, elemNames>>
    BY <1>7 DEF ReadEnd, Eof
  <2>. QED
    BY <1>1, <1>2, <2>1 DEF Accounted, Driven
<1>. QED
  BY <1>4, <1>5, <1>6, <1>7 DEF netlist

-----------------------------------------------------------------------------
(* The threads. *)

\* With the netlist built, the terms of a swap's cost are the fans' one by one.
LEMMA CostTerms ==
  ASSUME file \in Files, Netted, Placed, reading = "built", NEW x \in Elem, NEW y \in Elem
  PROVE  /\ ChipSize \in Nat /\ Elem = Below(ChipSize) /\ loc \in Placements(ChipSize)
         /\ fanins \in Nets(ChipSize) /\ fanouts \in Nets(ChipSize)
         /\ Fans(x) \in Seq(Elem) /\ Fans(y) \in Seq(Elem)
         /\ CostList(x, y) \in Seq(Int) /\ Len(CostList(x, y)) = Len(Fans(x)) + Len(Fans(y))
         /\ \A i \in 1 .. Len(Fans(x)) : CostList(x, y)[i] = FanCost(loc[x], loc[y], loc[Fans(x)[i]])
         /\ \A i \in 1 .. Len(Fans(x)) + Len(Fans(y)) : i > Len(Fans(x)) =>
              CostList(x, y)[i] = FanCost(loc[y], loc[x], loc[Fans(y)[i - Len(Fans(x))]])
<1>1. ChipSize \in Nat /\ Elem = Below(ChipSize)
  BY ListFacts DEF Elem, Below
<1>2. loc \in Placements(ChipSize)
  <2>1. loc \in [Elem -> Location]
    BY DEF Placed, Permutation
  <2>2. \A p \in Location : p \in Point
    BY DEF Location, Point
  <2>. QED
    BY <1>1, <2>1, <2>2 DEF Placements
<1>3. fanins \in Nets(ChipSize) /\ fanouts \in Nets(ChipSize)
  BY <1>1 DEF Netted, Wired, Nets
<1>4. Fans(x) \in Seq(Elem) /\ Fans(y) \in Seq(Elem)
  BY <1>1, <1>3 DEF Fans, Nets
<1>. DEFINE s == Fans(x)
            r == Fans(y)
            m == Moved(ChipSize, loc, x, y)
            k == Moved(ChipSize, loc, y, x)
            u == Along(s, m)
            w == Along(r, k)
<1>5. /\ m \in [Elem -> Int] /\ \A z \in Elem : m[z] = FanCost(loc[x], loc[y], loc[z])
      /\ k \in [Elem -> Int] /\ \A z \in Elem : k[z] = FanCost(loc[y], loc[x], loc[z])
  BY <1>1, <1>2, MovedType DEF Moved
<1>6. s \in Seq(Elem) /\ r \in Seq(Elem)
  BY <1>4
<1>. HIDE DEF s, r, m, k
<1>7. u \in Seq(Int) /\ Len(u) = Len(s) /\ \A i \in 1 .. Len(s) : u[i] = m[s[i]]
  <2>1. m \in [Elem -> Int]
    BY <1>5
  <2>. QED
    BY <1>6, <2>1, AlongSeq
<1>8. w \in Seq(Int) /\ Len(w) = Len(r) /\ \A i \in 1 .. Len(r) : w[i] = k[r[i]]
  <2>1. k \in [Elem -> Int]
    BY <1>5
  <2>. QED
    BY <1>6, <2>1, AlongSeq
<1>. HIDE DEF u, w
<1>9. /\ u \o w \in Seq(Int) /\ Len(u \o w) = Len(s) + Len(r) /\ Len(s) \in Nat /\ Len(r) \in Nat
      /\ \A i \in 1 .. Len(s) + Len(r) : (u \o w)[i] = IF i <= Len(s) THEN u[i] ELSE w[i - Len(s)]
  <2>1. Len(u) \in Nat /\ Len(w) \in Nat /\ Len(u) = Len(s) /\ Len(w) = Len(r) /\ u \in Seq(Int) /\ w \in Seq(Int)
    BY <1>7, <1>8
  <2>2. u \o w \in Seq(Int) /\ Len(u \o w) = Len(u) + Len(w)
    BY <2>1
  <2>3. \A i \in 1 .. Len(u) + Len(w) : (u \o w)[i] = IF i <= Len(u) THEN u[i] ELSE w[i - Len(u)]
    BY ONLY <2>1
  <2>. QED
    BY <2>1, <2>2, <2>3
<1>10. CostList(x, y) = u \o w
  BY DEF CostList, u, w, m, k, s, r
<1>11. \A i \in 1 .. Len(s) : (u \o w)[i] = FanCost(loc[x], loc[y], loc[s[i]])
  <2>1. ASSUME NEW i \in 1 .. Len(s) PROVE (u \o w)[i] = FanCost(loc[x], loc[y], loc[s[i]])
    <3>1. s[i] \in Elem /\ i \in 1 .. Len(s) + Len(r) /\ i <= Len(s)
      BY <1>6, <1>9
    <3>2. (u \o w)[i] = u[i]
      BY <1>9, <3>1
    <3>. QED
      BY <1>5, <1>7, <3>1, <3>2
  <2>. QED
    BY <2>1
<1>12. ASSUME NEW i \in 1 .. Len(s) + Len(r), i > Len(s) PROVE (u \o w)[i] = FanCost(loc[y], loc[x], loc[r[i - Len(s)]])
  <2>1. i - Len(s) \in 1 .. Len(r) /\ ~(i <= Len(s))
    BY <1>9, <1>12
  <2>2. r[i - Len(s)] \in Elem
    BY <1>6, <2>1
  <2>3. (u \o w)[i] = w[i - Len(s)]
    BY <1>9, <2>1
  <2>. QED
    BY <1>5, <1>8, <2>1, <2>2, <2>3
<1>. QED
  BY <1>1, <1>2, <1>3, <1>4, <1>9, <1>10, <1>11, <1>12 DEF s, r

\* A thread whose part nobody touches.
LEMMA CostingSame ==
  ASSUME NEW t \in Thread, Costing(t), UNCHANGED <<file, fanins, fanouts>>,
         pc'[t] = pc[t], a'[t] = a[t], b'[t] = b[t], aLoc'[t] = aLoc[t], bLoc'[t] = bLoc[t], fan'[t] = fan[t], delta'[t] = delta[t],
         fresh'[t] => fresh[t] /\ loc' = loc
  PROVE  Costing(t)'
<1>1. ChipSize' = ChipSize
  BY SameFile
<1>2. Fans(a[t])' = Fans(a[t]) /\ Fans(b[t])' = Fans(b[t])
  BY DEF Fans
<1>3. loc' = loc => CostList(a[t], b[t])' = CostList(a[t], b[t])
  BY <1>1, <1>2 DEF CostList
<1>. QED
  BY <1>2, <1>3 DEF Costing

LEMMA RunCosted ==
  ASSUME IInv, Costed, NEW t \in Thread, Run(t)
  PROVE  Costed'
<1>. DEFINE Same(u) == /\ pc'[u] = pc[u] /\ a'[u] = a[u] /\ b'[u] = b[u] /\ aLoc'[u] = aLoc[u] /\ bLoc'[u] = bLoc[u]
                       /\ fan'[u] = fan[u] /\ delta'[u] = delta[u] /\ (fresh'[u] => fresh[u] /\ loc' = loc)
<1>1. file \in Files /\ Netted /\ Placed /\ Chosen /\ pc \in [Thread -> Points] /\ a \in [Thread -> Int] /\ b \in [Thread -> Int]
  BY DEF IInv, TypeOK
<1>2. /\ DOMAIN aLoc = Thread /\ DOMAIN bLoc = Thread /\ DOMAIN fan = Thread /\ DOMAIN delta = Thread /\ DOMAIN fresh = Thread
      /\ \A u \in Thread : Costing(u)
  BY DEF Costed
<1>3. UNCHANGED <<file, fanins, fanouts>> /\ reading' = reading /\ main' = main
  BY DEF Run, Enter, StartStep, Stop, SignalConverged, PickPair, GetALoc, GetBLoc, AddFan, Decide, Barrier, shared, netlistVars
<1>4. /\ DOMAIN aLoc' = Thread /\ DOMAIN bLoc' = Thread /\ DOMAIN fan' = Thread /\ DOMAIN delta' = Thread /\ DOMAIN fresh' = Thread
  <2>1. aLoc' = aLoc \/ aLoc' = [aLoc EXCEPT ![t] = loc[a[t]]]
    BY DEF Run, Enter, StartStep, Stop, SignalConverged, PickPair, GetALoc, GetBLoc, AddFan, Decide, Barrier, locals
  <2>2. bLoc' = bLoc \/ bLoc' = [bLoc EXCEPT ![t] = loc[b[t]]]
    BY DEF Run, Enter, StartStep, Stop, SignalConverged, PickPair, GetALoc, GetBLoc, AddFan, Decide, Barrier, locals
  <2>3. fan' = fan \/ \E v : fan' = [fan EXCEPT ![t] = v]
    BY DEF Run, Enter, StartStep, Stop, SignalConverged, PickPair, GetALoc, GetBLoc, AddFan, Decide, Barrier, locals
  <2>4. delta' = delta \/ \E v : delta' = [delta EXCEPT ![t] = v]
    BY DEF Run, Enter, StartStep, Stop, SignalConverged, PickPair, GetALoc, GetBLoc, AddFan, Decide, Barrier, locals
  <2>5. fresh' = fresh \/ (\E v : fresh' = [fresh EXCEPT ![t] = v]) \/ DOMAIN fresh' = Thread
    BY DEF Run, Enter, StartStep, Stop, SignalConverged, PickPair, GetALoc, GetBLoc, AddFan, Decide, Barrier, locals
  <2>. QED
    BY <1>2, <2>1, <2>2, <2>3, <2>4, <2>5
<1>5. ASSUME NEW u \in Thread, pc'[u] \notin Places \/ Same(u) PROVE Costing(u)'
  <2>1. CASE pc'[u] \notin Places
    BY <2>1 DEF Costing, Places
  <2>2. CASE Same(u)
    BY <1>2, <1>3, <2>2, CostingSame
  <2>. QED
    BY <1>5, <2>1, <2>2
<1>. HIDE DEF Same
<1>6. ASSUME pc[t] # "new" PROVE reading = "built"
  BY <1>1, <1>6 DEF Chosen, Costed
<1>7. CASE Enter(t) \/ StartStep(t) \/ Stop(t) \/ SignalConverged(t) \/ Barrier(t)
  <2>1. ASSUME NEW u \in Thread PROVE pc'[u] \notin Places \/ Same(u)
    <3>1. UNCHANGED <<a, aLoc, bLoc, fan, delta, fresh, loc>>
      BY <1>7 DEF Enter, StartStep, Stop, SignalConverged, Barrier, shared, netlistVars, locals
    <3>2. CASE u = t
      BY <1>1, <1>7, <3>2 DEF Enter, StartStep, Stop, SignalConverged, Barrier, Goto, Places
    <3>3. CASE u # t
      <4>1. b'[u] = b[u]
        BY <1>1, <1>7, <3>3 DEF Enter, StartStep, Stop, SignalConverged, Barrier, shared, locals
      <4>2. pc'[u] = pc[u] \/ pc'[u] = "keep_going"
        BY <1>1, <1>7, <3>3 DEF Enter, StartStep, Stop, SignalConverged, Barrier, Goto
      <4>. QED
        BY <3>1, <4>1, <4>2 DEF Same, Places
    <3>. QED
      BY <3>2, <3>3
  <2>. QED
    BY <1>3, <1>4, <1>5, <2>1 DEF Costed
<1>8. CASE PickPair(t)
  <2>1. /\ pc' = [pc EXCEPT ![t] = "aLoc"] /\ a' = [a EXCEPT ![t] = b[t]]
        /\ \E e \in Elem \ {b[t]} : b' = [b EXCEPT ![t] = e]
        /\ UNCHANGED <<aLoc, bLoc, fan, delta, fresh, loc>>
    BY <1>8 DEF PickPair, Goto, shared, netlistVars
  <2>2. \A u \in Thread : u # t => Same(u)
    BY <1>1, <2>1 DEF Same
  <2>3. pc'[t] = "aLoc" /\ a'[t] # b'[t]
    BY <1>1, <2>1
  <2>4. Costing(t)'
    BY <2>3 DEF Costing
  <2>. QED
    BY <1>3, <1>4, <1>5, <2>2, <2>4 DEF Costed
<1>9. CASE GetALoc(t)
  <2>1. /\ pc[t] = "aLoc" /\ pc' = [pc EXCEPT ![t] = "bLoc"] /\ aLoc' = [aLoc EXCEPT ![t] = loc[a[t]]]
        /\ fresh' = [fresh EXCEPT ![t] = TRUE]
        /\ UNCHANGED <<a, b, bLoc, fan, delta, loc>>
    BY <1>9 DEF GetALoc, Goto, shared, netlistVars
  <2>2. \A u \in Thread : u # t => Same(u)
    BY <1>1, <1>2, <2>1 DEF Same
  <2>3. pc'[t] = "bLoc" /\ aLoc'[t] = loc'[a'[t]] /\ a'[t] # b'[t]
    BY <1>1, <1>2, <2>1 DEF Costing, Places
  <2>4. Costing(t)'
    BY <2>3 DEF Costing
  <2>. QED
    BY <1>3, <1>4, <1>5, <2>2, <2>4 DEF Costed
<1>10. CASE GetBLoc(t)
  <2>1. /\ pc[t] = "bLoc" /\ pc' = [pc EXCEPT ![t] = "cost"] /\ bLoc' = [bLoc EXCEPT ![t] = loc[b[t]]]
        /\ fan' = [fan EXCEPT ![t] = 1] /\ delta' = [delta EXCEPT ![t] = 0]
        /\ UNCHANGED <<a, b, aLoc, fresh, loc>>
    BY <1>10 DEF GetBLoc, Goto, shared, netlistVars
  <2>2. \A u \in Thread : u # t => Same(u)
    BY <1>1, <1>2, <2>1 DEF Same
  <2>3. a[t] \in Elem /\ b[t] \in Elem /\ reading = "built"
    BY <1>1, <1>6, <2>1 DEF Chosen, Places
  <2>4. /\ pc'[t] = "cost" /\ a'[t] = a[t] /\ b'[t] = b[t] /\ a[t] # b[t] /\ fan'[t] = 1 /\ delta'[t] = 0
        /\ (fresh'[t] => aLoc'[t] = loc'[a'[t]]) /\ bLoc'[t] = loc'[b'[t]]
    BY <1>1, <1>2, <2>1 DEF Costing, Places
  <2>5. Sums(CostList(a[t], b[t]))[0] = 0
    <3>1. CostList(a[t], b[t]) \in Seq(Int)
      BY <1>1, <2>3, CostTerms
    <3>. QED
      BY <3>1, SumsRun DEF Running
  <2>6. CostList(a[t], b[t])' = CostList(a[t], b[t]) /\ Fans(a[t])' = Fans(a[t]) /\ Fans(b[t])' = Fans(b[t])
    BY <1>3, <2>1, SameFile DEF CostList, Fans
  <2>7. Len(Fans(a[t])) \in Nat /\ Len(Fans(b[t])) \in Nat
    <3>1. Fans(a[t]) \in Seq(Elem) /\ Fans(b[t]) \in Seq(Elem)
      BY <1>1, <2>3, CostTerms
    <3>. QED
      BY <3>1
  <2>8. fan'[t] - 1 = 0 /\ fan'[t] \in 1 .. Len(Fans(a[t])) + Len(Fans(b[t])) + 1
    BY <2>4, <2>7
  <2>9. Costing(t)'
    BY <2>4, <2>5, <2>6, <2>8 DEF Costing
  <2>. QED
    BY <1>3, <1>4, <1>5, <2>2, <2>9 DEF Costed
<1>11. CASE AddFan(t)
  <2>. DEFINE x == a[t]
              y == b[t]
              i == fan[t]
              term == IF i <= Len(Fans(x)) THEN FanCost(aLoc[t], bLoc[t], loc[Fans(x)[i]])
                      ELSE FanCost(bLoc[t], aLoc[t], loc[Fans(y)[i - Len(Fans(x))]])
  <2>1. /\ pc[t] = "cost" /\ i <= Len(Fans(x)) + Len(Fans(y))
        /\ delta' = [delta EXCEPT ![t] = delta[t] + term] /\ fan' = [fan EXCEPT ![t] = i + 1]
        /\ UNCHANGED <<pc, a, b, aLoc, bLoc, fresh, loc>>
    BY <1>11 DEF AddFan, shared, netlistVars
  <2>2. \A u \in Thread : u # t => Same(u)
    BY <1>1, <1>2, <2>1 DEF Same
  <2>3. x \in Elem /\ y \in Elem /\ reading = "built"
    BY <1>1, <1>6, <2>1 DEF Chosen, Places
  <2>4. /\ Fans(x) \in Seq(Elem) /\ Fans(y) \in Seq(Elem)
        /\ CostList(x, y) \in Seq(Int) /\ Len(CostList(x, y)) = Len(Fans(x)) + Len(Fans(y))
        /\ \A j \in 1 .. Len(Fans(x)) : CostList(x, y)[j] = FanCost(loc[x], loc[y], loc[Fans(x)[j]])
        /\ \A j \in 1 .. Len(Fans(x)) + Len(Fans(y)) : j > Len(Fans(x)) =>
              CostList(x, y)[j] = FanCost(loc[y], loc[x], loc[Fans(y)[j - Len(Fans(x))]])
    BY <1>1, <2>3, CostTerms
  <2>5. Len(Fans(x)) \in Nat /\ Len(Fans(y)) \in Nat /\ i \in 1 .. Len(Fans(x)) + Len(Fans(y)) + 1
    BY <1>2, <2>1, <2>4 DEF Costing
  <2>6. i \in 1 .. Len(Fans(x)) + Len(Fans(y)) /\ i + 1 \in 1 .. Len(Fans(x)) + Len(Fans(y)) + 1 /\ (i + 1) - 1 = i
    BY <2>1, <2>5
  <2>7. ASSUME fresh[t]
        PROVE  aLoc[t] = loc[x] /\ bLoc[t] = loc[y] /\ delta[t] = Sums(CostList(x, y))[i - 1]
    BY <1>2, <2>1, <2>7 DEF Costing
  <2>8. ASSUME fresh[t] PROVE delta[t] + term = Sums(CostList(x, y))[i]
    <3>1. term = CostList(x, y)[i]
      <4>1. CASE i <= Len(Fans(x))
        <5>1. i \in 1 .. Len(Fans(x))
          BY <2>5, <2>6, <4>1
        <5>2. CostList(x, y)[i] = FanCost(loc[x], loc[y], loc[Fans(x)[i]])
          BY <2>4, <5>1
        <5>. QED
          BY <2>7, <2>8, <4>1, <5>2
      <4>2. CASE ~(i <= Len(Fans(x)))
        <5>1. i > Len(Fans(x))
          BY <2>5, <2>6, <4>2
        <5>2. CostList(x, y)[i] = FanCost(loc[y], loc[x], loc[Fans(y)[i - Len(Fans(x))]])
          BY <2>4, <2>6, <5>1
        <5>. QED
          BY <2>7, <2>8, <4>2, <5>2
      <4>. QED
        BY <4>1, <4>2
    <3>2. Running(CostList(x, y), Len(CostList(x, y)), Sums(CostList(x, y)))
      BY <2>4, SumsRun
    <3>3. Sums(CostList(x, y))[i] = Sums(CostList(x, y))[i - 1] + CostList(x, y)[i]
      BY <2>4, <2>6, <3>2 DEF Running
    <3>. HIDE DEF term
    <3>. QED
      BY <2>7, <2>8, <3>1, <3>3
  <2>. HIDE DEF term
  <2>9. CostList(x, y)' = CostList(x, y) /\ Fans(x)' = Fans(x) /\ Fans(y)' = Fans(y)
    BY <1>3, <2>1, SameFile DEF CostList, Fans
  <2>10. pc'[t] = "cost" /\ a'[t] = x /\ b'[t] = y /\ x # y /\ fan'[t] = i + 1 /\ delta'[t] = delta[t] + term
    BY <1>2, <2>1 DEF Costing, Places
  <2>11. aLoc'[t] = aLoc[t] /\ bLoc'[t] = bLoc[t] /\ fresh'[t] = fresh[t] /\ loc' = loc
    BY <2>1
  <2>12. Costing(t)'
    <3>1. Len(Fans(a[t]))' + Len(Fans(b[t]))' = Len(Fans(x)) + Len(Fans(y))
      BY <2>9, <2>10
    <3>2. fan'[t] \in 1 .. Len(Fans(a[t]))' + Len(Fans(b[t]))' + 1
      BY <2>6, <2>10, <3>1
    <3>3. ASSUME fresh'[t] PROVE delta'[t] = Sums(CostList(a[t], b[t])')[fan'[t] - 1] /\ aLoc'[t] = loc'[a'[t]] /\ bLoc'[t] = loc'[b'[t]]
      <4>1. delta'[t] = Sums(CostList(x, y))[i] /\ fan'[t] - 1 = i
        BY <2>6, <2>8, <2>10, <2>11, <3>3
      <4>2. CostList(a[t], b[t])' = CostList(x, y)
        BY <2>9, <2>10
      <4>3. aLoc'[t] = loc'[a'[t]] /\ bLoc'[t] = loc'[b'[t]]
        BY <2>7, <2>10, <2>11, <3>3
      <4>. QED
        BY <4>1, <4>2, <4>3
    <3>. QED
      BY <2>10, <3>2, <3>3 DEF Costing
  <2>. QED
    BY <1>3, <1>4, <1>5, <2>2, <2>12 DEF Costed
<1>12. CASE Decide(t)
  <2>1. /\ pc' = [pc EXCEPT ![t] = "move"] /\ UNCHANGED <<a, b, aLoc, bLoc, fan, delta>>
    BY <1>12 DEF Decide, Goto
  <2>2. PICK decision \in accept_move(delta[t]) :
          /\ loc' = IF decision = "rejected" THEN loc ELSE Swapped(loc, a[t], b[t])
          /\ fresh' = [u \in Thread |-> fresh[u] /\ (decision = "rejected" \/ u = t)]
    BY <1>12 DEF Decide
  <2>3. ASSUME NEW u \in Thread, u # t PROVE Same(u)
    <3>1. fresh'[u] => fresh[u] /\ loc' = loc
      BY <2>2, <2>3
    <3>. QED
      BY <1>1, <2>1, <2>3, <3>1 DEF Same
  <2>4. pc'[t] \notin Places
    BY <1>1, <2>1 DEF Places
  <2>. QED
    BY <1>3, <1>4, <1>5, <2>3, <2>4 DEF Costed
<1>. QED
  BY <1>7, <1>8, <1>9, <1>10, <1>11, <1>12 DEF Run

LEMMA InitCInv == ASSUME Init PROVE CInv
<1>1. IInv
  BY InitIInv
<1>2. reading = "header" /\ main = "netlist"
  BY DEF Init, NetlistInit
<1>3. /\ DOMAIN aLoc = Thread /\ DOMAIN bLoc = Thread /\ DOMAIN fan = Thread /\ DOMAIN delta = Thread /\ DOMAIN fresh = Thread
  BY DEF Init
<1>4. \A t \in Thread : Costing(t)
  BY DEF Init, Costing, Places
<1>. QED
  BY <1>1, <1>2, <1>3, <1>4 DEF CInv, Accounted, Costed

LEMMA NextCInv == ASSUME CInv, [Next]_vars PROVE CInv'
<1>1. IInv /\ IInv' /\ Accounted /\ Costed
  BY NextIInv DEF CInv
<1>2. file \in Files /\ Netted /\ Netted'
  BY <1>1 DEF IInv, TypeOK
<1>3. CASE BuildNetlist
  <2>1. netlist /\ main = "netlist" /\ UNCHANGED <<main, pc, a, b, aLoc, bLoc, fan, delta, fresh>>
    BY <1>3 DEF BuildNetlist, locals
  <2>2. Accounted'
    BY <1>1, <1>2, <2>1, ReadAccounted
  <2>3. \A t \in Thread : pc[t] = "new"
    BY <1>1, <2>1 DEF IInv, Chosen
  <2>4. \A t \in Thread : Costing(t)'
    BY <2>1, <2>3 DEF Costing, Places
  <2>5. Costed'
    BY <1>1, <2>1, <2>4 DEF Costed
  <2>. QED
    BY <1>1, <2>2, <2>5 DEF CInv
<1>4. CASE CreateThreads
  <2>1. /\ reading = "built" /\ UNCHANGED <<netlistVars, locals>> /\ pc' = [t \in Thread |-> "entry"]
    BY <1>4 DEF CreateThreads
  <2>2. Accounted'
    BY <1>1, <2>1, SameFile DEF Accounted, Driven, netlistVars
  <2>3. \A t \in Thread : Costing(t)'
    BY <2>1 DEF Costing, Places
  <2>4. reading' = "built" /\ UNCHANGED <<aLoc, bLoc, fan, delta, fresh>>
    BY <2>1 DEF netlistVars, locals
  <2>5. Costed'
    BY <1>1, <2>3, <2>4 DEF Costed
  <2>. QED
    BY <1>1, <2>2, <2>5 DEF CInv
<1>5. ASSUME NEW t \in Thread, Run(t) PROVE CInv'
  <2>1. Costed'
    BY <1>1, <1>5, RunCosted
  <2>2. UNCHANGED <<file, elemNames, fanins, fanouts>> /\ reading' = reading
    BY <1>5 DEF Run, Enter, StartStep, Stop, SignalConverged, PickPair, GetALoc, GetBLoc, AddFan, Decide, Barrier, shared, netlistVars
  <2>3. Accounted'
    BY <1>1, <2>2, SameFile DEF Accounted, Driven
  <2>. QED
    BY <1>1, <2>1, <2>3 DEF CInv
<1>6. CASE JoinAll \/ Terminated \/ UNCHANGED vars
  <2>1. UNCHANGED <<netlistVars, pc, locals>> /\ (main # "netlist" <=> main' # "netlist")
    BY <1>6 DEF JoinAll, Terminated, vars, shared
  <2>2. UNCHANGED <<file, elemNames, fanins, fanouts, loc, a, b, aLoc, bLoc, fan, delta, fresh>> /\ reading' = reading /\ pc' = pc
    BY <2>1 DEF netlistVars, locals
  <2>3. Accounted'
    BY <1>1, <2>2, SameFile DEF Accounted, Driven
  <2>4. \A t \in Thread : Costing(t)'
    BY <1>1, <2>2, CostingSame DEF Costed
  <2>5. Costed'
    BY <1>1, <2>1, <2>2, <2>4 DEF Costed
  <2>. QED
    BY <1>1, <2>3, <2>5 DEF CInv
<1>. QED
  BY <1>3, <1>4, <1>5, <1>6 DEF Next

\* The wires of the file are those in the fanins, wherever the elements are.
LEMMA WiresOfFile ==
  ASSUME IInv, Accounted, reading = "built", NEW l \in Placements(ChipSize)
  PROVE  WireLength(l) = Length(ChipSize, fanins, l)
<1>. DEFINE n == ChipSize
            es == file.entries
            N == Len(es)
            at == [i \in 1 .. N |-> elemNames[es[i].name]]
            h == Lengths(n, fanins, l)
<1>1. file \in Files /\ Suffix /\ Named /\ Wired /\ BuiltAsWritten
  BY BuiltRight DEF IInv, TypeOK, Netted
<1>2. n \in Nat /\ Elem = Below(n) /\ N \in Nat /\ DOMAIN es = 1 .. N /\ fanins \in Nets(n)
  BY <1>1, ListFacts DEF Elem, Below, Wired, Nets
<1>3. ASSUME NEW i \in 1 .. N
      PROVE  /\ es[i].name \in DOMAIN elemNames /\ at[i] \in Below(n)
             /\ fanins[at[i]] = [k \in DOMAIN es[i].fanins |-> elemNames[es[i].fanins[k]]]
  <2>1. Position = Len(List) + 1 /\ Len(List) \in Nat /\ i \in DOMAIN List /\ List[i] = es[i] /\ DOMAIN List = 1 .. Len(List)
    <3>1. entries = <<>>
      BY DEF IInv, Netted
    <3>. QED
      BY <1>1, <1>2, <3>1, ListFacts DEF Position
  <2>2. i \in 1 .. Position - 1
    BY <2>1
  <2>3. es[i].name \in DOMAIN elemNames
    BY <1>1, <2>1, <2>2 DEF Named
  <2>4. at[i] \in 0 .. unusedElem - 1 /\ unusedElem \in Nat /\ unusedElem <= n
    BY <1>1, <2>3 DEF Named
  <2>5. es[i] \in ToSet(es)
    BY <1>2 DEF ToSet
  <2>6. fanins[elemNames[es[i].name]] = [k \in DOMAIN es[i].fanins |-> elemNames[es[i].fanins[k]]]
    BY <1>1, <2>5 DEF BuiltAsWritten
  <2>. QED
    BY <1>2, <2>3, <2>4, <2>6 DEF Below
<1>4. at \in Seq(Below(n)) /\ Len(at) = N
  <2>1. \A i \in 1 .. N : at[i] \in Below(n)
    BY <1>3
  <2>2. at = [i \in 1 .. N |-> at[i]]
    OBVIOUS
  <2>. HIDE DEF at, N, n
  <2>. QED
    BY <1>2, <2>1, <2>2
<1>5. \A i, j \in 1 .. Len(at) : at[i] = at[j] => i = j
  <2>1. \A i, j \in DOMAIN es : es[i].name = es[j].name => i = j
    BY <1>1, FilesAssumption, Zenon
  <2>2. ASSUME NEW i \in 1 .. N, NEW j \in 1 .. N, at[i] = at[j] PROVE i = j
    BY <1>1, <1>2, <1>3, <2>1, <2>2 DEF Named
  <2>. QED
    BY <1>4, <2>2
<1>6. h \in [Below(n) -> Int] /\ \A e \in Below(n) : h[e] = SumSeq(Along(fanins[e], From(n, l, e)))
  BY <1>2, LengthsType
<1>7. \A k \in Below(n) : h[k] # 0 => \E i \in 1 .. Len(at) : at[i] = k
  <2>1. ASSUME NEW k \in Below(n), h[k] # 0 PROVE \E i \in 1 .. Len(at) : at[i] = k
    <3>1. fanins[k] # <<>>
      <4>. SUFFICES ASSUME fanins[k] = <<>> PROVE FALSE
        OBVIOUS
      <4>1. Along(<<>>, From(n, l, k)) = <<>>
        BY DEF Along
      <4>. QED
        BY <1>6, <2>1, <4>1, SumEmpty
    <3>2. PICK i \in DOMAIN es : k = elemNames[es[i].name]
      BY <1>2, <3>1 DEF Accounted, Driven
    <3>. QED
      BY <1>2, <1>4, <3>2
  <2>. QED
    BY <2>1
<1>8. SumSeq(Along(at, h)) = Total(n, h)
  <2>. HIDE DEF at, h, n
  <2>1. at \in Seq(0 .. n - 1) /\ h \in [0 .. n - 1 -> Int] /\ n \in Nat
    BY <1>2, <1>4, <1>6 DEF Below
  <2>2. \A k \in 0 .. n - 1 : h[k] # 0 => \E i \in 1 .. Len(at) : at[i] = k
    BY <1>7 DEF Below
  <2>. QED
    BY ONLY <1>5, <2>1, <2>2, Reindex
<1>9. ASSUME NEW i \in 1 .. N
      PROVE  SumSeq([k \in DOMAIN es[i].fanins |-> Distance(l[elemNames[es[i].name]], l[elemNames[es[i].fanins[k]]])]) = h[at[i]]
  <2>. DEFINE e == at[i]
              s == fanins[e]
  <2>1. e \in Below(n) /\ s \in Seq(Below(n)) /\ e = elemNames[es[i].name]
    BY <1>2, <1>3 DEF Nets
  <2>2. DOMAIN s = DOMAIN es[i].fanins /\ \A k \in DOMAIN s : s[k] = elemNames[es[i].fanins[k]]
    <3>1. s = [k \in DOMAIN es[i].fanins |-> elemNames[es[i].fanins[k]]]
      BY <1>3
    <3>. HIDE DEF s
    <3>. QED
      BY ONLY <3>1
  <2>3. \A k \in DOMAIN s : s[k] \in Below(n)
    BY <2>1
  <2>. HIDE DEF e, s
  <2>4. Along(s, From(n, l, e)) = [k \in DOMAIN es[i].fanins |-> Distance(l[elemNames[es[i].name]], l[elemNames[es[i].fanins[k]]])]
    BY <2>1, <2>2, <2>3 DEF Along, From
  <2>5. h[e] = SumSeq(Along(s, From(n, l, e)))
    BY <1>6, <2>1 DEF s
  <2>. QED
    BY <2>4, <2>5 DEF e
<1>10. WireLength(l) = SumSeq(Along(at, h))
  <2>. DEFINE sum(i) == SumSeq([k \in DOMAIN es[i].fanins |-> Distance(l[elemNames[es[i].name]], l[elemNames[es[i].fanins[k]]])])
  <2>1. WireLength(l) = SumSeq([i \in DOMAIN es |-> sum(i)])
    BY DEF WireLength
  <2>2. \A i \in 1 .. N : sum(i) = h[at[i]]
    BY <1>9
  <2>3. DOMAIN at = 1 .. N
    OBVIOUS
  <2>. HIDE DEF sum, at, h, N
  <2>4. [i \in DOMAIN es |-> sum(i)] = Along(at, h)
    BY <1>2, <2>2, <2>3 DEF Along
  <2>. QED
    BY <2>1, <2>4
<1>. QED
  BY <1>8, <1>10 DEF Length

\* A sum taken twice is halved again by total_routing_cost.
LEMMA TotalCost ==
  ASSUME IInv, Accounted, reading = "built"
  PROVE  total_routing_cost = WireLength(loc)
<1>. DEFINE n == ChipSize
            g == Lengths(n, fanins, loc)
            h == Lengths(n, fanouts, loc)
            q == [e \in Below(n) |-> routing_cost_given_loc(e, loc[e])]
<1>1. file \in Files /\ Netted /\ Placed
  BY DEF IInv, TypeOK
<1>2. n \in Nat /\ Elem = Below(n)
  BY <1>1, ListFacts DEF Elem, Below
<1>3. loc \in Placements(n) /\ fanins \in Nets(n) /\ fanouts \in Nets(n)
  <2>1. loc \in [Elem -> Location] /\ \A p \in Location : p \in Point
    BY <1>1 DEF Placed, Permutation, Location, Point
  <2>. QED
    BY <1>1, <1>2, <2>1 DEF Placements, Netted, Wired, Nets
<1>4. /\ g \in [Below(n) -> Int] /\ \A e \in Below(n) : g[e] = SumSeq(Along(fanins[e], From(n, loc, e)))
      /\ h \in [Below(n) -> Int] /\ \A e \in Below(n) : h[e] = SumSeq(Along(fanouts[e], From(n, loc, e)))
      /\ Length(n, fanins, loc) = Total(n, g) /\ Length(n, fanouts, loc) = Total(n, h) /\ Total(n, g) \in Int
  BY <1>2, <1>3, LengthsType DEF Length
<1>5. ASSUME NEW e \in Below(n) PROVE routing_cost_given_loc(e, loc[e]) = g[e] + h[e]
  <2>. DEFINE s == fanins[e]
              r == fanouts[e]
              m == From(n, loc, e)
  <2>1. s \in Seq(Below(n)) /\ r \in Seq(Below(n)) /\ m \in [Below(n) -> Int]
    BY <1>2, <1>3, FromType DEF Nets
  <2>2. SumSeq(Along(s \o r, m)) = SumSeq(Along(s, m)) + SumSeq(Along(r, m))
    <3>. HIDE DEF s, r, m
    <3>. QED
      BY <2>1, AlongConcat
  <2>3. Along(s \o r, m) = [i \in DOMAIN Fans(e) |-> Distance(loc[e], loc[Fans(e)[i]])]
    <3>1. s \o r \in Seq(Below(n)) /\ Fans(e) = s \o r
      BY <2>1 DEF Fans
    <3>2. \A i \in DOMAIN Fans(e) : Fans(e)[i] \in Below(n)
      <4>1. Fans(e) \in Seq(Below(n))
        BY <3>1
      <4>. QED
        BY ONLY <4>1
    <3>. QED
      BY <3>1, <3>2 DEF Along, From
  <2>. QED
    BY <1>4, <2>2, <2>3 DEF routing_cost_given_loc
<1>. HIDE DEF g, h
<1>6. \A e \in Below(n) : g[e] + h[e] \in Int
  BY <1>4
<1>7. q \in [Below(n) -> Int] /\ \A e \in Below(n) : q[e] = g[e] + h[e]
  BY <1>5, <1>6
<1>8. Values(n, q) = [i \in 1 .. n |-> routing_cost_given_loc(i - 1, loc[i - 1])]
  <2>1. \A i \in 1 .. n : i - 1 \in Below(n)
    BY <1>2 DEF Below
  <2>. QED
    BY <2>1 DEF Values
<1>. HIDE DEF q
<1>9. Total(n, q) = Total(n, g) + Total(n, h)
  BY <1>2, <1>4, <1>7, TotalAdd DEF Below
<1>10. Total(n, g) = Total(n, h)
  BY <1>3, <1>4 DEF Accounted, Accounts
<1>11. total_routing_cost = Total(n, q) \div 2
  BY <1>8 DEF total_routing_cost, Total
<1>12. \A x \in Int : (x + x) \div 2 = x
  OBVIOUS
<1>13. total_routing_cost = Length(n, fanins, loc)
  BY <1>4, <1>9, <1>10, <1>11, <1>12
<1>. QED
  BY <1>3, <1>13, WiresOfFile

\* What total_routing_cost adds up over both ends of every wire is twice the
\* length of the wires of the file, so the cost printed is exact; and unless
\* another thread swapped meanwhile, the cost that swap_cost computes fan by fan
\* is no more than what the swap does to that length, so that a swap which
\* shortens the wires is always counted as good (netlist.cpp:51-62,
\* netlist_elem.cpp, annealer_thread.cpp:97-123).
THEOREM CostsRightCorrect == Spec => []CostsRight
<1>1. Init => CInv
  BY InitCInv
<1>2. CInv /\ [Next]_vars => CInv'
  BY NextCInv
<1>3. CInv => CostsRight
  <2>. SUFFICES ASSUME CInv PROVE CostsRight
    OBVIOUS
  <2>1. IInv /\ Accounted /\ Costed /\ file \in Files /\ Netted /\ Placed /\ Chosen
    BY DEF CInv, IInv, TypeOK
  <2>2. reading = "built" => total_routing_cost = WireLength(loc)
    BY <2>1, TotalCost
  <2>3. ASSUME NEW t \in Thread, CostKnown(t), fresh[t], WireLength(Swapped(loc, a[t], b[t])) < WireLength(loc)
        PROVE  accept_move(delta[t]) = {"good"}
    <3>. DEFINE x == a[t]
                y == b[t]
                n == ChipSize
                k == Swapped(loc, x, y)
    <3>1. pc[t] = "cost" /\ Costing(t) /\ x \in Elem /\ y \in Elem /\ x # y /\ reading = "built"
      BY <2>1, <2>3 DEF CostKnown, Costed, Costing, Chosen, Places
    <3>2. /\ n \in Nat /\ Elem = Below(n) /\ loc \in Placements(n) /\ fanins \in Nets(n) /\ fanouts \in Nets(n)
          /\ Fans(x) \in Seq(Elem) /\ Fans(y) \in Seq(Elem)
          /\ CostList(x, y) \in Seq(Int) /\ Len(CostList(x, y)) = Len(Fans(x)) + Len(Fans(y))
      BY <2>1, <3>1, CostTerms
    <3>3. delta[t] = SumSeq(CostList(x, y))
      <4>1. Len(Fans(x)) \in Nat /\ Len(Fans(y)) \in Nat
        BY <3>2
      <4>2. fan[t] \in 1 .. Len(Fans(x)) + Len(Fans(y)) + 1 /\ fan[t] > Len(Fans(x)) + Len(Fans(y))
        BY <2>3, <3>1 DEF CostKnown, Costing
      <4>3. fan[t] - 1 = Len(Fans(x)) + Len(Fans(y))
        BY <4>1, <4>2
      <4>4. delta[t] = Sums(CostList(x, y))[fan[t] - 1]
        BY <2>3, <3>1 DEF Costing
      <4>. QED
        BY <3>2, <4>3, <4>4 DEF SumSeq
    <3>4. SumSeq(CostList(x, y)) = SwapCost(n, Fans(x), loc, x, y) + SwapCost(n, Fans(y), loc, y, x)
      <4>. DEFINE u == Along(Fans(x), Moved(n, loc, x, y))
                  w == Along(Fans(y), Moved(n, loc, y, x))
      <4>1. Moved(n, loc, x, y) \in [Elem -> Int] /\ Moved(n, loc, y, x) \in [Elem -> Int]
        BY <3>1, <3>2, MovedType
      <4>2. u \in Seq(Int)
        BY <3>2, <4>1, AlongSeq
      <4>3. w \in Seq(Int)
        BY <3>2, <4>1, AlongSeq
      <4>. HIDE DEF u, w
      <4>4. SumSeq(u \o w) = SumSeq(u) + SumSeq(w)
        BY <4>2, <4>3, SumConcat
      <4>. QED
        BY <4>4 DEF CostList, SwapCost, u, w
    <3>5. k \in Placements(n)
      BY <3>1, <3>2 DEF Swapped, Placements
    <3>6. SwapCost(n, Fans(x), loc, x, y) + SwapCost(n, Fans(y), loc, y, x)
            <= Length(n, fanins, k) - Length(n, fanins, loc)
      BY <2>1, <3>1, <3>2 DEF Accounted, Accounts, Fans
    <3>7. Length(n, fanins, k) = WireLength(k) /\ Length(n, fanins, loc) = WireLength(loc)
      BY <2>1, <3>1, <3>2, <3>5, WiresOfFile
    <3>8. Length(n, fanins, k) \in Int /\ Length(n, fanins, loc) \in Int /\ delta[t] \in Int
      BY <3>2, <3>3, <3>5, LengthsType, SumInt
    <3>9. Length(n, fanins, k) < Length(n, fanins, loc)
      BY <2>3, <3>7
    <3>10. delta[t] <= Length(n, fanins, k) - Length(n, fanins, loc)
      BY <3>3, <3>4, <3>6
    <3>. HIDE DEF k, n
    <3>11. delta[t] < 0
      BY <3>8, <3>9, <3>10
    <3>. QED
      BY <3>11 DEF accept_move
  <2>. QED
    BY <2>2, <2>3 DEF CostsRight
<1>. QED
  BY <1>1, <1>2, <1>3, PTL DEF Spec
=============================================================================
