----------------------------- MODULE AtomicPtr -----------------------------
(***************************************************************************)
(* threads::AtomicPtr<T> of canneal (AtomicPtr.h), at the granularity of   *)
(* its atomic loads, compare-and-sets and stores, as built with            *)
(* ENABLE_THREADS.  A pointer that holds the sentinel ATOMIC_NULL is       *)
(* checked out.  The threads here are the callers: each makes up to        *)
(* MaxCalls calls of the kinds in Kinds, one after the other.              *)
(***************************************************************************)
EXTENDS Integers

CONSTANTS
  Thread,       \* the calling threads
  Ptr,          \* addresses of the AtomicPtr objects, ordered
  Val,          \* the values of type T* a caller stores
  Start,        \* the value each pointer is constructed with
  Kinds,        \* the member functions the callers use
  MaxCalls,     \* bound: calls made by each thread
  ATOMIC_NULL,  \* the sentinel
  Failed, Done, \* results: a Try call returned false; a swap returned
  NoCall        \* `op` of a thread that has not called yet

GetKinds      == {"Get", "TryGet"}
SetKinds      == {"Set", "TrySet"}
SwapKinds     == {"Swap", "TrySwap"}
CheckoutKinds == {"Checkout", "TryCheckout"}
TryKinds      == {"TryGet", "TrySet", "TrySwap", "TryCheckout"}
AllKinds      == GetKinds \cup SetKinds \cup SwapKinds \cup CheckoutKinds

\* AtomicPtr.h:165, 178, 186: the constructor, Set and TrySet assert that no
\* caller stores the sentinel.
ASSUME PtrAssumption      == Ptr \subseteq Int
ASSUME ValAssumption      == ATOMIC_NULL \notin Val
ASSUME StartAssumption    == Start \in [Ptr -> Val]
ASSUME KindsAssumption    == Kinds \subseteq AllKinds
ASSUME MaxCallsAssumption == MaxCalls \in Nat

VARIABLES
  p,        \* the word inside each AtomicPtr
  pc,       \* per thread: the next atomic step of its call
  op,       \* per thread: the call, with the pointers in locking order
  val,      \* per thread: local `val` of the innermost Get/TryGet
  valFirst, \* per thread: the value taken out of op.first
  valLast,  \* per thread: the value Swap replaced in op.last
  res,      \* per thread: what its last call returned
  calls     \* per thread: calls made so far

vars == <<p, pc, op, val, valFirst, valLast, res, calls>>

Word == Val \cup {ATOMIC_NULL}

\* A call: what PrivateSet writes into `first` is x (the sentinel for a
\* checkout and for the first half of a swap).
Operation == [kind : AllKinds, first : Ptr, last : Ptr, x : Word]

\* Calls on one pointer.
SingleCalls ==
  {[kind |-> k, first |-> l, last |-> l, x |-> y] :
     k \in Kinds \cap SetKinds, l \in Ptr, y \in Val}
  \cup {[kind |-> k, first |-> l, last |-> l, x |-> ATOMIC_NULL] :
     k \in Kinds \cap (GetKinds \cup CheckoutKinds), l \in Ptr}

\* this->Swap(X): lock in address order.  Swapping a pointer with itself is
\* excluded, as netlist::get_random_element does for the only caller.
\* (The *Unordered, *Blind and *Stale variants here and below are faults that
\* the properties must detect; see the mutants in PROJECT.json.)
SwapCallUnordered(k, this, X) ==
  [kind |-> k, first |-> this, last |-> X, x |-> ATOMIC_NULL]

SwapCall(k, this, X) ==
  [kind |-> k, first |-> IF this < X THEN this ELSE X,
   last |-> IF this < X THEN X ELSE this, x |-> ATOMIC_NULL]

SwapCalls ==
  {SwapCall(c[1], c[2], c[3]) :
     c \in {d \in (Kinds \cap SwapKinds) \X Ptr \X Ptr : d[2] # d[3]}}

Calls == SingleCalls \cup SwapCalls

Init ==
  /\ p = Start
  /\ pc = [t \in Thread |-> "idle"]
  /\ op = [t \in Thread |-> NoCall]
  /\ val = [t \in Thread |-> ATOMIC_NULL]
  /\ valFirst = [t \in Thread |-> ATOMIC_NULL]
  /\ valLast = [t \in Thread |-> ATOMIC_NULL]
  /\ res = [t \in Thread |-> Done]
  /\ calls = [t \in Thread |-> 0]

-----------------------------------------------------------------------------
Goto(t, to) == pc' = [pc EXCEPT ![t] = to]
Write(l, x) == p' = [p EXCEPT ![l] = x]

\* The call ends with result r.
Finish(t, to, r) == Goto(t, to) /\ res' = [res EXCEPT ![t] = r]

Call(t) ==
  /\ pc[t] = "idle"
  /\ calls[t] < MaxCalls
  /\ \E c \in Calls : op' = [op EXCEPT ![t] = c]
  /\ calls' = [calls EXCEPT ![t] = @ + 1]
  /\ Goto(t, "loadFirst")
  /\ UNCHANGED <<p, val, valFirst, valLast, res>>

\* The load of Get/TryGet.  Get spins while it reads the sentinel: the step
\* is not enabled.  For a Get the call ends here.
LoadFirst(t) ==
  /\ pc[t] = "loadFirst"
  /\ p[op[t].first] # ATOMIC_NULL
  /\ val' = [val EXCEPT ![t] = p[op[t].first]]
  /\ IF op[t].kind \in GetKinds
     THEN Finish(t, "idle", p[op[t].first])
     ELSE Goto(t, "casFirst") /\ UNCHANGED res
  /\ UNCHANGED <<p, op, valFirst, valLast, calls>>

\* TryGet, TrySet, TryCheckout and TrySwap give up on a checked-out pointer.
TryLoadFirstFails(t) ==
  /\ pc[t] = "loadFirst"
  /\ op[t].kind \in TryKinds
  /\ p[op[t].first] = ATOMIC_NULL
  /\ Finish(t, "idle", Failed)
  /\ UNCHANGED <<p, op, val, valFirst, valLast, calls>>

\* The compare-and-set of PrivateSet/TryPrivateSet on `first` succeeds.
CasFirstBlind(t) ==
  /\ pc[t] = "casFirst"
  /\ Write(op[t].first, op[t].x)
  /\ valFirst' = [valFirst EXCEPT ![t] = val[t]]
  /\ \/ op[t].kind \in SetKinds      /\ Finish(t, "idle", val[t])
     \/ op[t].kind \in CheckoutKinds /\ Finish(t, "held", val[t])
     \/ op[t].kind \in SwapKinds     /\ Goto(t, "loadLast") /\ UNCHANGED res
  /\ UNCHANGED <<op, val, valLast, calls>>

CasFirst(t) ==
  /\ pc[t] = "casFirst"
  /\ p[op[t].first] = val[t]
  /\ Write(op[t].first, op[t].x)
  /\ valFirst' = [valFirst EXCEPT ![t] = val[t]]
  /\ \/ op[t].kind \in SetKinds      /\ Finish(t, "idle", val[t])
     \/ op[t].kind \in CheckoutKinds /\ Finish(t, "held", val[t])
     \/ op[t].kind \in SwapKinds     /\ Goto(t, "loadLast") /\ UNCHANGED res
  /\ UNCHANGED <<op, val, valLast, calls>>

\* It fails: PrivateSet reads again, TryPrivateSet returns false.
CasFirstFails(t) ==
  /\ pc[t] = "casFirst"
  /\ p[op[t].first] # val[t]
  /\ IF op[t].kind \in TryKinds
     THEN Finish(t, "idle", Failed)
     ELSE Goto(t, "loadFirst") /\ UNCHANGED res
  /\ UNCHANGED <<p, op, val, valFirst, valLast, calls>>

\* Swap and TrySwap, second pointer: last->PrivateSet(valFirst).
LoadLast(t) ==
  /\ pc[t] = "loadLast"
  /\ p[op[t].last] # ATOMIC_NULL
  /\ val' = [val EXCEPT ![t] = p[op[t].last]]
  /\ Goto(t, "casLast")
  /\ UNCHANGED <<p, op, valFirst, valLast, res, calls>>

TryLoadLastFails(t) ==
  /\ pc[t] = "loadLast"
  /\ op[t].kind \in TryKinds
  /\ p[op[t].last] = ATOMIC_NULL
  /\ Finish(t, "rollback", Failed)
  /\ UNCHANGED <<p, op, val, valFirst, valLast, calls>>

CasLast(t) ==
  /\ pc[t] = "casLast"
  /\ p[op[t].last] = val[t]
  /\ Write(op[t].last, valFirst[t])
  /\ valLast' = [valLast EXCEPT ![t] = val[t]]
  /\ Finish(t, "checkin", Done)
  /\ UNCHANGED <<op, val, valFirst, calls>>

CasLastFails(t) ==
  /\ pc[t] = "casLast"
  /\ p[op[t].last] # val[t]
  /\ IF op[t].kind \in TryKinds
     THEN Finish(t, "rollback", Failed)
     ELSE Goto(t, "loadLast") /\ UNCHANGED res
  /\ UNCHANGED <<p, op, val, valFirst, valLast, calls>>

\* first->Checkin(valLast) ends a swap; first->Checkin(valFirst) undoes the
\* checkout of a TrySwap that failed on `last`.  AtomicPtr.h:293 misspells the
\* macro, so the write is a plain one, of one aligned word.
CheckinStale(t) ==
  /\ pc[t] \in {"checkin", "rollback"}
  /\ Write(op[t].first, valFirst[t])
  /\ Goto(t, "idle")
  /\ UNCHANGED <<op, val, valFirst, valLast, res, calls>>

Checkin(t) ==
  /\ pc[t] \in {"checkin", "rollback"}
  /\ Write(op[t].first, IF pc[t] = "checkin" THEN valLast[t] ELSE valFirst[t])
  /\ Goto(t, "idle")
  /\ UNCHANGED <<op, val, valFirst, valLast, res, calls>>

\* A caller that checked a pointer out checks it in with a value it chooses.
CallerCheckin(t) ==
  /\ pc[t] = "held"
  /\ \E x \in Val : Write(op[t].first, x)
  /\ Goto(t, "idle")
  /\ UNCHANGED <<op, val, valFirst, valLast, res, calls>>

Step(t) ==
  \/ LoadFirst(t) \/ TryLoadFirstFails(t) \/ CasFirst(t) \/ CasFirstFails(t)
  \/ LoadLast(t) \/ TryLoadLastFails(t) \/ CasLast(t) \/ CasLastFails(t)
  \/ Checkin(t) \/ CallerCheckin(t)

AllReturned == \A t \in Thread : pc[t] = "idle" /\ calls[t] = MaxCalls

\* Every caller is done (and joined by canneal's main).
Terminated == AllReturned /\ UNCHANGED vars

Next == (\E t \in Thread : Call(t) \/ Step(t)) \/ Terminated

\* A started thread keeps running: pthreads are scheduled fairly, and no step
\* of a call waits for anything but the content of a pointer.
Fairness == \A t \in Thread : WF_vars(Call(t) \/ Step(t))

Spec == Init /\ [][Next]_vars
FairSpec == Spec /\ Fairness

-----------------------------------------------------------------------------
PCs == {"idle", "loadFirst", "casFirst", "loadLast", "casLast", "checkin",
        "rollback", "held"}

TypeOK ==
  /\ p \in [Ptr -> Word]
  /\ pc \in [Thread -> PCs]
  /\ op \in [Thread -> Operation \cup {NoCall}]
  /\ val \in [Thread -> Word]
  /\ valFirst \in [Thread -> Word]
  /\ valLast \in [Thread -> Word]
  /\ res \in [Thread -> Val \cup {Failed, Done}]
  /\ calls \in [Thread -> 0 .. MaxCalls]

\* Thread t is the one that took pointer l out.
Holds(t, l) ==
  /\ pc[t] \in {"loadLast", "casLast", "checkin", "rollback", "held"}
  /\ op[t].first = l

\* Mutex semantics of Checkout/Checkin and of the first half of Swap
\* (AtomicPtr.h:276-298): a pointer holds the sentinel exactly while one
\* thread, and only one, has it checked out.
MutualExclusion ==
  /\ \A l \in Ptr : p[l] = ATOMIC_NULL <=> \E t \in Thread : Holds(t, l)
  /\ \A t, u \in Thread, l \in Ptr : Holds(t, l) /\ Holds(u, l) => t = u

\* A thread inside a call is where its member function can be, and its locals
\* hold real values, never the sentinel, where the code uses them.
CallState ==
  \A t \in Thread :
    /\ pc[t] # "idle" => op[t] \in Calls
    /\ pc[t] \in {"casFirst", "casLast"} => val[t] \in Val
    /\ pc[t] = "casFirst" => op[t].kind \notin GetKinds
    /\ pc[t] \in {"loadLast", "casLast", "checkin", "rollback"}
         => op[t].kind \in SwapKinds
    /\ pc[t] = "held" => op[t].kind \in CheckoutKinds
    /\ pc[t] \in {"loadLast", "casLast", "checkin", "rollback", "held"}
         => valFirst[t] \in Val
    /\ pc[t] = "checkin" => valLast[t] \in Val

\* The inductive invariant: mutual exclusion is not inductive alone, since a
\* compare-and-set from the sentinel would succeed on a held pointer.
IInv == TypeOK /\ CallState /\ MutualExclusion

\* What a pointer means while it is checked out: the value its holder will
\* put back, or took out.
Private(t) == IF pc[t] = "checkin" THEN valLast[t] ELSE valFirst[t]

Content ==
  [l \in Ptr |->
     IF p[l] # ATOMIC_NULL THEN p[l]
     ELSE Private(CHOOSE t \in Thread : Holds(t, l))]

PhaseOf(c) ==
  IF c \in {"idle", "held"} THEN c
  ELSE IF c \in {"checkin", "rollback"} THEN "finished" ELSE "called"

Phase == [t \in Thread |-> PhaseOf(pc[t])]

Cells == INSTANCE AtomicCells WITH cell <- Content, phase <- Phase

\* Every call is linearizable: the CAS-level code implements the one-step
\* operations of AtomicCells, results included.
Linearizable == Cells!Spec

\* "deadlock-free" (AtomicPtr.h:225): however the swaps of the threads
\* overlap, every call returns.
EveryCallReturns == <>AllReturned
=============================================================================
