---------------------------- MODULE AtomicCells ----------------------------
(***************************************************************************)
(* What canneal's threads::AtomicPtr<T> promises its callers: an array of  *)
(* cells on which every call takes effect in ONE step between its start    *)
(* and its return (AtomicPtr.h:173-298).  A cell that a caller has checked *)
(* out has no visible content until it is checked in, so calls on it wait, *)
(* and the Try variants may report failure instead of waiting.             *)
(***************************************************************************)
EXTENDS Integers

CONSTANTS
  Thread,   \* the threads that call the pointers
  Ptr,      \* the AtomicPtr objects
  Val,      \* the values (T*) a pointer can hold
  Start,    \* what each pointer is constructed with
  Calls,    \* the calls a thread may make: records kind, first, last, x
  NoCall,   \* a thread that has made no call yet
  Failed,   \* a Try call returned false
  Done      \* a swap returned (true)

VARIABLES
  cell,     \* the content of each pointer
  phase,    \* per thread: "idle", "called", "held", "finished"
  op,       \* per thread: the call in progress
  res       \* per thread: what the last call returned

vars == <<cell, phase, op, res>>

TryKinds == {"TryGet", "TrySet", "TrySwap", "TryCheckout"}

CheckedOut == {op[t].first : t \in {u \in Thread : phase[u] = "held"}}

Init ==
  /\ cell = Start
  /\ phase = [t \in Thread |-> "idle"]
  /\ op = [t \in Thread |-> NoCall]
  /\ res = [t \in Thread |-> Done]

Move(t, from, to) == phase[t] = from /\ phase' = [phase EXCEPT ![t] = to]

Call(t) ==
  /\ Move(t, "idle", "called")
  /\ \E c \in Calls : op' = [op EXCEPT ![t] = c]
  /\ UNCHANGED <<cell, res>>

\* A read or an overwrite of one cell, returning what was there.
Access(t) ==
  LET l == op[t].first IN
  /\ Move(t, "called", "idle")
  /\ op[t].kind \in {"Get", "TryGet", "Set", "TrySet"}
  /\ l \notin CheckedOut
  /\ res' = [res EXCEPT ![t] = cell[l]]
  /\ cell' = IF op[t].kind \in {"Set", "TrySet"}
             THEN [cell EXCEPT ![l] = op[t].x] ELSE cell
  /\ UNCHANGED op

\* Both cells change in one step: no caller sees one half of a swap.
Swap(t) ==
  LET l == op[t].first
      m == op[t].last
  IN
  /\ Move(t, "called", "finished")
  /\ op[t].kind \in {"Swap", "TrySwap"}
  /\ {l, m} \cap CheckedOut = {}
  /\ cell' = [cell EXCEPT ![l] = cell[m], ![m] = cell[l]]
  /\ res' = [res EXCEPT ![t] = Done]
  /\ UNCHANGED op

Checkout(t) ==
  LET l == op[t].first IN
  /\ Move(t, "called", "held")
  /\ op[t].kind \in {"Checkout", "TryCheckout"}
  /\ l \notin CheckedOut
  /\ res' = [res EXCEPT ![t] = cell[l]]
  /\ UNCHANGED <<cell, op>>

Checkin(t) ==
  /\ Move(t, "held", "idle")
  /\ \E x \in Val : cell' = [cell EXCEPT ![op[t].first] = x]
  /\ UNCHANGED <<op, res>>

Fail(t) ==
  /\ Move(t, "called", "idle") \/ Move(t, "called", "finished")
  /\ op[t].kind \in TryKinds
  /\ res' = [res EXCEPT ![t] = Failed]
  /\ UNCHANGED <<cell, op>>

Return(t) ==
  /\ Move(t, "finished", "idle")
  /\ UNCHANGED <<cell, op, res>>

Next == \E t \in Thread :
  \/ Call(t) \/ Access(t) \/ Swap(t) \/ Checkout(t)
  \/ Checkin(t) \/ Fail(t) \/ Return(t)

Spec == Init /\ [][Next]_vars
=============================================================================
