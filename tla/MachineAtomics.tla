--------------------------- MODULE MachineAtomics ---------------------------
(***************************************************************************)
(* Threads that run one atomic operation each on a shared cell, on one of  *)
(* the processors of canneal/atomic.  A thread whose operation releases    *)
(* stores a payload before it; one whose operation acquires loads the      *)
(* payload after it.  Stores of the payload wait in the processor and      *)
(* loads of it may be made early, until a barrier; the compiler moves      *)
(* either across an operation that is not a barrier for it.                *)
(*                                                                         *)
(* The operations come first: for each processor, which ones its header    *)
(* provides, on how many bits each works, and the instructions it is made  *)
(* of.                                                                     *)
(*                                                                         *)
(* A program is a sequence of instructions [ins, jump]; jump is where a    *)
(* failing instruction goes, relative to itself.                           *)
(*   ld, st       load into a register, store                              *)
(*   ll, sc       load-locked, store-conditional of the computed value     *)
(*   cmp          leave with result 0 unless the value loaded is cmpval    *)
(*   recheck      go back unless the value loaded is the one read before   *)
(*   cas, chain   compare-and-swap against the register; the second keeps  *)
(*                the value it found for its next attempt                  *)
(*   cmpxchg      compare-and-set against cmpval                           *)
(*   locked...    an instruction with the lock prefix                      *)
(*   fence, wmb, acquire, release     memory barriers                      *)
(***************************************************************************)
EXTENDS Integers, Sequences, Bitwise, FiniteSets

I(ins)       == [ins |-> ins, jump |-> 0]
Jump(ins, j) == [ins |-> ins, jump |-> j]

Arith  == {"set", "clear", "add", "subtract"}
Orders == {"plain", "acq", "rel"}
Archs  == {"i386", "amd64", "powerpc", "sparc", "ia64", "alpha"}

\* An access with the barrier of its variant: behind an acquire, before a release.
Ordered(order, code, behind, before) ==
  CASE order = "acq"   -> code \o behind
    [] order = "rel"   -> before \o code
    [] order = "plain" -> code

\* What the arithmetic of an operation makes of the w-bit value old.
Alu(op, old, v, w) ==
  CASE op = "set" -> old | v
    [] op = "clear" -> old & (2^w - 1 - v)
    [] op \in {"add", "fetchadd"} -> (old + v) % 2^w
    [] op \in {"subtract", "fetchsubtract"} -> (old + 2^w - v) % 2^w
    [] op = "readandclear" -> 0
    [] op \in {"store", "cmpset"} -> v

-----------------------------------------------------------------------------
(* i386 and amd64: one locked instruction per operation; acquire and       *)
(* release variants are the same function.                                 *)

I386Code(op) ==
  <<I(CASE op = "cmpset" -> "lockedcmpxchg" [] op = "load" -> "lockedload" [] OTHER -> "locked")>>

\* The alternative MPLOCKED that the header has as a comment: no lock prefix.
Amd64CodeUnlocked(op) ==
  IF op = "cmpset" THEN <<I("lockedcmpxchg")>> ELSE IF op = "load" THEN <<I("ld")>>
  ELSE <<I("ld"), I("st")>>

Amd64Code(op) ==
  <<I(CASE op = "cmpset" -> "lockedcmpxchg" [] op = "load" -> "lockedload" [] OTHER -> "locked")>>

\* xchg locks by itself.
Amd64ReadAndClear == <<I("locked")>>
I386ReadAndClear  == <<I("locked")>>

\* The names a header provides: arithmetic, loads and stores on all types,
\* the compare-and-set and the read-and-clear on words, the fetching
\* operations on ints.
Names(types, words, cleared, fetches) ==
  [op : Arith, order : Orders, type : types]
  \cup [op : {"load"}, order : {"acq"}, type : types]
  \cup [op : {"store"}, order : {"rel"}, type : types]
  \cup [op : {"cmpset"}, order : Orders, type : words]
  \cup [op : {"readandclear"}, order : {"plain"}, type : cleared]
  \cup [op : fetches, order : {"plain"}, type : {"int"}]

Fetches == {"fetchadd", "fetchsubtract"}
AllTypes == {"char", "short", "int", "long", "ptr"}
Words == {"int", "long", "ptr"}

I386Names   == Names(AllTypes, Words, Words, Fetches)
Amd64Names  == Names(AllTypes, Words, Words, Fetches)
I386Width   == [char |-> 8, short |-> 16, int |-> 32, long |-> 32, ptr |-> 32]
Amd64Width  == [char |-> 8, short |-> 16, int |-> 32, long |-> 64, ptr |-> 64]

-----------------------------------------------------------------------------
(* Alpha: load-locked and store-conditional, with mb around them. *)

AlphaArith(op) ==
  (IF op = "readandclear" THEN <<I("wmb")>> ELSE <<>>) \o <<I("ll"), Jump("sc", -1)>>

AlphaCmpset == <<I("ll"), Jump("cmp", 2), Jump("sc", -2)>>

AlphaFetchadd == <<I("ll"), Jump("sc", -1)>>

alpha_mb == <<I("fence")>>

AlphaCode(op, order) ==
  Ordered(order,
          CASE op = "load"     -> <<I("ld")>>
            [] op = "store"    -> <<I("st")>>
            [] op = "cmpset"   -> AlphaCmpset
            [] op = "fetchadd" -> AlphaFetchadd
            [] OTHER           -> AlphaArith(op),
          alpha_mb, alpha_mb)

\* The operations on 8 and 16 bits are declared and not defined.
AlphaNames == Names(Words, Words, Words, {"fetchadd"})
AlphaWidth == [int |-> 32, long |-> 64, ptr |-> 64]

-----------------------------------------------------------------------------
(* PowerPC: lwarx and stwcx.; everything has 32 bits.  The fetching        *)
(* operations read, and compare-and-set what they read.                    *)

powerpc_mb == <<I("fence")>>

PowerpcArith(op) ==
  (IF op = "readandclear" THEN <<I("fence")>> ELSE <<>>) \o <<I("ll"), Jump("sc", -1)>>

PowerpcCmpset == <<I("ll"), Jump("cmp", 2), Jump("sc", -2)>>

PowerpcFetch == <<I("ld"), I("ll"), Jump("recheck", -2), Jump("sc", -2)>>

PowerpcLoadStore(op) == IF op = "load" THEN <<I("ld")>> ELSE <<I("st")>>

\* The barrier of an acquire before its load.
PowerpcCodeEarlyBarrier(op, order) ==
  powerpc_mb \o (CASE op \in {"load", "store"} -> PowerpcLoadStore(op)
                   [] op = "cmpset"      -> PowerpcCmpset
                   [] op \in Fetches     -> PowerpcFetch
                   [] OTHER              -> PowerpcArith(op))

PowerpcCode(op, order) ==
  Ordered(order,
          CASE op \in {"load", "store"} -> PowerpcLoadStore(op)
            [] op = "cmpset"      -> PowerpcCmpset
            [] op \in Fetches     -> PowerpcFetch
            [] OTHER              -> PowerpcArith(op),
          powerpc_mb, powerpc_mb)

PowerpcNames == Names(Words, Words, {"int", "long"}, Fetches)
PowerpcWidth == [int |-> 32, long |-> 32, ptr |-> 32]

-----------------------------------------------------------------------------
(* SPARC: compare-and-swap, whose result is the next attempt's expected    *)
(* value; a load is a compare-and-swap of 0 with 0.                        *)

atomic_op == <<I("ld"), Jump("chain", 0)>>

atomic_load == <<I("casload")>>

membar(order) == IF order = "acq" THEN <<I("acquire")>> ELSE <<I("release")>>

SparcCode(op, order) ==
  Ordered(order,
          CASE op = "load"   -> atomic_load
            [] op = "cmpset" -> <<I("cmpxchg")>>
            [] OTHER         -> atomic_op,
          membar("acq"), membar("rel"))

SparcNames == Names(Words, Words, Words, Fetches)
SparcWidth == [int |-> 32, long |-> 64, ptr |-> 64]

-----------------------------------------------------------------------------
(* IA-64: a compare-and-exchange with acquire or release semantics, in a   *)
(* loop that reads again; what has no variant in its name acquires.        *)

IA64_CMPXCHG(sem, ins) ==
  IF sem = "rel" THEN <<I("release"), ins>> ELSE <<ins, I("acquire")>>

IA64_ATOMIC(order) ==
  <<I("ld")>> \o IA64_CMPXCHG(order, Jump("cas", IF order = "rel" THEN -2 ELSE -1))

Ia64LoadStore(op) ==
  IF op = "load" THEN <<I("ld"), I("acquire")>> ELSE <<I("release"), I("st")>>

Ia64Cmpset(order) == IA64_CMPXCHG(order, I("cmpxchg"))

Ia64Fetch == <<I("ld")>> \o IA64_CMPXCHG("acq", Jump("cas", -1))

Ia64Code(op, order) ==
  CASE op \in {"load", "store"} -> Ia64LoadStore(op)
    [] op = "cmpset" -> Ia64Cmpset(order)
    [] op \in Fetches \cup {"readandclear"} -> Ia64Fetch
    [] OTHER -> IA64_ATOMIC(order)

Ia64Names == Names(AllTypes, Words, {"int", "long"}, Fetches)
Ia64Width == [char |-> 8, short |-> 16, int |-> 32, long |-> 64, ptr |-> 64]

-----------------------------------------------------------------------------
(* The header atomic.h includes for the machine. *)

Program(arch, op, order) ==
  CASE arch = "i386"    -> IF op = "readandclear" THEN I386ReadAndClear ELSE I386Code(op)
    [] arch = "amd64"   -> IF op = "readandclear" THEN Amd64ReadAndClear ELSE Amd64Code(op)
    [] arch = "powerpc" -> PowerpcCode(op, order)
    [] arch = "sparc"   -> SparcCode(op, order)
    [] arch = "ia64"    -> Ia64Code(op, order)
    [] arch = "alpha"   -> AlphaCode(op, order)

Provided(arch) ==
  CASE arch = "i386" -> I386Names [] arch = "amd64" -> Amd64Names
    [] arch = "powerpc" -> PowerpcNames [] arch = "sparc" -> SparcNames
    [] arch = "ia64" -> Ia64Names [] arch = "alpha" -> AlphaNames

Width(arch) ==
  CASE arch = "i386" -> I386Width [] arch = "amd64" -> Amd64Width
    [] arch = "powerpc" -> PowerpcWidth [] arch = "sparc" -> SparcWidth
    [] arch = "ia64" -> Ia64Width [] arch = "alpha" -> AlphaWidth

\* Arithmetic that returns the value it found; elsewhere it returns nothing.
ReturnsOld(arch) == arch \in {"sparc", "ia64"}

\* Whether the compiler must keep the memory accesses of the caller on their
\* side of the operation: a "memory" clobber in its assembly, or in the
\* barrier that goes with it.
CompilerBarrier(arch, op) ==
  CASE arch \in {"i386", "amd64"} -> op \in {"cmpset", "load"}
    [] arch = "alpha" -> op \notin {"load", "store", "fetchadd"}
    [] OTHER -> TRUE

-----------------------------------------------------------------------------
CONSTANTS
  Thread,
  Types,          \* the types of the operations tried
  Roles,          \* the variants tried together, thread -> plain, acq or rel
  OrderedOps,     \* the operations tried in their acquire and release variants
  Operand,        \* thread -> the value it adds, sets or stores
  Contents,          \* the initial values of the cell
  Bits(_),        \* how many bits stand for a width
  MaxLost         \* reservations lost for no reason, at most

VARIABLES
  arch, call, pc,
  reg, expect, res,    \* per thread: registers and result
  mem, linked,         \* the cell; the threads with a reservation
  payload, pending, early, got,
  released, saw,       \* history: a release was written; who read after it
  moved,               \* the threads whose payload access the compiler moved
  start, lost

mvars == <<arch, call, pc, reg, expect, res, mem, linked, payload, pending, early, got,
           released, saw, moved, start, lost>>

None == 2      \* no value of the payload

Code(t) == Program(arch, call[t].op, call[t].order)
W(t)    == Bits(Width(arch)[call[t].type])

V(t)    == Operand[t] % 2^W(t)

MInit ==
  /\ arch \in Archs
  /\ \E ty \in Types, role \in Roles :
       call \in {c \in [Thread -> {n \in Provided(arch) : n.type = ty}] :
                    \A t \in Thread :
                      c[t].order = role[t] /\ (role[t] = "plain" \/ c[t].op \in OrderedOps)}
  /\ start \in Contents /\ mem = start
  /\ moved \in SUBSET {t \in Thread : /\ call[t].order # "plain"
                                      /\ ~CompilerBarrier(arch, call[t].op)}
  /\ pc = [t \in Thread |-> 0]
  /\ reg = [t \in Thread |-> 0] /\ expect = [t \in Thread |-> 0]
  /\ res = [t \in Thread |-> 0] /\ got = [t \in Thread |-> None]
  /\ early = [t \in Thread |-> None]
  /\ linked = {} /\ payload = 0 /\ pending = {} /\ released = FALSE /\ saw = {} /\ lost = 0

-----------------------------------------------------------------------------
Low(w)    == mem % 2^w
Put(w, x) == mem - Low(w) + x

At(t, instructions) == pc[t] \in DOMAIN Code(t) /\ Code(t)[pc[t]].ins \in instructions
Goto(t, l)  == pc' = [pc EXCEPT ![t] = l]
Advance(t)  == Goto(t, pc[t] + 1)
Fail(t)     == Goto(t, pc[t] + Code(t)[pc[t]].jump)
Set(f, t, x) == [f EXCEPT ![t] = x]

\* The result: what was found, or 1 for a compare-and-set that stored.
Result(t, found) ==
  CASE call[t].op = "cmpset" -> 1
    [] call[t].op = "store" \/ (call[t].op \in Arith /\ ~ReturnsOld(arch)) -> 0
    [] OTHER -> found

Observe(t) == saw' = IF released THEN saw \cup {t} ELSE saw \ {t}

\* A store to the cell takes every reservation.
Store(t, old) ==
  /\ mem' = Put(W(t), Alu(call[t].op, old, V(t), W(t)))
  /\ linked' = {}
  /\ released' = (released \/ call[t].order = "rel")
  /\ res' = Set(res, t, Result(t, old))

\* What belongs to the caller before and after its operation.
callerVars == <<arch, call, start, moved>>

Before(t) ==
  /\ pc[t] = 0 /\ Advance(t)
  /\ IF call[t].order = "rel" /\ t \notin moved
     THEN pending' = pending \cup {t} ELSE UNCHANGED pending
  /\ IF call[t].order = "acq" /\ t \in moved
     THEN got' = Set(got, t, payload) ELSE UNCHANGED got
  /\ UNCHANGED <<callerVars, reg, expect, res, mem, linked, payload, early, released, saw, lost>>

After(t) ==
  /\ pc[t] = Len(Code(t)) + 1 /\ Advance(t)
  /\ IF call[t].order = "rel" /\ t \in moved
     THEN pending' = pending \cup {t} ELSE UNCHANGED pending
  /\ IF call[t].order = "acq" /\ t \notin moved
     THEN \E x \in {payload, early[t]} \ {None} : got' = Set(got, t, x)
     ELSE UNCHANGED got
  /\ UNCHANGED <<callerVars, reg, expect, res, mem, linked, payload, early, released, saw, lost>>

\* ld, ll, and the loads made of a read-modify-write.
Load(t) ==
  /\ At(t, {"ld", "ll", "casload"}) /\ Advance(t)
  /\ reg' = Set(reg, t, Low(W(t)))
  /\ expect' = IF At(t, {"ld"}) THEN Set(expect, t, Low(W(t))) ELSE expect
  /\ linked' = IF At(t, {"ll"}) THEN linked \cup {t} ELSE linked
  /\ res' = IF call[t].op = "load" THEN Set(res, t, Low(W(t))) ELSE res
  /\ Observe(t)
  /\ UNCHANGED <<callerVars, mem, payload, pending, early, got, released, lost>>

StoreConditional(t) ==
  /\ At(t, {"sc"})
  /\ IF t \in linked THEN Advance(t) /\ Store(t, reg[t])
                     ELSE Fail(t) /\ UNCHANGED <<mem, linked, released, res>>
  /\ UNCHANGED <<callerVars, reg, expect, payload, pending, early, got, saw, lost>>

\* A failed comparison gives the reservation up and leaves with 0.
Compare(t) ==
  /\ At(t, {"cmp", "recheck"})
  /\ IF reg[t] = (IF At(t, {"cmp"}) THEN start % 2^W(t) ELSE expect[t])
     THEN Advance(t) /\ UNCHANGED linked
     ELSE Fail(t) /\ linked' = linked \ {t}
  /\ UNCHANGED <<callerVars, reg, expect, res, mem, payload, pending, early, got, released, saw, lost>>

CompareAndSwap(t) ==
  /\ At(t, {"cas", "chain"})
  /\ IF Low(W(t)) = reg[t]
     THEN Advance(t) /\ Store(t, reg[t]) /\ UNCHANGED reg
     ELSE /\ Fail(t) /\ UNCHANGED <<mem, linked, released, res>>
          /\ reg' = IF At(t, {"chain"}) THEN Set(reg, t, Low(W(t))) ELSE reg
  /\ Observe(t)
  /\ UNCHANGED <<callerVars, expect, payload, pending, early, got, lost>>

CompareAndSet(t) ==
  /\ At(t, {"cmpxchg"}) /\ Advance(t) /\ Observe(t)
  /\ IF Low(W(t)) = start % 2^W(t)
     THEN Store(t, Low(W(t))) ELSE UNCHANGED <<mem, linked, released, res>>
  /\ UNCHANGED <<callerVars, reg, expect, payload, pending, early, got, lost>>

PlainStore(t) ==
  /\ At(t, {"st"}) /\ Advance(t) /\ Store(t, reg[t])
  /\ UNCHANGED <<callerVars, reg, expect, payload, pending, early, got, saw, lost>>

\* An instruction with the lock prefix is a barrier and takes the cell alone.
Locked(t) ==
  /\ At(t, {"locked", "lockedload", "lockedcmpxchg"}) /\ t \notin pending
  /\ Advance(t) /\ Observe(t) /\ early' = Set(early, t, None)
  /\ IF At(t, {"locked"}) \/ (At(t, {"lockedcmpxchg"}) /\ Low(W(t)) = start % 2^W(t))
     THEN Store(t, Low(W(t)))
     ELSE /\ res' = IF call[t].op = "load" THEN Set(res, t, Low(W(t))) ELSE res
          /\ UNCHANGED <<mem, linked, released>>
  /\ UNCHANGED <<callerVars, reg, expect, payload, pending, got, lost>>

Barrier(t) ==
  /\ At(t, {"fence", "wmb", "release", "acquire"}) /\ Advance(t)
  /\ At(t, {"fence", "wmb", "release"}) => t \notin pending
  /\ early' = IF At(t, {"fence", "acquire"}) THEN Set(early, t, None) ELSE early
  /\ UNCHANGED <<callerVars, reg, expect, res, mem, linked, payload, pending, got, released, saw, lost>>

-----------------------------------------------------------------------------
(* The processor. *)

Drain(t) ==
  /\ t \in pending /\ pending' = pending \ {t} /\ payload' = 1
  /\ UNCHANGED <<callerVars, pc, reg, expect, res, mem, linked, early, got, released, saw, lost>>

LoadEarly(t) ==
  /\ call[t].order = "acq" /\ early[t] = None /\ pc[t] <= Len(Code(t))
  /\ early' = Set(early, t, payload)
  /\ UNCHANGED <<callerVars, pc, reg, expect, res, mem, linked, payload, pending, got, released, saw, lost>>

LoseReservation(t) ==
  /\ t \in linked /\ lost < MaxLost
  /\ linked' = linked \ {t} /\ lost' = lost + 1
  /\ UNCHANGED <<callerVars, pc, reg, expect, res, mem, payload, pending, early, got, released, saw>>

Instruction(t) ==
  \/ Before(t) \/ After(t) \/ Load(t) \/ StoreConditional(t) \/ Compare(t)
  \/ CompareAndSwap(t) \/ CompareAndSet(t) \/ PlainStore(t) \/ Locked(t) \/ Barrier(t)

Returned(t) == pc[t] > Len(Code(t)) + 1
AllOperationsReturned == \A t \in Thread : Returned(t)

MNext == \E t \in Thread : Instruction(t) \/ Drain(t) \/ LoadEarly(t) \/ LoseReservation(t)
MFairness == \A t \in Thread : WF_mvars(Instruction(t)) /\ WF_mvars(Drain(t))

-----------------------------------------------------------------------------
(* Properties. *)

\* One call alone, as the comments of the headers define it: what it leaves
\* in the cell and what it returns.
Alone(t, m) ==
  LET w == W(t) old == m % 2^w top == m - old v == V(t) IN
  CASE call[t].op = "load" -> <<m, old>>
    [] call[t].op = "cmpset" -> IF old = start % 2^w THEN <<top + v, 1>> ELSE <<m, 0>>
    [] OTHER -> <<top + Alu(call[t].op, old, v, w), Result(t, old)>>

\* The calls have the results and leave the cell they would in some order, one
\* after the other.
AsIfInOrder ==
  (\A t \in Thread : Returned(t)) =>
    \E first \in Thread :
      LET second == CHOOSE t \in Thread : t # first
          a == Alone(first, start)
          b == Alone(second, a[1])
      IN mem = b[1] /\ res[first] = a[2] /\ res[second] = b[2]

\* Who acquires from the cell after a release was written to it finds the
\* payload, where both operations are barriers for the compiler.
ReleasePublishes ==
  \A t \in Thread :
    ( /\ Returned(t) /\ t \in saw /\ call[t].order = "acq"
      /\ \A u \in Thread : CompilerBarrier(arch, call[u].op) )
    => got[t] = 1
=============================================================================
