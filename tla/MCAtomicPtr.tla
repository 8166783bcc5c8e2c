---------------------------- MODULE MCAtomicPtr ----------------------------
(***************************************************************************)
(* Small instances of AtomicPtr (two pointers, every call) and, as a run   *)
(* of its own, of the machine-level operations it is made of.              *)
(***************************************************************************)
EXTENDS AtomicPtr, TLC

CONSTANTS v1, v2, u1, u2, Types, OrderedOps, MaxLost

VARIABLES
  machine,     \* this run is of the machine-level operations
  arch, mcall, mpc, reg, expect, mres, mem, linked, payload, pending, early, got,
  released, saw, moved, start, lost

TwoPtrs  == {1, 2}
TwoStart == (1 :> v1 @@ 2 :> v2)

\* Bits that stand for 8, 16, 32 and 64.
Bits(w)  == CASE w <= 16 -> 1 [] w = 32 -> 2 [] w = 64 -> 3
Operand  == (u1 :> 1 @@ u2 :> 3)
Roles == {(u1 :> "plain" @@ u2 :> "plain"), (u1 :> "rel" @@ u2 :> "acq")}

M == INSTANCE MachineAtomics
       WITH Thread <- {u1, u2}, Contents <- {1}, call <- mcall, pc <- mpc, res <- mres

NoMachine ==
  /\ arch = "none" /\ mcall = <<>> /\ mpc = <<>> /\ reg = <<>> /\ expect = <<>> /\ mres = <<>>
  /\ mem = 0 /\ linked = {} /\ payload = 0 /\ pending = {} /\ early = <<>> /\ got = <<>>
  /\ released = FALSE /\ saw = {} /\ moved = {} /\ start = 0 /\ lost = 0

machineVars == <<arch, mcall, mpc, reg, expect, mres, mem, linked, payload, pending, early,
                 got, released, saw, moved, start, lost>>
mcvars == <<machine, vars, machineVars>>

PtrStep(t) == ~machine /\ (Call(t) \/ Step(t)) /\ UNCHANGED <<machine, machineVars>>
MachineStep(t)  == machine /\ M!Instruction(t) /\ UNCHANGED <<machine, vars>>
MachineDrain(t) == machine /\ M!Drain(t) /\ UNCHANGED <<machine, vars>>

MCInit == Init /\ ((machine = TRUE /\ M!MInit) \/ (machine = FALSE /\ NoMachine))
MCNext ==
  \/ \E t \in Thread : PtrStep(t)
  \/ \E t \in {u1, u2} :
       \/ MachineStep(t)
       \/ MachineDrain(t)
       \/ machine /\ (M!LoadEarly(t) \/ M!LoseReservation(t)) /\ UNCHANGED <<machine, vars>>
  \/ (IF machine THEN M!AllOperationsReturned ELSE AllReturned) /\ UNCHANGED mcvars

MCSpec ==
  /\ MCInit /\ [][MCNext]_mcvars
  /\ \A t \in Thread : WF_mcvars(PtrStep(t))
  /\ \A t \in {u1, u2} : WF_mcvars(MachineStep(t)) /\ WF_mcvars(MachineDrain(t))

-----------------------------------------------------------------------------
\* Concurrent operations of a processor's header have the results, and leave
\* the cell, of some order of them.
AsIfInOrder == machine => M!AsIfInOrder

\* An acquiring operation that follows a releasing one on the cell sees what
\* was stored before the release, on every processor.
ReleasePublishes == machine => M!ReleasePublishes

\* Every AtomicPtr call returns, and so does every machine-level operation:
\* no deadlock between swaps, no retry loop that two threads keep alive.
EveryOperationReturns == <>(IF machine THEN M!AllOperationsReturned ELSE AllReturned)
=============================================================================
