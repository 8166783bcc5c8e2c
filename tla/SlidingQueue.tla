---------------------------- MODULE SlidingQueue ----------------------------
(***************************************************************************)
(* gapbs SlidingQueue and the per-thread QueueBuffer (sliding_queue.h).    *)
(* The window [outStart, outEnd) is what readers iterate over; appends go  *)
(* behind it and are seen after slide_window.  In a parallel region a      *)
(* thread appends to its QueueBuffer; flush reserves a range with one      *)
(* fetch_and_add and then copies into it.                                  *)
(*                                                                         *)
(* The module defines the operations; the kernels that use them supply the *)
(* schedule.                                                               *)
(***************************************************************************)
EXTENDS Integers, Sequences, SequencesExt

CONSTANTS
  Thread,
  LocalSize    \* QueueBuffer's local_size (16384 in the code)

VARIABLES
  slots,       \* shared: what has been written, by index
  sharedIn,    \* shared_in
  outStart, outEnd,
  lq,          \* per thread: local_queue[0..in)
  copyStart    \* per thread: the start of a reserved range, or -1

queueVars == <<slots, sharedIn, outStart, outEnd, lq, copyStart>>

QueueInit ==
  /\ slots = << >>
  /\ sharedIn = 0 /\ outStart = 0 /\ outEnd = 0
  /\ lq = [t \in Thread |-> <<>>]
  /\ copyStart = [t \in Thread |-> -1]

SetSlots(start, items) ==
  slots' = [i \in DOMAIN slots \cup start .. (start + Len(items) - 1) |->
              IF i \in start .. (start + Len(items) - 1)
              THEN items[i - start + 1] ELSE slots[i]]

\* push_back on the queue itself, by the only thread that runs, followed by
\* slide_window as every kernel does when it seeds the queue.
SeedQueue(x) ==
  /\ SetSlots(0, <<x>>)
  /\ sharedIn' = 1 /\ outStart' = 0 /\ outEnd' = 1
  /\ UNCHANGED <<lq, copyStart>>

Window == {slots[i] : i \in outStart .. outEnd - 1}
QueueEmpty == outStart = outEnd
QueueSize == outEnd - outStart

\* slide_window
SlideKeepingStart == outEnd' = sharedIn /\ UNCHANGED <<slots, sharedIn, outStart, lq, copyStart>>

SlideWindow ==
  /\ outStart' = outEnd
  /\ outEnd' = sharedIn
  /\ UNCHANGED <<slots, sharedIn, lq, copyStart>>

\* QueueBuffer::push_back of a buffer that is not full.  A full one is
\* flushed first.
BufferFull(t) == Len(lq[t]) = LocalSize

BufferPush(t, x) ==
  /\ ~BufferFull(t)
  /\ lq' = [lq EXCEPT ![t] = Append(@, x)]
  /\ UNCHANGED <<slots, sharedIn, outStart, outEnd, copyStart>>

\* QueueBuffer::flush, first half: copy_start = fetch_and_add(shared_in, in).
FlushReserve(t) ==
  /\ copyStart[t] = -1
  /\ copyStart' = [copyStart EXCEPT ![t] = sharedIn]
  /\ sharedIn' = sharedIn + Len(lq[t])
  /\ UNCHANGED <<slots, outStart, outEnd, lq>>

\* Second half: std::copy into the range, in = 0.
FlushCopyKeepsBuffer(t) ==
  /\ copyStart[t] # -1
  /\ SetSlots(copyStart[t], lq[t])
  /\ copyStart' = [copyStart EXCEPT ![t] = -1]
  /\ UNCHANGED <<sharedIn, outStart, outEnd, lq>>

FlushCopy(t) ==
  /\ copyStart[t] # -1
  /\ SetSlots(copyStart[t], lq[t])
  /\ lq' = [lq EXCEPT ![t] = <<>>]
  /\ copyStart' = [copyStart EXCEPT ![t] = -1]
  /\ UNCHANGED <<sharedIn, outStart, outEnd>>
=============================================================================
