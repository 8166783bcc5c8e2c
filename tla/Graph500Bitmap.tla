--------------------------- MODULE Graph500Bitmap ---------------------------
(***************************************************************************)
(* The bitmaps of graph500's search (bitmap.h), word by word: the threads  *)
(* fill one from the queue with bm_set_bit_atomic and then each reads its  *)
(* part back with bm_get_bit and bm_get_next_bit, as fill_bitmap_from_queue*)
(* and fill_queue_from_bitmap do.  A word is the set of its bits.          *)
(***************************************************************************)
EXTENDS Integers, Sequences, FiniteSets, SequencesExt, FiniteSetsExt

CONSTANTS
  Queues,     \* [nv, vlist]
  NT,
  WordBits,   \* 64
  PosBits     \* the bits that bm_get_next_bit keeps of a position: 32

VARIABLES nv, vlist, words, pc, todo, old_val, pos, found

vars == <<nv, vlist, words, pc, todo, old_val, pos, found>>

Thread == 0 .. NT - 1
WordOffset(n) == n \div WordBits
BitOffset(n)  == n % WordBits

Share(t, n) ==
  LET q == n \div NT
      r == n % NT
  IN [i \in 1 .. (IF t < r THEN q + 1 ELSE q) |-> t * q + Min({t, r}) + i - 1]

\* bm_init and bm_reset: a word for every WordBits positions, all empty.
Init ==
  /\ \E q \in Queues : nv = q.nv /\ vlist = q.vlist
  /\ words = [w \in 0 .. ((nv + WordBits - 1) \div WordBits) - 1 |-> {}]
  /\ pc = [t \in Thread |-> "fill"]
  /\ todo = [t \in Thread |-> LET ks == Share(t, Len(vlist)) IN [i \in DOMAIN ks |-> vlist[ks[i] + 1]]]
  /\ old_val = [t \in Thread |-> {}]
  /\ pos = [t \in Thread |-> -1]
  /\ found = [t \in Thread |-> <<>>]

Goto(t, p) == pc' = [pc EXCEPT ![t] = p]

\* bm_set_bit_atomic: load, then compare and swap, again if it fails.
Load(t) ==
  /\ pc[t] = "fill" /\ todo[t] # <<>>
  /\ old_val' = [old_val EXCEPT ![t] = words[WordOffset(Head(todo[t]))]]
  /\ Goto(t, "cas")
  /\ UNCHANGED <<nv, vlist, words, todo, pos, found>>
Cas(t) ==
  LET w == WordOffset(Head(todo[t])) IN
  /\ pc[t] = "cas"
  /\ IF words[w] = old_val[t]
     THEN /\ words' = [words EXCEPT ![w] = old_val[t] \cup {BitOffset(Head(todo[t]))}]
          /\ todo' = [todo EXCEPT ![t] = Tail(@)]
     ELSE UNCHANGED <<words, todo>>
  /\ Goto(t, "fill")
  /\ UNCHANGED <<nv, vlist, old_val, pos, found>>

\* The positions that thread t reads back.
NodesPerThread == (nv + NT - 1) \div NT
First(t) == NodesPerThread * t
End(t)   == Min({First(t) + NodesPerThread, nv})

Filled ==
  /\ \A t \in Thread : pc[t] = "fill" /\ todo[t] = <<>>
  /\ pc' = [t \in Thread |-> IF First(t) < nv THEN "scan" ELSE "done"]
  /\ pos' = [t \in Thread |-> First(t)]
  /\ UNCHANGED <<nv, vlist, words, todo, old_val, found>>

GetBit(n) == BitOffset(n) \in words[WordOffset(n)]

\* (next & 0xffffffc0): the start of the word, of the lower part of the position.
WordStart(n) == (n % 2^PosBits) - BitOffset(n)

NextBit(n) ==
  LET w     == WordOffset(n)
      rest  == {b \in words[w] : b > BitOffset(n)}
      later == {x \in DOMAIN words : x > w /\ words[x] # {}}
  IN IF rest # {} THEN n + Min(rest) - BitOffset(n)
     ELSE IF later = {} THEN -1
     ELSE WordStart(n) + WordBits * (Min(later) - w) + Min(words[Min(later)])

\* The first position by bm_get_bit, the others by bm_get_next_bit.
Scan(t) ==
  /\ pc[t] = "scan"
  /\ found' = [found EXCEPT ![t] = IF GetBit(pos[t]) THEN Append(@, pos[t]) ELSE @]
  /\ pos' = [pos EXCEPT ![t] = NextBit(pos[t])]
  /\ Goto(t, IF NextBit(pos[t]) \in 0 .. End(t) - 1 THEN "scan" ELSE "done")
  /\ UNCHANGED <<nv, vlist, words, todo, old_val>>

Step(t) == Load(t) \/ Cas(t) \/ Scan(t)
Done == \A t \in Thread : pc[t] = "done"

Next == (\E t \in Thread : Step(t)) \/ Filled
Spec == Init /\ [][Next]_vars

-----------------------------------------------------------------------------
\* What the threads read back is what the queue held, each vertex once and in
\* order, although they set bits of one word at the same time and one thread's
\* part ends within a word of the next one's.
FrontierKept ==
  Done => FlattenSeq([i \in 1 .. NT |-> found[i - 1]]) = SetToSortSeq(ToSet(vlist), <)
=============================================================================
