----------------------------- MODULE MCAnnealer -----------------------------
(* Small instances of Annealer for TLC. *)
EXTENDS Annealer

CONSTANTS n1, n2

Elt(n, f) == [name |-> n, fanins |-> f]

\* A fanin used before its entry; with the newline the pool is full.
Forward == [maxX |-> 1, maxY |-> 3, newline |-> TRUE,
            entries |-> <<Elt(n1, <<n2>>), Elt(n2, <<>>)>>]
\* Two wires in opposite directions.
Mutual  == [maxX |-> 1, maxY |-> 3, newline |-> FALSE,
            entries |-> <<Elt(n1, <<n2>>), Elt(n2, <<n1>>)>>]
\* As many elements as positions: rejected by the assert.
Full    == [maxX |-> 2, maxY |-> 1, newline |-> TRUE,
            entries |-> <<Elt(n1, <<n2>>), Elt(n2, <<>>)>>]

ThreeFiles == {Forward, Mutual, Full}
OneFile    == {Forward}

\* Two steps, or (main.cpp without argument 5) until convergence.
BothModes      == {2, -1}
UntilConverged == {-1}
=============================================================================
