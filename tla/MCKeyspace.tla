----------------------------- MODULE MCKeyspace -----------------------------
(* An instance of Keyspace for TLC. *)
EXTENDS Keyspace, TLC

CONSTANTS k, a, b

OneKey == {k}
TwoElems == {a, b}

\* Deleting, the shortest life, a life of two seconds, and one that fits the
\* clock only while it reads 0 or 1.
EverySeconds == {0, 1, 2, 3}
\* From before the front to past the back of a list of two, both ways round.
EveryIndex == -3 .. 2

ElemSymmetry == Permutations(TwoElems)
=============================================================================
