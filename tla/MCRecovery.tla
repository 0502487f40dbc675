----------------------------- MODULE MCRecovery -----------------------------
(* Instances of Recovery for TLC. *)
EXTENDS Recovery, TLC

CONSTANTS k1, k2, a, b

\* TLC looks at the fields of a record in the order in which it first meets
\* their names: here, at the type of a value before what it holds.
TypeBeforeContents == [type |-> "string", val |-> a]

OneKey   == {k1}
OneElem  == {a}
TwoElems == {a, b}

FewSeconds  == {0, 1, 2}
ShortAndLong == {1, 4}
EndIndices == {-1}

ElemSymmetry == Permutations(TwoElems)

\* States that differ only in the last request, its reply and its record have
\* the same future; only TypeOK looks at these, and logging checks that.
Lasting == <<store, now, phase, log, torn, bad, pos, loaded, crashes, before, made>>
=============================================================================
