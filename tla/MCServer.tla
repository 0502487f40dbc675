------------------------------ MODULE MCServer ------------------------------
(* Instances of Server for TLC. *)
EXTENDS Server, TLC

CONSTANTS k1, a, c1, c2

OneKey == {k1}
OneElem == {a}
TwoClients == {c1, c2}

ClientSymmetry == Permutations(TwoClients)

\* The last request, its reply and its record, and the Store a crash found,
\* decide nothing that follows.
Lasting == <<store, now, phase, log, torn, bad, pos, loaded, crashes, made, bufferVars>>
=============================================================================
