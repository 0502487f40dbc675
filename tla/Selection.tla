------------------------------ MODULE Selection ------------------------------
(***************************************************************************)
(* Parts of a sequence, as SelectSeq takes them, but by position and as a  *)
(* recursive function, which can be reasoned about.                        *)
(***************************************************************************)
EXTENDS Integers, Sequences

\* What s holds at its positions in I, in order.
At(s, I) ==
  LET picked[i \in 0 .. Len(s)] ==
        IF i = 0 THEN << >>
        ELSE IF i \in I THEN Append(picked[i - 1], s[i]) ELSE picked[i - 1]
  IN  picked[Len(s)]
=============================================================================
