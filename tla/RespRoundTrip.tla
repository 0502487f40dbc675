--------------------------- MODULE RespRoundTrip ---------------------------
(***************************************************************************)
(* A stream whose peer serializes values, and writes anything else between *)
(* them: parsed and serialized against each other.                         *)
(***************************************************************************)
EXTENDS RespStream, RespValues

CONSTANT Value   \* the values the peer serializes

VARIABLE meant   \* the values it serialized

RoundTripInit == Init /\ meant = << >>

WriteValue(v) == Write(Serialize(v)) /\ meant' = Append(meant, v)
WritePiece(p) == Write(p) /\ UNCHANGED meant
ReceivePiece == Receive /\ UNCHANGED meant

RoundTripNext == \/ \E v \in Value : WriteValue(v)
                 \/ \E p \in Piece : WritePiece(p)
                 \/ ReceivePiece

RoundTripSpec == RoundTripInit /\ [][RoundTripNext]_<<vars, meant>>

-----------------------------------------------------------------------------
(* Properties *)

\* The parser accepts only what the serializer writes: the values that came
\* out, serialized, are what was consumed, unit for unit, but for the way a
\* number is written.
Canonical(units) == [i \in DOMAIN units |-> IF units[i] \in DOMAIN Numeral
                                            THEN ToNumeral(Numeral[units[i]]) ELSE units[i]]
ParsesWhatSerializeWrites ==
  Canonical(FlattenSeq([i \in DOMAIN values |-> Serialize(values[i])]) \o buffer \o wire)
    = Canonical(Stream)

\* No value nests deeper than the limit, so neither does the parser's stack.
NestingIsBounded == \A i \in DOMAIN values : Depth(values[i]) <= MaxDepth

\* Of a peer that writes values only, what was serialized comes out equal, as
\* soon as its last unit is there; a value nested too deeply, and only that,
\* breaks the stream.
ValuesArrive ==
  LET deep == {i \in DOMAIN meant : Depth(meant[i]) > MaxDepth}
  IN  wire = << >> /\ Len(meant) = Len(written) =>
        /\ broken <=> deep # {}
        /\ values = SubSeq(meant, 1, Min(deep \cup {Len(meant) + 1}) - 1)
        /\ ~broken => buffer = << >>
=============================================================================
