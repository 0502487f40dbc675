----------------------------- MODULE RespStream -----------------------------
(***************************************************************************)
(* One connection's stream through the parser.  The peer writes anything   *)
(* at all; the network hands it over in pieces cut anywhere; the receiver  *)
(* appends each piece to its buffer and parses for as long as whole values *)
(* come out (handle_readable, server.cpp:162-213).                         *)
(***************************************************************************)
EXTENDS Resp

CONSTANTS Piece,      \* what the peer writes: sequences of units
          MaxWrites   \* bound: how many of these

ASSUME RespStreamAssumption == Piece \subseteq Seq(Unit) /\ MaxWrites \in Nat

VARIABLES written,  \* what the peer has written, in order
          wire,     \* sent and not received yet
          buffer,   \* received and not parsed yet
          values,   \* what came out
          broken    \* was the stream found to be malformed?

vars == <<written, wire, buffer, values, broken>>

Init == /\ written = << >> /\ wire = << >> /\ buffer = << >>
        /\ values = << >> /\ broken = FALSE

\* The parse loop: the values, what is left of the buffer, and the verdict.
Drain[in \in Seq(Unit)] ==
  LET result == Parse(in)
      rest == Drain[SubSeq(in, result.pos, Len(in))]
  IN  IF IsOk(result)
      THEN [rest EXCEPT !.values = <<result.value>> \o @]
      ELSE [values |-> << >>, rest |-> in, broken |-> result = Malformed]

Write(units) == /\ Len(written) < MaxWrites
                /\ written' = Append(written, units)
                /\ wire' = wire \o units
                /\ UNCHANGED <<buffer, values, broken>>

\* A malformed stream is closed; nothing more is read from it.
Receive == /\ ~broken
           /\ \E n \in 1 .. Len(wire) :
                LET drained == Drain[buffer \o SubSeq(wire, 1, n)]
                IN  /\ wire' = SubSeq(wire, n + 1, Len(wire))
                    /\ buffer' = drained.rest
                    /\ values' = values \o drained.values
                    /\ broken' = drained.broken
                    /\ UNCHANGED written

Next == \/ \E p \in Piece : Write(p)
        \/ Receive

Spec == Init /\ [][Next]_vars

-----------------------------------------------------------------------------
(* Properties *)

Stream == FlattenSeq(written)

\* However the stream was cut, what came out, what waits and the verdict are
\* those of parsing all that has arrived at once, and nothing that is still to
\* come would have changed a verdict against it: an Ok or a Malformed stands
\* whatever follows, and nothing is skipped or read twice.
ChunkingIsInvisible ==
  LET arrived == Drain[SubSeq(Stream, 1, Len(Stream) - Len(wire))]
      all == Drain[Stream]
  IN  /\ values = arrived.values
      /\ broken = arrived.broken
      /\ buffer = arrived.rest
      /\ broken => all.broken /\ all.values = values
=============================================================================
