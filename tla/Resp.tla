-------------------------------- MODULE Resp --------------------------------
(***************************************************************************)
(* The RESP2 parser (resp.cpp, resp.hpp).  A stream is a sequence of       *)
(* units: a type byte, CR, LF, a numeral, or any other text.  A numeral is *)
(* one unit, since nothing looks inside it; a line or a bulk string of n   *)
(* units stands for one of n bytes.                                        *)
(***************************************************************************)
EXTENDS Integers, Sequences, FiniteSetsExt, SequencesExt

CONSTANT MaxDepth   \* kMaxDepth

ASSUME MaxDepthAssumption == MaxDepth \in Nat \ {0}

\* What from_chars makes of a numeral.  "01" stands for one nobody writes, "99"
\* for more than any buffer holds; "x", or two numerals together, for text that
\* is no number or does not fit.
Numeral == [s \in {"-2", "-1", "0", "1", "2", "99", "01"} |->
              CASE s = "-2" -> -2 [] s = "-1" -> -1 [] s = "0" -> 0
                [] s \in {"1", "01"} -> 1 [] s = "2" -> 2 [] s = "99" -> 99]
LineTypes == {"+", "-", ":", "$", "*"}
Unit == LineTypes \cup DOMAIN Numeral \cup {"CR", "LF", "x"}

-----------------------------------------------------------------------------
(* Values: RespValue, and what the parser answers *)

SimpleString(text) == [type |-> "simple", string |-> text]
Error(text) == [type |-> "error", string |-> text]
Integer(n) == [type |-> "integer", integer |-> n]
Bulk(text) == [type |-> "bulk", string |-> text]
Array(elements) == [type |-> "array", elements |-> elements]
Null(type) == [type |-> type, is_null |-> TRUE]
IsNull(v) == "is_null" \in DOMAIN v

Ok(value, pos) == [status |-> "Ok", value |-> value, pos |-> pos]
Incomplete == [status |-> "Incomplete"]
Malformed == [status |-> "Malformed"]
IsOk(result) == result.status = "Ok"
AndThen(result, GoOn(_, _)) == IF IsOk(result) THEN GoOn(result.value, result.pos) ELSE result

-----------------------------------------------------------------------------
(* parse *)

LineEnds(in, pos) == {i \in pos .. Len(in) - 1 : in[i] = "CR" /\ in[i + 1] = "LF"}
HoldsBreak(line) == {"CR", "LF"} \cap Range(line) # {}

\* Mutant: a CR or an LF is an error as soon as it is seen.
ReadLineAtOnce(in, pos) ==
  IF LineEnds(in, pos) = {}
  THEN IF HoldsBreak(SubSeq(in, pos, Len(in))) THEN Malformed ELSE Incomplete
  ELSE LET crlf == Min(LineEnds(in, pos))
           line == SubSeq(in, pos, crlf - 1)
       IN  IF HoldsBreak(line) THEN Malformed ELSE Ok(line, crlf + 2)
\* Up to the next CRLF; a CR or an LF before it is an error, seen only then.
ReadLine(in, pos) ==
  IF LineEnds(in, pos) = {} THEN Incomplete
  ELSE LET crlf == Min(LineEnds(in, pos))
           line == SubSeq(in, pos, crlf - 1)
       IN  IF HoldsBreak(line) THEN Malformed ELSE Ok(line, crlf + 2)

IsInteger(line) == Len(line) = 1 /\ line[1] \in DOMAIN Numeral
ToInteger(line) == Numeral[line[1]]

\* Mutant: it is waited for too long.
BulkArrivedLate(in, pos, length) == Len(in) - pos + 1 > length + 2
BulkArrived(in, pos, length) == Len(in) - pos + 1 >= length + 2
\* Mutant: two bytes are skipped, whatever they are.
TerminatedAnyhow(in, pos) == TRUE
Terminated(in, pos) == in[pos] = "CR" /\ in[pos + 1] = "LF"

\* A bulk string is read by length, whatever bytes it holds.
ParseBulk(in, pos, length) ==
  CASE length = -1 -> Ok(Null("bulk"), pos)
    [] length < -1 -> Malformed
    [] length >= 0 /\ ~BulkArrived(in, pos, length) -> Incomplete
    [] length >= 0 /\ BulkArrived(in, pos, length) ->
         IF Terminated(in, pos + length)
         THEN Ok(Bulk(SubSeq(in, pos, pos + length - 1)), pos + length + 2)
         ELSE Malformed

\* Mutant: one level too many.
NestsTooDeepLate(depth) == depth > MaxDepth + 1
NestsTooDeep(depth) == depth > MaxDepth

\* The elements in turn, of the values at each place; the first that is not whole
\* decides.
ParseElements(row, pos, count) ==
  LET elements[i \in 0 .. count] ==
        IF i = 0 THEN Ok(<< >>, pos)
        ELSE AndThen(elements[i - 1], LAMBDA before, at :
               AndThen(row[at], LAMBDA element, end : Ok(Append(before, element), end)))
  IN  elements[count]

\* A value, of the values that are one level deeper.
ParseValue(deeper, in, pos, depth) ==
  IF NestsTooDeep(depth) THEN Malformed
  ELSE IF pos > Len(in) THEN Incomplete
  ELSE IF in[pos] \notin LineTypes THEN Malformed
  ELSE AndThen(ReadLine(in, pos + 1), LAMBDA line, at :
         CASE in[pos] = "+" -> Ok(SimpleString(line), at)
           [] in[pos] = "-" -> Ok(Error(line), at)
           [] in[pos] \in {":", "$", "*"} /\ ~IsInteger(line) -> Malformed
           [] in[pos] = ":" /\ IsInteger(line) -> Ok(Integer(ToInteger(line)), at)
           [] in[pos] = "$" /\ IsInteger(line) -> ParseBulk(in, at, ToInteger(line))
           [] in[pos] = "*" /\ IsInteger(line) ->
                LET count == ToInteger(line)
                IN  CASE count = -1 -> Ok(Null("array"), at)
                      [] count < -1 -> Malformed
                      [] count >= 0 ->
                           AndThen(ParseElements(deeper, at, count), LAMBDA elements, end :
                             Ok(Array(elements), end)))

\* At each depth, the values at each place.
Values(in) ==
  LET values[depth \in Nat] ==
        [pos \in 1 .. Len(in) + 1 |-> ParseValue(values[depth + 1], in, pos, depth)]
  IN  values

Parse(in) == Values(in)[1][1]
=============================================================================
