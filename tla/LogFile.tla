------------------------------ MODULE LogFile ------------------------------
(***************************************************************************)
(* The append-only log as bytes (persistence.cpp): how a record is         *)
(* written, and how replay_log finds the records again in a file that may  *)
(* have been cut anywhere.  Recovery takes the file for a sequence of      *)
(* records and a flag, "part of a record follows"; here is what makes that *)
(* flag visible to the reader.                                             *)
(*                                                                         *)
(* A file is a sequence of units: a verb, a digit, a blank, a newline, or  *)
(* any other byte.  Numbers are binary, so that short texts have lengths   *)
(* of several digits, and a number that is cut is another number.          *)
(***************************************************************************)
EXTENDS Integers, Sequences, FiniteSetsExt, SequencesExt

CONSTANTS Record,     \* what is logged: verb, words (units) and, of EXPIRE, deadline
          MaxRecords  \* bound: records in the file

\* kRecordShapes, one verb for each shape.
Shape == [SET |-> 2, DEL |-> 1, HSET |-> 3]
Digit == {"0", "1"}
White == {"blank", "newline"}
Verb == DOMAIN Shape \cup {"EXPIRE"}
Unit == Verb \cup Digit \cup White \cup {"x"}
Text == Seq(Unit)

\* As many words as the verb asks for, each any text.
ASSUME LogFileAssumption ==
  /\ MaxRecords \in Nat
  /\ \A r \in Record :
       \/ /\ r.verb \in DOMAIN Shape
          /\ r.words \in Seq(Text) /\ Len(r.words) = Shape[r.verb]
          /\ r = [verb |-> r.verb, words |-> r.words]
       \/ /\ r.verb = "EXPIRE"
          /\ r.words \in Seq(Text) /\ Len(r.words) = 1 /\ r.deadline \in Nat
          /\ r = [verb |-> r.verb, words |-> r.words, deadline |-> r.deadline]

VARIABLES file,    \* the file's units
          whole,   \* ghost: the records that are in it whole, in order
          serving, \* is a process running that appends to it?
          unread,  \* ghost: has a process served without reading the file?
          retried  \* ghost: was a record that failed written again after what was left of it?

vars == <<file, whole, serving, unread, retried>>

-----------------------------------------------------------------------------
(* Writing *)

Digits(n) ==
  LET digits[m \in 0 .. n] ==
        LET last == IF m % 2 = 0 THEN "0" ELSE "1"
        IN  IF m < 2 THEN <<last>> ELSE Append(digits[m \div 2], last)
  IN  digits[n]

Field(text) == Digits(Len(text)) \o <<"blank">> \o text

Format(r) == <<r.verb>>
               \o FlattenSeq([i \in DOMAIN r.words |-> <<"blank">> \o Field(r.words[i])])
               \o (IF r.verb = "EXPIRE" THEN <<"blank">> \o Digits(r.deadline) ELSE << >>)
               \o <<"newline">>

Contents(rs) == FlattenSeq([i \in DOMAIN rs |-> Format(rs[i])])

-----------------------------------------------------------------------------
(* Reading: each operator reads at a place in the file, and says whether it *)
(* could, what it read, and where it stopped.                               *)

Read(value, pos) == [ok |-> TRUE, value |-> value, pos |-> pos]
Refused == [ok |-> FALSE]
AndThen(read, GoOn(_, _)) == IF read.ok THEN GoOn(read.value, read.pos) ELSE Refused

\* in.get() == u
Gets(in, pos, u) == pos <= Len(in) /\ in[pos] = u
\* Where a run of units of S ends; operator>> skips a run of White first.
RunEnd(in, pos, S) == Min({i \in pos .. Len(in) : in[i] \notin S} \cup {Len(in) + 1})

NumberOf(digits) ==
  LET number[i \in 0 .. Len(digits)] ==
        IF i = 0 THEN 0 ELSE 2 * number[i - 1] + (IF digits[i] = "1" THEN 1 ELSE 0)
  IN  number[Len(digits)]

ReadNumber(in, pos) ==
  LET start == RunEnd(in, pos, White)
      stop == RunEnd(in, start, Digit)
  IN  IF start = stop THEN Refused ELSE Read(NumberOf(SubSeq(in, start, stop - 1)), stop)

\* A blank, a length, a blank, and that many units, if the file has them.
ReadField(in, pos) ==
  IF ~Gets(in, pos, "blank") THEN Refused
  ELSE AndThen(ReadNumber(in, pos + 1), LAMBDA length, at :
         IF Gets(in, at, "blank") /\ length <= Len(in) - at
         THEN Read(SubSeq(in, at + 1, at + length), at + length + 1)
         ELSE Refused)

ReadFields(in, pos, n) ==
  LET fields[i \in 0 .. n] ==
        IF i = 0 THEN Read(<< >>, pos)
        ELSE AndThen(fields[i - 1], LAMBDA words, at :
               AndThen(ReadField(in, at), LAMBDA word, end : Read(Append(words, word), end)))
  IN  fields[n]

ReadDeadline(in, pos) == IF Gets(in, pos, "blank") THEN ReadNumber(in, pos + 1) ELSE Refused

EndsRecord(in, pos) == Gets(in, pos, "newline")

\* The words that follow the verb; after an EXPIRE's key, the deadline.
ReadRecord(in, verb, pos) ==
  CASE verb \notin {<<v>> : v \in Verb} -> Refused
    [] verb = <<"EXPIRE">> ->
         AndThen(ReadFields(in, pos, 1), LAMBDA key, at :
           AndThen(ReadDeadline(in, at), LAMBDA deadline, end :
             IF ~EndsRecord(in, end) THEN Refused
             ELSE Read([verb |-> "EXPIRE", words |-> key, deadline |-> deadline], end + 1)))
    [] verb \in {<<v>> : v \in DOMAIN Shape} ->
         AndThen(ReadFields(in, pos, Shape[verb[1]]), LAMBDA words, end :
           IF ~EndsRecord(in, end) THEN Refused
           ELSE Read([verb |-> verb[1], words |-> words], end + 1))

\* replay_log's loop: the file ends where a verb was due, or it is refused.
ReadLog(in) ==
  LET log[pos \in 1 .. Len(in) + 1] ==
        LET start == RunEnd(in, pos, White)
            stop == RunEnd(in, start, Unit \ White)
        IN  IF start > Len(in) THEN Read(<< >>, start)
            ELSE AndThen(ReadRecord(in, SubSeq(in, start, stop - 1), stop), LAMBDA first, at :
                   AndThen(log[at], LAMBDA rest, end : Read(<<first>> \o rest, end)))
  IN  log[1]

-----------------------------------------------------------------------------
Init == /\ file = << >> /\ whole = << >>
        /\ serving = TRUE
        /\ unread = FALSE /\ retried = FALSE

\* log_command, log_expire.
Log(r) == /\ serving /\ Len(whole) < MaxRecords
          /\ file' = file \o Format(r)
          /\ whole' = Append(whole, r)
          /\ UNCHANGED <<serving, unread, retried>>

\* What can be left of units that were being written; of a verb, some letters.
Pieces(s) == {SubSeq(s, 1, n) : n \in 0 .. Len(s) - 1}
               \cup {SubSeq(s, 1, n) \o <<"x">> : n \in {i \in 0 .. Len(s) - 1 : s[i + 1] \in Verb}}

ProcessGoes == serving /\ serving' = FALSE /\ UNCHANGED unread

\* Between two records.
Stop == ProcessGoes /\ UNCHANGED <<file, whole, retried>>
\* In the middle of one.
StopMidRecord(r) == /\ ProcessGoes
                    /\ Len(whole) < MaxRecords
                    /\ \E piece \in Pieces(Format(r)) : file' = file \o piece
                    /\ UNCHANGED <<whole, retried>>

\* No word is as long as what a record begins with: its verb, a blank and a length.
Short(r) == \A i \in DOMAIN r.words : Len(r.words[i]) < 2 + Len(Digits(Len(r.words[1])))

\* After a write that failed halfway, the stream writes its buffer again as it
\* is closed: libstdc++'s does, which the program neither asks for nor prevents.
StopAndRetry(r) == /\ ProcessGoes
                   /\ Len(whole) < MaxRecords
                   /\ \E piece \in Pieces(Format(r)) \ {<< >>} :
                        file' = file \o piece \o Format(r)
                   /\ retried' = (retried \/ ~Short(r))
                   /\ UNCHANGED whole

\* The machine goes: flush() is not fsync(), and the end of the file is lost.
TailLost == /\ ProcessGoes
            /\ file' \in Pieces(file)
            /\ LET kept == {n \in 0 .. Len(whole) : IsPrefix(Contents(SubSeq(whole, 1, n)), file')}
               IN  whole' = SubSeq(whole, 1, Max(kept))
            /\ UNCHANGED retried

\* Mutant: a file that is refused is appended to all the same.
StartAnyhow == /\ ~serving
               /\ serving' = TRUE
               /\ UNCHANGED <<file, whole, unread, retried>>
Start == /\ ~serving
         /\ ReadLog(file).ok
         /\ serving' = TRUE
         /\ UNCHANGED <<file, whole, unread, retried>>

\* A file that does not open for reading, and then does for appending.
StartUnread == /\ ~serving
               /\ serving' = TRUE
               /\ unread' = TRUE
               /\ UNCHANGED <<file, whole, retried>>

Next == \/ \E r \in Record : Log(r) \/ StopMidRecord(r) \/ StopAndRetry(r)
        \/ Stop \/ TailLost \/ Start \/ StartUnread

Spec == Init /\ [][Next]_vars

-----------------------------------------------------------------------------
(* Properties *)

\* Wherever the file was cut, and whatever blanks, newlines, numbers and verbs
\* its keys and values hold: if whole records are left, replay reads exactly
\* these, and if part of one is, replay refuses the file; as long as each
\* process that appended to the file had read it, and no long record was
\* written twice.
WholeLogsReadBack ==
  LET read == ReadLog(file)
  IN  \/ unread \/ retried
      \/ IF file = Contents(whole) THEN read.ok /\ read.value = whole ELSE ~read.ok

\* What one would like: a file that is not the records that were logged is
\* refused, however it came to be.
BrokenLogsAreRefused == unread \/ file = Contents(whole) \/ ~ReadLog(file).ok
=============================================================================
