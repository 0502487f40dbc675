----------------------------- MODULE MCLogFile -----------------------------
(* Instances of LogFile for TLC. *)
EXTENDS LogFile

\* Nothing; what ends a record; a length and the blank after it; the whole of
\* an empty DEL, newline included.
Words == {<< >>, <<"newline">>, <<"1", "blank">>, <<"DEL", "blank", "0", "blank", "newline">>}
Names == {<< >>, <<"newline">>}

Records == {[verb |-> "SET", words |-> <<k, v>>] : k \in Names, v \in Words}
             \cup {[verb |-> "DEL", words |-> <<k>>] : k \in Names}
             \cup {[verb |-> "HSET", words |-> <<k, f, f>>] : k, f \in Names}
             \cup {[verb |-> "EXPIRE", words |-> <<k>>, deadline |-> d] : k \in Names, d \in {0, 2}}

\* A key that is also the length of the value, when the rest of the record is
\* read as one.
RetriedRecords == {[verb |-> "SET", words |-> <<<<"0", "0", "0", "1", "1">>, <<"x">>>>],
                   [verb |-> "DEL", words |-> <<<<"x">>>>]}

\* Nothing is claimed of what follows a start that did not read the file.
Explored == ~unread
=============================================================================
