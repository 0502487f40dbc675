------------------------------- MODULE MCResp -------------------------------
(* An instance of RespRoundTrip for TLC. *)
EXTENDS RespRoundTrip

\* Anything: units one by one, and the beginnings of longer values.
Anything == {<<u>> : u \in {"+", ":", "x", "CR", "LF"}} \cup {<<"CR", "LF">>}
              \cup {<<"*", n, "CR", "LF">> : n \in {"01", "2"}}
              \cup {<<"$", n, "CR", "LF">> : n \in {"-2", "1", "99"}}

\* Values of every type: empty and null ones, strings that look like the
\* protocol, arrays up to and beyond the limit.
Deep1 == Array(<<Integer(0)>>)
Deep2 == Array(<<Bulk(<<"CR", "LF">>), Deep1>>)
Serialized == {SimpleString(<<"x">>), Error(<< >>), Integer(-2), Null("bulk"), Null("array"),
           Bulk(<<"$", "1">>), Array(<< >>), Deep1, Deep2,
           Array(<<Null("bulk"), Bulk(<<"LF">>)>>)}
=============================================================================
