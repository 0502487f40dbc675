----------------------------- MODULE RespValues -----------------------------
(***************************************************************************)
(* The RESP2 serializer (resp.cpp), and how deep a value nests.  Values    *)
(* hold values, so these are recursive over data; nothing is proved of     *)
(* them, and the parser does not need them.                                *)
(***************************************************************************)
EXTENDS Resp

RECURSIVE Depth(_)
Depth(v) == IF v.type = "array" /\ ~IsNull(v)
            THEN 1 + Max({Depth(v.elements[i]) : i \in DOMAIN v.elements} \cup {0})
            ELSE 1

CRLF == <<"CR", "LF">>
ToNumeral(n) == CHOOSE s \in DOMAIN Numeral \ {"01"} : Numeral[s] = n

RECURSIVE Serialize(_)
Serialize(v) ==
  CASE v.type = "simple" -> <<"+">> \o v.string \o CRLF
    [] v.type = "error" -> <<"-">> \o v.string \o CRLF
    [] v.type = "integer" -> <<":", ToNumeral(v.integer)>> \o CRLF
    [] v.type = "bulk" ->
         IF IsNull(v) THEN <<"$", "-1">> \o CRLF
         ELSE <<"$", ToNumeral(Len(v.string))>> \o CRLF \o v.string \o CRLF
    [] v.type = "array" ->
         IF IsNull(v) THEN <<"*", "-1">> \o CRLF
         ELSE <<"*", ToNumeral(Len(v.elements))>> \o CRLF
                \o FlattenSeq([i \in DOMAIN v.elements |-> Serialize(v.elements[i])])
=============================================================================
