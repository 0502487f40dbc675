------------------------------- MODULE Types -------------------------------
(***************************************************************************)
(* The data every other module speaks about: the values a key can hold     *)
(* (commands.hpp), the RESP replies a command can give (resp.hpp), and the *)
(* two clocks.  Strings are abstract: a key is a member of Key, and every  *)
(* other string (value, element, field, member) is a member of Elem.       *)
(*                                                                         *)
(* Time is counted in ticks, TicksPerSecond of them to a second, so that   *)
(* the code's conversions between clock readings and whole seconds round   *)
(* the way they do in the program.                                         *)
(***************************************************************************)
EXTENDS Integers, Sequences, FiniteSets, Functions

CONSTANTS Key,             \* the names keys can have
          Elem,            \* every other string
          TicksPerSecond,  \* resolution of the clocks
          MaxClock,        \* Clock::time_point::max(), in ticks
          WallOffset       \* what the system clock reads when the steady one reads 0

ASSUME ClockAssumption == /\ TicksPerSecond \in Nat \ {0}
                          /\ MaxClock \in Nat
                          /\ WallOffset \in Nat

-----------------------------------------------------------------------------
(* Partial functions stand for the hash maps of the program. *)

PartialFn(S, T) == UNION {[D -> T] : D \in SUBSET S}

\* The same, for a T that cannot be enumerated.
IsPartialFn(f, S, T) == DOMAIN f \subseteq S /\ f \in [DOMAIN f -> T]

EmptyFn == [x \in {} |-> x]

Put(f, k, v) == [x \in DOMAIN f \cup {k} |-> IF x = k THEN v ELSE f[x]]

Drop(f, k) == Restrict(f, DOMAIN f \ {k})

-----------------------------------------------------------------------------
(* std::variant<StringValue, ListValue, HashValue, SetValue>. *)

Typed(ty, x) == [type |-> ty, val |-> x]

StringValue == [type : {"string"}, val : Elem]
ListValue   == [type : {"list"},   val : Seq(Elem)]
HashValue   == [type : {"hash"},   val : PartialFn(Elem, Elem)]
SetValue    == [type : {"set"},    val : SUBSET Elem]

Value == StringValue \cup ListValue \cup HashValue \cup SetValue

IsEmptyCollection(v) ==
  \/ v.type = "list" /\ v.val = << >>
  \/ v.type = "hash" /\ DOMAIN v.val = {}
  \/ v.type = "set"  /\ v.val = {}

-----------------------------------------------------------------------------
(* The constructors of resp.cpp.  An error carries its prefix only, and an *)
(* array of unspecified order (SMEMBERS) is the set of its elements.       *)

SimpleString(text)  == [type |-> "SimpleString", val |-> text]
Error(text)         == [type |-> "Error", val |-> text]
Integer(n)          == [type |-> "Integer", val |-> n]
BulkString(e)       == [type |-> "BulkString", val |-> e]
NullBulkString      == [type |-> "NullBulkString", val |-> 0]
Array(elements)     == [type |-> "Array", val |-> elements]

OK           == SimpleString("OK")
WrongType    == Error("WRONGTYPE")
NotAnInteger == Error("ERR value is not an integer or out of range")
BadRequest   == Error("ERR")    \* shape, arity or unknown command

Bit(b) == Integer(IF b THEN 1 ELSE 0)

-----------------------------------------------------------------------------
(* The steady clock reads t ticks when the system clock reads t + WallOffset. *)

UnixSeconds(t) == (t + WallOffset) \div TicksPerSecond

\* Mutant: the guard forgets how late it already is.
MaxSecondsFromStart(t) == MaxClock \div TicksPerSecond

\* Seconds that can still be added to a clock reading t.
MaxSeconds(t) == (MaxClock - t) \div TicksPerSecond
=============================================================================
