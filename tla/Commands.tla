------------------------------ MODULE Commands ------------------------------
(***************************************************************************)
(* execute_command (commands.cpp), one operator per verb.  Each takes the  *)
(* Store, the arguments and the steady-clock readings the code makes, and  *)
(* returns the Store it leaves, the reply, and the records it appends to   *)
(* the log (none or one).  Serving a client and replaying the log both go  *)
(* through these operators, as both go through execute_command.            *)
(***************************************************************************)
EXTENDS Types

(***************************************************************************)
(* struct Store: two maps, kept together by convention only.               *)
(***************************************************************************)
IsStore(st) == /\ st = [values |-> st.values, expirations |-> st.expirations]
               /\ IsPartialFn(st.values, Key, Value)
               /\ IsPartialFn(st.expirations, Key, Int)

EmptyStore == [values |-> EmptyFn, expirations |-> EmptyFn]

Verb == {"SET", "DEL", "EXPIRE", "LPUSH", "RPUSH", "LPOP", "RPOP",
         "HSET", "HDEL", "SADD", "SREM"}

\* A log record.  An EXPIRE record holds the Unix second of the deadline.
Record(verb, k, args) == [verb |-> verb, key |-> k, args |-> args]

Result(st, rep, recs) == [store |-> st, reply |-> rep, records |-> recs]

-----------------------------------------------------------------------------
\* Mutant: the deadline is left behind.
RemoveKeyValueOnly(st, k) == [st EXCEPT !.values = Drop(st.values, k)]

RemoveKey(st, k) == [values      |-> Drop(st.values, k),
                     expirations |-> Drop(st.expirations, k)]

Assign(st, k, v) == [st EXCEPT !.values = Put(st.values, k, v)]

Due(st, k, t) == k \in DOMAIN st.expirations /\ st.expirations[k] <= t

\* Mutant: the key lives through the tick of its deadline.
ExpireIfOverdue(st, k, t) == IF Due(st, k, t - 1) THEN RemoveKey(st, k) ELSE st

\* Lazy expiration: drop the key if its deadline has passed.
ExpireIfDue(st, k, t) == IF Due(st, k, t) THEN RemoveKey(st, k) ELSE st

Fresh(ty) == CASE ty = "list" -> << >>
               [] ty = "hash" -> EmptyFn
               [] ty = "set"  -> {}

\* write_typed, after its expire_if_due: a missing key becomes an empty T.
Materialise(st, k, ty) ==
  IF k \in DOMAIN st.values THEN st ELSE Assign(st, k, Typed(ty, Fresh(ty)))

\* Mutant: one branch of drop_if_empty's chain of types is missing.
DropIfEmptyButHash(st, k) ==
  IF /\ k \in DOMAIN st.values /\ IsEmptyCollection(st.values[k])
     /\ st.values[k].type # "hash"
    THEN RemoveKey(st, k) ELSE st

DropIfEmpty(st, k) ==
  IF k \in DOMAIN st.values /\ IsEmptyCollection(st.values[k])
    THEN RemoveKey(st, k) ELSE st

\* read_typed on a Store already swept: the three ways it can turn out.
Reading(st, k, ty, ifMissing, ifFound) ==
  CASE k \notin DOMAIN st.values    -> ifMissing
    [] k \in DOMAIN st.values /\ st.values[k].type # ty -> Result(st, WrongType, << >>)
    [] k \in DOMAIN st.values /\ st.values[k].type = ty -> ifFound

\* What follows a write_typed: WRONGTYPE when it returned a null pointer.
Writing(st, k, ty, ifFound) ==
  IF st.values[k].type = ty THEN ifFound ELSE Result(st, WrongType, << >>)

-----------------------------------------------------------------------------
(* Commands that fit any type. *)

PING(st) == Result(st, SimpleString("PONG"), << >>)

\* A request of the wrong shape or arity, of an unknown verb, or with an index
\* or a lifetime that is no integer: answered before the Store is looked at.
REJECT(st, why) == Result(st, why, << >>)

\* Mutant: log_command is forgotten.
DELUnlogged(st0, k, t) ==
  Result(RemoveKey(st0, k), Bit(k \in DOMAIN ExpireIfDue(st0, k, t).values), << >>)

\* Mutant: the key is counted before it is swept.
DELUnswept(st0, k, t) ==
  LET existed == k \in DOMAIN st0.values
  IN  Result(RemoveKey(st0, k), Bit(existed),
             IF existed THEN <<Record("DEL", k, << >>)>> ELSE << >>)

DEL(st0, k, t) ==
  LET st      == ExpireIfDue(st0, k, t)
      existed == k \in DOMAIN st.values
  IN  Result(RemoveKey(st, k), Bit(existed),
             IF existed THEN <<Record("DEL", k, << >>)>> ELSE << >>)

\* Mutant: EXPIRE does not return after deleting, and goes on to set the deadline.
EXPIREFallsThrough(st0, k, seconds, t, u, w) ==
  LET st == ExpireIfDue(st0, k, u)
  IN  CASE seconds > MaxSeconds(t) -> Result(st0, NotAnInteger, << >>)
        [] seconds <= MaxSeconds(t) /\ k \notin DOMAIN st.values ->
             Result(st, Integer(0), << >>)
        [] seconds <= MaxSeconds(t) /\ k \in DOMAIN st.values ->
             Result([st EXCEPT !.expirations =
                       Put(st.expirations, k, t + seconds * TicksPerSecond)],
                    Integer(1),
                    (IF seconds <= 0 THEN <<Record("DEL", k, << >>)>> ELSE << >>)
                      \o <<Record("EXPIRE", k, <<UnixSeconds(w) + seconds>>)>>)

\* The clock is read at t for the deadline, at u by expire_if_due, and (the
\* system clock) at w by log_expire: t <= u <= w.
EXPIRE(st0, k, seconds, t, u, w) ==
  LET st == ExpireIfDue(st0, k, u)
  IN  CASE seconds > MaxSeconds(t) -> Result(st0, NotAnInteger, << >>)
        [] seconds <= MaxSeconds(t) /\ k \notin DOMAIN st.values ->
             Result(st, Integer(0), << >>)
        [] seconds <= MaxSeconds(t) /\ k \in DOMAIN st.values /\ seconds <= 0 ->
             Result(RemoveKey(st, k), Integer(1), <<Record("DEL", k, << >>)>>)
        [] seconds <= MaxSeconds(t) /\ k \in DOMAIN st.values /\ seconds > 0 ->
             Result([st EXCEPT !.expirations =
                       Put(st.expirations, k, t + seconds * TicksPerSecond)],
                    Integer(1),
                    <<Record("EXPIRE", k, <<UnixSeconds(w) + seconds>>)>>)

\* std::chrono::ceil<seconds>.
CeilSeconds(ticks) == -((-ticks) \div TicksPerSecond)

\* The clock is read at t by expire_if_due and again at u >= t for the reply.
TTL(st0, k, t, u) ==
  LET st == ExpireIfDue(st0, k, t)
      n  == IF k \notin DOMAIN st.values THEN -2
            ELSE IF k \notin DOMAIN st.expirations THEN -1
            ELSE CeilSeconds(st.expirations[k] - u)
  IN  Result(st, Integer(n), << >>)

-----------------------------------------------------------------------------
(* Strings *)

SET(st, k, e) ==
  Result([values      |-> Put(st.values, k, Typed("string", e)),
          expirations |-> Drop(st.expirations, k)],
         OK, <<Record("SET", k, <<e>>)>>)

GET(st0, k, t) ==
  LET st == ExpireIfDue(st0, k, t)
  IN  Reading(st, k, "string", Result(st, NullBulkString, << >>),
              Result(st, BulkString(st.values[k].val), << >>))

-----------------------------------------------------------------------------
(* Lists *)

\* Mutant: the shared branch logs one verb for both.
PUSHLoggedAsRPUSH(verb, st0, k, e, t) ==
  LET st   == Materialise(ExpireIfDue(st0, k, t), k, "list")
      list == st.values[k].val
      new  == IF verb = "LPUSH" THEN <<e>> \o list ELSE Append(list, e)
  IN  Writing(st, k, "list",
              Result(Assign(st, k, Typed("list", new)), Integer(Len(new)),
                     <<Record("RPUSH", k, <<e>>)>>))

\* LPUSH and RPUSH share one branch of the code, as LPOP and RPOP do.
PUSH(verb, st0, k, e, t) ==
  LET st   == Materialise(ExpireIfDue(st0, k, t), k, "list")
      list == st.values[k].val
      new  == IF verb = "LPUSH" THEN <<e>> \o list ELSE Append(list, e)
  IN  Writing(st, k, "list",
              Result(Assign(st, k, Typed("list", new)), Integer(Len(new)),
                     <<Record(verb, k, <<e>>)>>))

POP(verb, st0, k, t) ==
  LET st   == ExpireIfDue(st0, k, t)
      list == st.values[k].val
      none == Result(st, NullBulkString, << >>)
      rest == IF verb = "LPOP" THEN Tail(list) ELSE SubSeq(list, 1, Len(list) - 1)
      out  == IF verb = "LPOP" THEN Head(list) ELSE list[Len(list)]
  IN  Reading(st, k, "list", none,
              IF list = << >> THEN none
              ELSE Result(DropIfEmpty(Assign(st, k, Typed("list", rest)), k),
                          BulkString(out), <<Record(verb, k, << >>)>>))

LLEN(st0, k, t) ==
  LET st == ExpireIfDue(st0, k, t)
  IN  Reading(st, k, "list", Result(st, Integer(0), << >>),
              Result(st, Integer(Len(st.values[k].val)), << >>))

AbsoluteIndex(index, size) == IF index < 0 THEN index + size ELSE index

\* The bounds LRANGE loops between, over indices 0 .. size - 1.
RangeStart(start, size) ==
  LET i == AbsoluteIndex(start, size) IN IF i > 0 THEN i ELSE 0
RangeStop(stop, size) ==
  LET i == AbsoluteIndex(stop, size) IN IF i < size - 1 THEN i ELSE size - 1

LRANGE(st0, k, start, stop, t) ==
  LET st   == ExpireIfDue(st0, k, t)
      list == st.values[k].val
  IN  Reading(st, k, "list", Result(st, Array(<< >>), << >>),
              Result(st, Array(SubSeq(list, 1 + RangeStart(start, Len(list)),
                                            1 + RangeStop(stop, Len(list)))), << >>))

-----------------------------------------------------------------------------
(* Hashes *)

HSET(st0, k, field, e, t) ==
  LET st   == Materialise(ExpireIfDue(st0, k, t), k, "hash")
      hash == st.values[k].val
  IN  Writing(st, k, "hash",
              Result(Assign(st, k, Typed("hash", Put(hash, field, e))),
                     Bit(field \notin DOMAIN hash),
                     <<Record("HSET", k, <<field, e>>)>>))

HGET(st0, k, field, t) ==
  LET st   == ExpireIfDue(st0, k, t)
      none == Result(st, NullBulkString, << >>)
      hash == st.values[k].val
  IN  Reading(st, k, "hash", none,
              IF field \in DOMAIN hash
                THEN Result(st, BulkString(hash[field]), << >>) ELSE none)

HDEL(st0, k, field, t) ==
  LET st   == ExpireIfDue(st0, k, t)
      none == Result(st, Integer(0), << >>)
      hash == st.values[k].val
  IN  Reading(st, k, "hash", none,
              IF field \in DOMAIN hash
                THEN Result(DropIfEmpty(Assign(st, k, Typed("hash", Drop(hash, field))), k),
                            Integer(1), <<Record("HDEL", k, <<field>>)>>)
                ELSE none)

HEXISTS(st0, k, field, t) ==
  LET st == ExpireIfDue(st0, k, t)
  IN  Reading(st, k, "hash", Result(st, Integer(0), << >>),
              Result(st, Bit(field \in DOMAIN st.values[k].val), << >>))

HLEN(st0, k, t) ==
  LET st == ExpireIfDue(st0, k, t)
  IN  Reading(st, k, "hash", Result(st, Integer(0), << >>),
              Result(st, Integer(Cardinality(DOMAIN st.values[k].val)), << >>))

-----------------------------------------------------------------------------
(* Sets *)

SADD(st0, k, e, t) ==
  LET st    == Materialise(ExpireIfDue(st0, k, t), k, "set")
      set   == st.values[k].val
      added == e \notin set
  IN  Writing(st, k, "set",
              Result(Assign(st, k, Typed("set", set \cup {e})), Bit(added),
                     IF added THEN <<Record("SADD", k, <<e>>)>> ELSE << >>))

SREM(st0, k, e, t) ==
  LET st   == ExpireIfDue(st0, k, t)
      none == Result(st, Integer(0), << >>)
      set  == st.values[k].val
  IN  Reading(st, k, "set", none,
              IF e \in set
                THEN Result(DropIfEmpty(Assign(st, k, Typed("set", set \ {e})), k),
                            Integer(1), <<Record("SREM", k, <<e>>)>>)
                ELSE none)

SISMEMBER(st0, k, e, t) ==
  LET st == ExpireIfDue(st0, k, t)
  IN  Reading(st, k, "set", Result(st, Integer(0), << >>),
              Result(st, Bit(e \in st.values[k].val), << >>))

SCARD(st0, k, t) ==
  LET st == ExpireIfDue(st0, k, t)
  IN  Reading(st, k, "set", Result(st, Integer(0), << >>),
              Result(st, Integer(Cardinality(st.values[k].val)), << >>))

SMEMBERS(st0, k, t) ==
  LET st == ExpireIfDue(st0, k, t)
  IN  Reading(st, k, "set", Result(st, Array({}), << >>),
              Result(st, Array(st.values[k].val), << >>))

-----------------------------------------------------------------------------
(* One record of the log through execute_command, with no log to write to. *)

\* Mutants: the deadline taken for a lifetime; the remaining life rounded up;
\* a record whose deadline has passed skipped.
ReplayExpireAsLifetime(r, st, t, u, v) == EXPIRE(st, r.key, r.args[1], u, v, v).store
ReplayExpireRoundedUp(r, st, t, u, v) ==
  EXPIRE(st, r.key, r.args[1] - UnixSeconds(t) + 1, u, v, v).store
ReplayExpireSkipping(r, st, t, u, v) ==
  LET remaining == r.args[1] - UnixSeconds(t)
  IN  IF remaining <= 0 THEN st ELSE EXPIRE(st, r.key, remaining, u, v, v).store

\* The system clock is read at t, and the steady clock at u and v by EXPIRE,
\* which logs nothing.
ReplayExpire(r, st, t, u, v) ==
  LET remaining == r.args[1] - UnixSeconds(t)
  IN  IF remaining <= 0 THEN DEL(st, r.key, v).store
                        ELSE EXPIRE(st, r.key, remaining, u, v, v).store

Replay(r, st, t, u, v) ==
  CASE r.verb = "EXPIRE"            -> ReplayExpire(r, st, t, u, v)
    [] r.verb = "SET"               -> SET(st, r.key, r.args[1]).store
    [] r.verb = "DEL"               -> DEL(st, r.key, v).store
    [] r.verb \in {"LPUSH", "RPUSH"} -> PUSH(r.verb, st, r.key, r.args[1], v).store
    [] r.verb \in {"LPOP", "RPOP"}   -> POP(r.verb, st, r.key, v).store
    [] r.verb = "HSET"              -> HSET(st, r.key, r.args[1], r.args[2], v).store
    [] r.verb = "HDEL"              -> HDEL(st, r.key, r.args[1], v).store
    [] r.verb = "SADD"              -> SADD(st, r.key, r.args[1], v).store
    [] r.verb = "SREM"              -> SREM(st, r.key, r.args[1], v).store
=============================================================================
