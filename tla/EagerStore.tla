----------------------------- MODULE EagerStore -----------------------------
(***************************************************************************)
(* What the keyspace promises its clients.  A key is gone the very tick    *)
(* its deadline comes; a missing key is an empty list, hash and set at     *)
(* once; and a command on a key of another type answers WRONGTYPE and does *)
(* nothing.  There are no deadlines to sweep and no empty collections to   *)
(* drop: those are how commands.cpp keeps the promise.                     *)
(***************************************************************************)
EXTENDS Types, FiniteSetsExt, SequencesExt

CONSTANTS Seconds, Indices, MaxTime, MaxGap

VARIABLES db,       \* the keys that exist, and their values
          ttl,      \* the deadlines of those that have one
          now,      \* the time
          request,  \* the last command
          reply     \* and its answer

vars == <<db, ttl, now, request, reply>>

Init == db = EmptyFn /\ ttl = EmptyFn /\ now = 0 /\ request = << >> /\ reply = OK

-----------------------------------------------------------------------------
\* Make d and l the contents at time t: keys whose time has come are gone.
Hold(d, l, t) ==
  LET gone == {k \in DOMAIN l : l[k] <= t}
  IN  /\ db'  = Restrict(d, DOMAIN d \ gone)
      /\ ttl' = Restrict(l, DOMAIN l \ gone)
      /\ now' = t

Keep        == UNCHANGED <<db, ttl, now>>
Asked(req)  == request' = req
Answer(rep) == reply' = rep
Exists(k)   == k \in DOMAIN db
Forget(k)   == Hold(Drop(db, k), Drop(ttl, k), now)

\* k as a collection of type ty: none at all is an empty one.
Fits(k, ty) == Exists(k) => db[k].type = ty
AsList(k)   == IF Exists(k) THEN db[k].val ELSE << >>
AsHash(k)   == IF Exists(k) THEN db[k].val ELSE EmptyFn
AsSet(k)    == IF Exists(k) THEN db[k].val ELSE {}

\* k becomes v, or nothing if v is empty; its deadline stays as it was.
Become(k, v) == IF IsEmptyCollection(v) THEN Forget(k) ELSE Hold(Put(db, k, v), ttl, now)

\* A command on a collection, and its refusal on a key of another type.
On(k, ty, A) == \/ ~Fits(k, ty) /\ Answer(WrongType) /\ Keep
                \/ Fits(k, ty) /\ A

Tick == Hold(db, ttl, now + 1) /\ UNCHANGED <<request, reply>>

Trivial == /\ Keep
           /\ \/ Asked(<<"PING">>) /\ Answer(SimpleString("PONG"))
              \/ Asked(<<"?">>) /\ (Answer(BadRequest) \/ Answer(NotAnInteger))

Del(k) == Forget(k) /\ Answer(Bit(Exists(k)))

\* EXPIRE counts from its first reading of the clock, finds the key or not at
\* its second, and ends with its third.
Expire(k, secs, gap1, gap2) ==
  LET at      == now + gap1
      end     == now + gap1 + gap2
      present == Exists(k) /\ ~(k \in DOMAIN ttl /\ ttl[k] <= at)
  IN  \/ /\ secs > MaxSeconds(now)
         /\ Hold(db, ttl, end) /\ Answer(NotAnInteger)
      \/ /\ secs <= MaxSeconds(now) /\ ~present
         /\ Hold(db, ttl, end) /\ Answer(Integer(0))
      \/ /\ secs <= MaxSeconds(now) /\ present /\ secs <= 0
         /\ Hold(Drop(db, k), Drop(ttl, k), end) /\ Answer(Integer(1))
      \/ /\ secs <= MaxSeconds(now) /\ present /\ secs > 0
         /\ Hold(db, Put(ttl, k, now + secs * TicksPerSecond), end) /\ Answer(Integer(1))

\* The least number of whole seconds the remaining life fits in.
WholeSeconds(ticks) ==
  CHOOSE n \in -MaxClock .. MaxClock :
    ticks <= n * TicksPerSecond /\ (n - 1) * TicksPerSecond < ticks

Ttl(k, gap) ==
  /\ Hold(db, ttl, now + gap)
  /\ \/ ~Exists(k) /\ Answer(Integer(-2))
     \/ Exists(k) /\ k \notin DOMAIN ttl /\ Answer(Integer(-1))
     \/ k \in DOMAIN ttl /\ Answer(Integer(WholeSeconds(ttl[k] - (now + gap))))

Set(k, e) == Hold(Put(db, k, Typed("string", e)), Drop(ttl, k), now) /\ Answer(OK)

Get(k) == On(k, "string", Keep /\ Answer(IF Exists(k) THEN BulkString(db[k].val)
                                                      ELSE NullBulkString))

-----------------------------------------------------------------------------
BecomeList(k, list) == Become(k, Typed("list", list))

Pushed(k, list) == On(k, "list", BecomeList(k, list) /\ Answer(Integer(Len(list))))

Lpush(k, e) == Pushed(k, Cons(e, AsList(k)))
Rpush(k, e) == Pushed(k, Append(AsList(k), e))

\* end is the position popped, rest what remains.
Popped(k, end, rest) ==
  On(k, "list", \/ AsList(k) = << >> /\ Keep /\ Answer(NullBulkString)
                \/ /\ AsList(k) # << >>
                   /\ BecomeList(k, rest)
                   /\ Answer(BulkString(AsList(k)[end])))

Lpop(k) == Popped(k, 1, Tail(AsList(k)))
Rpop(k) == Popped(k, Len(AsList(k)), Front(AsList(k)))

Llen(k) == On(k, "list", Keep /\ Answer(Integer(Len(AsList(k)))))

\* The elements between two positions, each counted from the front when it is
\* not negative and from the back when it is.
Between(list, start, stop) ==
  LET pos(i) == IF i >= 0 THEN i + 1 ELSE Len(list) + 1 + i
      in     == {p \in DOMAIN list : pos(start) <= p /\ p <= pos(stop)}
  IN  [i \in 1 .. Cardinality(in) |-> list[Min(in) + i - 1]]

Lrange(k, start, stop) ==
  On(k, "list", Keep /\ Answer(Array(Between(AsList(k), start, stop))))

-----------------------------------------------------------------------------
BecomeHash(k, hash) == Become(k, Typed("hash", hash))

Hset(k, f, e) ==
  On(k, "hash", BecomeHash(k, Put(AsHash(k), f, e)) /\ Answer(Bit(f \notin DOMAIN AsHash(k))))
Hget(k, f) ==
  On(k, "hash", Keep /\ Answer(IF f \in DOMAIN AsHash(k) THEN BulkString(AsHash(k)[f])
                                                        ELSE NullBulkString))
Hdel(k, f) ==
  On(k, "hash", BecomeHash(k, Drop(AsHash(k), f)) /\ Answer(Bit(f \in DOMAIN AsHash(k))))
Hexists(k, f) == On(k, "hash", Keep /\ Answer(Bit(f \in DOMAIN AsHash(k))))
Hlen(k) == On(k, "hash", Keep /\ Answer(Integer(Cardinality(DOMAIN AsHash(k)))))

-----------------------------------------------------------------------------
BecomeSet(k, set) == Become(k, Typed("set", set))

Sadd(k, e) == On(k, "set", BecomeSet(k, AsSet(k) \cup {e}) /\ Answer(Bit(e \notin AsSet(k))))
Srem(k, e) == On(k, "set", BecomeSet(k, AsSet(k) \ {e}) /\ Answer(Bit(e \in AsSet(k))))
Sismember(k, e) == On(k, "set", Keep /\ Answer(Bit(e \in AsSet(k))))
Scard(k)    == On(k, "set", Keep /\ Answer(Integer(Cardinality(AsSet(k)))))
Smembers(k) == On(k, "set", Keep /\ Answer(Array(AsSet(k))))

Next ==
  \/ Tick
  \/ Trivial
  \/ \E k \in Key :
       \/ Asked(<<"DEL", k>>) /\ Del(k)
       \/ Asked(<<"GET", k>>) /\ Get(k)
       \/ Asked(<<"LPOP", k>>) /\ Lpop(k)
       \/ Asked(<<"RPOP", k>>) /\ Rpop(k)
       \/ Asked(<<"LLEN", k>>) /\ Llen(k)
       \/ Asked(<<"HLEN", k>>) /\ Hlen(k)
       \/ Asked(<<"SCARD", k>>) /\ Scard(k)
       \/ Asked(<<"SMEMBERS", k>>) /\ Smembers(k)
       \/ Asked(<<"TTL", k>>) /\ \E gap \in 0 .. MaxGap : Ttl(k, gap)
       \/ \E secs \in Seconds :
            Asked(<<"EXPIRE", k, secs>>) /\ \E gap1, gap2 \in 0 .. MaxGap : Expire(k, secs, gap1, gap2)
       \/ \E start, stop \in Indices :
            Asked(<<"LRANGE", k, start, stop>>) /\ Lrange(k, start, stop)
       \/ \E e \in Elem :
            \/ Asked(<<"SET", k, e>>) /\ Set(k, e)
            \/ Asked(<<"LPUSH", k, e>>) /\ Lpush(k, e)
            \/ Asked(<<"RPUSH", k, e>>) /\ Rpush(k, e)
            \/ Asked(<<"HGET", k, e>>) /\ Hget(k, e)
            \/ Asked(<<"HDEL", k, e>>) /\ Hdel(k, e)
            \/ Asked(<<"HEXISTS", k, e>>) /\ Hexists(k, e)
            \/ Asked(<<"SADD", k, e>>) /\ Sadd(k, e)
            \/ Asked(<<"SREM", k, e>>) /\ Srem(k, e)
            \/ Asked(<<"SISMEMBER", k, e>>) /\ Sismember(k, e)
            \/ \E f \in Elem : Asked(<<"HSET", k, f, e>>) /\ Hset(k, f, e)

Spec == Init /\ [][Next]_vars
=============================================================================
