---------------------------- MODULE RestartProofs ----------------------------
(***************************************************************************)
(* What restarts do to keys and deadlines, however many there are and      *)
(* whatever the log holds.  The argument never looks at a replay as a      *)
(* whole: it says of each prefix of the log what a Store made from it is,  *)
(* and that one more record, executed or replayed, keeps this so.          *)
(***************************************************************************)
EXTENDS RecoveryProofs, VisibleProofs

-----------------------------------------------------------------------------
(* What each command touches *)

LEMMA AssignTouches ==
  ASSUME NEW st, NEW k, NEW v, st = [values |-> st.values, expirations |-> st.expirations]
  PROVE  Touches(st, Assign(st, k, v), k)
<1>1. Assign(st, k, v) = [values |-> Put(st.values, k, v), expirations |-> st.expirations]
  BY DEF Assign
<1>2. QED
  BY <1>1 DEF Touches, SameAt, Put

\* From here on, what is left of a Store st0 by what was done to it before.
LEMMA ThenRemoveKeyTouches ==
  ASSUME NEW st0, NEW st, NEW k, Touches(st0, st, k)
  PROVE  Touches(st0, RemoveKey(st, k), k)
BY RemoveKeyTouches, TouchesInTurn

LEMMA ThenAssignTouches ==
  ASSUME NEW st0, NEW st, NEW k, NEW v, Touches(st0, st, k)
  PROVE  Touches(st0, Assign(st, k, v), k)
<1>1. Touches(st, Assign(st, k, v), k)
  BY AssignTouches DEF Touches
<1>2. QED
  BY <1>1, TouchesInTurn

LEMMA ThenMaterialiseTouches ==
  ASSUME NEW st0, NEW st, NEW k, NEW ty, Touches(st0, st, k)
  PROVE  Touches(st0, Materialise(st, k, ty), k)
BY ThenAssignTouches DEF Materialise

LEMMA ThenDropIfEmptyTouches ==
  ASSUME NEW st0, NEW st, NEW k, Touches(st0, st, k)
  PROVE  Touches(st0, DropIfEmpty(st, k), k)
BY ThenRemoveKeyTouches DEF DropIfEmpty

LEMMA ResultTouches ==
  ASSUME NEW st0, NEW st, NEW k, NEW rep, NEW recs, Touches(st0, st, k)
  PROVE  Touches(st0, Result(st, rep, recs).store, k)
BY DEF Result

LEMMA ReadingTouches ==
  ASSUME NEW st0, NEW st, NEW k, NEW ty, NEW missing, NEW found,
         Touches(st0, st, k), Touches(st0, missing.store, k), Touches(st0, found.store, k)
  PROVE  Touches(st0, Reading(st, k, ty, missing, found).store, k)
<1>1. Touches(st0, Result(st, WrongType, << >>).store, k)
  BY ResultTouches
<1>2. QED
  BY <1>1 DEF Reading

LEMMA WritingTouches ==
  ASSUME NEW st0, NEW st, NEW k, NEW ty, NEW found,
         Touches(st0, st, k), Touches(st0, found.store, k)
  PROVE  Touches(st0, Writing(st, k, ty, found).store, k)
BY ResultTouches DEF Writing

LEMMA DELTouches ==
  ASSUME NEW st, NEW k, NEW t, WellFormed(st)
  PROVE  Touches(st, DEL(st, k, t).store, k)
<1>1. Touches(st, RemoveKey(ExpireIfDue(st, k, t), k), k)
  BY WellFormedFacts, ExpireIfDueTouches, ThenRemoveKeyTouches
<1>2. QED
  BY <1>1, ResultTouches DEF DEL

LEMMA SETTouches ==
  ASSUME NEW st, NEW k, NEW e
  PROVE  Touches(st, SET(st, k, e).store, k)
<1>1. SET(st, k, e).store = [values      |-> Put(st.values, k, Typed("string", e)),
                             expirations |-> Drop(st.expirations, k)]
  BY DEF SET, Result
<1>2. QED
  BY <1>1 DEF Touches, SameAt, Put, Drop, Restrict

LEMMA PUSHTouches ==
  ASSUME NEW verb, NEW st, NEW k, NEW e, NEW t, WellFormed(st)
  PROVE  Touches(st, PUSH(verb, st, k, e, t).store, k)
<1>1. Touches(st, Materialise(ExpireIfDue(st, k, t), k, "list"), k)
  BY WellFormedFacts, ExpireIfDueTouches, ThenMaterialiseTouches
<1>2. QED
  BY <1>1, ThenAssignTouches, ResultTouches, WritingTouches DEF PUSH

LEMMA POPTouches ==
  ASSUME NEW verb, NEW st, NEW k, NEW t, WellFormed(st)
  PROVE  Touches(st, POP(verb, st, k, t).store, k)
<1>1. Touches(st, ExpireIfDue(st, k, t), k)
  BY WellFormedFacts, ExpireIfDueTouches
<1>2. QED
  BY <1>1, ThenAssignTouches, ThenDropIfEmptyTouches, ResultTouches, ReadingTouches DEF POP

LEMMA HSETTouches ==
  ASSUME NEW st, NEW k, NEW f, NEW e, NEW t, WellFormed(st)
  PROVE  Touches(st, HSET(st, k, f, e, t).store, k)
<1>1. Touches(st, Materialise(ExpireIfDue(st, k, t), k, "hash"), k)
  BY WellFormedFacts, ExpireIfDueTouches, ThenMaterialiseTouches
<1>2. QED
  BY <1>1, ThenAssignTouches, ResultTouches, WritingTouches DEF HSET

LEMMA HDELTouches ==
  ASSUME NEW st, NEW k, NEW f, NEW t, WellFormed(st)
  PROVE  Touches(st, HDEL(st, k, f, t).store, k)
<1>1. Touches(st, ExpireIfDue(st, k, t), k)
  BY WellFormedFacts, ExpireIfDueTouches
<1>2. QED
  BY <1>1, ThenAssignTouches, ThenDropIfEmptyTouches, ResultTouches, ReadingTouches DEF HDEL

LEMMA SADDTouches ==
  ASSUME NEW st, NEW k, NEW e, NEW t, WellFormed(st)
  PROVE  Touches(st, SADD(st, k, e, t).store, k)
<1>1. Touches(st, Materialise(ExpireIfDue(st, k, t), k, "set"), k)
  BY WellFormedFacts, ExpireIfDueTouches, ThenMaterialiseTouches
<1>2. QED
  BY <1>1, ThenAssignTouches, ResultTouches, WritingTouches DEF SADD

LEMMA SREMTouches ==
  ASSUME NEW st, NEW k, NEW e, NEW t, WellFormed(st)
  PROVE  Touches(st, SREM(st, k, e, t).store, k)
<1>1. Touches(st, ExpireIfDue(st, k, t), k)
  BY WellFormedFacts, ExpireIfDueTouches
<1>2. QED
  BY <1>1, ThenAssignTouches, ThenDropIfEmptyTouches, ResultTouches, ReadingTouches DEF SREM

\* No query, and no command that finds nothing to do, gives a key a deadline.
LEMMA QueriesTouch ==
  ASSUME NEW st, NEW k, NEW t, NEW u, NEW start, NEW stop, NEW e, WellFormed(st)
  PROVE  /\ Touches(st, TTL(st, k, t, u).store, k)
         /\ Touches(st, GET(st, k, t).store, k)
         /\ Touches(st, LLEN(st, k, t).store, k)
         /\ Touches(st, LRANGE(st, k, start, stop, t).store, k)
         /\ Touches(st, HGET(st, k, e, t).store, k)
         /\ Touches(st, HEXISTS(st, k, e, t).store, k)
         /\ Touches(st, HLEN(st, k, t).store, k)
         /\ Touches(st, SISMEMBER(st, k, e, t).store, k)
         /\ Touches(st, SCARD(st, k, t).store, k)
         /\ Touches(st, SMEMBERS(st, k, t).store, k)
<1>1. Touches(st, ExpireIfDue(st, k, t), k)
  BY WellFormedFacts, ExpireIfDueTouches
<1>2. Touches(st, TTL(st, k, t, u).store, k)
  BY <1>1, ResultTouches DEF TTL
<1>3. Touches(st, GET(st, k, t).store, k)
  BY <1>1, ResultTouches, ReadingTouches DEF GET
<1>4. Touches(st, LLEN(st, k, t).store, k)
  BY <1>1, ResultTouches, ReadingTouches DEF LLEN
<1>5. Touches(st, LRANGE(st, k, start, stop, t).store, k)
  BY <1>1, ResultTouches, ReadingTouches DEF LRANGE
<1>6. Touches(st, HGET(st, k, e, t).store, k)
  BY <1>1, ResultTouches, ReadingTouches DEF HGET
<1>7. Touches(st, HEXISTS(st, k, e, t).store, k)
  BY <1>1, ResultTouches, ReadingTouches DEF HEXISTS
<1>8. Touches(st, HLEN(st, k, t).store, k)
  BY <1>1, ResultTouches, ReadingTouches DEF HLEN
<1>9. Touches(st, SISMEMBER(st, k, e, t).store, k)
  BY <1>1, ResultTouches, ReadingTouches DEF SISMEMBER
<1>10. Touches(st, SCARD(st, k, t).store, k)
  BY <1>1, ResultTouches, ReadingTouches DEF SCARD
<1>11. Touches(st, SMEMBERS(st, k, t).store, k)
  BY <1>1, ResultTouches, ReadingTouches DEF SMEMBERS
<1>12. QED
  BY <1>2, <1>3, <1>4, <1>5, <1>6, <1>7, <1>8, <1>9, <1>10, <1>11

-----------------------------------------------------------------------------
(* What a record does *)

\* A deadline as exact as one that is recorded to the second can be.
Near(d, D) == D - 2 * MaxGap <= d /\ d < D + TicksPerSecond + MaxGap

\* What an EXPIRE makes of s, where its key has been swept.
Expires(r, s, st2, v) ==
  \/ r.key \notin DOMAIN s.values /\ st2 = s
  \/ Deadline(r) <= v /\ st2 = RemoveKey(s, r.key)
  \/ /\ r.key \in DOMAIN s.values
     /\ \E d \in Int : /\ Near(d, Deadline(r))
                       /\ st2 = [s EXCEPT !.expirations = Put(s.expirations, r.key, d)]

\* What executing a command whose record is r, or replaying r, makes of st, with
\* v the last reading of the clock.  Only an EXPIRE can turn out differently in
\* a replay: the key or the time left may be gone by then.  It sweeps the key at a
\* reading u of its own, which in execute_command is before the one it logs at.
Does(r, st, st2, v) ==
  IF r.verb # "EXPIRE" THEN st2 = Replay(r, st, v, v, v)
  ELSE \/ ~FitsTheClock(r) /\ st2 = st
       \/ \E u \in Int : u <= v /\ Expires(r, ExpireIfDue(st, r.key, u), st2, v)

\* x \div T is x to the last multiple of T.
LEMMA WholeSeconds ==
  ASSUME NEW t \in Int
  PROVE  /\ UnixSeconds(t) \in Int
         /\ UnixSeconds(t) * TicksPerSecond <= t + WallOffset
         /\ t + WallOffset < UnixSeconds(t) * TicksPerSecond + TicksPerSecond
<1> DEFINE x == t + WallOffset
           T == TicksPerSecond
<1>1. x \in Int /\ T \in Nat \ {0}
  BY ClockAssumption
<1> HIDE DEF x, T
<1>2. x = T * (x \div T) + (x % T) /\ x % T \in 0 .. T - 1 /\ x \div T \in Int
  BY <1>1
<1>3. (x \div T) * T <= x /\ x < (x \div T) * T + T
  BY <1>1, <1>2
<1>4. QED
  BY <1>2, <1>3 DEF UnixSeconds, x, T

\* The same of the seconds the clock has left.
LEMMA SecondsLeft ==
  ASSUME NEW t \in Int, NEW n \in Int, t + n * TicksPerSecond <= MaxClock
  PROVE  n <= MaxSeconds(t)
<1> DEFINE x == MaxClock - t
           T == TicksPerSecond
           q == x \div T
<1>1. x \in Int /\ T \in Nat \ {0} /\ n * T <= x
  BY ClockAssumption
<1> HIDE DEF x, T
<1>2. x = T * (x \div T) + (x % T) /\ x % T \in 0 .. T - 1 /\ x \div T \in Int
  BY <1>1
<1>3. q \in Int /\ x < q * T + T
  BY <1>1, <1>2
<1> HIDE DEF q
<1>4. n * T < (q + 1) * T
  BY <1>1, <1>3
<1>5. q + 1 <= n => (q + 1) * T <= n * T
  BY <1>1, <1>3
<1>6. n <= q
  <2>1. n * T \in Int /\ (q + 1) * T \in Int
    BY <1>1, <1>3
  <2>2. QED
    BY <1>3, <1>4, <1>5, <2>1
<1>7. QED
  BY <1>6 DEF MaxSeconds, q, x, T

LEMMA DeadlineInt ==
  ASSUME NEW r \in LogRecord, r.verb = "EXPIRE"
  PROVE  r.args[1] \in Int /\ Deadline(r) \in Int
         /\ Deadline(r) = r.args[1] * TicksPerSecond - WallOffset
BY RecordParts, ClockAssumption DEF Deadline

\* A replayed EXPIRE: DEL when its second has come, and else what is left of the
\* lifetime, in whole seconds, from the clock of the new process.
LEMMA ReplayDoes ==
  ASSUME NEW r \in LogRecord, NEW st, WellFormed(st),
         NEW t \in Int, NEW u \in Int, NEW v \in Int, t <= u, u <= v, u - t <= MaxGap
  PROVE  Does(r, st, Replay(r, st, t, u, v), v)
<1>1. CASE r.verb # "EXPIRE"
  <2>1. r.verb \in Verb \ {"EXPIRE"}
    BY <1>1, RecordParts
  <2>2. Replay(r, st, t, u, v) = Replay(r, st, v, v, v)
    BY <2>1 DEF Replay, Verb
  <2>3. QED
    BY <1>1, <2>2 DEF Does
<1>2. CASE r.verb = "EXPIRE"
  <2> DEFINE k  == r.key
             s  == ExpireIfDue(st, k, v)
             n  == r.args[1] - UnixSeconds(t)
             st2 == Replay(r, st, t, u, v)
             d  == u + n * TicksPerSecond
             D  == Deadline(r)
  <2>1. /\ r.args[1] \in Int /\ n \in Int /\ D \in Int /\ MaxGap \in Nat
        /\ TicksPerSecond \in Nat \ {0} /\ WallOffset \in Nat /\ MaxClock \in Nat
    BY <1>2, DeadlineInt, UnixSecondsInt, ClockAssumption, KeyspaceAssumption
  <2>2. d \in Int /\ n * TicksPerSecond \in Int
    BY <2>1
  <2>3. n * TicksPerSecond = D + WallOffset - UnixSeconds(t) * TicksPerSecond
    BY <1>2, <2>1, DeadlineInt, UnixSecondsInt
  <2>4. D - t <= n * TicksPerSecond /\ n * TicksPerSecond < D - t + TicksPerSecond
    <3>1. UnixSeconds(t) * TicksPerSecond \in Int
      BY <2>1, UnixSecondsInt
    <3>2. QED
      BY <2>1, <2>2, <2>3, <3>1, WholeSeconds
  <2>5. st2 = IF n <= 0 THEN DEL(st, k, v).store ELSE EXPIRE(st, k, n, u, v, v).store
    BY <1>2 DEF Replay, ReplayExpire
  <2>6. CASE n <= 0
    <3>1. st2 = RemoveKey(s, k)
      BY <2>5, <2>6 DEF DEL, Result
    <3>2. n * TicksPerSecond <= 0
      BY <2>1, <2>6
    <3>3. D <= v
      BY <2>1, <2>2, <2>4, <3>2
    <3>4. QED
      BY <1>2, <3>1, <3>3 DEF Does, Expires
  <2>7. CASE n > 0 /\ n > MaxSeconds(u)
    <3>1. st2 = st
      <4>1. n \in Int /\ MaxSeconds(u) \in Int
        BY <2>1 DEF MaxSeconds
      <4>2. EXPIRE(st, k, n, u, v, v) = Result(st, NotAnInteger, << >>)
        BY <2>7, <4>1 DEF EXPIRE
      <4> HIDE DEF n, st2
      <4>3. QED
        BY <2>5, <2>7, <2>1, <4>2 DEF Result
    <3>2. MaxSeconds(u) \in Int
      BY <2>1 DEF MaxSeconds
    <3>3. ~(d <= MaxClock)
      BY <2>1, <2>7, <3>2, SecondsLeft
    <3>4. ~FitsTheClock(r)
      BY <2>1, <2>2, <2>4, <3>3 DEF FitsTheClock
    <3>5. QED
      BY <1>2, <3>1, <3>4 DEF Does
  <2>8. CASE n > 0 /\ n <= MaxSeconds(u) /\ k \notin DOMAIN s.values
    <3>1. MaxSeconds(u) \in Int
      BY <2>1 DEF MaxSeconds
    <3>2. st2 = s
      BY <2>1, <2>5, <2>8, <3>1 DEF EXPIRE, Result
    <3>3. QED
      BY <1>2, <2>8, <3>2 DEF Does, Expires
  <2>9. CASE n > 0 /\ n <= MaxSeconds(u) /\ k \in DOMAIN s.values
    <3>1. MaxSeconds(u) \in Int
      BY <2>1 DEF MaxSeconds
    <3>2. st2 = [s EXCEPT !.expirations = Put(s.expirations, k, d)]
      BY <2>1, <2>5, <2>9, <3>1 DEF EXPIRE, Result
    <3>3. Near(d, D)
      BY <2>1, <2>2, <2>4 DEF Near
    <3> HIDE DEF d, D, s, st2
    <3>4. QED
      BY <1>2, <2>2, <2>9, <3>2, <3>3 DEF Does, Expires, D, s, st2
  <2>10. n \in Int /\ MaxSeconds(u) \in Int
    BY <2>1 DEF MaxSeconds
  <2>11. QED
    BY <2>6, <2>7, <2>8, <2>9, <2>10
<1>3. QED
  BY <1>1, <1>2

\* What a command whose last reading of the clock is v does to k: its record
\* says it, and if there is none no key has a new deadline.
Recorded(result, st, k, v) ==
  /\ \A r \in Range(result.records) : Does(r, st, result.store, v)
  /\ result.records = << >> => Touches(st, result.store, k)

LEMMA QuietlyRecorded ==
  ASSUME NEW result, NEW st, NEW k, NEW v,
         result.records = << >>, Touches(st, result.store, k)
  PROVE  Recorded(result, st, k, v)
BY DEF Recorded, Range

LEMMA RecordedAsItself ==
  ASSUME NEW result, NEW st, NEW k, NEW v, NEW r, Records(result, r), r.verb # "EXPIRE",
         Replay(r, st, v, v, v) = result.store, Touches(st, result.store, k)
  PROVE  Recorded(result, st, k, v)
BY DEF Recorded, Records, Does

LEMMA DELRecorded ==
  ASSUME NEW st, NEW k, NEW v, WellFormed(st)
  PROVE  Recorded(DEL(st, k, v), st, k, v)
<1> DEFINE r == Record("DEL", k, << >>)
<1>1. Records(DEL(st, k, v), r)
  BY RecordsResult DEF DEL
<1>2. r.verb = "DEL" /\ Replay(r, st, v, v, v) = DEL(st, k, v).store
  BY RecordFields DEF Replay
<1>3. QED
  BY <1>1, <1>2, DELTouches, RecordedAsItself

LEMMA SETRecorded ==
  ASSUME NEW st, NEW k, NEW e, NEW v
  PROVE  Recorded(SET(st, k, e), st, k, v)
<1> DEFINE r == Record("SET", k, <<e>>)
<1>1. Records(SET(st, k, e), r)
  BY RecordsResult DEF SET
<1>2. r.verb = "SET" /\ Replay(r, st, v, v, v) = SET(st, k, e).store
  BY RecordFields DEF Replay
<1>3. QED
  BY <1>1, <1>2, SETTouches, RecordedAsItself

LEMMA PUSHRecorded ==
  ASSUME NEW verb \in {"LPUSH", "RPUSH"}, NEW st, NEW k, NEW e, NEW v, WellFormed(st)
  PROVE  Recorded(PUSH(verb, st, k, e, v), st, k, v)
<1> DEFINE r == Record(verb, k, <<e>>)
<1>1. Records(PUSH(verb, st, k, e, v), r)
  BY RecordsResult, RecordsWriting DEF PUSH
<1>2. r.verb = verb /\ Replay(r, st, v, v, v) = PUSH(verb, st, k, e, v).store
  BY RecordFields DEF Replay
<1>3. QED
  BY <1>1, <1>2, PUSHTouches, RecordedAsItself

LEMMA POPRecorded ==
  ASSUME NEW verb \in {"LPOP", "RPOP"}, NEW st, NEW k, NEW v, WellFormed(st)
  PROVE  Recorded(POP(verb, st, k, v), st, k, v)
<1> DEFINE r == Record(verb, k, << >>)
<1>1. Records(POP(verb, st, k, v), r)
  BY RecordsResult, RecordsReading DEF POP
<1>2. r.verb = verb /\ Replay(r, st, v, v, v) = POP(verb, st, k, v).store
  BY RecordFields DEF Replay
<1>3. QED
  BY <1>1, <1>2, POPTouches, RecordedAsItself

LEMMA HSETRecorded ==
  ASSUME NEW st, NEW k, NEW f, NEW e, NEW v, WellFormed(st)
  PROVE  Recorded(HSET(st, k, f, e, v), st, k, v)
<1> DEFINE r == Record("HSET", k, <<f, e>>)
<1>1. Records(HSET(st, k, f, e, v), r)
  BY RecordsResult, RecordsWriting DEF HSET
<1>2. r.verb = "HSET" /\ Replay(r, st, v, v, v) = HSET(st, k, f, e, v).store
  BY RecordFields DEF Replay
<1>3. QED
  BY <1>1, <1>2, HSETTouches, RecordedAsItself

LEMMA HDELRecorded ==
  ASSUME NEW st, NEW k, NEW f, NEW v, WellFormed(st)
  PROVE  Recorded(HDEL(st, k, f, v), st, k, v)
<1> DEFINE r == Record("HDEL", k, <<f>>)
<1>1. Records(HDEL(st, k, f, v), r)
  BY RecordsResult, RecordsReading DEF HDEL
<1>2. r.verb = "HDEL" /\ Replay(r, st, v, v, v) = HDEL(st, k, f, v).store
  BY RecordFields DEF Replay
<1>3. QED
  BY <1>1, <1>2, HDELTouches, RecordedAsItself

LEMMA SADDRecorded ==
  ASSUME NEW st, NEW k, NEW e, NEW v, WellFormed(st)
  PROVE  Recorded(SADD(st, k, e, v), st, k, v)
<1> DEFINE r == Record("SADD", k, <<e>>)
<1>1. Records(SADD(st, k, e, v), r)
  BY RecordsResult, RecordsWriting DEF SADD
<1>2. r.verb = "SADD" /\ Replay(r, st, v, v, v) = SADD(st, k, e, v).store
  BY RecordFields DEF Replay
<1>3. QED
  BY <1>1, <1>2, SADDTouches, RecordedAsItself

LEMMA SREMRecorded ==
  ASSUME NEW st, NEW k, NEW e, NEW v, WellFormed(st)
  PROVE  Recorded(SREM(st, k, e, v), st, k, v)
<1> DEFINE r == Record("SREM", k, <<e>>)
<1>1. Records(SREM(st, k, e, v), r)
  BY RecordsResult, RecordsReading DEF SREM
<1>2. r.verb = "SREM" /\ Replay(r, st, v, v, v) = SREM(st, k, e, v).store
  BY RecordFields DEF Replay
<1>3. QED
  BY <1>1, <1>2, SREMTouches, RecordedAsItself

\* log_expire reads the system clock, at w, after EXPIRE has read the steady one
\* twice, and rounds it down: the deadline can be up to two gaps before the one
\* recorded, and up to a second after it.  Without a deadline to log there is no
\* third reading.
LEMMA EXPIRERecorded ==
  ASSUME NEW st, NEW k \in Key, NEW seconds \in Int, NEW t \in Int, NEW u \in Int,
         NEW w \in Int, t <= u, u <= w, w - t <= 2 * MaxGap, WellFormed(st),
         LogsDeadline(EXPIRE(st, k, seconds, t, u, w)) \/ u = w
  PROVE  Recorded(EXPIRE(st, k, seconds, t, u, w), st, k, w)
<1> DEFINE s      == ExpireIfDue(st, k, u)
           result == EXPIRE(st, k, seconds, t, u, w)
           n      == UnixSeconds(w) + seconds
           r      == Record("EXPIRE", k, <<n>>)
           d      == t + seconds * TicksPerSecond
           D      == Deadline(r)
<1>1. /\ MaxSeconds(t) \in Int /\ UnixSeconds(w) \in Int /\ n \in Int
      /\ TicksPerSecond \in Nat \ {0} /\ WallOffset \in Nat /\ MaxGap \in Nat
  BY ClockAssumption, KeyspaceAssumption, UnixSecondsInt DEF MaxSeconds
<1>2. Touches(st, st, k) /\ Touches(st, s, k)
  BY WellFormedFacts, TouchesNothing, ExpireIfDueTouches
<1>3. CASE seconds > MaxSeconds(t)
  <2>1. result = Result(st, NotAnInteger, << >>)
    BY <1>1, <1>3 DEF EXPIRE
  <2>2. QED
    BY <1>2, <2>1, QuietlyRecorded DEF Result
<1>4. CASE seconds <= MaxSeconds(t) /\ k \notin DOMAIN s.values
  <2>1. result = Result(s, Integer(0), << >>)
    BY <1>1, <1>4 DEF EXPIRE
  <2>2. QED
    BY <1>2, <2>1, QuietlyRecorded DEF Result
<1>5. CASE seconds <= MaxSeconds(t) /\ k \in DOMAIN s.values /\ seconds <= 0
  <2> DEFINE del == Record("DEL", k, << >>)
  <2>1. result = Result(RemoveKey(s, k), Integer(1), <<del>>)
    BY <1>1, <1>5 DEF EXPIRE
  <2>2. Records(result, del) /\ result.store = RemoveKey(s, k)
    <3>1. Records(result, del)
      BY <2>1, RecordsResult
    <3>2. result.store = RemoveKey(s, k)
      BY <2>1 DEF Result
    <3>3. QED
      BY <3>1, <3>2
  <2>3. u = w
    <3>1. del.verb = "DEL" /\ result.records = <<del>>
      BY <2>1, RecordFields DEF Result
    <3> HIDE DEF result, del
    <3>2. ~LogsDeadline(result)
      BY <3>1 DEF LogsDeadline, Range
    <3>3. QED
      BY <3>2 DEF result
  <2>4. del.verb = "DEL" /\ Replay(del, st, w, w, w) = RemoveKey(s, k)
    BY <2>3, RecordFields DEF Replay, DEL, Result
  <2>5. Touches(st, RemoveKey(s, k), k)
    BY <1>2, ThenRemoveKeyTouches
  <2> HIDE DEF result, del
  <2>6. Recorded(result, st, k, w)
    BY <2>2, <2>4, <2>5, RecordedAsItself
  <2>7. QED
    BY <2>6 DEF result
<1>6. CASE seconds <= MaxSeconds(t) /\ k \in DOMAIN s.values /\ seconds > 0
  <2>1. result = Result([s EXCEPT !.expirations = Put(s.expirations, k, d)], Integer(1), <<r>>)
    BY <1>1, <1>6 DEF EXPIRE
  <2>2. /\ result.store = [s EXCEPT !.expirations = Put(s.expirations, k, d)]
        /\ result.records = <<r>>
    BY <2>1 DEF Result
  <2>3. r.verb = "EXPIRE" /\ r.key = k /\ r.args[1] = n
    BY DEF Record
  <2>4. D = n * TicksPerSecond - WallOffset
    BY <2>3 DEF Deadline
  <2>5. n * TicksPerSecond = UnixSeconds(w) * TicksPerSecond + seconds * TicksPerSecond
    BY <1>1
  <2>6. Near(d, D)
    <3>1. UnixSeconds(w) * TicksPerSecond \in Int /\ seconds * TicksPerSecond \in Int
      BY <1>1
    <3>2. QED
      BY <1>1, <2>4, <2>5, <3>1, WholeSeconds DEF Near
  <2>7. d \in Int
    BY <1>1
  <2> HIDE DEF result, r, d, D, s
  <2>8. Does(r, st, result.store, w)
    <3>1. Expires(r, s, result.store, w)
      BY <1>6, <2>2, <2>3, <2>6, <2>7 DEF Expires, D
    <3>2. QED
      BY <2>3, <3>1 DEF Does, s
  <2>9. Recorded(result, st, k, w)
    BY <2>2, <2>8 DEF Recorded, Range
  <2>10. QED
    BY <2>9 DEF result
<1>7. QED
  BY <1>1, <1>3, <1>4, <1>5, <1>6

\* A serving step: one record that says what it did, or none, and no key has a
\* new deadline.
StepRecorded ==
  /\ \A r \in Range(records') : Does(r, store, store', now')
  /\ records' = << >> => \E k : Touches(store, store', k)

LEMMA RunRecorded ==
  ASSUME NEW req, NEW result, NEW k, Run(req, result), Recorded(result, store, k, now)
  PROVE  StepRecorded
BY DEF Run, Apply, Recorded, StepRecorded

LEMMA RunTouches ==
  ASSUME NEW req, NEW result, NEW k, Run(req, result), Touches(store, result.store, k)
  PROVE  Touches(store, store', k)
BY DEF Run, Apply

LEMMA WriteRecorded ==
  ASSUME Inv, Write
  PROVE  StepRecorded
<1>1. WellFormed(store) /\ now \in Int
  BY KeyspaceAssumption DEF Inv
<1>2. ASSUME NEW k \in Key, Del(k)
      PROVE  StepRecorded
  BY <1>1, <1>2, DELRecorded, RunRecorded DEF Del
<1>3. ASSUME NEW k \in Key, NEW secs \in Seconds, NEW gap1 \in 0 .. MaxGap,
             NEW gap2 \in 0 .. MaxGap, Expire(k, secs, gap1, gap2)
      PROVE  StepRecorded
  <2> DEFINE u      == now + gap1
             w      == now + gap1 + gap2
             result == EXPIRE(store, k, secs, now, u, w)
  <2>1. /\ secs \in Int /\ u \in Int /\ w \in Int /\ now <= u /\ u <= w
        /\ w - now <= 2 * MaxGap /\ now + (gap1 + gap2) = w /\ (gap2 > 0 \/ u = w)
    BY <1>1, KeyspaceAssumption
  <2>2. /\ store' = result.store /\ records' = result.records /\ now' = now + (gap1 + gap2)
        /\ gap2 > 0 => LogsDeadline(result)
    BY <1>3 DEF Expire, RunFor, Apply
  <2> HIDE DEF u, w
  <2>3. Recorded(result, store, k, w)
    BY <1>1, <2>1, <2>2, EXPIRERecorded
  <2>4. now' = w
    BY <2>1, <2>2
  <2> HIDE DEF result
  <2>5. QED
    BY <2>2, <2>3, <2>4 DEF Recorded, StepRecorded
<1>4. ASSUME NEW k \in Key, NEW verb \in {"LPOP", "RPOP"}, Pop(verb, k)
      PROVE  StepRecorded
  BY <1>1, <1>4, POPRecorded, RunRecorded DEF Pop
<1>5. ASSUME NEW k \in Key, NEW e \in Elem, Set(k, e)
      PROVE  StepRecorded
  BY <1>1, <1>5, SETRecorded, RunRecorded DEF Set
<1>6. ASSUME NEW k \in Key, NEW e \in Elem, NEW verb \in {"LPUSH", "RPUSH"}, Push(verb, k, e)
      PROVE  StepRecorded
  BY <1>1, <1>6, PUSHRecorded, RunRecorded DEF Push
<1>7. ASSUME NEW k \in Key, NEW e \in Elem, NEW field \in Elem, Hset(k, field, e)
      PROVE  StepRecorded
  BY <1>1, <1>7, HSETRecorded, RunRecorded DEF Hset
<1>8. ASSUME NEW k \in Key, NEW e \in Elem, Hdel(k, e)
      PROVE  StepRecorded
  BY <1>1, <1>8, HDELRecorded, RunRecorded DEF Hdel
<1>9. ASSUME NEW k \in Key, NEW e \in Elem, Sadd(k, e)
      PROVE  StepRecorded
  BY <1>1, <1>9, SADDRecorded, RunRecorded DEF Sadd
<1>10. ASSUME NEW k \in Key, NEW e \in Elem, Srem(k, e)
       PROVE  StepRecorded
  BY <1>1, <1>10, SREMRecorded, RunRecorded DEF Srem
<1>11. QED
  BY <1>2, <1>3, <1>4, <1>5, <1>6, <1>7, <1>8, <1>9, <1>10 DEF Write

LEMMA ReadRecorded ==
  ASSUME Inv, Read
  PROVE  StepRecorded
<1>1. WellFormed(store) /\ now \in Int
  BY KeyspaceAssumption DEF Inv
<1>2. ASSUME NEW k, Touches(store, store', k)
      PROVE  StepRecorded
  BY <1>2, ReadAppendsNothing DEF StepRecorded, Range
<1>3. ASSUME NEW why, Ping \/ Reject(why)
      PROVE  StepRecorded
  <2>1. store' = store
    BY <1>3 DEF Ping, Reject, Run, Apply, PING, REJECT, Result
  <2>2. Touches(store, store, why)
    BY <1>1, WellFormedFacts, TouchesNothing
  <2>3. QED
    BY <1>2, <2>1, <2>2
<1>4. ASSUME NEW k \in Key, NEW gap \in 0 .. MaxGap, Ttl(k, gap)
      PROVE  StepRecorded
  <2>1. store' = TTL(store, k, now, now + gap).store
    BY <1>4 DEF Ttl, RunFor, Apply
  <2>2. QED
    BY <1>1, <1>2, <2>1, QueriesTouch
<1>5. ASSUME NEW k \in Key, Get(k) \/ Llen(k) \/ Hlen(k) \/ Scard(k) \/ Smembers(k)
      PROVE  StepRecorded
  <2>1. \/ store' = GET(store, k, now).store
        \/ store' = LLEN(store, k, now).store
        \/ store' = HLEN(store, k, now).store
        \/ store' = SCARD(store, k, now).store
        \/ store' = SMEMBERS(store, k, now).store
    BY <1>5 DEF Get, Llen, Hlen, Scard, Smembers, Run, Apply
  <2>2. QED
    BY <1>1, <1>2, <2>1, QueriesTouch
<1>6. ASSUME NEW k \in Key, NEW start, NEW stop, Lrange(k, start, stop)
      PROVE  StepRecorded
  <2>1. store' = LRANGE(store, k, start, stop, now).store
    BY <1>6 DEF Lrange, Run, Apply
  <2>2. QED
    BY <1>1, <1>2, <2>1, QueriesTouch
<1>7. ASSUME NEW k \in Key, NEW e \in Elem, Hget(k, e) \/ Hexists(k, e) \/ Sismember(k, e)
      PROVE  StepRecorded
  <2>1. \/ store' = HGET(store, k, e, now).store
        \/ store' = HEXISTS(store, k, e, now).store
        \/ store' = SISMEMBER(store, k, e, now).store
    BY <1>7 DEF Hget, Hexists, Sismember, Run, Apply
  <2>2. QED
    BY <1>1, <1>2, <2>1, QueriesTouch
<1>8. QED
  BY <1>3, <1>4, <1>5, <1>6, <1>7 DEF Read

-----------------------------------------------------------------------------
(* Deadlines and the log *)

\* Of the first n records of l, the i-th is the EXPIRE that k's deadline, if it
\* has one, comes from.
Latest(l, n, i, k) ==
  /\ i \in 1 .. n /\ l[i].verb = "EXPIRE" /\ l[i].key = k
  /\ \A j \in i + 1 .. n : l[j].key = k => l[j].verb \notin {"SET", "DEL", "EXPIRE"}

\* Every deadline of st is the one its key was given last in the first n records.
Tracks(st, l, n) ==
  \A k \in DOMAIN st.expirations : \E i \in 1 .. n :
    Latest(l, n, i, k) /\ (FitsTheClock(l[i]) => Near(st.expirations[k], Deadline(l[i])))

\* A key that nothing was done to after it was given a deadline has one.
Expiring(st, l, n) ==
  \A i \in 1 .. n :
    /\ l[i].verb = "EXPIRE" /\ FitsTheClock(l[i])
    /\ \A j \in i + 1 .. n : l[j].key # l[i].key
    => (l[i].key \in DOMAIN st.values => l[i].key \in DOMAIN st.expirations)

\* Records after the n-th, and less of a Store, change none of this.
LEMMA TracksPrefix ==
  ASSUME NEW st, NEW k, NEW st2, NEW l1, NEW l2, NEW n \in Nat, Touches(st, st2, k),
         Tracks(st, l1, n), \A i \in 1 .. n : l1[i] = l2[i]
  PROVE  Tracks(st2, l2, n)
<1> SUFFICES ASSUME NEW x \in DOMAIN st2.expirations
             PROVE  \E i \in 1 .. n :
                      /\ Latest(l2, n, i, x)
                      /\ FitsTheClock(l2[i]) => Near(st2.expirations[x], Deadline(l2[i]))
  BY DEF Tracks
<1>1. x \in DOMAIN st.expirations /\ st2.expirations[x] = st.expirations[x]
  BY DEF Touches
<1>2. PICK i \in 1 .. n : /\ Latest(l1, n, i, x)
                          /\ FitsTheClock(l1[i]) => Near(st.expirations[x], Deadline(l1[i]))
  BY <1>1 DEF Tracks
<1>3. l2[i] = l1[i] /\ Latest(l2, n, i, x)
  BY <1>2 DEF Latest
<1>4. QED
  BY <1>1, <1>2, <1>3

\* What a record of another command does to deadlines.
LEMMA ReplayTouches ==
  ASSUME NEW r \in LogRecord, NEW st, NEW v, WellFormed(st), r.verb # "EXPIRE"
  PROVE  /\ Touches(st, Replay(r, st, v, v, v), r.key)
         /\ r.verb \in {"SET", "DEL"} => r.key \notin DOMAIN Replay(r, st, v, v, v).expirations
<1>1. r.verb \in Verb \ {"EXPIRE"}
  BY RecordParts
<1>2. CASE r.verb = "SET"
  <2>1. Replay(r, st, v, v, v) = SET(st, r.key, r.args[1]).store
    BY <1>2 DEF Replay
  <2>2. r.key \notin DOMAIN SET(st, r.key, r.args[1]).store.expirations
    BY DropDomain DEF SET, Result
  <2>3. QED
    BY <2>1, <2>2, SETTouches
<1>3. CASE r.verb = "DEL"
  <2>1. Replay(r, st, v, v, v) = DEL(st, r.key, v).store
    BY <1>3 DEF Replay
  <2>2. r.key \notin DOMAIN DEL(st, r.key, v).store.expirations
    BY DropDomain DEF DEL, Result, RemoveKey
  <2>3. QED
    BY <2>1, <2>2, DELTouches
<1>4. CASE r.verb \in {"LPUSH", "RPUSH"}
  BY <1>4, PUSHTouches DEF Replay
<1>5. CASE r.verb \in {"LPOP", "RPOP"}
  BY <1>5, POPTouches DEF Replay
<1>6. CASE r.verb = "HSET"
  BY <1>6, HSETTouches DEF Replay
<1>7. CASE r.verb = "HDEL"
  BY <1>7, HDELTouches DEF Replay
<1>8. CASE r.verb = "SADD"
  BY <1>8, SADDTouches DEF Replay
<1>9. CASE r.verb = "SREM"
  BY <1>9, SREMTouches DEF Replay
<1>10. QED
  BY <1>1, <1>2, <1>3, <1>4, <1>5, <1>6, <1>7, <1>8, <1>9 DEF Verb

\* What a record does to deadlines, whether it is executed or replayed.
LEMMA DoesToDeadlines ==
  ASSUME NEW r \in LogRecord, NEW st, NEW st2, NEW v, WellFormed(st), Does(r, st, st2, v)
  PROVE  /\ \A x : x # r.key => SameAt(st, st2, x)
         /\ \A x \in DOMAIN st2.expirations : x # r.key \/ r.verb # "EXPIRE" =>
              x \in DOMAIN st.expirations /\ st2.expirations[x] = st.expirations[x]
         /\ r.verb \in {"SET", "DEL"} => r.key \notin DOMAIN st2.expirations
         /\ r.verb = "EXPIRE" /\ FitsTheClock(r) =>
              /\ r.key \in DOMAIN st2.values => r.key \in DOMAIN st2.expirations
              /\ r.key \in DOMAIN st2.expirations =>
                   Near(st2.expirations[r.key], Deadline(r))
<1>1. CASE r.verb # "EXPIRE"
  <2>1. st2 = Replay(r, st, v, v, v)
    BY <1>1 DEF Does
  <2>2. Touches(st, st2, r.key)
    BY <1>1, <2>1, ReplayTouches
  <2>3. r.verb \in {"SET", "DEL"} => r.key \notin DOMAIN st2.expirations
    BY <1>1, <2>1, ReplayTouches
  <2>4. QED
    BY <1>1, <2>2, <2>3 DEF Touches
<1>2. CASE r.verb = "EXPIRE"
  <2> DEFINE k == r.key
  <2>1. PICK u \in Int : \/ ~FitsTheClock(r) /\ st2 = st
                         \/ u <= v /\ Expires(r, ExpireIfDue(st, k, u), st2, v)
    BY <1>2 DEF Does
  <2> DEFINE s == ExpireIfDue(st, k, u)
  <2>2. Touches(st, st, k) /\ Touches(st, s, k) /\ Touches(st, RemoveKey(s, k), k)
    BY WellFormedFacts, TouchesNothing, ExpireIfDueTouches, ThenRemoveKeyTouches
  <2>3. WellFormed(s)
    BY ExpireIfDueWellFormed
  <2>4. \/ k \notin DOMAIN s.values /\ st2 = s
        \/ Deadline(r) <= v /\ st2 = RemoveKey(s, k)
        \/ ~FitsTheClock(r) /\ st2 = st
        \/ /\ k \in DOMAIN s.values
           /\ \E d \in Int : /\ Near(d, Deadline(r))
                             /\ st2 = [s EXCEPT !.expirations = Put(s.expirations, k, d)]
    BY <2>1 DEF Expires
  <2> HIDE DEF s, k
  <2>5. CASE k \notin DOMAIN s.values /\ st2 = s
    <3>1. k \notin DOMAIN s.expirations
      BY <2>3, <2>5, WellFormedFacts DEF NoOrphan
    <3>2. QED
      BY <1>2, <2>2, <2>5, <3>1 DEF Touches, k
  <2>6. CASE st2 = RemoveKey(s, k)
    <3>1. k \notin DOMAIN st2.values /\ k \notin DOMAIN st2.expirations
      BY <2>6, DropDomain DEF RemoveKey
    <3>2. QED
      BY <1>2, <2>2, <2>6, <3>1 DEF Touches, k
  <2>7. CASE ~FitsTheClock(r) /\ st2 = st
    BY <1>2, <2>2, <2>7 DEF Touches, k
  <2>8. ASSUME NEW d \in Int, Near(d, Deadline(r)),
               st2 = [s EXCEPT !.expirations = Put(s.expirations, k, d)]
        PROVE  /\ \A x : x # k => SameAt(st, st2, x)
               /\ \A x \in DOMAIN st2.expirations : x # k =>
                    x \in DOMAIN st.expirations /\ st2.expirations[x] = st.expirations[x]
               /\ k \in DOMAIN st2.expirations /\ Near(st2.expirations[k], Deadline(r))
    <3>1. s = [values |-> s.values, expirations |-> s.expirations]
      BY <2>3, WellFormedFacts
    <3>2. st2.values = s.values /\ st2.expirations = Put(s.expirations, k, d)
      BY <2>8, <3>1
    <3>3. /\ DOMAIN st2.expirations = DOMAIN s.expirations \cup {k}
          /\ st2.expirations[k] = d
          /\ \A x \in DOMAIN s.expirations : x # k => st2.expirations[x] = s.expirations[x]
      BY <3>2 DEF Put
    <3>4. \A x : x # k => SameAt(s, st2, x)
      BY <3>2, <3>3 DEF SameAt
    <3>5. \A x : x # k => SameAt(st, st2, x)
      BY <2>2, <3>4 DEF Touches, SameAt
    <3>6. QED
      BY <2>2, <2>8, <3>3, <3>5 DEF Touches
  <2>9. QED
    BY <1>2, <2>4, <2>5, <2>6, <2>7, <2>8 DEF k
<1>3. QED
  BY <1>1, <1>2

LEMMA TracksOneMore ==
  ASSUME NEW l, NEW n \in Nat, NEW st, NEW st2, NEW v, WellFormed(st), Tracks(st, l, n),
         l[n + 1] \in LogRecord, Does(l[n + 1], st, st2, v)
  PROVE  Tracks(st2, l, n + 1)
<1> DEFINE r == l[n + 1]
<1>1. /\ \A x \in DOMAIN st2.expirations : x # r.key \/ r.verb # "EXPIRE" =>
           x \in DOMAIN st.expirations /\ st2.expirations[x] = st.expirations[x]
      /\ r.verb \in {"SET", "DEL"} => r.key \notin DOMAIN st2.expirations
      /\ r.verb = "EXPIRE" /\ FitsTheClock(r) /\ r.key \in DOMAIN st2.expirations =>
           Near(st2.expirations[r.key], Deadline(r))
  BY DoesToDeadlines
<1> SUFFICES ASSUME NEW x \in DOMAIN st2.expirations
             PROVE  \E i \in 1 .. n + 1 :
                      /\ Latest(l, n + 1, i, x)
                      /\ FitsTheClock(l[i]) => Near(st2.expirations[x], Deadline(l[i]))
  BY DEF Tracks
<1>2. CASE x = r.key /\ r.verb = "EXPIRE"
  <2>1. Latest(l, n + 1, n + 1, x)
    BY <1>2 DEF Latest
  <2>2. QED
    BY <1>1, <1>2, <2>1
<1>3. CASE x # r.key \/ r.verb # "EXPIRE"
  <2>1. x \in DOMAIN st.expirations /\ st2.expirations[x] = st.expirations[x]
    BY <1>1, <1>3
  <2>2. PICK i \in 1 .. n : /\ Latest(l, n, i, x)
                            /\ FitsTheClock(l[i]) => Near(st.expirations[x], Deadline(l[i]))
    BY <2>1 DEF Tracks
  <2>3. l[n + 1].key = x => l[n + 1].verb \notin {"SET", "DEL", "EXPIRE"}
    BY <1>1, <1>3
  <2>4. Latest(l, n + 1, i, x)
    <3>1. \A j \in i + 1 .. n + 1 : j \in i + 1 .. n \/ j = n + 1
      OBVIOUS
    <3>2. i \in 1 .. n + 1
      OBVIOUS
    <3>3. QED
      BY <2>2, <2>3, <3>1, <3>2 DEF Latest
  <2>5. QED
    BY <2>1, <2>2, <2>4
<1>4. QED
  BY <1>2, <1>3

LEMMA ExpiringOneMore ==
  ASSUME NEW l, NEW n \in Nat, NEW st, NEW st2, NEW v, WellFormed(st), Expiring(st, l, n),
         l[n + 1] \in LogRecord, Does(l[n + 1], st, st2, v)
  PROVE  Expiring(st2, l, n + 1)
<1> DEFINE r == l[n + 1]
<1>1. /\ \A x : x # r.key => SameAt(st, st2, x)
      /\ r.verb = "EXPIRE" /\ FitsTheClock(r) =>
           (r.key \in DOMAIN st2.values => r.key \in DOMAIN st2.expirations)
  BY DoesToDeadlines
<1> SUFFICES ASSUME NEW i \in 1 .. n + 1, l[i].verb = "EXPIRE", FitsTheClock(l[i]),
                    \A j \in i + 1 .. n + 1 : l[j].key # l[i].key,
                    l[i].key \in DOMAIN st2.values
             PROVE  l[i].key \in DOMAIN st2.expirations
  BY DEF Expiring
<1>2. CASE i = n + 1
  BY <1>1, <1>2
<1>3. CASE i \in 1 .. n
  <2>1. n + 1 \in i + 1 .. n + 1 /\ \A j \in i + 1 .. n : j \in i + 1 .. n + 1
    BY <1>3
  <2>2. SameAt(st, st2, l[i].key)
    BY <1>1, <2>1
  <2>3. QED
    BY <1>3, <2>1, <2>2 DEF Expiring, SameAt
<1>4. QED
  BY <1>2, <1>3

-----------------------------------------------------------------------------
(* Deadlines through crashes and restarts *)

\* A serving Store's deadlines are those of the changes it is made of, and those
\* of one that is being rebuilt the ones of the records read so far.
Deadlined ==
  /\ phase = "serving" => Tracks(store, made, Len(made))
  /\ phase = "replaying" => Tracks(loaded, log, pos) /\ Expiring(loaded, log, pos)

LEMMA EmptyStoreTracks ==
  ASSUME NEW l, NEW n
  PROVE  Tracks(EmptyStore, l, n) /\ Expiring(EmptyStore, l, n)
<1>1. DOMAIN EmptyStore.expirations = {} /\ DOMAIN EmptyStore.values = {}
  BY EmptyFnDomain DEF EmptyStore
<1>2. QED
  BY <1>1 DEF Tracks, Expiring

\* What a serving step adds to the changes made.
LEMMA ServeSays ==
  ASSUME RecoveryInv, Serve
  PROVE  \/ made' = made /\ records' = << >> /\ \E k : Touches(store, store', k)
         \/ \E r \in LogRecord : made' = Append(made, r) /\ Does(r, store, store', now')
<1>1. StepRecorded /\ Logs(records')
  BY WriteRecorded, ReadRecorded, WriteLogs, ReadLogs DEF Serve, RecoveryInv
<1>2. made \in Seq(LogRecord) /\ made' = made \o records'
  BY DEF Serve, RecoveryInv, File
<1>3. CASE records' = << >>
  BY <1>1, <1>2, <1>3 DEF StepRecorded
<1>4. ASSUME NEW r \in LogRecord, records' = <<r>>
      PROVE  made' = Append(made, r) /\ Does(r, store, store', now')
  <2>1. made' = Append(made, r)
    BY <1>2, <1>4
  <2>2. r \in Range(records')
    BY <1>4 DEF Range
  <2>3. QED
    BY <1>1, <2>1, <2>2 DEF StepRecorded
<1>5. QED
  BY <1>1, <1>3, <1>4 DEF Logs

LEMMA ServeDeadlined ==
  ASSUME RecoveryInv, Deadlined, Serve
  PROVE  Deadlined'
<1>1. /\ phase = "serving" /\ phase' = "serving" /\ made \in Seq(LogRecord)
      /\ Tracks(store, made, Len(made)) /\ WellFormed(store) /\ Len(made) \in Nat
  BY DEF Serve, Deadlined, RecoveryInv, File, Inv
<1>2. ASSUME NEW k, made' = made, Touches(store, store', k)
      PROVE  Deadlined'
  <2>1. Tracks(store', made', Len(made'))
    BY <1>1, <1>2, TracksPrefix
  <2>2. QED
    BY <1>1, <2>1 DEF Deadlined
<1>3. ASSUME NEW r \in LogRecord, made' = Append(made, r), Does(r, store, store', now')
      PROVE  Deadlined'
  <2> DEFINE n == Len(made)
  <2>1. /\ Len(made') = n + 1 /\ made'[n + 1] = r /\ \A i \in 1 .. n : made[i] = made'[i]
    BY <1>1, <1>3
  <2>2. Touches(store, store, r)
    BY <1>1, WellFormedFacts, TouchesNothing
  <2> HIDE DEF n
  <2>3. Tracks(store, made', n)
    BY <1>1, <2>1, <2>2, TracksPrefix DEF n
  <2>4. Tracks(store', made', n + 1)
    BY <1>1, <1>3, <2>1, <2>3, TracksOneMore DEF n
  <2>5. QED
    BY <1>1, <2>1, <2>4 DEF Deadlined
<1>4. QED
  BY <1>2, <1>3, ServeSays

\* What replaying a record does to the Store being rebuilt.
LEMMA ReplaySays ==
  ASSUME RecoveryInv, ReplayRecord
  PROVE  /\ log[pos + 1] \in LogRecord /\ pos' = pos + 1 /\ log' = log
         /\ Does(log[pos + 1], loaded, loaded', now')
<1>1. pos < Len(log) /\ pos' = pos + 1 /\ log' = log
  BY DEF ReplayRecord
<1>2. PICK gap1 \in 0 .. MaxGap, gap2 \in 0 .. MaxGap :
        /\ now' = now + gap1 + gap2
        /\ loaded' = Replay(log[pos + 1], loaded, now, now + gap1, now')
  BY DEF ReplayRecord
<1>3. /\ now \in Int /\ now + gap1 \in Int /\ now' \in Int
      /\ now <= now + gap1 /\ now + gap1 <= now' /\ (now + gap1) - now <= MaxGap
  BY <1>2, KeyspaceAssumption DEF RecoveryInv, Inv
<1>4. log[pos + 1] \in LogRecord /\ WellFormed(loaded)
  BY <1>1 DEF RecoveryInv, File, Bounds, Memory
<1>5. QED
  BY <1>1, <1>2, <1>3, <1>4, ReplayDoes

LEMMA ReplayRecordDeadlined ==
  ASSUME RecoveryInv, Deadlined, ReplayRecord
  PROVE  Deadlined'
<1>1. /\ phase = "replaying" /\ phase' = "replaying" /\ WellFormed(loaded) /\ pos \in Nat
      /\ Tracks(loaded, log, pos) /\ Expiring(loaded, log, pos)
  BY DEF ReplayRecord, Deadlined, RecoveryInv, Memory, Bounds
<1>2. Tracks(loaded', log', pos')
  BY <1>1, ReplaySays, TracksOneMore
<1>3. Expiring(loaded', log', pos')
  BY <1>1, ReplaySays, ExpiringOneMore
<1>4. QED
  BY <1>1, <1>2, <1>3 DEF Deadlined

LEMMA FinishReplayDeadlined ==
  ASSUME RecoveryInv, Deadlined, FinishReplay
  PROVE  Deadlined'
<1>1. /\ phase = "replaying" /\ phase' = "serving" /\ pos = Len(log)
      /\ store' = loaded /\ made' = log
  BY DEF FinishReplay
<1>2. QED
  BY <1>1 DEF Deadlined

LEMMA NextDeadlined ==
  ASSUME RecoveryInv, Deadlined, [RecoveryNext]_vars
  PROVE  Deadlined'
<1>1. CASE Stop \/ StopMidAppend \/ RefuseLog \/ FixLog
  <2>1. phase' \notin {"serving", "replaying"}
    BY <1>1 DEF Stop, StopMidAppend, GoDown, RefuseLog, FixLog
  <2>2. QED
    BY <2>1 DEF Deadlined
<1>2. CASE StartReplay
  <2>1. phase' = "replaying" /\ loaded' = EmptyStore
    BY <1>2 DEF StartReplay, RecoveryInv, Memory
  <2>2. QED
    BY <2>1, EmptyStoreTracks DEF Deadlined
<1>3. CASE TimePasses \/ UNCHANGED vars
  <2>1. UNCHANGED <<store, phase, log, pos, loaded, made>>
    BY <1>3 DEF TimePasses, Tick, vars, keyspaceVars, recoveryVars
  <2>2. QED
    BY <2>1 DEF Deadlined
<1>4. QED
  BY <1>1, <1>2, <1>3, ServeDeadlined, ReplayRecordDeadlined, FinishReplayDeadlined
  DEF RecoveryNext

LEMMA DeadlinedInvariance == RecoverySpec => [](RecoveryInv /\ Deadlined)
<1>1. RecoveryInit => RecoveryInv /\ Deadlined
  BY RecoveryInitInv, EmptyStoreTracks DEF RecoveryInit, Init, Deadlined
<1>2. RecoveryInv /\ Deadlined /\ [RecoveryNext]_vars => (RecoveryInv /\ Deadlined)'
  BY RecoveryNextInv, NextDeadlined
<1>3. QED
  BY <1>1, <1>2, PTL DEF RecoverySpec

\* However many times the process is stopped, crashes and starts again, in
\* whatever states, a deadline is the one last recorded for its key, to the
\* second: log_expire rounds it down once, and a replay of the record starts
\* from that same second again, not from what an earlier replay made of it.
THEOREM RestartsKeepDeadlines == RecoverySpec => []DeadlinesTrackLog
<1>1. ASSUME RecoveryInv, Deadlined
      PROVE  DeadlinesTrackLog
  <2> SUFFICES ASSUME ~bad, NEW k \in DOMAIN store.expirations
               PROVE  \E i \in Expiries(k) :
                        /\ \A j \in Expiries(k) : j <= i
                        /\ FitsTheClock(log[i]) =>
                             /\ Deadline(log[i]) - 2 * MaxGap <= store.expirations[k]
                             /\ store.expirations[k] < Deadline(log[i]) + TicksPerSecond + MaxGap
    BY DEF DeadlinesTrackLog
  <2>1. phase = "serving"
    BY <1>1, EmptyFnDomain DEF RecoveryInv, Memory, EmptyStore
  <2>2. /\ log \in Seq(LogRecord) /\ Len(log) = Len(made) /\ Len(log) \in Nat
        /\ \A i \in 1 .. Len(log) : made[i] = log[i]
    BY <1>1, <2>1 DEF RecoveryInv, File
  <2>3. Touches(store, store, k)
    BY <1>1, WellFormedFacts, TouchesNothing DEF RecoveryInv, Inv
  <2>4. Tracks(store, log, Len(log))
    BY <1>1, <2>1, <2>2, <2>3, TracksPrefix DEF Deadlined
  <2>5. PICK i \in 1 .. Len(log) :
          /\ Latest(log, Len(log), i, k)
          /\ FitsTheClock(log[i]) => Near(store.expirations[k], Deadline(log[i]))
    BY <2>4 DEF Tracks
  <2>6. DOMAIN log = 1 .. Len(log)
    BY <2>2
  <2>7. \A j \in 1 .. Len(log) : log[j].key = k /\ log[j].verb \in {"SET", "DEL"} => j < i
    BY <2>2, <2>5 DEF Latest
  <2>8. \A j \in 1 .. Len(log) : log[j].key = k /\ log[j].verb = "EXPIRE" => j <= i
    BY <2>2, <2>5 DEF Latest
  <2>9. i \in Expiries(k)
    BY <2>5, <2>6, <2>7 DEF Latest, Expiries, RecordsOf
  <2>10. \A j \in Expiries(k) : j <= i
    BY <2>6, <2>8 DEF Expiries, RecordsOf
  <2>11. QED
    BY <2>5, <2>9, <2>10 DEF Near
<1>2. QED
  BY <1>1, DeadlinedInvariance, PTL

\* A key whose last record is an EXPIRE does not outlive its deadline by going
\* through a restart: the record is not skipped when its time has come, but
\* deletes what the records before it made.
THEOREM RestartsExpireKeys == RecoverySpec => ExpiredStaysGone
<1>1. ASSUME RecoveryInv, Deadlined, FinishReplay,
             NEW k \in Key, NEW i \in RecordsOf(k, {"EXPIRE"}),
             \A j \in RecordsOf(k, Verb) : j <= i,
             Deadline(log[i]) + TicksPerSecond + MaxGap <= now
      PROVE  k \notin Alive(store', now')
  <2>1. /\ phase = "replaying" /\ pos = Len(log) /\ store' = loaded /\ now' = now
        /\ log \in Seq(LogRecord) /\ WellFormed(loaded)
        /\ Tracks(loaded, log, Len(log)) /\ Expiring(loaded, log, Len(log))
    BY <1>1 DEF FinishReplay, Deadlined, RecoveryInv, File, Memory
  <2>2. DOMAIN log = 1 .. Len(log) /\ Len(log) \in Nat
    BY <2>1
  <2>3. /\ i \in 1 .. Len(log) /\ log[i].key = k /\ log[i].verb = "EXPIRE"
        /\ log[i] \in LogRecord
    BY <2>1, <2>2 DEF RecordsOf
  <2>4. \A j \in 1 .. Len(log) : log[j].key = k => j <= i
    <3>1. \A j \in 1 .. Len(log) : log[j].verb \in Verb
      BY <2>1, RecordParts
    <3>2. QED
      BY <1>1, <2>2, <3>1 DEF RecordsOf
  <2>5. FitsTheClock(log[i])
    BY <1>1, KeyspaceAssumption, ClockAssumption, DeadlineInt, <2>3
    DEF FitsTheClock, RecoveryInv, Inv
  <2>6. \A j \in i + 1 .. Len(log) : log[j].key # k
    BY <2>2, <2>3, <2>4
  <2>7. k \in DOMAIN loaded.values => k \in DOMAIN loaded.expirations
    BY <2>1, <2>3, <2>5, <2>6 DEF Expiring
  <2>8. ASSUME k \in DOMAIN loaded.expirations
        PROVE  loaded.expirations[k] <= now
    <3>1. PICK j \in 1 .. Len(log) :
            /\ Latest(log, Len(log), j, k)
            /\ FitsTheClock(log[j]) => Near(loaded.expirations[k], Deadline(log[j]))
      BY <2>1, <2>8 DEF Tracks
    <3>2. j = i
      <4>1. j <= i
        BY <2>4, <3>1 DEF Latest
      <4>2. ~(j < i)
        BY <2>2, <2>3, <3>1 DEF Latest
      <4>3. QED
        BY <2>3, <4>1, <4>2
    <3>3. loaded.expirations[k] \in Int
      BY <2>1, <2>8, WellFormedFacts DEF Deadlines
    <3>4. Deadline(log[i]) \in Int /\ now \in Int
      BY <1>1, <2>3, DeadlineInt DEF RecoveryInv, Inv
    <3>5. QED
      BY <1>1, <2>5, <3>1, <3>2, <3>3, <3>4, ClockAssumption, KeyspaceAssumption DEF Near
  <2>9. QED
    BY <2>1, <2>7, <2>8 DEF Alive, Due
<1>2. ASSUME RecoveryInv, Deadlined, [RecoveryNext]_vars
      PROVE  [FinishReplay =>
                \A k \in Key : \A i \in RecordsOf(k, {"EXPIRE"}) :
                  /\ \A j \in RecordsOf(k, Verb) : j <= i
                  /\ Deadline(log[i]) + TicksPerSecond + MaxGap <= now
                  => k \notin Alive(store', now')]_vars
  BY <1>1, <1>2
<1>3. QED
  BY <1>2, DeadlinedInvariance, PTL DEF RecoverySpec, ExpiredStaysGone

-----------------------------------------------------------------------------
(* A command on two Stores that are the same under its key, and in neither of *)
(* which that key is due, leaves them the same under it.                      *)

Alike(st1, st2, k) ==
  /\ st1 = [values |-> st1.values, expirations |-> st1.expirations]
  /\ st2 = [values |-> st2.values, expirations |-> st2.expirations]
  /\ SameAt(st1, st2, k)

LEMMA RemoveKeyAlike ==
  ASSUME NEW st1, NEW st2, NEW k
  PROVE  Alike(RemoveKey(st1, k), RemoveKey(st2, k), k)
<1>1. \A st : /\ k \notin DOMAIN RemoveKey(st, k).values
              /\ k \notin DOMAIN RemoveKey(st, k).expirations
              /\ RemoveKey(st, k) = [values      |-> RemoveKey(st, k).values,
                                     expirations |-> RemoveKey(st, k).expirations]
  BY DEF RemoveKey, Drop, Restrict
<1>2. QED
  BY <1>1 DEF Alike, SameAt

LEMMA AssignAlike ==
  ASSUME NEW st1, NEW st2, NEW k, NEW v, Alike(st1, st2, k)
  PROVE  Alike(Assign(st1, k, v), Assign(st2, k, v), k)
<1>1. /\ Assign(st1, k, v) = [values |-> Put(st1.values, k, v), expirations |-> st1.expirations]
      /\ Assign(st2, k, v) = [values |-> Put(st2.values, k, v), expirations |-> st2.expirations]
  BY DEF Assign, Alike
<1>2. QED
  BY <1>1 DEF Alike, SameAt, Put

LEMMA SweepAlike ==
  ASSUME NEW st1, NEW st2, NEW k, NEW t1, NEW t2, Alike(st1, st2, k),
         ~Due(st1, k, t1), ~Due(st2, k, t2)
  PROVE  Alike(ExpireIfDue(st1, k, t1), ExpireIfDue(st2, k, t2), k)
BY DEF ExpireIfDue

LEMMA MaterialiseAlike ==
  ASSUME NEW st1, NEW st2, NEW k, NEW ty, Alike(st1, st2, k)
  PROVE  /\ Alike(Materialise(st1, k, ty), Materialise(st2, k, ty), k)
         /\ k \in DOMAIN Materialise(st1, k, ty).values
<1>1. CASE k \in DOMAIN st1.values
  BY <1>1 DEF Materialise, Alike, SameAt
<1>2. CASE k \notin DOMAIN st1.values
  <2> DEFINE v == Typed(ty, Fresh(ty))
  <2>1. Materialise(st1, k, ty) = Assign(st1, k, v) /\ Materialise(st2, k, ty) = Assign(st2, k, v)
    BY <1>2 DEF Materialise, Alike, SameAt
  <2> HIDE DEF v
  <2>2. k \in DOMAIN Assign(st1, k, v).values
    <3>1. Assign(st1, k, v).values = Put(st1.values, k, v)
      BY DEF Assign, Alike
    <3>2. k \in DOMAIN Put(st1.values, k, v)
      BY DEF Put
    <3>3. QED
      BY <3>1, <3>2
  <2>3. QED
    BY <2>1, <2>2, AssignAlike
<1>3. QED
  BY <1>1, <1>2

LEMMA DropIfEmptyAlike ==
  ASSUME NEW st1, NEW st2, NEW k, Alike(st1, st2, k)
  PROVE  Alike(DropIfEmpty(st1, k), DropIfEmpty(st2, k), k)
<1>1. \/ DropIfEmpty(st1, k) = st1 /\ DropIfEmpty(st2, k) = st2
      \/ DropIfEmpty(st1, k) = RemoveKey(st1, k) /\ DropIfEmpty(st2, k) = RemoveKey(st2, k)
  BY DEF DropIfEmpty, Alike, SameAt
<1>2. QED
  BY <1>1, RemoveKeyAlike

LEMMA ResultAlike ==
  ASSUME NEW st1, NEW st2, NEW k, NEW rep1, NEW rep2, NEW recs1, NEW recs2, Alike(st1, st2, k)
  PROVE  Alike(Result(st1, rep1, recs1).store, Result(st2, rep2, recs2).store, k)
BY DEF Result

LEMMA WritingAlike ==
  ASSUME NEW st1, NEW st2, NEW k, NEW ty, NEW found1, NEW found2, Alike(st1, st2, k),
         k \in DOMAIN st1.values, Alike(found1.store, found2.store, k)
  PROVE  Alike(Writing(st1, k, ty, found1).store, Writing(st2, k, ty, found2).store, k)
<1>1. st1.values[k] = st2.values[k]
  BY DEF Alike, SameAt
<1>2. Alike(Result(st1, WrongType, << >>).store, Result(st2, WrongType, << >>).store, k)
  BY ResultAlike
<1>3. QED
  BY <1>1, <1>2 DEF Writing

LEMMA ReadingAlike ==
  ASSUME NEW st1, NEW st2, NEW k, NEW ty, NEW missing1, NEW missing2, NEW found1, NEW found2,
         Alike(st1, st2, k), Alike(missing1.store, missing2.store, k),
         k \in DOMAIN st1.values => Alike(found1.store, found2.store, k)
  PROVE  Alike(Reading(st1, k, ty, missing1, found1).store,
               Reading(st2, k, ty, missing2, found2).store, k)
<1>1. k \in DOMAIN st1.values <=> k \in DOMAIN st2.values
  BY DEF Alike, SameAt
<1>2. CASE k \notin DOMAIN st1.values
  BY <1>1, <1>2 DEF Reading
<1>3. CASE k \in DOMAIN st1.values
  <2>1. st1.values[k] = st2.values[k]
    BY <1>3 DEF Alike, SameAt
  <2>2. Alike(Result(st1, WrongType, << >>).store, Result(st2, WrongType, << >>).store, k)
    BY ResultAlike
  <2>3. QED
    BY <1>1, <1>3, <2>1, <2>2 DEF Reading
<1>4. QED
  BY <1>2, <1>3

LEMMA PUSHAlike ==
  ASSUME NEW verb, NEW st1, NEW st2, NEW k, NEW e, NEW t1, NEW t2, Alike(st1, st2, k),
         ~Due(st1, k, t1), ~Due(st2, k, t2)
  PROVE  Alike(PUSH(verb, st1, k, e, t1).store, PUSH(verb, st2, k, e, t2).store, k)
<1> DEFINE m1 == Materialise(ExpireIfDue(st1, k, t1), k, "list")
           m2 == Materialise(ExpireIfDue(st2, k, t2), k, "list")
           new(list) == IF verb = "LPUSH" THEN <<e>> \o list ELSE Append(list, e)
           made1 == Typed("list", new(m1.values[k].val))
           made2 == Typed("list", new(m2.values[k].val))
<1>1. Alike(m1, m2, k) /\ k \in DOMAIN m1.values
  BY SweepAlike, MaterialiseAlike
<1>2. PUSH(verb, st1, k, e, t1)
        = Writing(m1, k, "list", Result(Assign(m1, k, made1), Integer(Len(new(m1.values[k].val))),
                                        <<Record(verb, k, <<e>>)>>))
  BY DEF PUSH
<1>3. PUSH(verb, st2, k, e, t2)
        = Writing(m2, k, "list", Result(Assign(m2, k, made2), Integer(Len(new(m2.values[k].val))),
                                        <<Record(verb, k, <<e>>)>>))
  BY DEF PUSH
<1> HIDE DEF m1, m2, new
<1>4. made1 = made2
  BY <1>1 DEF Alike, SameAt
<1> HIDE DEF made1, made2
<1>5. Alike(Assign(m1, k, made1), Assign(m2, k, made2), k)
  BY <1>1, <1>4, AssignAlike
<1>6. QED
  BY <1>1, <1>2, <1>3, <1>5, ResultAlike, WritingAlike

LEMMA HSETAlike ==
  ASSUME NEW st1, NEW st2, NEW k, NEW f, NEW e, NEW t1, NEW t2, Alike(st1, st2, k),
         ~Due(st1, k, t1), ~Due(st2, k, t2)
  PROVE  Alike(HSET(st1, k, f, e, t1).store, HSET(st2, k, f, e, t2).store, k)
<1> DEFINE m1 == Materialise(ExpireIfDue(st1, k, t1), k, "hash")
           m2 == Materialise(ExpireIfDue(st2, k, t2), k, "hash")
           made1 == Typed("hash", Put(m1.values[k].val, f, e))
           made2 == Typed("hash", Put(m2.values[k].val, f, e))
           result1 == Result(Assign(m1, k, made1), Bit(f \notin DOMAIN m1.values[k].val),
                             <<Record("HSET", k, <<f, e>>)>>)
           result2 == Result(Assign(m2, k, made2), Bit(f \notin DOMAIN m2.values[k].val),
                             <<Record("HSET", k, <<f, e>>)>>)
<1>1. Alike(m1, m2, k) /\ k \in DOMAIN m1.values
  BY SweepAlike, MaterialiseAlike
<1>2. /\ HSET(st1, k, f, e, t1) = Writing(m1, k, "hash", result1)
      /\ HSET(st2, k, f, e, t2) = Writing(m2, k, "hash", result2)
  BY DEF HSET
<1> HIDE DEF m1, m2
<1>3. made1 = made2
  BY <1>1 DEF Alike, SameAt
<1> HIDE DEF made1, made2
<1>4. Alike(Assign(m1, k, made1), Assign(m2, k, made2), k)
  BY <1>1, <1>3, AssignAlike
<1>5. Alike(result1.store, result2.store, k)
  BY <1>4, ResultAlike
<1> HIDE DEF result1, result2
<1>6. QED
  BY <1>1, <1>2, <1>5, WritingAlike

LEMMA SADDAlike ==
  ASSUME NEW st1, NEW st2, NEW k, NEW e, NEW t1, NEW t2, Alike(st1, st2, k),
         ~Due(st1, k, t1), ~Due(st2, k, t2)
  PROVE  Alike(SADD(st1, k, e, t1).store, SADD(st2, k, e, t2).store, k)
<1> DEFINE m1 == Materialise(ExpireIfDue(st1, k, t1), k, "set")
           m2 == Materialise(ExpireIfDue(st2, k, t2), k, "set")
           made1 == Typed("set", m1.values[k].val \cup {e})
           made2 == Typed("set", m2.values[k].val \cup {e})
           result1 == Result(Assign(m1, k, made1), Bit(e \notin m1.values[k].val),
                             IF e \notin m1.values[k].val THEN <<Record("SADD", k, <<e>>)>>
                             ELSE << >>)
           result2 == Result(Assign(m2, k, made2), Bit(e \notin m2.values[k].val),
                             IF e \notin m2.values[k].val THEN <<Record("SADD", k, <<e>>)>>
                             ELSE << >>)
<1>1. Alike(m1, m2, k) /\ k \in DOMAIN m1.values
  BY SweepAlike, MaterialiseAlike
<1>2. /\ SADD(st1, k, e, t1) = Writing(m1, k, "set", result1)
      /\ SADD(st2, k, e, t2) = Writing(m2, k, "set", result2)
  BY DEF SADD
<1> HIDE DEF m1, m2
<1>3. made1 = made2
  BY <1>1 DEF Alike, SameAt
<1> HIDE DEF made1, made2
<1>4. Alike(Assign(m1, k, made1), Assign(m2, k, made2), k)
  BY <1>1, <1>3, AssignAlike
<1>5. Alike(result1.store, result2.store, k)
  BY <1>4, ResultAlike
<1> HIDE DEF result1, result2
<1>6. QED
  BY <1>1, <1>2, <1>5, WritingAlike

LEMMA POPAlike ==
  ASSUME NEW verb, NEW st1, NEW st2, NEW k, NEW t1, NEW t2, Alike(st1, st2, k),
         ~Due(st1, k, t1), ~Due(st2, k, t2)
  PROVE  Alike(POP(verb, st1, k, t1).store, POP(verb, st2, k, t2).store, k)
<1> DEFINE s1 == ExpireIfDue(st1, k, t1)
           s2 == ExpireIfDue(st2, k, t2)
           list1 == s1.values[k].val
           list2 == s2.values[k].val
           rest(list) == Typed("list", IF verb = "LPOP" THEN Tail(list)
                                       ELSE SubSeq(list, 1, Len(list) - 1))
           out(list) == IF verb = "LPOP" THEN Head(list) ELSE list[Len(list)]
           none1 == Result(s1, NullBulkString, << >>)
           none2 == Result(s2, NullBulkString, << >>)
           popped1 == Result(DropIfEmpty(Assign(s1, k, rest(list1)), k), BulkString(out(list1)),
                             <<Record(verb, k, << >>)>>)
           popped2 == Result(DropIfEmpty(Assign(s2, k, rest(list2)), k), BulkString(out(list2)),
                             <<Record(verb, k, << >>)>>)
           found1 == IF list1 = << >> THEN none1 ELSE popped1
           found2 == IF list2 = << >> THEN none2 ELSE popped2
<1>1. Alike(s1, s2, k)
  BY SweepAlike
<1>2. /\ POP(verb, st1, k, t1) = Reading(s1, k, "list", none1, found1)
      /\ POP(verb, st2, k, t2) = Reading(s2, k, "list", none2, found2)
  BY DEF POP
<1> HIDE DEF s1, s2, rest, out
<1>3. Alike(none1.store, none2.store, k)
  BY <1>1, ResultAlike
<1> HIDE DEF none1, none2
<1>4. ASSUME k \in DOMAIN s1.values
      PROVE  Alike(found1.store, found2.store, k)
  <2>1. list1 = list2
    BY <1>1, <1>4 DEF Alike, SameAt
  <2>2. rest(list1) = rest(list2)
    BY <2>1
  <2> HIDE DEF list1, list2
  <2>3. Alike(popped1.store, popped2.store, k)
    BY <1>1, <2>2, AssignAlike, DropIfEmptyAlike, ResultAlike
  <2> HIDE DEF popped1, popped2
  <2>4. QED
    BY <1>3, <2>1, <2>3
<1> HIDE DEF found1, found2
<1>5. QED
  BY <1>1, <1>2, <1>3, <1>4, ReadingAlike

LEMMA HDELAlike ==
  ASSUME NEW st1, NEW st2, NEW k, NEW f, NEW t1, NEW t2, Alike(st1, st2, k),
         ~Due(st1, k, t1), ~Due(st2, k, t2)
  PROVE  Alike(HDEL(st1, k, f, t1).store, HDEL(st2, k, f, t2).store, k)
<1> DEFINE s1 == ExpireIfDue(st1, k, t1)
           s2 == ExpireIfDue(st2, k, t2)
           hash1 == s1.values[k].val
           hash2 == s2.values[k].val
           none1 == Result(s1, Integer(0), << >>)
           none2 == Result(s2, Integer(0), << >>)
           cut1 == Result(DropIfEmpty(Assign(s1, k, Typed("hash", Drop(hash1, f))), k),
                          Integer(1), <<Record("HDEL", k, <<f>>)>>)
           cut2 == Result(DropIfEmpty(Assign(s2, k, Typed("hash", Drop(hash2, f))), k),
                          Integer(1), <<Record("HDEL", k, <<f>>)>>)
           found1 == IF f \in DOMAIN hash1 THEN cut1 ELSE none1
           found2 == IF f \in DOMAIN hash2 THEN cut2 ELSE none2
<1>1. Alike(s1, s2, k)
  BY SweepAlike
<1>2. /\ HDEL(st1, k, f, t1) = Reading(s1, k, "hash", none1, found1)
      /\ HDEL(st2, k, f, t2) = Reading(s2, k, "hash", none2, found2)
  BY DEF HDEL
<1> HIDE DEF s1, s2
<1>3. Alike(none1.store, none2.store, k)
  BY <1>1, ResultAlike
<1> HIDE DEF none1, none2
<1>4. ASSUME k \in DOMAIN s1.values
      PROVE  Alike(found1.store, found2.store, k)
  <2>1. hash1 = hash2
    BY <1>1, <1>4 DEF Alike, SameAt
  <2> HIDE DEF hash1, hash2
  <2>2. Alike(cut1.store, cut2.store, k)
    BY <1>1, <2>1, AssignAlike, DropIfEmptyAlike, ResultAlike
  <2> HIDE DEF cut1, cut2
  <2>3. QED
    BY <1>3, <2>1, <2>2
<1> HIDE DEF found1, found2
<1>5. QED
  BY <1>1, <1>2, <1>3, <1>4, ReadingAlike

LEMMA SREMAlike ==
  ASSUME NEW st1, NEW st2, NEW k, NEW e, NEW t1, NEW t2, Alike(st1, st2, k),
         ~Due(st1, k, t1), ~Due(st2, k, t2)
  PROVE  Alike(SREM(st1, k, e, t1).store, SREM(st2, k, e, t2).store, k)
<1> DEFINE s1 == ExpireIfDue(st1, k, t1)
           s2 == ExpireIfDue(st2, k, t2)
           set1 == s1.values[k].val
           set2 == s2.values[k].val
           none1 == Result(s1, Integer(0), << >>)
           none2 == Result(s2, Integer(0), << >>)
           cut1 == Result(DropIfEmpty(Assign(s1, k, Typed("set", set1 \ {e})), k),
                          Integer(1), <<Record("SREM", k, <<e>>)>>)
           cut2 == Result(DropIfEmpty(Assign(s2, k, Typed("set", set2 \ {e})), k),
                          Integer(1), <<Record("SREM", k, <<e>>)>>)
           found1 == IF e \in set1 THEN cut1 ELSE none1
           found2 == IF e \in set2 THEN cut2 ELSE none2
<1>1. Alike(s1, s2, k)
  BY SweepAlike
<1>2. /\ SREM(st1, k, e, t1) = Reading(s1, k, "set", none1, found1)
      /\ SREM(st2, k, e, t2) = Reading(s2, k, "set", none2, found2)
  BY DEF SREM
<1> HIDE DEF s1, s2
<1>3. Alike(none1.store, none2.store, k)
  BY <1>1, ResultAlike
<1> HIDE DEF none1, none2
<1>4. ASSUME k \in DOMAIN s1.values
      PROVE  Alike(found1.store, found2.store, k)
  <2>1. set1 = set2
    BY <1>1, <1>4 DEF Alike, SameAt
  <2> HIDE DEF set1, set2
  <2>2. Alike(cut1.store, cut2.store, k)
    BY <1>1, <2>1, AssignAlike, DropIfEmptyAlike, ResultAlike
  <2> HIDE DEF cut1, cut2
  <2>3. QED
    BY <1>3, <2>1, <2>2
<1> HIDE DEF found1, found2
<1>5. QED
  BY <1>1, <1>2, <1>3, <1>4, ReadingAlike

\* A DEL or a SET leaves any two Stores the same under its key.
LEMMA DELAlike ==
  ASSUME NEW st1, NEW st2, NEW k, NEW t1, NEW t2
  PROVE  Alike(DEL(st1, k, t1).store, DEL(st2, k, t2).store, k)
BY RemoveKeyAlike DEF DEL, Result

LEMMA SETMakes ==
  ASSUME NEW st, NEW k, NEW e
  PROVE  LET s == SET(st, k, e).store
         IN  /\ s = [values |-> s.values, expirations |-> s.expirations]
             /\ k \in DOMAIN s.values /\ s.values[k] = Typed("string", e)
             /\ k \notin DOMAIN s.expirations
<1> DEFINE v == Typed("string", e)
           s == SET(st, k, e).store
<1>1. s = [values |-> Put(st.values, k, v), expirations |-> Drop(st.expirations, k)]
  BY DEF SET, Result
<1> HIDE DEF v, s
<1>2. k \in DOMAIN Put(st.values, k, v) /\ Put(st.values, k, v)[k] = v
  BY DEF Put
<1>3. k \notin DOMAIN Drop(st.expirations, k)
  BY DropDomain
<1>4. /\ s = [values |-> s.values, expirations |-> s.expirations]
      /\ k \in DOMAIN s.values /\ s.values[k] = v
      /\ k \notin DOMAIN s.expirations
  BY <1>1, <1>2, <1>3
<1>5. QED
  BY <1>4 DEF v, s

LEMMA SETAlike ==
  ASSUME NEW st1, NEW st2, NEW k, NEW e
  PROVE  Alike(SET(st1, k, e).store, SET(st2, k, e).store, k)
BY SETMakes DEF Alike, SameAt

LEMMA ReplayAlike ==
  ASSUME NEW r \in LogRecord, NEW st1, NEW st2, NEW v1, NEW v2, r.verb # "EXPIRE",
         r.verb \notin {"SET", "DEL"} =>
           Alike(st1, st2, r.key) /\ ~Due(st1, r.key, v1) /\ ~Due(st2, r.key, v2)
  PROVE  Alike(Replay(r, st1, v1, v1, v1), Replay(r, st2, v2, v2, v2), r.key)
<1>1. r.verb \in Verb \ {"EXPIRE"}
  BY RecordParts
<1>2. CASE r.verb = "SET"
  BY <1>2, SETAlike DEF Replay
<1>3. CASE r.verb = "DEL"
  BY <1>3, DELAlike DEF Replay
<1>4. CASE r.verb \in {"LPUSH", "RPUSH"}
  BY <1>4, PUSHAlike DEF Replay
<1>5. CASE r.verb \in {"LPOP", "RPOP"}
  BY <1>5, POPAlike DEF Replay
<1>6. CASE r.verb = "HSET"
  BY <1>6, HSETAlike DEF Replay
<1>7. CASE r.verb = "HDEL"
  BY <1>7, HDELAlike DEF Replay
<1>8. CASE r.verb = "SADD"
  BY <1>8, SADDAlike DEF Replay
<1>9. CASE r.verb = "SREM"
  BY <1>9, SREMAlike DEF Replay
<1>10. QED
  BY <1>1, <1>2, <1>3, <1>4, <1>5, <1>6, <1>7, <1>8, <1>9 DEF Verb

-----------------------------------------------------------------------------
(* What a replay restores *)

\* Of the first n records of l, the i-th gave k a deadline, and k was neither SET
\* nor deleted after it.
Since(l, n, i, k) ==
  /\ i \in 1 .. n /\ l[i].verb = "EXPIRE" /\ l[i].key = k
  /\ \A j \in i + 1 .. n : l[j].key = k => l[j].verb \notin {"SET", "DEL"}

\* None of the deadlines k was given since then comes before w.
Safe(l, n, k, w) ==
  \A i \in 1 .. n : Since(l, n, i, k) => w + 2 * MaxGap < Deadline(l[i]) /\ FitsTheClock(l[i])

\* S is a replay of the first n records of l, Store by Store: the i-th is made
\* from the one before it between the clock readings C[i - 1] and C[i].
Replayed(S, C, l, n) ==
  /\ S[0] = EmptyStore
  /\ \A i \in 0 .. n : C[i] \in Int
  /\ \A i \in 1 .. n : \E t, u \in Int :
       /\ C[i - 1] <= t /\ t <= u /\ u <= C[i] /\ u - t <= MaxGap
       /\ S[i] = Replay(l[i], S[i - 1], t, u, C[i])

\* Whenever, from c on, the first n records of l are replayed, the keys whose
\* deadlines have not come by the end of it are what they are in st.
Restores(st, l, n, c) ==
  \A S, C : Replayed(S, C, l, n) /\ c <= C[0] =>
    /\ WellFormed(S[n]) /\ Tracks(S[n], l, n) /\ C[0] <= C[n]
    /\ \A k : Safe(l, n, k, C[n]) => SameAt(st, S[n], k)

LEMMA RestoresLater ==
  ASSUME NEW st, NEW l, NEW n \in Nat, NEW c \in Int, NEW c2 \in Int, c <= c2,
         Restores(st, l, n, c)
  PROVE  Restores(st, l, n, c2)
<1> SUFFICES ASSUME NEW S, NEW C, Replayed(S, C, l, n), c2 <= C[0]
             PROVE  /\ WellFormed(S[n]) /\ Tracks(S[n], l, n) /\ C[0] <= C[n]
                    /\ \A k : Safe(l, n, k, C[n]) => SameAt(st, S[n], k)
  BY DEF Restores
<1>1. C[0] \in Int
  BY DEF Replayed
<1>2. c <= C[0]
  BY <1>1
<1>3. QED
  BY <1>2 DEF Restores

LEMMA ReplayedPrefix ==
  ASSUME NEW S, NEW C, NEW l1, NEW l2, NEW n \in Nat, NEW m \in 0 .. n, Replayed(S, C, l1, n),
         \A i \in 1 .. m : l1[i] = l2[i]
  PROVE  Replayed(S, C, l2, m)
<1>1. \A i \in 0 .. m : i \in 0 .. n
  OBVIOUS
<1>2. \A i \in 1 .. m : i \in 1 .. n
  OBVIOUS
<1>3. QED
  BY <1>1, <1>2 DEF Replayed

LEMMA RestoresPrefix ==
  ASSUME NEW st, NEW l1, NEW l2, NEW n \in Nat, NEW c, Restores(st, l1, n, c),
         \A i \in 1 .. n : l1[i] = l2[i]
  PROVE  Restores(st, l2, n, c)
<1> SUFFICES ASSUME NEW S, NEW C, Replayed(S, C, l2, n), c <= C[0]
             PROVE  /\ WellFormed(S[n]) /\ Tracks(S[n], l2, n) /\ C[0] <= C[n]
                    /\ \A k : Safe(l2, n, k, C[n]) => SameAt(st, S[n], k)
  BY DEF Restores
<1>1. Replayed(S, C, l1, n)
  <2>1. n \in 0 .. n /\ \A i \in 1 .. n : l2[i] = l1[i]
    OBVIOUS
  <2>2. QED
    BY <2>1, ReplayedPrefix
<1>2. /\ WellFormed(S[n]) /\ Tracks(S[n], l1, n) /\ C[0] <= C[n]
      /\ \A k : Safe(l1, n, k, C[n]) => SameAt(st, S[n], k)
  BY <1>1 DEF Restores
<1>3. Tracks(S[n], l2, n)
  <2>1. Touches(S[n], S[n], c)
    BY <1>2, WellFormedFacts, TouchesNothing
  <2>2. QED
    BY <1>2, <2>1, TracksPrefix
<1>4. ASSUME NEW k, Safe(l2, n, k, C[n])
      PROVE  Safe(l1, n, k, C[n])
  <2>1. ASSUME NEW i \in 1 .. n, Since(l1, n, i, k)
        PROVE  Since(l2, n, i, k) /\ l1[i] = l2[i]
    BY <2>1 DEF Since
  <2>2. QED
    BY <1>4, <2>1 DEF Safe
<1>5. QED
  BY <1>2, <1>3, <1>4

LEMMA EmptyStoreRestores ==
  ASSUME NEW l, NEW c
  PROVE  Restores(EmptyStore, l, 0, c)
<1> SUFFICES ASSUME NEW S, NEW C, Replayed(S, C, l, 0)
             PROVE  /\ WellFormed(S[0]) /\ Tracks(S[0], l, 0) /\ C[0] <= C[0]
                    /\ \A k : SameAt(EmptyStore, S[0], k)
  BY DEF Restores
<1>1. S[0] = EmptyStore /\ C[0] \in Int
  BY DEF Replayed
<1>2. QED
  BY <1>1, EmptyStoreWellFormed, EmptyStoreTracks DEF SameAt

\* A key none of whose deadlines has come by w is not due before.
LEMMA SafeIsNotDue ==
  ASSUME NEW st, NEW l, NEW n \in Nat, NEW k, NEW v \in Int, NEW w \in Int, v <= w,
         WellFormed(st), Tracks(st, l, n), Safe(l, n, k, w),
         \A i \in 1 .. n : l[i] \in LogRecord
  PROVE  ~Due(st, k, v)
<1> SUFFICES ASSUME k \in DOMAIN st.expirations
             PROVE  v < st.expirations[k]
  <2>1. k \in DOMAIN st.expirations => st.expirations[k] \in Int
    BY WellFormedFacts DEF Deadlines
  <2>2. QED
    BY <2>1 DEF Due
<1>1. st.expirations[k] \in Int
  BY WellFormedFacts DEF Deadlines
<1>2. PICK i \in 1 .. n : /\ Latest(l, n, i, k)
                          /\ FitsTheClock(l[i]) => Near(st.expirations[k], Deadline(l[i]))
  BY DEF Tracks
<1>3. Since(l, n, i, k) /\ l[i].verb = "EXPIRE"
  BY <1>2 DEF Latest, Since
<1>4. w + 2 * MaxGap < Deadline(l[i]) /\ Near(st.expirations[k], Deadline(l[i]))
  BY <1>2, <1>3 DEF Safe
<1>5. Deadline(l[i]) \in Int /\ MaxGap \in Nat
  BY <1>3, DeadlineInt, KeyspaceAssumption
<1>6. QED
  BY <1>1, <1>4, <1>5 DEF Near

LEMMA SameAtInTurn ==
  ASSUME NEW s1, NEW s2, NEW s3, NEW s4, NEW k,
         SameAt(s1, s2, k), SameAt(s1, s3, k), SameAt(s2, s4, k)
  PROVE  SameAt(s3, s4, k)
BY DEF SameAt

\* An EXPIRE whose deadline has not come gives the key one in both Stores, if it
\* is there.
LEMMA ExpireAlike ==
  ASSUME NEW r, NEW st1, NEW st2, NEW new1, NEW new2, NEW v1 \in Int, NEW v2 \in Int,
         r.verb = "EXPIRE", FitsTheClock(r), Deadline(r) \in Int,
         v1 < Deadline(r), v2 < Deadline(r), Alike(st1, st2, r.key),
         \A u \in Int : u <= v1 => ~Due(st1, r.key, u),
         \A u \in Int : u <= v2 => ~Due(st2, r.key, u),
         Does(r, st1, new1, v1), Does(r, st2, new2, v2)
  PROVE  SameAt(new1, new2, r.key)
<1> DEFINE k == r.key
<1>1. /\ \A u \in Int : u <= v1 => ExpireIfDue(st1, k, u) = st1
      /\ \A u \in Int : u <= v2 => ExpireIfDue(st2, k, u) = st2
      /\ ~(Deadline(r) <= v1) /\ ~(Deadline(r) <= v2)
  BY DEF ExpireIfDue
<1>2. \/ k \notin DOMAIN st1.values /\ new1 = st1
      \/ /\ k \in DOMAIN st1.values
         /\ \E d \in Int : new1 = [st1 EXCEPT !.expirations = Put(st1.expirations, k, d)]
  <2>1. Expires(r, st1, new1, v1)
    BY <1>1 DEF Does
  <2>2. QED
    BY <1>1, <2>1 DEF Expires
<1>3. \/ k \notin DOMAIN st2.values /\ new2 = st2
      \/ /\ k \in DOMAIN st2.values
         /\ \E d \in Int : new2 = [st2 EXCEPT !.expirations = Put(st2.expirations, k, d)]
  <2>1. Expires(r, st2, new2, v2)
    BY <1>1 DEF Does
  <2>2. QED
    BY <1>1, <2>1 DEF Expires
<1> HIDE DEF k
<1>4. ASSUME NEW st, st = [values |-> st.values, expirations |-> st.expirations],
             NEW new, NEW d, new = [st EXCEPT !.expirations = Put(st.expirations, k, d)]
      PROVE  new.values = st.values /\ k \in DOMAIN new.expirations
  <2>1. new.values = st.values /\ new.expirations = Put(st.expirations, k, d)
    BY <1>4
  <2>2. k \in DOMAIN Put(st.expirations, k, d)
    BY DEF Put
  <2>3. QED
    BY <2>1, <2>2
<1>5. CASE k \notin DOMAIN st1.values
  BY <1>2, <1>3, <1>5 DEF Alike, SameAt, k
<1>6. CASE k \in DOMAIN st1.values
  <2>1. k \in DOMAIN st2.values /\ st1.values[k] = st2.values[k]
    BY <1>6 DEF Alike, SameAt, k
  <2>2. new1.values = st1.values /\ k \in DOMAIN new1.expirations
    BY <1>2, <1>4, <1>6 DEF Alike
  <2>3. new2.values = st2.values /\ k \in DOMAIN new2.expirations
    BY <1>3, <1>4, <2>1 DEF Alike
  <2>4. QED
    BY <1>6, <2>1, <2>2, <2>3 DEF SameAt, k
<1>7. QED
  BY <1>5, <1>6

\* One record more, executed or replayed on st, and replayed on what a replay of
\* the records before it makes.
LEMMA RestoresOneMore ==
  ASSUME NEW l, NEW n \in Nat, NEW st, NEW st2, NEW c \in Nat, NEW v \in Nat, c <= v,
         \A i \in 1 .. n + 1 : l[i] \in LogRecord,
         WellFormed(st), Tracks(st, l, n), Restores(st, l, n, c), Does(l[n + 1], st, st2, v)
  PROVE  Restores(st2, l, n + 1, v)
<1> DEFINE r == l[n + 1]
<1> SUFFICES ASSUME NEW S, NEW C, Replayed(S, C, l, n + 1), v <= C[0]
             PROVE  /\ WellFormed(S[n + 1]) /\ Tracks(S[n + 1], l, n + 1) /\ C[0] <= C[n + 1]
                    /\ \A k : Safe(l, n + 1, k, C[n + 1]) => SameAt(st2, S[n + 1], k)
  BY DEF Restores
<1> DEFINE w == C[n + 1]
<1>1. r \in LogRecord /\ \A i \in 1 .. n : l[i] \in LogRecord
  OBVIOUS
<1>2. C[0] \in Int /\ C[n] \in Int /\ w \in Int
  BY DEF Replayed
<1>3. Replayed(S, C, l, n) /\ c <= C[0]
  <2>1. Replayed(S, C, l, n)
    BY ReplayedPrefix
  <2>2. QED
    BY <1>2, <2>1
<1>4. /\ WellFormed(S[n]) /\ Tracks(S[n], l, n) /\ C[0] <= C[n]
      /\ \A k : Safe(l, n, k, C[n]) => SameAt(st, S[n], k)
  BY <1>3 DEF Restores
<1>5. PICK t \in Int, u \in Int :
        /\ C[n] <= t /\ t <= u /\ u <= w /\ u - t <= MaxGap
        /\ S[n + 1] = Replay(r, S[n], t, u, w)
  BY DEF Replayed
<1>6. t \in Nat /\ u \in Nat /\ w \in Nat /\ C[n] <= w /\ v <= w
  BY <1>2, <1>4, <1>5
<1> HIDE DEF r, w
<1>7. Does(r, S[n], S[n + 1], w)
  BY <1>1, <1>4, <1>5, <1>6, ReplayDoes
<1>8. WellFormed(S[n + 1])
  BY <1>1, <1>4, <1>5, <1>6, ReplayWellFormed
<1>9. Tracks(S[n + 1], l, n + 1)
  BY <1>1, <1>4, <1>7, TracksOneMore DEF r
<1>10. ASSUME NEW k, Safe(l, n + 1, k, w)
       PROVE  SameAt(st2, S[n + 1], k)
  <2>1. ASSUME r.key = k => r.verb \notin {"SET", "DEL"}
        PROVE  Safe(l, n, k, w)
    <3>1. ASSUME NEW i \in 1 .. n, Since(l, n, i, k)
          PROVE  i \in 1 .. n + 1 /\ Since(l, n + 1, i, k)
      <4>1. \A j \in i + 1 .. n + 1 : j \in i + 1 .. n \/ j = n + 1
        OBVIOUS
      <4>2. i \in 1 .. n + 1
        OBVIOUS
      <4>3. QED
        BY <2>1, <3>1, <4>1, <4>2 DEF Since, r
    <3>2. QED
      BY <1>10, <3>1 DEF Safe
  <2>2. ASSUME Safe(l, n, k, w)
        PROVE  SameAt(st, S[n], k) /\ ~Due(st, k, v) /\ ~Due(S[n], k, w)
    <3>1. ASSUME NEW i \in 1 .. n, Since(l, n, i, k)
          PROVE  C[n] + 2 * MaxGap < Deadline(l[i]) /\ FitsTheClock(l[i])
      <4>1. w + 2 * MaxGap < Deadline(l[i]) /\ FitsTheClock(l[i])
        BY <2>2, <3>1 DEF Safe
      <4>2. Deadline(l[i]) \in Int /\ MaxGap \in Nat
        BY <1>1, <3>1, DeadlineInt, KeyspaceAssumption DEF Since
      <4>3. QED
        BY <1>2, <1>6, <4>1, <4>2
    <3>2. Safe(l, n, k, C[n])
      BY <3>1 DEF Safe
    <3>3. ~Due(st, k, v) /\ ~Due(S[n], k, w)
      BY <1>1, <1>4, <1>6, <2>2, SafeIsNotDue
    <3>4. QED
      BY <1>4, <3>2, <3>3
  <2>3. CASE r.key # k
    <3>1. SameAt(st, st2, k) /\ SameAt(S[n], S[n + 1], k)
      BY <1>1, <1>4, <1>7, <2>3, DoesToDeadlines DEF r
    <3>2. QED
      BY <2>1, <2>2, <2>3, <3>1, SameAtInTurn
  <2>4. CASE r.key = k /\ r.verb # "EXPIRE"
    <3>1. st2 = Replay(r, st, v, v, v) /\ S[n + 1] = Replay(r, S[n], w, w, w)
      BY <1>7, <2>4 DEF Does, r
    <3>2. ASSUME r.verb \notin {"SET", "DEL"}
          PROVE  Alike(st, S[n], k) /\ ~Due(st, k, v) /\ ~Due(S[n], k, w)
      BY <1>4, <2>1, <2>2, <3>2, WellFormedFacts DEF Alike
    <3>3. Alike(Replay(r, st, v, v, v), Replay(r, S[n], w, w, w), k)
      BY <1>1, <2>4, <3>2, ReplayAlike
    <3>4. QED
      BY <3>1, <3>3 DEF Alike
  <2>5. CASE r.key = k /\ r.verb = "EXPIRE"
    <3>1. Alike(st, S[n], k)
      BY <1>4, <2>1, <2>2, <2>5, WellFormedFacts DEF Alike
    <3>2. ASSUME NEW x \in Int, x <= w
          PROVE  ~Due(S[n], k, x) /\ (x <= v => ~Due(st, k, x))
      <4>1. Safe(l, n, k, w)
        BY <2>1, <2>5
      <4>2. QED
        BY <1>1, <1>4, <1>6, <3>2, <4>1, SafeIsNotDue
    <3>3. \A x \in Int : x <= v => ~Due(st, k, x)
      BY <1>6, <3>2
    <3>4. Since(l, n + 1, n + 1, k)
      BY <2>5 DEF Since, r
    <3>5. w + 2 * MaxGap < Deadline(r) /\ FitsTheClock(r)
      BY <1>10, <3>4 DEF Safe, r
    <3>6. Deadline(r) \in Int /\ MaxGap \in Nat
      BY <1>1, <2>5, DeadlineInt, KeyspaceAssumption
    <3>7. v < Deadline(r) /\ w < Deadline(r)
      BY <1>6, <3>5, <3>6
    <3>8. Does(r, st, st2, v)
      BY DEF r
    <3>9. QED
      BY <1>2, <1>7, <2>5, <3>1, <3>2, <3>3, <3>5, <3>6, <3>7, <3>8, ExpireAlike
  <2>6. QED
    BY <2>3, <2>4, <2>5
<1>11. QED
  BY <1>2, <1>4, <1>6, <1>8, <1>9, <1>10 DEF w

\* A step that appends nothing, by the theorem on quiet steps, changes no key
\* whose deadlines have not come.
LEMMA RestoresQuietly ==
  ASSUME NEW l, NEW n \in Nat, NEW st, NEW st2, NEW x, NEW c \in Int, NEW v \in Int, c <= v,
         \A i \in 1 .. n : l[i] \in LogRecord,
         WellFormed(st), WellFormed(st2), Tracks(st, l, n), Restores(st, l, n, c),
         Touches(st, st2, x), Visible(st2, v) = Visible(st, v)
  PROVE  Restores(st2, l, n, v)
<1> SUFFICES ASSUME NEW S, NEW C, Replayed(S, C, l, n), v <= C[0]
             PROVE  /\ WellFormed(S[n]) /\ Tracks(S[n], l, n) /\ C[0] <= C[n]
                    /\ \A k : Safe(l, n, k, C[n]) => SameAt(st2, S[n], k)
  BY DEF Restores
<1>1. C[0] \in Int /\ C[n] \in Int
  BY DEF Replayed
<1>2. c <= C[0]
  BY <1>1
<1>3. /\ WellFormed(S[n]) /\ Tracks(S[n], l, n) /\ C[0] <= C[n]
      /\ \A k : Safe(l, n, k, C[n]) => SameAt(st, S[n], k)
  BY <1>2 DEF Restores
<1>4. ASSUME NEW k, Safe(l, n, k, C[n])
      PROVE  SameAt(st, st2, k)
  <2>1. v <= C[n]
    BY <1>1, <1>3
  <2>2. ~Due(st, k, v)
    BY <1>1, <1>4, <2>1, SafeIsNotDue
  <2>3. k \in DOMAIN st2.expirations =>
          k \in DOMAIN st.expirations /\ st2.expirations[k] = st.expirations[k]
    BY DEF Touches
  <2>4. ~Due(st2, k, v)
    BY <2>2, <2>3 DEF Due
  <2>5. /\ k \in Alive(st, v) <=> k \in DOMAIN st.values
        /\ k \in Alive(st2, v) <=> k \in DOMAIN st2.values
    BY <2>2, <2>4 DEF Alive
  <2>6. /\ Alive(st2, v) = Alive(st, v)
        /\ DOMAIN st2.expirations \cap Alive(st2, v) = DOMAIN st.expirations \cap Alive(st, v)
    BY VisibleFields
  <2>7. k \in Alive(st, v) => st.values[k] = st2.values[k]
    <3>1. k \in Alive(st, v) => Visible(st, v).values[k] = st.values[k]
      BY VisibleFields
    <3>2. k \in Alive(st, v) => Visible(st2, v).values[k] = st2.values[k]
      BY <2>6, VisibleFields
    <3>3. QED
      BY <3>1, <3>2
  <2>8. k \in DOMAIN st.expirations => k \in DOMAIN st2.expirations
    BY <2>5, <2>6, WellFormedFacts DEF NoOrphan
  <2>9. QED
    BY <2>3, <2>5, <2>6, <2>7, <2>8 DEF SameAt
<1>5. ASSUME NEW k, Safe(l, n, k, C[n])
      PROVE  SameAt(st2, S[n], k)
  BY <1>3, <1>4, <1>5 DEF SameAt
<1>6. QED
  BY <1>3, <1>5
\* While it serves, the Store is what a replay of the changes made would restore;
\* when it went down it was; and a Store being rebuilt is one a replay of the
\* records read so far has made, in which those records are in turn restored.
Rebuilt ==
  \E S, C : /\ Replayed(S, C, log, pos) /\ S[pos] = loaded /\ C[pos] <= now
            /\ Restores(before, made, Len(made), C[0])
Restored ==
  /\ phase = "serving" => Restores(store, made, Len(made), now)
  /\ phase # "serving" => Restores(before, made, Len(made), now) /\ Tracks(before, made, Len(made))
  /\ phase = "replaying" => Restores(loaded, log, pos, now) /\ Rebuilt
  /\ phase # "replaying" => pos = 0

LEMMA TimeGoesOn ==
  ASSUME Inv, Write \/ Read
  PROVE  now \in Nat /\ now' \in Nat /\ now <= now'
<1>1. now \in Nat
  BY KeyspaceAssumption DEF Inv
<1>2. \/ now' = now \/ \E gap \in 0 .. MaxGap : now' = now + gap
      \/ \E gap1, gap2 \in 0 .. MaxGap : now' = now + (gap1 + gap2)
  <2>1. CASE Write
    BY <2>1 DEF Write, Del, Expire, Pop, Set, Push, Hset, Hdel, Sadd, Srem, Run, RunFor
  <2>2. CASE Read
    BY <2>2 DEF Read, Ping, Reject, Ttl, Get, Llen, Lrange, Hlen, Scard, Smembers, Hget,
                Hexists, Sismember, Run, RunFor
  <2>3. QED
    BY <2>1, <2>2
<1>3. QED
  BY <1>1, <1>2, KeyspaceAssumption

LEMMA ServeRestored ==
  ASSUME RecoveryInv, Deadlined, Restored, Serve
  PROVE  Restored'
<1> DEFINE n == Len(made)
<1>1. /\ phase = "serving" /\ phase' = "serving" /\ pos' = pos /\ pos = 0
      /\ made \in Seq(LogRecord) /\ WellFormed(store)
      /\ Tracks(store, made, n) /\ Restores(store, made, n, now)
  BY DEF Serve, Restored, Deadlined, RecoveryInv, File, Inv
<1>2. n \in Nat /\ \A i \in 1 .. n : made[i] \in LogRecord
  BY <1>1
<1>3. now \in Nat /\ now' \in Nat /\ now <= now'
  BY TimeGoesOn DEF Serve, RecoveryInv
<1>4. ASSUME NEW k, made' = made, records' = << >>, Touches(store, store', k)
      PROVE  Restored'
  <2>1. WellFormed(store')
    BY ServeInv DEF RecoveryInv, Inv
  <2>2. Visible(store', now') = Visible(store, now')
    BY <1>4, NextLogged DEF Serve, Next, StepLogged, RecoveryInv
  <2> HIDE DEF n
  <2>3. Restores(store', made, n, now')
    BY <1>1, <1>2, <1>3, <1>4, <2>1, <2>2, RestoresQuietly
  <2>4. QED
    BY <1>1, <1>4, <2>3 DEF Restored, n
<1>5. ASSUME NEW r \in LogRecord, made' = Append(made, r), Does(r, store, store', now')
      PROVE  Restored'
  <2>1. /\ Len(made') = n + 1 /\ made'[n + 1] = r /\ \A i \in 1 .. n : made[i] = made'[i]
        /\ \A i \in 1 .. n + 1 : made'[i] \in LogRecord
    BY <1>1, <1>5
  <2>2. Touches(store, store, r)
    BY <1>1, WellFormedFacts, TouchesNothing
  <2> HIDE DEF n
  <2>3. Tracks(store, made', n) /\ Restores(store, made', n, now)
    BY <1>1, <1>2, <2>1, <2>2, TracksPrefix, RestoresPrefix
  <2>4. Restores(store', made', n + 1, now')
    BY <1>1, <1>2, <1>3, <1>5, <2>1, <2>3, RestoresOneMore
  <2>5. QED
    BY <1>1, <2>1, <2>4 DEF Restored
<1>6. QED
  BY <1>4, <1>5, ServeSays

LEMMA ReplayRecordRestored ==
  ASSUME RecoveryInv, Deadlined, Restored, ReplayRecord
  PROVE  Restored'
<1>1. /\ phase = "replaying" /\ phase' = "replaying" /\ pos' = pos + 1 /\ log' = log
      /\ before' = before /\ made' = made /\ pos < Len(log)
  BY DEF ReplayRecord
<1>2. PICK gap1 \in 0 .. MaxGap, gap2 \in 0 .. MaxGap :
        /\ now' = now + gap1 + gap2
        /\ loaded' = Replay(log[pos + 1], loaded, now, now + gap1, now')
  BY DEF ReplayRecord
<1>3. /\ now \in Nat /\ now' \in Nat /\ now + gap1 \in Nat
      /\ now <= now + gap1 /\ now + gap1 <= now' /\ (now + gap1) - now <= MaxGap
  BY <1>2, KeyspaceAssumption DEF RecoveryInv, Inv
<1>4. /\ pos \in Nat /\ WellFormed(loaded) /\ Tracks(loaded, log, pos) /\ log \in Seq(LogRecord)
      /\ Restores(loaded, log, pos, now)
  BY <1>1 DEF RecoveryInv, Bounds, Memory, File, Deadlined, Restored
<1>5. \A i \in 1 .. pos + 1 : log[i] \in LogRecord
  BY <1>1, <1>4
<1>6. Restores(loaded', log', pos', now')
  <2>1. Does(log[pos + 1], loaded, loaded', now') /\ now <= now'
    BY <1>3, ReplaySays
  <2>2. Restores(loaded', log, pos + 1, now')
    BY <1>3, <1>4, <1>5, <2>1, RestoresOneMore
  <2>3. QED
    BY <1>1, <2>2
<1>7. Restores(before', made', Len(made'), now') /\ Tracks(before', made', Len(made'))
  <2>1. Restores(before, made, Len(made), now) /\ Tracks(before, made, Len(made))
    BY <1>1 DEF Restored
  <2>2. Len(made) \in Nat /\ now \in Int /\ now' \in Int /\ now <= now'
    BY <1>3 DEF RecoveryInv, File
  <2>3. QED
    BY <1>1, <2>1, <2>2, RestoresLater
<1>8. Rebuilt'
  <2>1. PICK S, C : /\ Replayed(S, C, log, pos) /\ S[pos] = loaded /\ C[pos] <= now
                    /\ Restores(before, made, Len(made), C[0])
    BY <1>1 DEF Restored, Rebuilt
  <2> DEFINE S2 == [i \in 0 .. pos + 1 |-> IF i = pos + 1 THEN loaded' ELSE S[i]]
             C2 == [i \in 0 .. pos + 1 |-> IF i = pos + 1 THEN now' ELSE C[i]]
  <2>2. /\ \A i \in 0 .. pos : S2[i] = S[i] /\ C2[i] = C[i]
        /\ S2[pos + 1] = loaded' /\ C2[pos + 1] = now'
    BY <1>4
  <2> HIDE DEF S2, C2
  <2>3. S2[0] = EmptyStore /\ C2[0] = C[0]
    BY <1>4, <2>1, <2>2 DEF Replayed
  <2>4. \A i \in 0 .. pos + 1 : C2[i] \in Int
    <3>1. \A i \in 0 .. pos : C[i] \in Int
      BY <2>1 DEF Replayed
    <3>2. \A i \in 0 .. pos + 1 : i \in 0 .. pos \/ i = pos + 1
      BY <1>4
    <3>3. QED
      BY <1>3, <2>2, <3>1, <3>2
  <2>5. ASSUME NEW i \in 1 .. pos + 1
        PROVE  \E t, u \in Int : /\ C2[i - 1] <= t /\ t <= u /\ u <= C2[i] /\ u - t <= MaxGap
                                 /\ S2[i] = Replay(log[i], S2[i - 1], t, u, C2[i])
    <3>1. CASE i = pos + 1
      <4>1. S2[i - 1] = loaded /\ C2[i - 1] <= now /\ S2[i] = loaded' /\ C2[i] = now'
        BY <1>4, <2>1, <2>2, <3>1
      <4>2. now \in Int /\ now + gap1 \in Int
        BY <1>3
      <4>3. QED
        BY <1>2, <1>3, <3>1, <4>1, <4>2
    <3>2. CASE i \in 1 .. pos
      <4>1. i \in 0 .. pos /\ i - 1 \in 0 .. pos
        BY <1>4, <3>2
      <4>2. S2[i - 1] = S[i - 1] /\ C2[i - 1] = C[i - 1] /\ S2[i] = S[i] /\ C2[i] = C[i]
        BY <2>2, <4>1
      <4>3. QED
        BY <2>1, <3>2, <4>2 DEF Replayed
    <3>3. QED
      BY <1>4, <3>1, <3>2
  <2>6. Replayed(S2, C2, log, pos + 1)
    BY <2>3, <2>4, <2>5 DEF Replayed
  <2>7. /\ Replayed(S2, C2, log', pos') /\ S2[pos'] = loaded' /\ C2[pos'] <= now'
        /\ Restores(before', made', Len(made'), C2[0])
    BY <1>1, <1>3, <2>1, <2>2, <2>3, <2>6
  <2>8. QED
    BY <2>7 DEF Rebuilt
<1>9. QED
  BY <1>1, <1>6, <1>7, <1>8 DEF Restored
LEMMA GoDownRestored ==
  ASSUME RecoveryInv, Deadlined, Restored, GoDown
  PROVE  Restored'
<1>1. /\ phase' = "down" /\ pos' = 0 /\ made' = made /\ now' = now
      /\ before' = IF phase = "serving" THEN store ELSE before
  BY DEF GoDown
<1>2. Restores(before', made, Len(made), now) /\ Tracks(before', made, Len(made))
  BY <1>1 DEF Restored, Deadlined
<1>3. QED
  BY <1>1, <1>2 DEF Restored

LEMMA StartReplayRestored ==
  ASSUME RecoveryInv, Restored, StartReplay
  PROVE  Restored'
<1>1. /\ phase # "serving" /\ phase # "replaying" /\ phase' = "replaying"
      /\ pos' = pos /\ loaded' = loaded /\ log' = log /\ made' = made /\ before' = before
      /\ now' = now
  BY DEF StartReplay, keyspaceVars
<1>2. pos = 0 /\ loaded = EmptyStore /\ now \in Int
  BY <1>1, KeyspaceAssumption DEF Restored, RecoveryInv, Memory, Inv
<1>3. Restores(before, made, Len(made), now) /\ Tracks(before, made, Len(made))
  BY <1>1 DEF Restored
<1> DEFINE S == [i \in {0} |-> EmptyStore]
           C == [i \in {0} |-> now]
<1>4. S[0] = EmptyStore /\ C[0] = now
  OBVIOUS
<1> HIDE DEF S, C
<1>5. Replayed(S, C, log, 0)
  <2>1. \A i \in 0 .. 0 : C[i] \in Int
    BY <1>2, <1>4
  <2>2. \A i \in 1 .. 0 : FALSE
    OBVIOUS
  <2>3. QED
    BY <1>4, <2>1, <2>2 DEF Replayed
<1>6. Restores(EmptyStore, log, 0, now)
  BY EmptyStoreRestores
<1>7. Rebuilt'
  BY <1>1, <1>2, <1>3, <1>4, <1>5 DEF Rebuilt
<1>8. QED
  BY <1>1, <1>2, <1>3, <1>6, <1>7 DEF Restored

LEMMA TimePassesRestored ==
  ASSUME RecoveryInv, Restored, TimePasses \/ UNCHANGED vars
  PROVE  Restored'
<1>1. UNCHANGED <<store, phase, log, pos, loaded, before, made>>
  BY DEF TimePasses, Tick, vars, keyspaceVars, recoveryVars
<1>2. now \in Int /\ now' \in Int /\ now <= now'
  BY KeyspaceAssumption DEF TimePasses, Tick, vars, keyspaceVars, RecoveryInv, Inv
<1>3. Len(made) \in Nat /\ pos \in Nat
  BY DEF RecoveryInv, File, Bounds
<1>4. /\ Restores(store, made, Len(made), now) => Restores(store, made, Len(made), now')
      /\ Restores(before, made, Len(made), now) => Restores(before, made, Len(made), now')
      /\ Restores(loaded, log, pos, now) => Restores(loaded, log, pos, now')
  BY <1>2, <1>3, RestoresLater
<1>5. Rebuilt => Rebuilt'
  <2>1. ASSUME Rebuilt
        PROVE  \E S, C : /\ Replayed(S, C, log, pos) /\ S[pos] = loaded /\ C[pos] <= now'
                         /\ Restores(before, made, Len(made), C[0])
    <3>1. PICK S, C : /\ Replayed(S, C, log, pos) /\ S[pos] = loaded /\ C[pos] <= now
                      /\ Restores(before, made, Len(made), C[0])
      BY <2>1 DEF Rebuilt
    <3>2. C[pos] \in Int
      BY <1>3, <3>1 DEF Replayed
    <3>3. C[pos] <= now'
      BY <1>2, <3>1, <3>2
    <3>4. QED
      BY <3>1, <3>3
  <2>2. QED
    BY <1>1, <2>1 DEF Rebuilt
<1>6. QED
  BY <1>1, <1>4, <1>5 DEF Restored

LEMMA NextRestored ==
  ASSUME RecoveryInv, Deadlined, Restored, [RecoveryNext]_vars
  PROVE  Restored'
<1>1. CASE Stop \/ StopMidAppend
  BY <1>1, GoDownRestored DEF Stop, StopMidAppend
<1>2. CASE FinishReplay
  <2>1. /\ phase = "replaying" /\ phase' = "serving" /\ pos = Len(log) /\ pos' = 0
        /\ store' = loaded /\ made' = log /\ now' = now
    BY <1>2 DEF FinishReplay
  <2>2. QED
    BY <2>1 DEF Restored
<1>3. CASE RefuseLog \/ FixLog
  <2>1. /\ phase \in {"replaying", "refused"} /\ phase' \notin {"serving", "replaying"}
        /\ made' = made /\ before' = before /\ now' = now
    BY <1>3 DEF RefuseLog, FixLog, keyspaceVars
  <2>2. pos' = 0
    BY <1>3 DEF RefuseLog, FixLog, Restored
  <2>3. Restores(before, made, Len(made), now) /\ Tracks(before, made, Len(made))
    BY <2>1 DEF Restored
  <2>4. QED
    BY <2>1, <2>2, <2>3 DEF Restored
<1>4. QED
  BY <1>1, <1>2, <1>3, ServeRestored, ReplayRecordRestored, StartReplayRestored,
     TimePassesRestored
  DEF RecoveryNext

LEMMA RestoredInvariance == RecoverySpec => [](RecoveryInv /\ Deadlined /\ Restored)
<1>1. RecoveryInit => RecoveryInv /\ Deadlined /\ Restored
  <2> SUFFICES ASSUME RecoveryInit
               PROVE  RecoveryInv /\ Deadlined /\ Restored
    OBVIOUS
  <2>1. /\ store = EmptyStore /\ made = << >> /\ Len(made) = 0
        /\ phase = "serving" /\ pos = 0
    BY DEF RecoveryInit, Init
  <2>2. QED
    BY <2>1, RecoveryInitInv, EmptyStoreTracks, EmptyStoreRestores DEF Deadlined, Restored
<1>2. RecoveryInv /\ Deadlined /\ Restored /\ [RecoveryNext]_vars
        => (RecoveryInv /\ Deadlined /\ Restored)'
  BY RecoveryNextInv, NextDeadlined, NextRestored
<1>3. QED
  BY <1>1, <1>2, PTL DEF RecoverySpec

\* Two Stores made from the same records, that are the same under a key none of
\* whose deadlines has come, agree on it: each has its deadline from the same
\* record, to the second.
LEMMA TracksAgree ==
  ASSUME NEW st1, NEW st2, NEW l, NEW n \in Nat, NEW k, NEW w,
         WellFormed(st1), WellFormed(st2), Tracks(st1, l, n), Tracks(st2, l, n),
         Safe(l, n, k, w), SameAt(st1, st2, k), \A i \in 1 .. n : l[i] \in LogRecord
  PROVE  Agree(st1, st2, k)
<1> SUFFICES ASSUME k \in DOMAIN st1.expirations
             PROVE  /\ st1.expirations[k] < st2.expirations[k] + TicksPerSecond + 3 * MaxGap
                    /\ st2.expirations[k] < st1.expirations[k] + TicksPerSecond + 3 * MaxGap
  BY DEF SameAt, Agree
<1>1. k \in DOMAIN st2.expirations
  BY DEF SameAt
<1>2. st1.expirations[k] \in Int /\ st2.expirations[k] \in Int
  BY <1>1, WellFormedFacts DEF Deadlines
<1>3. PICK i \in 1 .. n : /\ Latest(l, n, i, k)
                          /\ FitsTheClock(l[i]) => Near(st1.expirations[k], Deadline(l[i]))
  BY DEF Tracks
<1>4. PICK j \in 1 .. n : /\ Latest(l, n, j, k)
                          /\ FitsTheClock(l[j]) => Near(st2.expirations[k], Deadline(l[j]))
  BY <1>1 DEF Tracks
<1>5. i = j
  <2>1. ~(i < j) /\ ~(j < i)
    BY <1>3, <1>4 DEF Latest
  <2>2. QED
    BY <2>1
<1>6. Since(l, n, i, k) /\ l[i].verb = "EXPIRE"
  BY <1>3 DEF Latest, Since
<1>7. Near(st1.expirations[k], Deadline(l[i])) /\ Near(st2.expirations[k], Deadline(l[i]))
  BY <1>3, <1>4, <1>5, <1>6 DEF Safe
<1>8. Deadline(l[i]) \in Int
  BY <1>6, DeadlineInt
<1>9. QED
  BY <1>2, <1>7, <1>8, KeyspaceAssumption, ClockAssumption DEF Near

\* What a restart promises: a key of any type, none of whose deadlines since it
\* was last SET or deleted has come by the end of the replay, is what it was when
\* the process went down, and has a deadline if it had one, the same to the
\* second.  That the keys around it expired, in the log or while the records were
\* being read, and that each record is replayed at another time than the one it
\* was made at, makes no difference to it.
THEOREM RestartsRestoreKeys == RecoverySpec => RestartRestores
<1>1. ASSUME RecoveryInv, Deadlined, Restored, FinishReplay, log = made, NEW k \in Key,
             \A i \in Expiries(k) : now + 2 * MaxGap < Deadline(log[i]) /\ FitsTheClock(log[i])
      PROVE  Agree(before, store', k)
  <2> DEFINE n == Len(log)
  <2>1. /\ phase = "replaying" /\ pos = n /\ store' = loaded
        /\ log \in Seq(LogRecord) /\ WellFormed(loaded) /\ WellFormed(before)
        /\ Tracks(loaded, log, n) /\ Tracks(before, log, n) /\ Rebuilt
    BY <1>1 DEF FinishReplay, Deadlined, Restored, RecoveryInv, File, Memory
  <2>2. n \in Nat /\ DOMAIN log = 1 .. n /\ \A i \in 1 .. n : log[i] \in LogRecord
    BY <2>1
  <2>3. PICK S, C : /\ Replayed(S, C, log, n) /\ S[n] = loaded /\ C[n] <= now
                    /\ Restores(before, log, n, C[0])
    BY <1>1, <2>1 DEF Rebuilt
  <2> HIDE DEF n
  <2>4. C[n] \in Int /\ C[0] \in Int /\ now \in Int
    BY <1>1, <2>2, <2>3, KeyspaceAssumption DEF Replayed, RecoveryInv, Inv
  <2>5. Safe(log, n, k, C[n])
    <3>1. ASSUME NEW i \in 1 .. n, Since(log, n, i, k)
          PROVE  i \in Expiries(k) /\ log[i].verb = "EXPIRE"
      <4>1. i \in RecordsOf(k, {"EXPIRE"}) /\ log[i].verb = "EXPIRE"
        BY <2>2, <3>1 DEF Since, RecordsOf
      <4>2. ASSUME NEW j \in RecordsOf(k, {"SET", "DEL"})
            PROVE  j < i
        <5>1. j \in 1 .. n /\ log[j].key = k /\ log[j].verb \in {"SET", "DEL"}
          BY <2>2 DEF RecordsOf
        <5>2. j # i /\ j \notin i + 1 .. n
          BY <3>1, <4>1, <5>1 DEF Since
        <5>3. QED
          BY <2>2, <5>1, <5>2
      <4>3. QED
        BY <4>1, <4>2 DEF Expiries
    <3>2. ASSUME NEW i \in 1 .. n, Since(log, n, i, k)
          PROVE  C[n] + 2 * MaxGap < Deadline(log[i]) /\ FitsTheClock(log[i])
      <4>1. now + 2 * MaxGap < Deadline(log[i]) /\ FitsTheClock(log[i])
        BY <1>1, <3>1, <3>2
      <4>2. Deadline(log[i]) \in Int /\ MaxGap \in Nat
        BY <2>2, <3>1, <3>2, DeadlineInt, KeyspaceAssumption
      <4>3. QED
        BY <2>3, <2>4, <4>1, <4>2
    <3>3. QED
      BY <3>2 DEF Safe
  <2>6. SameAt(before, loaded, k)
    BY <2>3, <2>4, <2>5 DEF Restores
  <2>7. QED
    BY <2>1, <2>2, <2>5, <2>6, TracksAgree
<1>2. ASSUME RecoveryInv, Deadlined, Restored, [RecoveryNext]_vars
      PROVE  [FinishReplay /\ log = made =>
                \A k \in Key :
                  (\A i \in Expiries(k) :
                     now + 2 * MaxGap < Deadline(log[i]) /\ FitsTheClock(log[i]))
                    => Agree(before, store', k)]_vars
  BY <1>1, <1>2
<1>3. QED
  BY <1>2, RestoredInvariance, PTL DEF RecoverySpec, RestartRestores
=============================================================================
