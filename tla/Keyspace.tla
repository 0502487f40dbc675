------------------------------ MODULE Keyspace ------------------------------
(***************************************************************************)
(* The typed keyspace of one running server: the Store, the clock it is    *)
(* read against, and one action per command.  The event loop is a single   *)
(* thread, so a command is one step; what a step can still straddle are    *)
(* the clock readings of one command, two in TTL and three in EXPIRE:      *)
(* their gap parameters are the ticks between one reading and the next.    *)
(***************************************************************************)
EXTENDS Commands

CONSTANTS Seconds,   \* the arguments clients give to EXPIRE
          Indices,   \* the arguments clients give to LRANGE
          MaxTime,   \* bound: the clock is observed up to here
          MaxGap,    \* bound: ticks that can pass between two readings of one command
          MaxLen     \* bound: a list is pushed to only while shorter than this

ASSUME KeyspaceAssumption == /\ Seconds \subseteq Int
                             /\ Indices \subseteq Int
                             /\ MaxTime \in Nat /\ MaxTime <= MaxClock
                             /\ MaxGap \in Nat
                             /\ MaxLen \in Nat

VARIABLES store,    \* the Store of run_server
          now,      \* Clock::now()
          request,  \* the last request executed: <<verb, key, arguments...>>
          reply,    \* the RespValue it returned
          records   \* what the last step appended to the log

keyspaceVars == <<store, now, request, reply, records>>

Init == /\ store = EmptyStore
        /\ now = 0
        /\ request = << >>
        /\ reply = OK
        /\ records = << >>

-----------------------------------------------------------------------------
Apply(req, result) == /\ store'   = result.store
                      /\ request' = req
                      /\ reply'   = result.reply
                      /\ records' = result.records

\* A command that reads the clock at one instant, and one whose last
\* reading is gap ticks after its first.
Run(req, result) == Apply(req, result) /\ UNCHANGED now
RunFor(gap, req, result) == /\ now + gap <= MaxTime
                            /\ now' = now + gap
                            /\ Apply(req, result)

Tick == /\ now < MaxTime
        /\ now' = now + 1
        /\ records' = << >>
        /\ UNCHANGED <<store, request, reply>>

Room(k) == k \in DOMAIN store.values /\ store.values[k].type = "list"
              => Len(store.values[k].val) < MaxLen

\* Does an EXPIRE get as far as log_expire, which reads the clock once more?
LogsDeadline(result) == \E r \in Range(result.records) : r.verb = "EXPIRE"

Ping                   == Run(<<"PING">>, PING(store))
Reject(why)            == Run(<<"?">>, REJECT(store, why))
Del(k)                 == Run(<<"DEL", k>>, DEL(store, k, now))
Expire(k, secs, gap1, gap2) ==
  LET result == EXPIRE(store, k, secs, now, now + gap1, now + gap1 + gap2)
  IN  /\ RunFor(gap1 + gap2, <<"EXPIRE", k, secs>>, result)
      /\ gap2 > 0 => LogsDeadline(result)
Ttl(k, gap)            == RunFor(gap, <<"TTL", k>>, TTL(store, k, now, now + gap))
Set(k, e)              == Run(<<"SET", k, e>>, SET(store, k, e))
Get(k)                 == Run(<<"GET", k>>, GET(store, k, now))
Push(verb, k, e)       == Room(k) /\ Run(<<verb, k, e>>, PUSH(verb, store, k, e, now))
Pop(verb, k)           == Run(<<verb, k>>, POP(verb, store, k, now))
Llen(k)                == Run(<<"LLEN", k>>, LLEN(store, k, now))
Lrange(k, start, stop) == Run(<<"LRANGE", k, start, stop>>,
                              LRANGE(store, k, start, stop, now))
Hset(k, field, e)      == Run(<<"HSET", k, field, e>>, HSET(store, k, field, e, now))
Hget(k, field)         == Run(<<"HGET", k, field>>, HGET(store, k, field, now))
Hdel(k, field)         == Run(<<"HDEL", k, field>>, HDEL(store, k, field, now))
Hexists(k, field)      == Run(<<"HEXISTS", k, field>>, HEXISTS(store, k, field, now))
Hlen(k)                == Run(<<"HLEN", k>>, HLEN(store, k, now))
Sadd(k, e)             == Run(<<"SADD", k, e>>, SADD(store, k, e, now))
Srem(k, e)             == Run(<<"SREM", k, e>>, SREM(store, k, e, now))
Sismember(k, e)        == Run(<<"SISMEMBER", k, e>>, SISMEMBER(store, k, e, now))
Scard(k)               == Run(<<"SCARD", k>>, SCARD(store, k, now))
Smembers(k)            == Run(<<"SMEMBERS", k>>, SMEMBERS(store, k, now))

\* The commands of persistence.cpp's record shapes, which can change a key.
Write ==
  \E k \in Key :
    \/ Del(k)
    \/ \E secs \in Seconds, gap1, gap2 \in 0 .. MaxGap : Expire(k, secs, gap1, gap2)
    \/ \E verb \in {"LPOP", "RPOP"} : Pop(verb, k)
    \/ \E e \in Elem :
         \/ Set(k, e)
         \/ \E verb \in {"LPUSH", "RPUSH"} : Push(verb, k, e)
         \/ \E field \in Elem : Hset(k, field, e)
         \/ Hdel(k, e)
         \/ Sadd(k, e)
         \/ Srem(k, e)

\* The commands that change nothing but what lazy expiration sweeps away.
Read ==
  \/ Ping
  \/ \E why \in {BadRequest, NotAnInteger} : Reject(why)
  \/ \E k \in Key :
       \/ \E gap \in 0 .. MaxGap : Ttl(k, gap)
       \/ Get(k)
       \/ Llen(k)
       \/ \E start, stop \in Indices : Lrange(k, start, stop)
       \/ Hlen(k)
       \/ Scard(k)
       \/ Smembers(k)
       \/ \E e \in Elem : Hget(k, e) \/ Hexists(k, e) \/ Sismember(k, e)

Next == Tick \/ Write \/ Read

Spec == Init /\ [][Next]_keyspaceVars

-----------------------------------------------------------------------------
(* Properties *)

\* The Store is two well-typed maps, the clock a tick count, and a command
\* appends at most one record.
TypeOK == /\ IsStore(store)
          /\ now \in 0 .. MaxTime
          /\ Len(records) <= 1

\* A deadline never outlives its key.  Store keeps the two maps apart, and
\* every removal (remove_key, drop_if_empty, lazy expiration, EXPIRE 0) must
\* erase from both, or the key's next life would expire on the old deadline.
NoOrphanDeadline == DOMAIN store.expirations \subseteq DOMAIN store.values

\* No list, hash or set is ever left empty: the last pop or removal frees the
\* name, and a write_typed that creates a collection always fills it.
NoEmptyCollection == \A k \in DOMAIN store.values : ~IsEmptyCollection(store.values[k])

\* A stored deadline is one the clock can hold: EXPIRE's overflow guard uses
\* a clock reading older than the one the key is swept at.
DeadlineRepresentable ==
  \A k \in DOMAIN store.expirations : store.expirations[k] <= MaxClock

\* What clients can still see of a Store at time t.
Alive(st, t)   == {k \in DOMAIN st.values : ~Due(st, k, t)}
Visible(st, t) == [values      |-> Restrict(st.values, Alive(st, t)),
                   expirations |-> Restrict(st.expirations,
                                            DOMAIN st.expirations \cap Alive(st, t))]

\* A step that appends nothing to the log changes nothing a client can see,
\* beyond what the passing of time takes away: otherwise a restart would
\* forget it.
ChangesAreLogged ==
  [][records' = << >> => Visible(store', now') = Visible(store, now')]_keyspaceVars

\* Conversely, only SET, HSET and EXPIRE may log a step that changed nothing
\* (they overwrite without comparing); a duplicate SADD, or a DEL, HDEL, SREM
\* or pop that removed nothing, is not recorded.
NoOpsAreNotLogged ==
  [][\A r \in Range(records') :
        \/ r.verb \in {"SET", "HSET", "EXPIRE"}
        \/ Visible(store', now') # Visible(store, now')]_keyspaceVars

\* Two Stores hold the same under k, but for what rounding deadlines to whole
\* seconds, and reading two clocks one after the other, may do to a deadline.
Agree(st1, st2, k) ==
  /\ k \in DOMAIN st1.values <=> k \in DOMAIN st2.values
  /\ k \in DOMAIN st1.values => st1.values[k] = st2.values[k]
  /\ k \in DOMAIN st1.expirations <=> k \in DOMAIN st2.expirations
  /\ k \in DOMAIN st1.expirations =>
       /\ st1.expirations[k] < st2.expirations[k] + TicksPerSecond + 3 * MaxGap
       /\ st2.expirations[k] < st1.expirations[k] + TicksPerSecond + 3 * MaxGap

\* A deadline so near the end of the clock that EXPIRE, which accepted it at
\* its first reading, refuses it at a later one: a replay of its record does
\* nothing, and the key lives on without it.
PastTheClock(r, t) == r.verb = "EXPIRE" /\ r.args[1] - UnixSeconds(t) > MaxSeconds(t)

\* The key's old deadline came after expire_if_due had let the key pass, but
\* before log_expire read the clock: the Store keeps the key with its new
\* deadline, and a replay, which finds the key due, drops it.
Overtaken(r, st, t) == r.verb = "EXPIRE" /\ Due(st, r.key, t)

\* The record a command appends, replayed on the Store the command ran on,
\* leads to the Store the command left: what log_command and log_expire are
\* given is enough to repeat the step, but for the key of an EXPIRE past the
\* clock, or of one overtaken by the deadline it replaced.
RecordsReproduceSteps ==
  [][\A r \in Range(records'), k \in Key :
        \/ k = r.key /\ (PastTheClock(r, now') \/ Overtaken(r, store, now'))
        \/ Agree(Replay(r, store, now', now', now'), store', k)
    ]_keyspaceVars

\* The eager store that lazy expiration must be indistinguishable from.
Eager == INSTANCE EagerStore
           WITH db  <- Visible(store, now).values,
                ttl <- Visible(store, now).expirations

\* Every reply is the one a store would give that dropped each key at the
\* very tick of its deadline and held no empty collections: lazy expiration
\* (expire_if_due at the head of each command) is never observable.
ImplementsEager == Eager!Spec
=============================================================================
