--------------------------- MODULE KeyspaceProofs ---------------------------
(***************************************************************************)
(* Proofs about Keyspace, for every set of keys and elements and every     *)
(* resolution of the clocks.                                               *)
(***************************************************************************)
EXTENDS Keyspace, TLAPS

\* The four facts about a Store that hold between any two commands: it is two
\* well-typed maps, with no deadline but a key's, none beyond the clock, and
\* no collection empty.  The middle of a command breaks the last one, between
\* write_typed and the push and between the pop and drop_if_empty.
NoOrphan(st) == DOMAIN st.expirations \subseteq DOMAIN st.values
OnClock(st)  == \A k \in DOMAIN st.expirations : st.expirations[k] <= MaxClock
NoEmpty(st)  == \A k \in DOMAIN st.values : ~IsEmptyCollection(st.values[k])
NoEmptyBut(st, key) ==
  \A k \in DOMAIN st.values : k # key => ~IsEmptyCollection(st.values[k])

WellFormed(st)            == IsStore(st) /\ NoOrphan(st) /\ OnClock(st) /\ NoEmpty(st)
NearlyWellFormed(st, key) == IsStore(st) /\ NoOrphan(st) /\ OnClock(st) /\ NoEmptyBut(st, key)

-----------------------------------------------------------------------------
(* Partial functions: what Put, Restrict and Drop type as and contain. *)

LEMMA PutType ==
  ASSUME NEW S, NEW T, NEW f, NEW k \in S, NEW v \in T, IsPartialFn(f, S, T)
  PROVE  IsPartialFn(Put(f, k, v), S, T)
BY DEF IsPartialFn, Put

LEMMA PutDomain ==
  ASSUME NEW f, NEW k, NEW v
  PROVE  DOMAIN Put(f, k, v) = DOMAIN f \cup {k}
BY DEF Put

LEMMA PutValue ==
  ASSUME NEW f, NEW k, NEW v, NEW x \in DOMAIN f \cup {k}
  PROVE  Put(f, k, v)[x] = IF x = k THEN v ELSE f[x]
BY DEF Put

LEMMA DropType ==
  ASSUME NEW S, NEW T, NEW f, NEW k, IsPartialFn(f, S, T)
  PROVE  IsPartialFn(Drop(f, k), S, T)
BY DEF IsPartialFn, Drop, Restrict

LEMMA DropDomain ==
  ASSUME NEW f, NEW k
  PROVE  DOMAIN Drop(f, k) = DOMAIN f \ {k}
BY DEF Drop, Restrict

LEMMA DropValue ==
  ASSUME NEW f, NEW k, NEW x \in DOMAIN f \ {k}
  PROVE  Drop(f, k)[x] = f[x]
BY DEF Drop, Restrict

LEMMA EmptyFnType ==
  ASSUME NEW S, NEW T
  PROVE  IsPartialFn(EmptyFn, S, T)
BY DEF IsPartialFn, EmptyFn

LEMMA EmptyFnDomain == DOMAIN EmptyFn = {}
BY DEF EmptyFn

LEMMA PartialFnMembership ==
  ASSUME NEW S, NEW T, NEW f
  PROVE  f \in PartialFn(S, T) <=> IsPartialFn(f, S, T)
BY DEF PartialFn, IsPartialFn

-----------------------------------------------------------------------------
(* Stores *)

LEMMA EmptyStoreWellFormed == WellFormed(EmptyStore)
<1>1. /\ EmptyStore.values = EmptyFn
      /\ EmptyStore.expirations = EmptyFn
      /\ EmptyStore = [values |-> EmptyStore.values, expirations |-> EmptyStore.expirations]
  BY DEF EmptyStore
<1>2. IsStore(EmptyStore)
  BY <1>1, EmptyFnType DEF IsStore
<1>3. QED
  BY <1>1, <1>2, EmptyFnDomain DEF WellFormed, NoOrphan, OnClock, NoEmpty

\* A Store assembled from two maps is well formed when they are.
LEMMA StoreOf ==
  ASSUME NEW values, NEW expirations,
         IsPartialFn(values, Key, Value), IsPartialFn(expirations, Key, Int)
  PROVE  IsStore([values |-> values, expirations |-> expirations])
BY DEF IsStore

\* remove_key takes the value and the deadline together.
LEMMA RemoveKeyWellFormed ==
  ASSUME NEW st, NEW k, NearlyWellFormed(st, k)
  PROVE  WellFormed(RemoveKey(st, k))
<1> DEFINE new == RemoveKey(st, k)
<1>1. /\ DOMAIN new.values = DOMAIN st.values \ {k}
      /\ DOMAIN new.expirations = DOMAIN st.expirations \ {k}
      /\ \A x \in DOMAIN st.values \ {k} : new.values[x] = st.values[x]
      /\ \A x \in DOMAIN st.expirations \ {k} : new.expirations[x] = st.expirations[x]
  BY DEF RemoveKey, Drop, Restrict
<1>2. IsStore(new)
  <2>1. /\ IsPartialFn(st.values, Key, Value)
        /\ IsPartialFn(st.expirations, Key, Int)
    BY DEF NearlyWellFormed, IsStore
  <2>2. /\ IsPartialFn(Drop(st.values, k), Key, Value)
        /\ IsPartialFn(Drop(st.expirations, k), Key, Int)
    BY <2>1, DropType
  <2>3. QED
    BY <2>2, StoreOf DEF RemoveKey
<1>3. NoOrphan(new) /\ OnClock(new)
  BY <1>1 DEF NearlyWellFormed, NoOrphan, OnClock
<1>4. NoEmpty(new)
  BY <1>1 DEF NearlyWellFormed, NoEmpty, NoEmptyBut
<1>5. QED
  BY <1>2, <1>3, <1>4 DEF WellFormed

\* expire_if_due leaves a well-formed Store, and one without k when k was due.
LEMMA ExpireIfDueWellFormed ==
  ASSUME NEW st, NEW k, NEW t, WellFormed(st)
  PROVE  WellFormed(ExpireIfDue(st, k, t))
<1>1. NearlyWellFormed(st, k)
  BY DEF WellFormed, NearlyWellFormed, NoEmpty, NoEmptyBut
<1>2. QED
  BY <1>1, RemoveKeyWellFormed DEF ExpireIfDue

\* Storing a value under k: any value will do while k is being written, and a
\* value that is no empty collection closes the gap.
LEMMA AssignWellFormed ==
  ASSUME NEW st, NEW k \in Key, NEW v \in Value, NearlyWellFormed(st, k)
  PROVE  /\ NearlyWellFormed(Assign(st, k, v), k)
         /\ ~IsEmptyCollection(v) => WellFormed(Assign(st, k, v))
         /\ k \in DOMAIN Assign(st, k, v).values
         /\ Assign(st, k, v).values[k] = v
<1> DEFINE new == Assign(st, k, v)
<1>1. /\ st = [values |-> st.values, expirations |-> st.expirations]
      /\ IsPartialFn(st.values, Key, Value)
      /\ IsPartialFn(st.expirations, Key, Int)
  BY DEF NearlyWellFormed, IsStore
<1>2. new = [values |-> Put(st.values, k, v), expirations |-> st.expirations]
  BY <1>1 DEF Assign
<1>3. /\ DOMAIN new.values = DOMAIN st.values \cup {k}
      /\ new.expirations = st.expirations
      /\ new.values[k] = v
      /\ \A x \in DOMAIN st.values : x # k => new.values[x] = st.values[x]
  BY <1>2 DEF Put
<1>4. IsStore(new)
  <2>1. IsPartialFn(Put(st.values, k, v), Key, Value)
    BY <1>1, PutType
  <2>2. QED
    BY <1>1, <1>2, <2>1, StoreOf
<1> HIDE DEF new
<1>5. NoOrphan(new) /\ OnClock(new)
  BY <1>3 DEF NearlyWellFormed, NoOrphan, OnClock
<1>6. NoEmptyBut(new, k)
  BY <1>3 DEF NearlyWellFormed, NoEmptyBut
<1>7. ~IsEmptyCollection(v) => NoEmpty(new)
  BY <1>3, <1>6 DEF NoEmptyBut, NoEmpty
<1>8. k \in DOMAIN new.values /\ new.values[k] = v
  BY <1>3
<1>9. QED
  BY <1>4, <1>5, <1>6, <1>7, <1>8 DEF NearlyWellFormed, WellFormed, new

\* drop_if_empty closes the gap too.
LEMMA DropIfEmptyWellFormed ==
  ASSUME NEW st, NEW k, NearlyWellFormed(st, k)
  PROVE  WellFormed(DropIfEmpty(st, k))
<1>1. CASE k \in DOMAIN st.values /\ IsEmptyCollection(st.values[k])
  BY <1>1, RemoveKeyWellFormed DEF DropIfEmpty
<1>2. CASE ~(k \in DOMAIN st.values /\ IsEmptyCollection(st.values[k]))
  <2>1. NoEmpty(st)
    BY <1>2 DEF NearlyWellFormed, NoEmpty, NoEmptyBut
  <2>2. QED
    BY <1>2, <2>1 DEF NearlyWellFormed, WellFormed, DropIfEmpty
<1>3. QED
  BY <1>1, <1>2

-----------------------------------------------------------------------------
(* Values *)

LEMMA StringIsValue ==
  ASSUME NEW e \in Elem
  PROVE  Typed("string", e) \in Value /\ ~IsEmptyCollection(Typed("string", e))
BY DEF Typed, Value, StringValue, IsEmptyCollection

LEMMA ListIsValue ==
  ASSUME NEW s \in Seq(Elem)
  PROVE  /\ Typed("list", s) \in Value
         /\ s # << >> => ~IsEmptyCollection(Typed("list", s))
BY DEF Typed, Value, ListValue, IsEmptyCollection

LEMMA HashIsValue ==
  ASSUME NEW h, IsPartialFn(h, Elem, Elem)
  PROVE  /\ Typed("hash", h) \in Value
         /\ DOMAIN h # {} => ~IsEmptyCollection(Typed("hash", h))
BY PartialFnMembership DEF Typed, Value, HashValue, IsEmptyCollection

LEMMA SetIsValue ==
  ASSUME NEW s \in SUBSET Elem
  PROVE  /\ Typed("set", s) \in Value
         /\ s # {} => ~IsEmptyCollection(Typed("set", s))
BY DEF Typed, Value, SetValue, IsEmptyCollection

LEMMA ValueTypes ==
  ASSUME NEW v \in Value
  PROVE  /\ v.type = "list" => v.val \in Seq(Elem)
         /\ v.type = "hash" => IsPartialFn(v.val, Elem, Elem)
         /\ v.type = "set" => v.val \in SUBSET Elem
BY PartialFnMembership DEF Value, StringValue, ListValue, HashValue, SetValue

-----------------------------------------------------------------------------
(* Results.  A sound one leaves a well-formed Store and logs a record at most. *)

Sound(result) == WellFormed(result.store) /\ Len(result.records) <= 1

LEMMA ResultSound ==
  ASSUME NEW st, NEW rep, NEW r, WellFormed(st)
  PROVE  Sound(Result(st, rep, << >>)) /\ Sound(Result(st, rep, <<r>>))
BY DEF Sound, Result

\* What follows a read_typed of a key is sound if both its answers are.
LEMMA ReadingSound ==
  ASSUME NEW st, NEW k, NEW ty, NEW ifMissing, NEW ifFound,
         WellFormed(st), Sound(ifMissing),
         k \in DOMAIN st.values /\ st.values[k].type = ty => Sound(ifFound)
  PROVE  Sound(Reading(st, k, ty, ifMissing, ifFound))
<1>1. Sound(Result(st, WrongType, << >>))
  BY ResultSound
<1>2. CASE k \notin DOMAIN st.values
  BY <1>2 DEF Reading
<1>3. CASE k \in DOMAIN st.values /\ st.values[k].type = ty
  BY <1>3 DEF Reading
<1>4. CASE k \in DOMAIN st.values /\ st.values[k].type # ty
  BY <1>1, <1>4 DEF Reading
<1>5. QED
  BY <1>2, <1>3, <1>4

LEMMA StoredValue ==
  ASSUME NEW st, NEW k, IsStore(st), k \in DOMAIN st.values
  PROVE  k \in Key /\ st.values[k] \in Value
BY DEF IsStore, IsPartialFn

\* A well-formed Store with nothing to say about k in particular.
LEMMA WellFormedNearly ==
  ASSUME NEW st, NEW k, WellFormed(st)
  PROVE  NearlyWellFormed(st, k)
BY DEF WellFormed, NearlyWellFormed, NoEmpty, NoEmptyBut

LEMMA FreshIsValue ==
  ASSUME NEW ty \in {"list", "hash", "set"}
  PROVE  Typed(ty, Fresh(ty)) \in Value
<1>1. << >> \in Seq(Elem)
  OBVIOUS
<1>2. Fresh("list") = << >> /\ Fresh("hash") = EmptyFn /\ Fresh("set") = {}
  BY DEF Fresh
<1>3. QED
  BY <1>1, <1>2, EmptyFnType, ListIsValue, HashIsValue, SetIsValue

\* write_typed gives the command a value of some type under k; if that is not
\* the type it asked for, the Store is as it was.
LEMMA MaterialiseWellFormed ==
  ASSUME NEW st, NEW k \in Key, NEW ty \in {"list", "hash", "set"}, WellFormed(st)
  PROVE  /\ NearlyWellFormed(Materialise(st, k, ty), k)
         /\ k \in DOMAIN Materialise(st, k, ty).values
         /\ Materialise(st, k, ty).values[k] \in Value
         /\ Materialise(st, k, ty).values[k].type # ty => WellFormed(Materialise(st, k, ty))
<1>1. CASE k \in DOMAIN st.values
  BY <1>1, WellFormedNearly, StoredValue DEF Materialise, WellFormed
<1>2. CASE k \notin DOMAIN st.values
  <2> DEFINE v == Typed(ty, Fresh(ty))
  <2>1. Materialise(st, k, ty) = Assign(st, k, v)
    BY <1>2 DEF Materialise
  <2>2. v \in Value
    BY FreshIsValue
  <2>3. v.type = ty
    BY DEF Typed
  <2> HIDE DEF v
  <2>4. /\ NearlyWellFormed(Assign(st, k, v), k)
        /\ k \in DOMAIN Assign(st, k, v).values
        /\ Assign(st, k, v).values[k] = v
    BY <2>2, WellFormedNearly, AssignWellFormed
  <2>5. QED
    BY <2>1, <2>2, <2>3, <2>4
<1>3. QED
  BY <1>1, <1>2

LEMMA WritingSound ==
  ASSUME NEW st, NEW k, NEW ty, NEW ifFound,
         st.values[k].type # ty => WellFormed(st),
         st.values[k].type = ty => Sound(ifFound)
  PROVE  Sound(Writing(st, k, ty, ifFound))
BY ResultSound DEF Writing

-----------------------------------------------------------------------------
(* Commands *)

LEMMA DELSound ==
  ASSUME NEW st, NEW k, NEW t, WellFormed(st)
  PROVE  Sound(DEL(st, k, t))
<1> DEFINE swept == ExpireIfDue(st, k, t)
<1>1. WellFormed(RemoveKey(swept, k))
  BY ExpireIfDueWellFormed, WellFormedNearly, RemoveKeyWellFormed
<1>2. QED
  BY <1>1, ResultSound DEF DEL

\* max_seconds is what fits between a reading of the clock and its maximum.
LEMMA MaxSecondsBound ==
  ASSUME NEW t \in Nat, NEW seconds \in Int, seconds <= MaxSeconds(t)
  PROVE  t + seconds * TicksPerSecond <= MaxClock
<1> DEFINE left == MaxClock - t
           most == left \div TicksPerSecond
<1>1. TicksPerSecond \in Nat \ {0} /\ left \in Int
  BY ClockAssumption
<1> HIDE DEF left
<1>2. most * TicksPerSecond <= left /\ most \in Int
  BY <1>1
<1>3. seconds <= most
  BY DEF MaxSeconds, left
<1> HIDE DEF most
<1>4. seconds * TicksPerSecond <= most * TicksPerSecond
  BY <1>1, <1>2, <1>3
<1>5. seconds * TicksPerSecond <= left
  BY <1>1, <1>2, <1>4
<1>6. QED
  BY <1>1, <1>5, ClockAssumption DEF left

\* The deadline goes to a key that is there, and max_seconds keeps it on the clock.
LEMMA EXPIRESound ==
  ASSUME NEW st, NEW k, NEW seconds \in Int, NEW t \in Nat, NEW u, NEW w, WellFormed(st)
  PROVE  Sound(EXPIRE(st, k, seconds, t, u, w))
<1> DEFINE swept == ExpireIfDue(st, k, u)
           d     == t + seconds * TicksPerSecond
           new   == [swept EXCEPT !.expirations = Put(swept.expirations, k, d)]
<1>1. WellFormed(swept)
  BY ExpireIfDueWellFormed
<1>2. WellFormed(RemoveKey(swept, k))
  BY <1>1, WellFormedNearly, RemoveKeyWellFormed
<1>3. d \in Int
  BY ClockAssumption
<1> HIDE DEF d, swept
<1>4. ASSUME k \in DOMAIN swept.values, seconds <= MaxSeconds(t)
      PROVE  WellFormed(new)
  <2>1. /\ swept = [values |-> swept.values, expirations |-> swept.expirations]
        /\ IsPartialFn(swept.values, Key, Value)
        /\ IsPartialFn(swept.expirations, Key, Int)
        /\ k \in Key
    BY <1>1, <1>4, StoredValue DEF WellFormed, IsStore
  <2>2. new = [values |-> swept.values, expirations |-> Put(swept.expirations, k, d)]
    BY <2>1
  <2>3. IsPartialFn(Put(swept.expirations, k, d), Key, Int)
    BY <1>3, <2>1, PutType
  <2>4. IsStore(new)
    BY <2>1, <2>2, <2>3, StoreOf
  <2>5. NoOrphan(new)
    BY <1>1, <1>4, <2>2 DEF WellFormed, NoOrphan, Put
  <2>6. NoEmpty(new)
    BY <1>1, <2>2 DEF WellFormed, NoEmpty
  <2>7. d <= MaxClock
    BY <1>4, MaxSecondsBound DEF d
  <2>8. OnClock(new)
    BY <1>1, <2>2, <2>7 DEF WellFormed, OnClock, Put
  <2>9. QED
    BY <2>4, <2>5, <2>6, <2>8 DEF WellFormed
<1> HIDE DEF new
<1>5. MaxSeconds(t) \in Int
  BY ClockAssumption DEF MaxSeconds
<1>6. CASE seconds > MaxSeconds(t)
  BY <1>5, <1>6, ResultSound DEF EXPIRE
<1>7. CASE seconds <= MaxSeconds(t) /\ k \notin DOMAIN swept.values
  BY <1>1, <1>7, ResultSound DEF EXPIRE, swept
<1>8. CASE seconds <= MaxSeconds(t) /\ k \in DOMAIN swept.values /\ seconds <= 0
  BY <1>2, <1>8, ResultSound DEF EXPIRE, swept
<1>9. CASE seconds <= MaxSeconds(t) /\ k \in DOMAIN swept.values /\ seconds > 0
  BY <1>4, <1>9, ResultSound DEF EXPIRE, new, d, swept
<1>10. QED
  BY <1>5, <1>6, <1>7, <1>8, <1>9

LEMMA TTLSound ==
  ASSUME NEW st, NEW k, NEW t, NEW u, WellFormed(st)
  PROVE  Sound(TTL(st, k, t, u))
BY ExpireIfDueWellFormed, ResultSound DEF TTL

\* SET overwrites whatever k held, deadline and all.
LEMMA SETSound ==
  ASSUME NEW st, NEW k \in Key, NEW e \in Elem, WellFormed(st)
  PROVE  Sound(SET(st, k, e))
<1> DEFINE v   == Typed("string", e)
           new == [values      |-> Put(st.values, k, v),
                   expirations |-> Drop(st.expirations, k)]
<1>1. v \in Value /\ ~IsEmptyCollection(v)
  BY StringIsValue
<1> HIDE DEF v
<1>2. IsStore(new)
  <2>1. IsPartialFn(st.values, Key, Value) /\ IsPartialFn(st.expirations, Key, Int)
    BY DEF WellFormed, IsStore
  <2>2. /\ IsPartialFn(Put(st.values, k, v), Key, Value)
        /\ IsPartialFn(Drop(st.expirations, k), Key, Int)
    BY <1>1, <2>1, PutType, DropType
  <2>3. QED
    BY <2>2, StoreOf
<1>3. NoOrphan(new)
  BY DEF WellFormed, NoOrphan, Put, Drop, Restrict
<1>4. NoEmpty(new) /\ OnClock(new)
  BY <1>1 DEF WellFormed, NoEmpty, OnClock, Put, Drop, Restrict
<1>5. QED
  BY <1>2, <1>3, <1>4, ResultSound DEF SET, WellFormed, v

LEMMA GETSound ==
  ASSUME NEW st, NEW k, NEW t, WellFormed(st)
  PROVE  Sound(GET(st, k, t))
BY ExpireIfDueWellFormed, ResultSound, ReadingSound DEF GET

\* A push leaves at least what it pushed.
LEMMA PUSHSound ==
  ASSUME NEW verb, NEW st, NEW k \in Key, NEW e \in Elem, NEW t, WellFormed(st)
  PROVE  Sound(PUSH(verb, st, k, e, t))
<1> DEFINE made == Materialise(ExpireIfDue(st, k, t), k, "list")
           list == made.values[k].val
           new  == IF verb = "LPUSH" THEN <<e>> \o list ELSE Append(list, e)
<1>1. /\ NearlyWellFormed(made, k)
      /\ made.values[k] \in Value
      /\ made.values[k].type # "list" => WellFormed(made)
  BY ExpireIfDueWellFormed, MaterialiseWellFormed
<1> HIDE DEF made
<1>2. ASSUME made.values[k].type = "list"
      PROVE  WellFormed(Assign(made, k, Typed("list", new)))
  <2>1. list \in Seq(Elem)
    BY <1>1, <1>2, ValueTypes
  <2> HIDE DEF list
  <2>2. /\ <<e>> \o list \in Seq(Elem) /\ Len(<<e>> \o list) = 1 + Len(list)
        /\ Append(list, e) \in Seq(Elem) /\ Len(Append(list, e)) = 1 + Len(list)
        /\ Len(list) \in Nat
    BY <2>1
  <2>3. new \in Seq(Elem) /\ Len(new) # 0
    BY <2>2
  <2> HIDE DEF new
  <2>4. new # << >>
    BY <2>3
  <2>5. QED
    BY <1>1, <2>3, <2>4, ListIsValue, AssignWellFormed
<1>3. QED
  BY <1>1, <1>2, ResultSound, WritingSound DEF PUSH, made

\* A pop that takes the last element takes the key.
LEMMA POPSound ==
  ASSUME NEW verb, NEW st, NEW k, NEW t, WellFormed(st)
  PROVE  Sound(POP(verb, st, k, t))
<1> DEFINE swept == ExpireIfDue(st, k, t)
           list  == swept.values[k].val
           rest  == IF verb = "LPOP" THEN Tail(list) ELSE SubSeq(list, 1, Len(list) - 1)
<1>1. WellFormed(swept) /\ NearlyWellFormed(swept, k)
  BY ExpireIfDueWellFormed, WellFormedNearly
<1> HIDE DEF swept
<1>2. ASSUME k \in DOMAIN swept.values, swept.values[k].type = "list", list # << >>
      PROVE  WellFormed(DropIfEmpty(Assign(swept, k, Typed("list", rest)), k))
  <2>1. k \in Key /\ list \in Seq(Elem)
    BY <1>1, <1>2, StoredValue, ValueTypes DEF WellFormed
  <2>2. rest \in Seq(Elem)
    BY <1>2, <2>1
  <2>3. QED
    BY <1>1, <2>1, <2>2, ListIsValue, AssignWellFormed, DropIfEmptyWellFormed
<1>3. QED
  BY <1>1, <1>2, ResultSound, ReadingSound DEF POP, swept

LEMMA LLENSound ==
  ASSUME NEW st, NEW k, NEW t, WellFormed(st)
  PROVE  Sound(LLEN(st, k, t))
BY ExpireIfDueWellFormed, ResultSound, ReadingSound DEF LLEN

LEMMA LRANGESound ==
  ASSUME NEW st, NEW k, NEW start, NEW stop, NEW t, WellFormed(st)
  PROVE  Sound(LRANGE(st, k, start, stop, t))
BY ExpireIfDueWellFormed, ResultSound, ReadingSound DEF LRANGE

LEMMA HSETSound ==
  ASSUME NEW st, NEW k \in Key, NEW field \in Elem, NEW e \in Elem, NEW t, WellFormed(st)
  PROVE  Sound(HSET(st, k, field, e, t))
<1> DEFINE made == Materialise(ExpireIfDue(st, k, t), k, "hash")
           hash == made.values[k].val
           new  == Put(hash, field, e)
<1>1. /\ NearlyWellFormed(made, k)
      /\ made.values[k] \in Value
      /\ made.values[k].type # "hash" => WellFormed(made)
  BY ExpireIfDueWellFormed, MaterialiseWellFormed
<1> HIDE DEF made
<1>2. ASSUME made.values[k].type = "hash"
      PROVE  WellFormed(Assign(made, k, Typed("hash", new)))
  <2>1. IsPartialFn(hash, Elem, Elem)
    BY <1>1, <1>2, ValueTypes
  <2>2. IsPartialFn(new, Elem, Elem)
    BY <2>1, PutType
  <2>3. DOMAIN new # {}
    BY DEF Put
  <2> HIDE DEF new
  <2>4. QED
    BY <1>1, <2>2, <2>3, HashIsValue, AssignWellFormed
<1>3. QED
  BY <1>1, <1>2, ResultSound, WritingSound DEF HSET, made

LEMMA HGETSound ==
  ASSUME NEW st, NEW k, NEW field, NEW t, WellFormed(st)
  PROVE  Sound(HGET(st, k, field, t))
BY ExpireIfDueWellFormed, ResultSound, ReadingSound DEF HGET

LEMMA HDELSound ==
  ASSUME NEW st, NEW k, NEW field, NEW t, WellFormed(st)
  PROVE  Sound(HDEL(st, k, field, t))
<1> DEFINE swept == ExpireIfDue(st, k, t)
           hash  == swept.values[k].val
           rest  == Drop(hash, field)
<1>1. WellFormed(swept) /\ NearlyWellFormed(swept, k)
  BY ExpireIfDueWellFormed, WellFormedNearly
<1> HIDE DEF swept
<1>2. ASSUME k \in DOMAIN swept.values, swept.values[k].type = "hash"
      PROVE  WellFormed(DropIfEmpty(Assign(swept, k, Typed("hash", rest)), k))
  <2>1. k \in Key /\ IsPartialFn(hash, Elem, Elem)
    BY <1>1, <1>2, StoredValue, ValueTypes DEF WellFormed
  <2>2. IsPartialFn(rest, Elem, Elem)
    BY <2>1, DropType
  <2>3. QED
    BY <1>1, <2>1, <2>2, HashIsValue, AssignWellFormed, DropIfEmptyWellFormed
<1>3. QED
  BY <1>1, <1>2, ResultSound, ReadingSound DEF HDEL, swept

LEMMA HEXISTSSound ==
  ASSUME NEW st, NEW k, NEW field, NEW t, WellFormed(st)
  PROVE  Sound(HEXISTS(st, k, field, t))
BY ExpireIfDueWellFormed, ResultSound, ReadingSound DEF HEXISTS

LEMMA HLENSound ==
  ASSUME NEW st, NEW k, NEW t, WellFormed(st)
  PROVE  Sound(HLEN(st, k, t))
BY ExpireIfDueWellFormed, ResultSound, ReadingSound DEF HLEN

LEMMA SADDSound ==
  ASSUME NEW st, NEW k \in Key, NEW e \in Elem, NEW t, WellFormed(st)
  PROVE  Sound(SADD(st, k, e, t))
<1> DEFINE made == Materialise(ExpireIfDue(st, k, t), k, "set")
           new  == made.values[k].val \cup {e}
<1>1. /\ NearlyWellFormed(made, k)
      /\ made.values[k] \in Value
      /\ made.values[k].type # "set" => WellFormed(made)
  BY ExpireIfDueWellFormed, MaterialiseWellFormed
<1> HIDE DEF made
<1>2. ASSUME made.values[k].type = "set"
      PROVE  WellFormed(Assign(made, k, Typed("set", new)))
  <2>1. new \in SUBSET Elem
    BY <1>1, <1>2, ValueTypes
  <2>2. new # {}
    OBVIOUS
  <2> HIDE DEF new
  <2>3. QED
    BY <1>1, <2>1, <2>2, SetIsValue, AssignWellFormed
<1>3. QED
  BY <1>1, <1>2, ResultSound, WritingSound DEF SADD, made

LEMMA SREMSound ==
  ASSUME NEW st, NEW k, NEW e, NEW t, WellFormed(st)
  PROVE  Sound(SREM(st, k, e, t))
<1> DEFINE swept == ExpireIfDue(st, k, t)
           rest  == swept.values[k].val \ {e}
<1>1. WellFormed(swept) /\ NearlyWellFormed(swept, k)
  BY ExpireIfDueWellFormed, WellFormedNearly
<1> HIDE DEF swept
<1>2. ASSUME k \in DOMAIN swept.values, swept.values[k].type = "set"
      PROVE  WellFormed(DropIfEmpty(Assign(swept, k, Typed("set", rest)), k))
  <2>1. k \in Key /\ rest \in SUBSET Elem
    BY <1>1, <1>2, StoredValue, ValueTypes DEF WellFormed
  <2> HIDE DEF rest
  <2>2. QED
    BY <1>1, <2>1, SetIsValue, AssignWellFormed, DropIfEmptyWellFormed
<1>3. QED
  BY <1>1, <1>2, ResultSound, ReadingSound DEF SREM, swept

LEMMA SetQueriesSound ==
  ASSUME NEW st, NEW k, NEW e, NEW t, WellFormed(st)
  PROVE  /\ Sound(SISMEMBER(st, k, e, t))
         /\ Sound(SCARD(st, k, t))
         /\ Sound(SMEMBERS(st, k, t))
BY ExpireIfDueWellFormed, ResultSound, ReadingSound DEF SISMEMBER, SCARD, SMEMBERS

LEMMA ConstantSound ==
  ASSUME NEW st, NEW why, WellFormed(st)
  PROVE  Sound(PING(st)) /\ Sound(REJECT(st, why))
BY ResultSound DEF PING, REJECT

-----------------------------------------------------------------------------
(* LRANGE *)

\* Every index LRANGE's loop reaches is one of the list's, whatever indices the
\* client gives: the loop has no check of its own on items[i].
THEOREM RangeInBounds ==
  ASSUME NEW start \in Int, NEW stop \in Int, NEW size \in Nat
  PROVE  RangeStart(start, size) .. RangeStop(stop, size) \subseteq 0 .. size - 1
BY DEF RangeStart, RangeStop, AbsoluteIndex

-----------------------------------------------------------------------------
(* The keyspace *)

Inv == WellFormed(store) /\ now \in 0 .. MaxTime /\ Len(records) <= 1

LEMMA InitInv == Init => Inv
BY EmptyStoreWellFormed, KeyspaceAssumption DEF Init, Inv

\* A command that returns a sound result keeps the invariant.
LEMMA RunInv ==
  ASSUME NEW req, NEW result, Inv, Sound(result), Run(req, result)
  PROVE  Inv'
BY DEF Inv, Sound, Run, Apply

LEMMA RunForInv ==
  ASSUME NEW gap \in Nat, NEW req, NEW result, Inv, Sound(result), RunFor(gap, req, result)
  PROVE  Inv'
BY KeyspaceAssumption DEF Inv, Sound, RunFor, Apply

LEMMA TickInv == Inv /\ Tick => Inv'
BY KeyspaceAssumption DEF Inv, Tick

LEMMA WriteInv == Inv /\ Write => Inv'
<1> SUFFICES ASSUME Inv, NEW k \in Key,
               \/ Del(k)
               \/ \E secs \in Seconds, gap1, gap2 \in 0 .. MaxGap : Expire(k, secs, gap1, gap2)
               \/ \E verb \in {"LPOP", "RPOP"} : Pop(verb, k)
               \/ \E e \in Elem :
                    \/ Set(k, e)
                    \/ \E verb \in {"LPUSH", "RPUSH"} : Push(verb, k, e)
                    \/ \E field \in Elem : Hset(k, field, e)
                    \/ Hdel(k, e)
                    \/ Sadd(k, e)
                    \/ Srem(k, e)
             PROVE  Inv'
  BY DEF Write
<1>1. WellFormed(store) /\ now \in Nat
  BY KeyspaceAssumption DEF Inv
<1>2. CASE Del(k)
  BY <1>1, <1>2, DELSound, RunInv DEF Del
<1>3. ASSUME NEW secs \in Seconds, NEW gap1 \in 0 .. MaxGap, NEW gap2 \in 0 .. MaxGap,
             Expire(k, secs, gap1, gap2)
      PROVE  Inv'
  <2>1. secs \in Int /\ gap1 + gap2 \in Nat
    BY KeyspaceAssumption
  <2>2. Sound(EXPIRE(store, k, secs, now, now + gap1, now + gap1 + gap2))
    BY <1>1, <2>1, EXPIRESound
  <2>3. QED
    BY <1>3, <2>1, <2>2, RunForInv DEF Expire
<1>4. ASSUME NEW verb, Pop(verb, k)
      PROVE  Inv'
  BY <1>1, <1>4, POPSound, RunInv DEF Pop
<1>5. ASSUME NEW e \in Elem, Set(k, e)
      PROVE  Inv'
  BY <1>1, <1>5, SETSound, RunInv DEF Set
<1>6. ASSUME NEW e \in Elem, NEW verb, Push(verb, k, e)
      PROVE  Inv'
  BY <1>1, <1>6, PUSHSound, RunInv DEF Push
<1>7. ASSUME NEW e \in Elem, NEW field \in Elem, Hset(k, field, e)
      PROVE  Inv'
  BY <1>1, <1>7, HSETSound, RunInv DEF Hset
<1>8. ASSUME NEW e \in Elem, Hdel(k, e)
      PROVE  Inv'
  BY <1>1, <1>8, HDELSound, RunInv DEF Hdel
<1>9. ASSUME NEW e \in Elem, Sadd(k, e)
      PROVE  Inv'
  BY <1>1, <1>9, SADDSound, RunInv DEF Sadd
<1>10. ASSUME NEW e \in Elem, Srem(k, e)
       PROVE  Inv'
  BY <1>1, <1>10, SREMSound, RunInv DEF Srem
<1>11. QED
  BY <1>2, <1>3, <1>4, <1>5, <1>6, <1>7, <1>8, <1>9, <1>10

LEMMA ReadInv == Inv /\ Read => Inv'
<1> SUFFICES ASSUME Inv, Read
             PROVE  Inv'
  OBVIOUS
<1>1. WellFormed(store)
  BY DEF Inv
<1>2. ASSUME NEW why, Ping \/ Reject(why)
      PROVE  Inv'
  BY <1>1, <1>2, ConstantSound, RunInv DEF Ping, Reject
<1>3. ASSUME NEW k, NEW gap \in 0 .. MaxGap, Ttl(k, gap)
      PROVE  Inv'
  <2>1. gap \in Nat
    BY KeyspaceAssumption
  <2>2. QED
    BY <1>1, <1>3, <2>1, TTLSound, RunForInv DEF Ttl
<1>4. ASSUME NEW k, Get(k)
      PROVE  Inv'
  BY <1>1, <1>4, GETSound, RunInv DEF Get
<1>5. ASSUME NEW k, Llen(k)
      PROVE  Inv'
  BY <1>1, <1>5, LLENSound, RunInv DEF Llen
<1>6. ASSUME NEW k, NEW start, NEW stop, Lrange(k, start, stop)
      PROVE  Inv'
  BY <1>1, <1>6, LRANGESound, RunInv DEF Lrange
<1>7. ASSUME NEW k, Hlen(k)
      PROVE  Inv'
  BY <1>1, <1>7, HLENSound, RunInv DEF Hlen
<1>8. ASSUME NEW k, Scard(k) \/ Smembers(k)
      PROVE  Inv'
  BY <1>1, <1>8, SetQueriesSound, RunInv DEF Scard, Smembers
<1>9. ASSUME NEW k, NEW e, Hget(k, e) \/ Hexists(k, e)
      PROVE  Inv'
  BY <1>1, <1>9, HGETSound, HEXISTSSound, RunInv DEF Hget, Hexists
<1>10. ASSUME NEW k, NEW e, Sismember(k, e)
       PROVE  Inv'
  BY <1>1, <1>10, SetQueriesSound, RunInv DEF Sismember
<1>11. QED
  BY <1>2, <1>3, <1>4, <1>5, <1>6, <1>7, <1>8, <1>9, <1>10 DEF Read

LEMMA NextInv == Inv /\ [Next]_keyspaceVars => Inv'
<1>1. Inv /\ UNCHANGED keyspaceVars => Inv'
  BY DEF Inv, keyspaceVars
<1>2. QED
  BY <1>1, TickInv, WriteInv, ReadInv DEF Next

\* A query, whatever it finds, appends nothing.
LEMMA ReadAppendsNothing == Read => records' = << >>
<1>1. ASSUME NEW st, NEW k, NEW ty, NEW ifMissing, NEW ifFound,
             ifMissing.records = << >>, ifFound.records = << >>
      PROVE  Reading(st, k, ty, ifMissing, ifFound).records = << >>
  <2>1. Result(st, WrongType, << >>).records = << >>
    BY DEF Result
  <2>2. QED
    BY <1>1, <2>1 DEF Reading
<1>2. ASSUME NEW st, NEW rep
      PROVE  Result(st, rep, << >>).records = << >>
  BY DEF Result
<1>3. ASSUME NEW k, NEW t, NEW u, NEW e, NEW start, NEW stop, NEW why
      PROVE  /\ PING(store).records = << >> /\ REJECT(store, why).records = << >>
             /\ TTL(store, k, t, u).records = << >>
             /\ GET(store, k, t).records = << >>
             /\ LLEN(store, k, t).records = << >>
             /\ LRANGE(store, k, start, stop, t).records = << >>
             /\ HGET(store, k, e, t).records = << >>
             /\ HEXISTS(store, k, e, t).records = << >>
             /\ HLEN(store, k, t).records = << >>
             /\ SISMEMBER(store, k, e, t).records = << >>
             /\ SCARD(store, k, t).records = << >>
             /\ SMEMBERS(store, k, t).records = << >>
  <2>1. /\ PING(store).records = << >> /\ REJECT(store, why).records = << >>
        /\ TTL(store, k, t, u).records = << >>
    BY <1>2 DEF PING, REJECT, TTL
  <2>2. GET(store, k, t).records = << >>
    BY <1>1, <1>2 DEF GET
  <2>3. LLEN(store, k, t).records = << >> /\ LRANGE(store, k, start, stop, t).records = << >>
    BY <1>1, <1>2 DEF LLEN, LRANGE
  <2>4. /\ HGET(store, k, e, t).records = << >> /\ HEXISTS(store, k, e, t).records = << >>
        /\ HLEN(store, k, t).records = << >>
    BY <1>1, <1>2 DEF HGET, HEXISTS, HLEN
  <2>5. /\ SISMEMBER(store, k, e, t).records = << >> /\ SCARD(store, k, t).records = << >>
        /\ SMEMBERS(store, k, t).records = << >>
    BY <1>1, <1>2 DEF SISMEMBER, SCARD, SMEMBERS
  <2>6. QED
    BY <2>1, <2>2, <2>3, <2>4, <2>5
<1>4. ASSUME NEW k, NEW e, NEW start, NEW stop, NEW why, NEW gap,
             \/ Ping \/ Reject(why) \/ Ttl(k, gap) \/ Get(k) \/ Llen(k)
             \/ Lrange(k, start, stop) \/ Hlen(k) \/ Scard(k) \/ Smembers(k)
             \/ Hget(k, e) \/ Hexists(k, e) \/ Sismember(k, e)
      PROVE  records' = << >>
  <2>1. CASE Ping \/ Reject(why) \/ Ttl(k, gap) \/ Get(k) \/ Llen(k)
    BY <1>3, <2>1 DEF Ping, Reject, Ttl, Get, Llen, Run, RunFor, Apply
  <2>2. CASE Lrange(k, start, stop) \/ Hlen(k) \/ Scard(k) \/ Smembers(k)
    BY <1>3, <2>2 DEF Lrange, Hlen, Scard, Smembers, Run, Apply
  <2>3. CASE Hget(k, e) \/ Hexists(k, e) \/ Sismember(k, e)
    BY <1>3, <2>3 DEF Hget, Hexists, Sismember, Run, Apply
  <2>4. QED
    BY <1>4, <2>1, <2>2, <2>3
<1>5. QED
  BY <1>4 DEF Read

\* The Store is well formed between any two commands.
THEOREM Invariance == Spec => []Inv
BY InitInv, NextInv, PTL DEF Spec

\* Every command leaves two well-typed maps, and logs at most one record.
THEOREM TypeCorrect == Spec => []TypeOK
<1>1. Inv => TypeOK
  BY DEF Inv, WellFormed, TypeOK
<1>2. QED
  BY <1>1, Invariance, PTL

\* No removal, of any kind, leaves a deadline behind for the key's next life.
THEOREM DeadlinesHaveKeys == Spec => []NoOrphanDeadline
<1>1. Inv => NoOrphanDeadline
  BY DEF Inv, WellFormed, NoOrphan, NoOrphanDeadline
<1>2. QED
  BY <1>1, Invariance, PTL

\* Whatever is popped, deleted or removed, a collection that becomes empty is
\* gone, and one that write_typed creates is filled in the same command.
THEOREM CollectionsHaveElements == Spec => []NoEmptyCollection
<1>1. Inv => NoEmptyCollection
  BY DEF Inv, WellFormed, NoEmpty, NoEmptyCollection
<1>2. QED
  BY <1>1, Invariance, PTL

\* No EXPIRE stores a deadline past Clock::time_point::max(), however the
\* clock moves between its readings.
THEOREM DeadlinesFitTheClock == Spec => []DeadlineRepresentable
<1>1. Inv => DeadlineRepresentable
  BY DEF Inv, WellFormed, OnClock, DeadlineRepresentable
<1>2. QED
  BY <1>1, Invariance, PTL
=============================================================================
