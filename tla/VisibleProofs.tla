--------------------------- MODULE VisibleProofs ---------------------------
(***************************************************************************)
(* What each command does to what clients can see, proved from what it     *)
(* does to the Store.  A Store holds keys whose deadline has passed and    *)
(* that no command has touched since; what clients see does not, and every *)
(* command turns out to be a function of what they see: the value it gives *)
(* the key, its reply and its record.  From this it follows that the log   *)
(* records the changes and nothing else.                                   *)
(***************************************************************************)
EXTENDS KeyspaceProofs, SequenceTheorems, FiniteSetTheorems

\* The keys that deadlines l take away by time t, and what is left of a store.
Gone(l, t)     == {k \in DOMAIN l : l[k] <= t}
Later(d, l, t) == [values      |-> Restrict(d, DOMAIN d \ Gone(l, t)),
                   expirations |-> Restrict(l, DOMAIN l \ Gone(l, t))]

\* l is a map to clock readings, no key of which is due at t.
Deadlines(l)     == \A k \in DOMAIN l : l[k] \in Int
NothingDue(l, t) == \A k \in DOMAIN l : l[k] > t

-----------------------------------------------------------------------------
(* Restrictions *)

LEMMA RestrictionDomain ==
  ASSUME NEW f, NEW S
  PROVE  DOMAIN Restrict(f, S) = S
BY DEF Restrict

LEMMA RestrictionValue ==
  ASSUME NEW f, NEW S, NEW x \in S
  PROVE  Restrict(f, S)[x] = f[x]
BY DEF Restrict

LEMMA RestrictionEqual ==
  ASSUME NEW f, NEW g, NEW S, NEW T, S = T, \A x \in S : f[x] = g[x]
  PROVE  Restrict(f, S) = Restrict(g, T)
BY DEF Restrict

LEMMA RestrictionTwice ==
  ASSUME NEW f, NEW S, NEW T, T \subseteq S
  PROVE  Restrict(Restrict(f, S), T) = Restrict(f, T)
BY DEF Restrict

LEMMA DropRestriction ==
  ASSUME NEW f, NEW S, NEW k
  PROVE  Drop(Restrict(f, S), k) = Restrict(f, S \ {k})
BY DEF Restrict, Drop

LEMMA RestrictionOfDrop ==
  ASSUME NEW f, NEW S, NEW k, S \subseteq DOMAIN f \ {k}
  PROVE  Restrict(Drop(f, k), S) = Restrict(f, S)
BY DEF Restrict, Drop

LEMMA PutRestriction ==
  ASSUME NEW f, NEW S, NEW k, NEW v, S \subseteq DOMAIN f
  PROVE  Put(Restrict(f, S), k, v) = Restrict(Put(f, k, v), S \cup {k})
BY DEF Restrict, Put

LEMMA PutAfterDrop ==
  ASSUME NEW f, NEW k, NEW v
  PROVE  Put(Drop(f, k), k, v) = Put(f, k, v)
BY DEF Put, Drop, Restrict

\* A function cut down to its own domain is itself.
LEMMA RestrictionAll ==
  ASSUME NEW f, f = [x \in DOMAIN f |-> f[x]]
  PROVE  Restrict(f, DOMAIN f) = f
BY DEF Restrict

-----------------------------------------------------------------------------
(* What time takes away *)

\* In a Store where every deadline has its key, a key is visible until its
\* deadline, and its deadline as long as the key.
LEMMA VisibleLater ==
  ASSUME NEW st, NEW t, NoOrphan(st)
  PROVE  Visible(st, t) = Later(st.values, st.expirations, t)
<1>1. Alive(st, t) = DOMAIN st.values \ Gone(st.expirations, t)
  BY DEF Alive, Due, Gone
<1>2. DOMAIN st.expirations \cap Alive(st, t) = DOMAIN st.expirations \ Gone(st.expirations, t)
  BY <1>1 DEF NoOrphan
<1>3. QED
  BY <1>1, <1>2 DEF Visible, Later

LEMMA LaterFields ==
  ASSUME NEW d, NEW l, NEW t
  PROVE  /\ DOMAIN Later(d, l, t).values = DOMAIN d \ Gone(l, t)
         /\ DOMAIN Later(d, l, t).expirations = DOMAIN l \ Gone(l, t)
         /\ \A x \in DOMAIN d \ Gone(l, t) : Later(d, l, t).values[x] = d[x]
         /\ \A x \in DOMAIN l \ Gone(l, t) : Later(d, l, t).expirations[x] = l[x]
BY DEF Later, Restrict

\* Two stores that agree on what is left at t are the same at t.
LEMMA LaterEqual ==
  ASSUME NEW d1, NEW l1, NEW d2, NEW l2, NEW t,
         DOMAIN d1 \ Gone(l1, t) = DOMAIN d2 \ Gone(l2, t),
         DOMAIN l1 \ Gone(l1, t) = DOMAIN l2 \ Gone(l2, t),
         \A x \in DOMAIN d1 \ Gone(l1, t) : d1[x] = d2[x],
         \A x \in DOMAIN l1 \ Gone(l1, t) : l1[x] = l2[x]
  PROVE  Later(d1, l1, t) = Later(d2, l2, t)
BY RestrictionEqual DEF Later

\* What is left at u of what was left at t is what is left at u.
LEMMA LaterLater ==
  ASSUME NEW d, NEW l, NEW t \in Int, NEW u \in Int, t <= u, Deadlines(l)
  PROVE  LET V == Later(d, l, t) IN Later(V.values, V.expirations, u) = Later(d, l, u)
<1> DEFINE V == Later(d, l, t)
<1>1. /\ DOMAIN V.values = DOMAIN d \ Gone(l, t)
      /\ DOMAIN V.expirations = DOMAIN l \ Gone(l, t)
      /\ \A x \in DOMAIN d \ Gone(l, t) : V.values[x] = d[x]
      /\ \A x \in DOMAIN l \ Gone(l, t) : V.expirations[x] = l[x]
  BY LaterFields
<1> HIDE DEF V
<1>2. Gone(l, t) \subseteq Gone(l, u)
  BY DEF Gone, Deadlines
<1>3. Gone(V.expirations, u) = Gone(l, u) \ Gone(l, t)
  BY <1>1 DEF Gone
<1>4. Later(V.values, V.expirations, u) = Later(d, l, u)
  BY <1>1, <1>2, <1>3, LaterEqual
<1>5. QED
  BY <1>4 DEF V

\* With nothing due, time takes nothing away.
LEMMA LaterNothing ==
  ASSUME NEW d, NEW l, NEW t \in Int, Deadlines(l), NothingDue(l, t),
         d = [x \in DOMAIN d |-> d[x]], l = [x \in DOMAIN l |-> l[x]]
  PROVE  Later(d, l, t) = [values |-> d, expirations |-> l]
<1>1. Gone(l, t) = {}
  BY DEF Gone, Deadlines, NothingDue
<1>2. DOMAIN d \ {} = DOMAIN d /\ DOMAIN l \ {} = DOMAIN l
  OBVIOUS
<1>3. QED
  BY <1>1, <1>2, RestrictionAll DEF Later

-----------------------------------------------------------------------------
(* What clients see of a well-formed Store *)

LEMMA WellFormedFacts ==
  ASSUME NEW st, WellFormed(st)
  PROVE  /\ IsStore(st) /\ NoOrphan(st) /\ NoEmpty(st)
         /\ IsPartialFn(st.values, Key, Value)
         /\ IsPartialFn(st.expirations, Key, Int)
         /\ Deadlines(st.expirations)
         /\ st = [values |-> st.values, expirations |-> st.expirations]
BY DEF WellFormed, IsStore, IsPartialFn, Deadlines

LEMMA VisibleFields ==
  ASSUME NEW st, NEW t
  PROVE  /\ DOMAIN Visible(st, t).values = Alive(st, t)
         /\ DOMAIN Visible(st, t).expirations = DOMAIN st.expirations \cap Alive(st, t)
         /\ \A x \in Alive(st, t) : Visible(st, t).values[x] = st.values[x]
         /\ \A x \in DOMAIN st.expirations \cap Alive(st, t) :
              Visible(st, t).expirations[x] = st.expirations[x]
BY DEF Visible, Restrict

\* It is a store of its own: typed, every deadline with its key and yet to
\* come, no collection empty.
LEMMA VisibleTypes ==
  ASSUME NEW st, NEW t \in Int, WellFormed(st)
  PROVE  LET V == Visible(st, t)
         IN  /\ IsPartialFn(V.values, Key, Value)
             /\ IsPartialFn(V.expirations, Key, Int)
             /\ DOMAIN V.expirations \subseteq DOMAIN V.values
             /\ NothingDue(V.expirations, t)
             /\ Deadlines(V.expirations)
             /\ \A k \in DOMAIN V.values : ~IsEmptyCollection(V.values[k])
             /\ V = [values |-> V.values, expirations |-> V.expirations]
<1> DEFINE V == Visible(st, t)
<1>1. /\ V = [values |-> V.values, expirations |-> V.expirations]
      /\ V.values = [x \in DOMAIN V.values |-> V.values[x]]
      /\ V.expirations = [x \in DOMAIN V.expirations |-> V.expirations[x]]
  BY DEF Visible, Restrict
<1>2. /\ DOMAIN V.values = Alive(st, t)
      /\ DOMAIN V.expirations = DOMAIN st.expirations \cap Alive(st, t)
      /\ \A x \in Alive(st, t) : V.values[x] = st.values[x]
      /\ \A x \in DOMAIN st.expirations \cap Alive(st, t) : V.expirations[x] = st.expirations[x]
  BY VisibleFields
<1> HIDE DEF V
<1>3. /\ DOMAIN st.values \subseteq Key
      /\ \A x \in DOMAIN st.values : st.values[x] \in Value
      /\ DOMAIN st.expirations \subseteq Key
      /\ \A x \in DOMAIN st.expirations : st.expirations[x] \in Int
      /\ \A x \in DOMAIN st.values : ~IsEmptyCollection(st.values[x])
  BY WellFormedFacts DEF IsPartialFn, NoEmpty
<1>4. Alive(st, t) \subseteq DOMAIN st.values
  BY DEF Alive
<1>5. IsPartialFn(V.values, Key, Value)
  BY <1>1, <1>2, <1>3, <1>4 DEF IsPartialFn
<1>6. IsPartialFn(V.expirations, Key, Int)
  BY <1>1, <1>2, <1>3 DEF IsPartialFn
<1>7. NothingDue(V.expirations, t)
  BY <1>2, <1>3 DEF NothingDue, Alive, Due
<1>8. Deadlines(V.expirations)
  BY <1>2, <1>3 DEF Deadlines
<1>9. \A k \in DOMAIN V.values : ~IsEmptyCollection(V.values[k])
  BY <1>2, <1>3, <1>4
<1>10. QED
  BY <1>1, <1>2, <1>5, <1>6, <1>7, <1>8, <1>9 DEF V

\* What clients will see at u is what they see at t, less what falls due.
LEMMA VisibleAtLater ==
  ASSUME NEW st, NEW t \in Int, NEW u \in Int, t <= u, WellFormed(st)
  PROVE  Visible(st, u) = Later(Visible(st, t).values, Visible(st, t).expirations, u)
BY WellFormedFacts, VisibleLater, LaterLater

\* Lazy expiration shows nothing, and from then on the key is in the Store if
\* and only if clients see it.
LEMMA Swept ==
  ASSUME NEW st, NEW k, NEW t \in Int, WellFormed(st)
  PROVE  LET s == ExpireIfDue(st, k, t)
             V == Visible(st, t)
         IN  /\ WellFormed(s)
             /\ ~Due(s, k, t)
             /\ Visible(s, t) = V
             /\ k \in DOMAIN s.values <=> k \in DOMAIN V.values
             /\ k \in DOMAIN s.values => s.values[k] = V.values[k]
             /\ k \in DOMAIN s.expirations <=> k \in DOMAIN V.expirations
             /\ k \in DOMAIN s.expirations => s.expirations[k] = V.expirations[k]
<1> DEFINE s == ExpireIfDue(st, k, t)
           V == Visible(st, t)
<1>1. WellFormed(s)
  BY ExpireIfDueWellFormed
<1>2. NoOrphan(st) /\ NoOrphan(s)
  BY <1>1, WellFormedFacts
<1>3. V = Later(st.values, st.expirations, t) /\ Visible(s, t) = Later(s.values, s.expirations, t)
  BY <1>2, VisibleLater
<1>4. /\ DOMAIN V.values = DOMAIN st.values \ Gone(st.expirations, t)
      /\ DOMAIN V.expirations = DOMAIN st.expirations \ Gone(st.expirations, t)
      /\ \A x \in DOMAIN st.values \ Gone(st.expirations, t) : V.values[x] = st.values[x]
      /\ \A x \in DOMAIN st.expirations \ Gone(st.expirations, t) :
           V.expirations[x] = st.expirations[x]
  BY <1>3, LaterFields
<1> HIDE DEF V
<1>5. CASE Due(st, k, t)
  <2>1. /\ s.values = Drop(st.values, k)
        /\ s.expirations = Drop(st.expirations, k)
    BY <1>5 DEF ExpireIfDue, RemoveKey
  <2> HIDE DEF s
  <2>2. /\ DOMAIN s.values = DOMAIN st.values \ {k}
        /\ DOMAIN s.expirations = DOMAIN st.expirations \ {k}
        /\ \A x \in DOMAIN st.values \ {k} : s.values[x] = st.values[x]
        /\ \A x \in DOMAIN st.expirations \ {k} : s.expirations[x] = st.expirations[x]
    BY <2>1 DEF Drop, Restrict
  <2>3. k \in Gone(st.expirations, t)
    BY <1>5 DEF Due, Gone
  <2>4. Gone(s.expirations, t) = Gone(st.expirations, t) \ {k}
    BY <2>2 DEF Gone
  <2>5. Later(s.values, s.expirations, t) = Later(st.values, st.expirations, t)
    BY <2>2, <2>3, <2>4, LaterEqual
  <2>6. QED
    BY <1>1, <1>3, <1>4, <2>2, <2>3, <2>5 DEF Due, s, V
<1>6. CASE ~Due(st, k, t)
  <2>1. s = st
    BY <1>6 DEF ExpireIfDue
  <2>2. k \notin Gone(st.expirations, t)
    BY <1>6 DEF Due, Gone
  <2>3. QED
    BY <1>1, <1>4, <1>6, <2>1, <2>2 DEF V
<1>7. QED
  BY <1>5, <1>6

-----------------------------------------------------------------------------
(* What a command does to the Store it does to what clients see of it: each *)
(* of its steps can be taken on either side.                                *)

\* What clients see is a well-formed Store with nothing left to sweep.
Settled(st, t) == WellFormed(st) /\ NothingDue(st.expirations, t)

LEMMA VisibleSettled ==
  ASSUME NEW st, NEW t \in Int, WellFormed(st)
  PROVE  Settled(Visible(st, t), t)
<1> DEFINE V == Visible(st, t)
<1>1. /\ IsPartialFn(V.values, Key, Value)
      /\ IsPartialFn(V.expirations, Key, Int)
      /\ DOMAIN V.expirations \subseteq DOMAIN V.values
      /\ NothingDue(V.expirations, t)
      /\ \A k \in DOMAIN V.values : ~IsEmptyCollection(V.values[k])
      /\ V = [values |-> V.values, expirations |-> V.expirations]
  BY VisibleTypes
<1>2. /\ DOMAIN V.expirations \subseteq DOMAIN st.expirations
      /\ \A x \in DOMAIN V.expirations : V.expirations[x] = st.expirations[x]
  BY VisibleFields
<1>3. OnClock(V)
  BY <1>2 DEF WellFormed, OnClock
<1> HIDE DEF V
<1>4. IsStore(V)
  BY <1>1 DEF IsStore
<1>5. QED
  BY <1>1, <1>3, <1>4 DEF Settled, WellFormed, NoOrphan, NoEmpty, V

LEMMA SettledStays ==
  ASSUME NEW st, NEW k, NEW t \in Int, Settled(st, t)
  PROVE  /\ ~Due(st, k, t)
         /\ ExpireIfDue(st, k, t) = st
         /\ Visible(st, t) = st
<1>1. Deadlines(st.expirations) /\ NothingDue(st.expirations, t)
  BY WellFormedFacts DEF Settled
<1>2. ~Due(st, k, t)
  BY <1>1 DEF Due, Deadlines, NothingDue
<1>3. ExpireIfDue(st, k, t) = st
  BY <1>2 DEF ExpireIfDue
<1>4. Visible(st, t) = Later(st.values, st.expirations, t)
  BY WellFormedFacts, VisibleLater DEF Settled
<1>5. /\ st.values = [x \in DOMAIN st.values |-> st.values[x]]
      /\ st.expirations = [x \in DOMAIN st.expirations |-> st.expirations[x]]
      /\ st = [values |-> st.values, expirations |-> st.expirations]
  BY WellFormedFacts DEF Settled, IsPartialFn
<1>6. Visible(st, t) = st
  BY <1>1, <1>4, <1>5, LaterNothing
<1>7. QED
  BY <1>2, <1>3, <1>6

LEMMA RemoveKeyCommutes ==
  ASSUME NEW st, NEW k, NEW t
  PROVE  Visible(RemoveKey(st, k), t) = RemoveKey(Visible(st, t), k)
<1> DEFINE new == RemoveKey(st, k)
           V   == Visible(st, t)
<1>1. Alive(new, t) = Alive(st, t) \ {k}
  BY DEF Alive, Due, RemoveKey, Drop, Restrict
<1>2. Visible(new, t).values = Drop(V.values, k)
  <2>1. V.values = Restrict(st.values, Alive(st, t))
    BY DEF Visible
  <2>2. Visible(new, t).values = Restrict(Drop(st.values, k), Alive(st, t) \ {k})
    BY <1>1 DEF Visible, RemoveKey
  <2>3. Alive(st, t) \ {k} \subseteq DOMAIN st.values \ {k}
    BY DEF Alive
  <2>4. QED
    BY <2>1, <2>2, <2>3, RestrictionOfDrop, DropRestriction
<1>3. Visible(new, t).expirations = Drop(V.expirations, k)
  <2>1. V.expirations = Restrict(st.expirations, DOMAIN st.expirations \cap Alive(st, t))
    BY DEF Visible
  <2>2. Visible(new, t).expirations
          = Restrict(Drop(st.expirations, k),
                     (DOMAIN st.expirations \ {k}) \cap (Alive(st, t) \ {k}))
    BY <1>1, DropDomain DEF Visible, RemoveKey
  <2>3. /\ (DOMAIN st.expirations \ {k}) \cap (Alive(st, t) \ {k})
             = (DOMAIN st.expirations \cap Alive(st, t)) \ {k}
        /\ (DOMAIN st.expirations \cap Alive(st, t)) \ {k} \subseteq DOMAIN st.expirations \ {k}
    OBVIOUS
  <2>4. QED
    BY <2>1, <2>2, <2>3, RestrictionOfDrop, DropRestriction
<1>4. Visible(new, t) = [values      |-> Visible(new, t).values,
                         expirations |-> Visible(new, t).expirations]
  BY DEF Visible
<1>5. QED
  BY <1>2, <1>3, <1>4 DEF RemoveKey

\* Only once the key's old deadline is out of the way: this is what the sweep
\* at the head of every writing command is for.
LEMMA AssignCommutes ==
  ASSUME NEW st, NEW k, NEW v, NEW t, IsStore(st), NoOrphan(st), ~Due(st, k, t)
  PROVE  Visible(Assign(st, k, v), t) = Assign(Visible(st, t), k, v)
<1> DEFINE new == Assign(st, k, v)
           V   == Visible(st, t)
<1>1. new.values = Put(st.values, k, v) /\ new.expirations = st.expirations
  BY DEF Assign, IsStore
<1> HIDE DEF new
<1>2. Alive(new, t) = Alive(st, t) \cup {k}
  BY <1>1 DEF Alive, Due, Put
<1>3. DOMAIN new.expirations \cap Alive(new, t) = DOMAIN st.expirations \cap Alive(st, t)
  BY <1>1, <1>2 DEF NoOrphan, Alive
<1>4. Visible(new, t).expirations = V.expirations
  BY <1>1, <1>3 DEF Visible
<1>5. Visible(new, t).values = Put(V.values, k, v)
  <2>1. Alive(st, t) \subseteq DOMAIN st.values
    BY DEF Alive
  <2>2. QED
    BY <1>1, <1>2, <2>1, PutRestriction DEF Visible
<1>6. /\ Visible(new, t) = [values      |-> Visible(new, t).values,
                            expirations |-> Visible(new, t).expirations]
      /\ Assign(V, k, v) = [values |-> Put(V.values, k, v), expirations |-> V.expirations]
  BY DEF Visible, Assign
<1>7. QED
  BY <1>4, <1>5, <1>6 DEF new

LEMMA DropIfEmptyCommutes ==
  ASSUME NEW st, NEW k, NEW t, ~Due(st, k, t)
  PROVE  Visible(DropIfEmpty(st, k), t) = DropIfEmpty(Visible(st, t), k)
<1> DEFINE V == Visible(st, t)
<1>1. k \in DOMAIN V.values <=> k \in DOMAIN st.values
  BY VisibleFields DEF Alive
<1>2. k \in DOMAIN st.values => V.values[k] = st.values[k]
  BY VisibleFields DEF Alive
<1>3. Visible(RemoveKey(st, k), t) = RemoveKey(V, k)
  BY RemoveKeyCommutes
<1> HIDE DEF V
<1>4. QED
  BY <1>1, <1>2, <1>3 DEF DropIfEmpty, V

\* expire_if_due and then the rest of a write_typed.
Made(st, k, ty, t) == Materialise(ExpireIfDue(st, k, t), k, ty)

LEMMA MadeCommutes ==
  ASSUME NEW st, NEW k \in Key, NEW ty \in {"list", "hash", "set"}, NEW t \in Int, WellFormed(st)
  PROVE  LET made == Made(st, k, ty, t)
             V    == Visible(st, t)
         IN  /\ NearlyWellFormed(made, k)
             /\ k \in DOMAIN made.values
             /\ made.values[k] \in Value
             /\ ~Due(made, k, t)
             /\ Visible(made, t) = Made(V, k, ty, t)
             /\ made.values[k] = Made(V, k, ty, t).values[k]
<1> DEFINE s    == ExpireIfDue(st, k, t)
           made == Made(st, k, ty, t)
           V    == Visible(st, t)
           new  == Typed(ty, Fresh(ty))
<1>1. /\ WellFormed(s) /\ ~Due(s, k, t)
      /\ Visible(s, t) = V
      /\ k \in DOMAIN s.values <=> k \in DOMAIN V.values
      /\ k \in DOMAIN s.values => s.values[k] = V.values[k]
  BY Swept
<1>2. ExpireIfDue(V, k, t) = V
  BY VisibleSettled, SettledStays
<1>3. made = Materialise(s, k, ty) /\ Made(V, k, ty, t) = Materialise(V, k, ty)
  BY <1>2 DEF Made
<1> HIDE DEF s, V, made
<1>4. /\ NearlyWellFormed(made, k)
      /\ k \in DOMAIN made.values
      /\ made.values[k] \in Value
  BY <1>1, <1>3, MaterialiseWellFormed
<1>5. made.expirations = s.expirations
  BY <1>1, <1>3, WellFormedFacts DEF Materialise, Assign
<1>6. ~Due(made, k, t)
  BY <1>1, <1>5 DEF Due
<1>7. Visible(Assign(s, k, new), t) = Assign(V, k, new)
  BY <1>1, AssignCommutes, WellFormedFacts
<1>8. /\ Assign(s, k, new).values[k] = new
      /\ Assign(V, k, new).values[k] = new
  <2>1. IsStore(s) /\ IsStore(V)
    BY <1>1, WellFormedFacts, VisibleSettled DEF V, Settled
  <2>2. QED
    BY <2>1 DEF Assign, Put, IsStore
<1> HIDE DEF new
<1>9. Visible(made, t) = Made(V, k, ty, t) /\ made.values[k] = Made(V, k, ty, t).values[k]
  BY <1>1, <1>3, <1>7, <1>8 DEF Materialise, new
<1>10. QED
  BY <1>4, <1>6, <1>9 DEF made, V

\* A result is seen at t as another: what it shows then is the other's Store,
\* and the reply and the record are the same.
SeenAs(result, seen, t) == /\ Visible(result.store, t) = seen.store
                           /\ result.reply = seen.reply
                           /\ result.records = seen.records

LEMMA ResultSeen ==
  ASSUME NEW st, NEW V, NEW rep, NEW recs, NEW t, Visible(st, t) = V
  PROVE  SeenAs(Result(st, rep, recs), Result(V, rep, recs), t)
BY DEF SeenAs, Result

\* A read_typed, if each of its answers is.
LEMMA ReadingSeen ==
  ASSUME NEW st, NEW V, NEW k, NEW ty, NEW t,
         NEW missing1, NEW missing2, NEW found1, NEW found2,
         Visible(st, t) = V,
         k \in DOMAIN st.values <=> k \in DOMAIN V.values,
         k \in DOMAIN st.values => st.values[k] = V.values[k],
         SeenAs(missing1, missing2, t),
         k \in DOMAIN V.values /\ V.values[k].type = ty => SeenAs(found1, found2, t)
  PROVE  SeenAs(Reading(st, k, ty, missing1, found1), Reading(V, k, ty, missing2, found2), t)
<1>1. SeenAs(Result(st, WrongType, << >>), Result(V, WrongType, << >>), t)
  BY ResultSeen
<1>2. CASE k \notin DOMAIN st.values
  BY <1>2 DEF Reading
<1>3. CASE k \in DOMAIN st.values /\ st.values[k].type # ty
  BY <1>1, <1>3 DEF Reading
<1>4. CASE k \in DOMAIN st.values /\ st.values[k].type = ty
  BY <1>4 DEF Reading
<1>5. QED
  BY <1>2, <1>3, <1>4

LEMMA WritingSeen ==
  ASSUME NEW st, NEW V, NEW k, NEW ty, NEW t, NEW found1, NEW found2,
         Visible(st, t) = V, st.values[k] = V.values[k],
         V.values[k].type = ty => SeenAs(found1, found2, t)
  PROVE  SeenAs(Writing(st, k, ty, found1), Writing(V, k, ty, found2), t)
BY ResultSeen DEF Writing

-----------------------------------------------------------------------------
(* The commands: each is seen as the same command run on what clients see. *)

LEMMA BothSidesSwept ==
  ASSUME NEW st, NEW k, NEW t \in Int, WellFormed(st)
  PROVE  LET s == ExpireIfDue(st, k, t)
             V == Visible(st, t)
         IN  /\ WellFormed(s) /\ WellFormed(V)
             /\ ~Due(s, k, t)
             /\ Visible(s, t) = V
             /\ ExpireIfDue(V, k, t) = V
             /\ k \in DOMAIN s.values <=> k \in DOMAIN V.values
             /\ k \in DOMAIN s.values => s.values[k] = V.values[k]
BY Swept, VisibleSettled, SettledStays DEF Settled

LEMMA DELSeen ==
  ASSUME NEW st, NEW k, NEW t \in Int, WellFormed(st)
  PROVE  SeenAs(DEL(st, k, t), DEL(Visible(st, t), k, t), t)
<1> DEFINE s == ExpireIfDue(st, k, t)
           V == Visible(st, t)
<1>1. /\ Visible(s, t) = V
      /\ ExpireIfDue(V, k, t) = V
      /\ k \in DOMAIN s.values <=> k \in DOMAIN V.values
  BY BothSidesSwept
<1>2. Visible(RemoveKey(s, k), t) = RemoveKey(V, k)
  BY <1>1, RemoveKeyCommutes
<1> HIDE DEF s, V
<1>3. QED
  BY <1>1, <1>2 DEF DEL, SeenAs, Result, Bit, s, V

LEMMA TTLSeen ==
  ASSUME NEW st, NEW k, NEW t \in Int, NEW u \in Int, WellFormed(st)
  PROVE  SeenAs(TTL(st, k, t, u), TTL(Visible(st, t), k, t, u), t)
<1> DEFINE s == ExpireIfDue(st, k, t)
           V == Visible(st, t)
<1>1. /\ Visible(s, t) = V
      /\ ExpireIfDue(V, k, t) = V
      /\ k \in DOMAIN s.values <=> k \in DOMAIN V.values
      /\ k \in DOMAIN s.expirations <=> k \in DOMAIN V.expirations
      /\ k \in DOMAIN s.expirations => s.expirations[k] = V.expirations[k]
  BY BothSidesSwept, Swept
<1> HIDE DEF s, V
<1>2. QED
  BY <1>1 DEF TTL, SeenAs, Result, s, V

\* The new deadline may have come by the time EXPIRE reads the clock again.
LEMMA DeadlineSeen ==
  ASSUME NEW st, NEW k, NEW d \in Int, NEW u \in Int, WellFormed(st),
         k \in DOMAIN st.values, ~Due(st, k, u)
  PROVE  LET V == Visible(st, u)
         IN  Visible([st EXCEPT !.expirations = Put(st.expirations, k, d)], u)
               = Later(V.values, Put(V.expirations, k, d), u)
<1> DEFINE V   == Visible(st, u)
           l   == Put(st.expirations, k, d)
           m   == Put(V.expirations, k, d)
           new == [st EXCEPT !.expirations = l]
           old == Gone(st.expirations, u)
<1>1. IsStore(st) /\ NoOrphan(st) /\ Deadlines(st.expirations)
  BY WellFormedFacts
<1>2. new.values = st.values /\ new.expirations = l
  BY <1>1 DEF IsStore
<1>3. V = Later(st.values, st.expirations, u)
  BY <1>1, VisibleLater
<1>4. /\ DOMAIN V.values = DOMAIN st.values \ old
      /\ DOMAIN V.expirations = DOMAIN st.expirations \ old
      /\ \A x \in DOMAIN st.values \ old : V.values[x] = st.values[x]
      /\ \A x \in DOMAIN st.expirations \ old : V.expirations[x] = st.expirations[x]
  BY <1>3, LaterFields
<1>5. k \notin old
  BY DEF Due, Gone
<1>6. /\ DOMAIN l = DOMAIN st.expirations \cup {k}
      /\ \A x \in DOMAIN l : l[x] = IF x = k THEN d ELSE st.expirations[x]
      /\ DOMAIN m = DOMAIN V.expirations \cup {k}
      /\ \A x \in DOMAIN m : m[x] = IF x = k THEN d ELSE V.expirations[x]
  BY DEF Put
<1> HIDE DEF V, l, m, new
<1>7. NoOrphan(new)
  BY <1>1, <1>2, <1>6 DEF NoOrphan
<1>8. Visible(new, u) = Later(st.values, l, u)
  BY <1>2, <1>7, VisibleLater
<1>9. /\ Gone(l, u) = old \cup (IF d <= u THEN {k} ELSE {})
      /\ Gone(m, u) = IF d <= u THEN {k} ELSE {}
  BY <1>1, <1>4, <1>5, <1>6 DEF Gone, Deadlines
<1> HIDE DEF old
<1>10. Later(st.values, l, u) = Later(V.values, m, u)
  <2>1. DOMAIN st.values \ Gone(l, u) = DOMAIN V.values \ Gone(m, u)
    BY <1>4, <1>9
  <2>2. DOMAIN l \ Gone(l, u) = DOMAIN m \ Gone(m, u)
    BY <1>4, <1>5, <1>6, <1>9
  <2>3. \A x \in DOMAIN st.values \ Gone(l, u) : st.values[x] = V.values[x]
    BY <1>4, <1>9
  <2>4. \A x \in DOMAIN l \ Gone(l, u) : l[x] = m[x]
    BY <1>4, <1>5, <1>6, <1>9
  <2>5. QED
    BY <2>1, <2>2, <2>3, <2>4, LaterEqual
<1>11. QED
  BY <1>8, <1>10 DEF new, l, m, V

\* The time that counts is the one the key is swept at.
LEMMA EXPIRESeen ==
  ASSUME NEW st, NEW k, NEW seconds \in Int, NEW t \in Int, NEW u \in Int, NEW w, WellFormed(st)
  PROVE  LET lazy  == EXPIRE(st, k, seconds, t, u, w)
             eager == EXPIRE(Visible(st, u), k, seconds, t, u, w)
         IN  /\ Visible(lazy.store, u) = Visible(eager.store, u)
             /\ lazy.reply = eager.reply
             /\ lazy.records = eager.records
<1> DEFINE s    == ExpireIfDue(st, k, u)
           V    == Visible(st, u)
           d    == t + seconds * TicksPerSecond
           newS == [s EXCEPT !.expirations = Put(s.expirations, k, d)]
           newV == [V EXCEPT !.expirations = Put(V.expirations, k, d)]
<1>1. /\ WellFormed(s) /\ WellFormed(V)
      /\ ~Due(s, k, u) /\ ~Due(V, k, u)
      /\ Visible(s, u) = V /\ Visible(V, u) = V
      /\ ExpireIfDue(V, k, u) = V
      /\ k \in DOMAIN s.values <=> k \in DOMAIN V.values
  BY BothSidesSwept, VisibleSettled, SettledStays
<1>2. MaxSeconds(t) \in Int /\ d \in Int
  BY ClockAssumption DEF MaxSeconds
<1>3. Visible(RemoveKey(s, k), u) = RemoveKey(V, k) /\ Visible(RemoveKey(V, k), u) = RemoveKey(V, k)
  BY <1>1, RemoveKeyCommutes
<1> HIDE DEF s, V, d
<1>4. ASSUME k \in DOMAIN s.values
      PROVE  Visible(newS, u) = Visible(newV, u)
  <2>1. Visible(newS, u) = Later(V.values, Put(V.expirations, k, d), u)
    BY <1>1, <1>2, <1>4, DeadlineSeen
  <2>2. Visible(newV, u) = Later(V.values, Put(V.expirations, k, d), u)
    BY <1>1, <1>2, <1>4, DeadlineSeen
  <2>3. QED
    BY <2>1, <2>2
<1> HIDE DEF newS, newV
<1>5. CASE seconds > MaxSeconds(t)
  BY <1>1, <1>2, <1>5 DEF EXPIRE, Result, s, V
<1>6. CASE seconds <= MaxSeconds(t) /\ k \notin DOMAIN s.values
  BY <1>1, <1>2, <1>6 DEF EXPIRE, Result, s, V
<1>7. CASE seconds <= MaxSeconds(t) /\ k \in DOMAIN s.values /\ seconds <= 0
  BY <1>1, <1>2, <1>3, <1>7 DEF EXPIRE, Result, s, V
<1>8. CASE seconds <= MaxSeconds(t) /\ k \in DOMAIN s.values /\ seconds > 0
  BY <1>1, <1>2, <1>4, <1>8 DEF EXPIRE, Result, s, V, d, newS, newV
<1>9. QED
  BY <1>2, <1>5, <1>6, <1>7, <1>8

\* SET replaces whatever was there, swept or not.
LEMMA SETSeen ==
  ASSUME NEW st, NEW k, NEW e, NEW t \in Int, WellFormed(st)
  PROVE  SeenAs(SET(st, k, e), SET(Visible(st, t), k, e), t)
<1> DEFINE V   == Visible(st, t)
           v   == Typed("string", e)
           rem == RemoveKey(st, k)
           new == Assign(rem, k, v)
<1>1. WellFormed(rem) /\ Visible(rem, t) = RemoveKey(V, k)
  BY WellFormedNearly, RemoveKeyWellFormed, RemoveKeyCommutes
<1>2. ~Due(rem, k, t)
  BY DropDomain DEF RemoveKey, Due
<1>3. Visible(new, t) = Assign(RemoveKey(V, k), k, v)
  BY <1>1, <1>2, WellFormedFacts, AssignCommutes
<1>4. ASSUME NEW x
      PROVE  Assign(RemoveKey(x, k), k, v)
               = [values |-> Put(x.values, k, v), expirations |-> Drop(x.expirations, k)]
  BY PutAfterDrop DEF Assign, RemoveKey
<1>5. /\ SET(st, k, e) = Result(new, OK, <<Record("SET", k, <<e>>)>>)
      /\ SET(V, k, e) = Result(Assign(RemoveKey(V, k), k, v), OK, <<Record("SET", k, <<e>>)>>)
  BY <1>4 DEF SET
<1>6. QED
  BY <1>3, <1>5, ResultSeen

LEMMA GETSeen ==
  ASSUME NEW st, NEW k, NEW t \in Int, WellFormed(st)
  PROVE  SeenAs(GET(st, k, t), GET(Visible(st, t), k, t), t)
BY BothSidesSwept, ResultSeen, ReadingSeen DEF GET

LEMMA PUSHSeen ==
  ASSUME NEW verb, NEW st, NEW k \in Key, NEW e, NEW t \in Int, WellFormed(st)
  PROVE  SeenAs(PUSH(verb, st, k, e, t), PUSH(verb, Visible(st, t), k, e, t), t)
<1> DEFINE V     == Visible(st, t)
           made  == Made(st, k, "list", t)
           madeV == Made(V, k, "list", t)
<1>1. /\ IsStore(made) /\ NoOrphan(made) /\ ~Due(made, k, t)
      /\ Visible(made, t) = madeV
      /\ made.values[k] = madeV.values[k]
  BY MadeCommutes DEF NearlyWellFormed
<1>2. ASSUME NEW v
      PROVE  Visible(Assign(made, k, v), t) = Assign(madeV, k, v)
  BY <1>1, AssignCommutes
<1> HIDE DEF V, made, madeV
<1>3. QED
  BY <1>1, <1>2, ResultSeen, WritingSeen DEF PUSH, made, madeV, V, Made

\* What a removal leaves of a collection, or of the key.
LEMMA RemovalCommutes ==
  ASSUME NEW st, NEW k \in Key, NEW v \in Value, NEW t \in Int, WellFormed(st), ~Due(st, k, t)
  PROVE  Visible(DropIfEmpty(Assign(st, k, v), k), t)
           = DropIfEmpty(Assign(Visible(st, t), k, v), k)
<1> DEFINE new == Assign(st, k, v)
<1>1. IsStore(st) /\ NoOrphan(st)
  BY WellFormedFacts
<1>2. Visible(new, t) = Assign(Visible(st, t), k, v)
  BY <1>1, AssignCommutes
<1>3. ~Due(new, k, t)
  BY <1>1 DEF Assign, Due, IsStore
<1> HIDE DEF new
<1>4. QED
  BY <1>2, <1>3, DropIfEmptyCommutes DEF new

LEMMA POPSeen ==
  ASSUME NEW verb, NEW st, NEW k, NEW t \in Int, WellFormed(st)
  PROVE  SeenAs(POP(verb, st, k, t), POP(verb, Visible(st, t), k, t), t)
<1> DEFINE s    == ExpireIfDue(st, k, t)
           V    == Visible(st, t)
           left(list) == IF verb = "LPOP" THEN Tail(list)
                         ELSE SubSeq(list, 1, Len(list) - 1)
           rest(list) == Typed("list", left(list))
<1>1. /\ WellFormed(s) /\ WellFormed(V) /\ ~Due(s, k, t)
      /\ Visible(s, t) = V
      /\ ExpireIfDue(V, k, t) = V
      /\ k \in DOMAIN s.values <=> k \in DOMAIN V.values
      /\ k \in DOMAIN s.values => s.values[k] = V.values[k]
  BY BothSidesSwept
<1> HIDE DEF s, V
<1>2. ASSUME k \in DOMAIN V.values, V.values[k].type = "list", V.values[k].val # << >>
      PROVE  LET new == rest(V.values[k].val)
             IN  Visible(DropIfEmpty(Assign(s, k, new), k), t)
                   = DropIfEmpty(Assign(V, k, new), k)
  <2>1. k \in Key /\ V.values[k].val \in Seq(Elem)
    BY <1>1, <1>2, WellFormedFacts, StoredValue, ValueTypes
  <2>2. left(V.values[k].val) \in Seq(Elem)
    BY <1>2, <2>1
  <2>3. rest(V.values[k].val) \in Value
    BY <2>2, ListIsValue
  <2>4. QED
    BY <1>1, <2>1, <2>3, RemovalCommutes
<1>3. QED
  BY <1>1, <1>2, ResultSeen, ReadingSeen DEF POP, s, V

LEMMA LLENSeen ==
  ASSUME NEW st, NEW k, NEW t \in Int, WellFormed(st)
  PROVE  SeenAs(LLEN(st, k, t), LLEN(Visible(st, t), k, t), t)
BY BothSidesSwept, ResultSeen, ReadingSeen DEF LLEN

LEMMA LRANGESeen ==
  ASSUME NEW st, NEW k, NEW start, NEW stop, NEW t \in Int, WellFormed(st)
  PROVE  SeenAs(LRANGE(st, k, start, stop, t), LRANGE(Visible(st, t), k, start, stop, t), t)
BY BothSidesSwept, ResultSeen, ReadingSeen DEF LRANGE

LEMMA HSETSeen ==
  ASSUME NEW st, NEW k \in Key, NEW field, NEW e, NEW t \in Int, WellFormed(st)
  PROVE  SeenAs(HSET(st, k, field, e, t), HSET(Visible(st, t), k, field, e, t), t)
<1> DEFINE V     == Visible(st, t)
           made  == Made(st, k, "hash", t)
           madeV == Made(V, k, "hash", t)
<1>1. /\ IsStore(made) /\ NoOrphan(made) /\ ~Due(made, k, t)
      /\ Visible(made, t) = madeV
      /\ made.values[k] = madeV.values[k]
  BY MadeCommutes DEF NearlyWellFormed
<1>2. ASSUME NEW v
      PROVE  Visible(Assign(made, k, v), t) = Assign(madeV, k, v)
  BY <1>1, AssignCommutes
<1> HIDE DEF V, made, madeV
<1>3. QED
  BY <1>1, <1>2, ResultSeen, WritingSeen DEF HSET, made, madeV, V, Made

LEMMA HGETSeen ==
  ASSUME NEW st, NEW k, NEW field, NEW t \in Int, WellFormed(st)
  PROVE  SeenAs(HGET(st, k, field, t), HGET(Visible(st, t), k, field, t), t)
BY BothSidesSwept, ResultSeen, ReadingSeen DEF HGET

LEMMA HDELSeen ==
  ASSUME NEW st, NEW k, NEW field, NEW t \in Int, WellFormed(st)
  PROVE  SeenAs(HDEL(st, k, field, t), HDEL(Visible(st, t), k, field, t), t)
<1> DEFINE s    == ExpireIfDue(st, k, t)
           V    == Visible(st, t)
           rest(hash) == Typed("hash", Drop(hash, field))
<1>1. /\ WellFormed(s) /\ WellFormed(V) /\ ~Due(s, k, t)
      /\ Visible(s, t) = V
      /\ ExpireIfDue(V, k, t) = V
      /\ k \in DOMAIN s.values <=> k \in DOMAIN V.values
      /\ k \in DOMAIN s.values => s.values[k] = V.values[k]
  BY BothSidesSwept
<1> HIDE DEF s, V
<1>2. ASSUME k \in DOMAIN V.values, V.values[k].type = "hash"
      PROVE  LET new == rest(V.values[k].val)
             IN  Visible(DropIfEmpty(Assign(s, k, new), k), t)
                   = DropIfEmpty(Assign(V, k, new), k)
  <2>1. k \in Key /\ IsPartialFn(V.values[k].val, Elem, Elem)
    BY <1>1, <1>2, WellFormedFacts, StoredValue, ValueTypes
  <2>2. rest(V.values[k].val) \in Value
    BY <2>1, DropType, HashIsValue
  <2>3. QED
    BY <1>1, <2>1, <2>2, RemovalCommutes
<1>3. QED
  BY <1>1, <1>2, ResultSeen, ReadingSeen DEF HDEL, s, V

LEMMA HEXISTSSeen ==
  ASSUME NEW st, NEW k, NEW field, NEW t \in Int, WellFormed(st)
  PROVE  SeenAs(HEXISTS(st, k, field, t), HEXISTS(Visible(st, t), k, field, t), t)
BY BothSidesSwept, ResultSeen, ReadingSeen DEF HEXISTS

LEMMA HLENSeen ==
  ASSUME NEW st, NEW k, NEW t \in Int, WellFormed(st)
  PROVE  SeenAs(HLEN(st, k, t), HLEN(Visible(st, t), k, t), t)
BY BothSidesSwept, ResultSeen, ReadingSeen DEF HLEN

LEMMA SADDSeen ==
  ASSUME NEW st, NEW k \in Key, NEW e, NEW t \in Int, WellFormed(st)
  PROVE  SeenAs(SADD(st, k, e, t), SADD(Visible(st, t), k, e, t), t)
<1> DEFINE V     == Visible(st, t)
           made  == Made(st, k, "set", t)
           madeV == Made(V, k, "set", t)
<1>1. /\ IsStore(made) /\ NoOrphan(made) /\ ~Due(made, k, t)
      /\ Visible(made, t) = madeV
      /\ made.values[k] = madeV.values[k]
  BY MadeCommutes DEF NearlyWellFormed
<1>2. ASSUME NEW v
      PROVE  Visible(Assign(made, k, v), t) = Assign(madeV, k, v)
  BY <1>1, AssignCommutes
<1> HIDE DEF V, made, madeV
<1>3. QED
  BY <1>1, <1>2, ResultSeen, WritingSeen DEF SADD, made, madeV, V, Made

LEMMA SREMSeen ==
  ASSUME NEW st, NEW k, NEW e, NEW t \in Int, WellFormed(st)
  PROVE  SeenAs(SREM(st, k, e, t), SREM(Visible(st, t), k, e, t), t)
<1> DEFINE s    == ExpireIfDue(st, k, t)
           V    == Visible(st, t)
           rest(set) == Typed("set", set \ {e})
<1>1. /\ WellFormed(s) /\ WellFormed(V) /\ ~Due(s, k, t)
      /\ Visible(s, t) = V
      /\ ExpireIfDue(V, k, t) = V
      /\ k \in DOMAIN s.values <=> k \in DOMAIN V.values
      /\ k \in DOMAIN s.values => s.values[k] = V.values[k]
  BY BothSidesSwept
<1> HIDE DEF s, V
<1>2. ASSUME k \in DOMAIN V.values, V.values[k].type = "set"
      PROVE  LET new == rest(V.values[k].val)
             IN  Visible(DropIfEmpty(Assign(s, k, new), k), t)
                   = DropIfEmpty(Assign(V, k, new), k)
  <2>1. k \in Key /\ V.values[k].val \in SUBSET Elem
    BY <1>1, <1>2, WellFormedFacts, StoredValue, ValueTypes
  <2>2. rest(V.values[k].val) \in Value
    BY <2>1, SetIsValue
  <2>3. QED
    BY <1>1, <2>1, <2>2, RemovalCommutes
<1>3. QED
  BY <1>1, <1>2, ResultSeen, ReadingSeen DEF SREM, s, V

LEMMA SetQueriesSeen ==
  ASSUME NEW st, NEW k, NEW e, NEW t \in Int, WellFormed(st)
  PROVE  /\ SeenAs(SISMEMBER(st, k, e, t), SISMEMBER(Visible(st, t), k, e, t), t)
         /\ SeenAs(SCARD(st, k, t), SCARD(Visible(st, t), k, t), t)
         /\ SeenAs(SMEMBERS(st, k, t), SMEMBERS(Visible(st, t), k, t), t)
BY BothSidesSwept, ResultSeen, ReadingSeen DEF SISMEMBER, SCARD, SMEMBERS

-----------------------------------------------------------------------------
(* The commands on a Store with nothing to sweep: what remains of them once *)
(* expire_if_due, write_typed and drop_if_empty have nothing to hide.       *)

\* k holds a collection of type ty, or nothing, which is an empty one.
FitsType(V, k, ty) == k \in DOMAIN V.values => V.values[k].type = ty
Content(V, k, ty)  == IF k \in DOMAIN V.values THEN V.values[k].val ELSE Fresh(ty)

\* What a push makes of a list, and what a pop leaves of it and takes out.
PushedOn(verb, list, e) == IF verb = "LPUSH" THEN <<e>> \o list ELSE Append(list, e)
PopRest(verb, list)     == IF verb = "LPOP" THEN Tail(list) ELSE SubSeq(list, 1, Len(list) - 1)
PopOut(verb, list)      == IF verb = "LPOP" THEN Head(list) ELSE list[Len(list)]

\* k becomes v, and goes with its deadline if v is empty.
With(V, k, v) == IF IsEmptyCollection(v) THEN RemoveKey(V, k) ELSE Assign(V, k, v)

LEMMA MadeSettled ==
  ASSUME NEW V, NEW k, NEW ty, NEW t \in Int, Settled(V, t)
  PROVE  LET made == Made(V, k, ty, t)
         IN  /\ FitsType(V, k, ty) =>
                  /\ made.values[k].type = ty
                  /\ made.values[k].val = Content(V, k, ty)
                  /\ \A v : Assign(made, k, v) = Assign(V, k, v)
             /\ ~FitsType(V, k, ty) => made = V /\ V.values[k].type # ty
<1> DEFINE new == Typed(ty, Fresh(ty))
<1>1. Made(V, k, ty, t) = Materialise(V, k, ty)
  BY SettledStays DEF Made
<1>2. CASE k \in DOMAIN V.values
  BY <1>1, <1>2 DEF Materialise, FitsType, Content
<1>3. CASE k \notin DOMAIN V.values
  <2>1. Made(V, k, ty, t) = Assign(V, k, new)
    BY <1>1, <1>3 DEF Materialise
  <2>2. V = [values |-> V.values, expirations |-> V.expirations]
    BY WellFormedFacts DEF Settled
  <2>3. Assign(V, k, new) = [values |-> Put(V.values, k, new), expirations |-> V.expirations]
    BY <2>2 DEF Assign
  <2>4. Put(V.values, k, new)[k] = new
    BY PutValue
  <2>5. ASSUME NEW v
        PROVE  Assign(Assign(V, k, new), k, v) = Assign(V, k, v)
    <3>1. Put(Put(V.values, k, new), k, v) = Put(V.values, k, v)
      BY DEF Put
    <3>2. QED
      BY <2>2, <2>3, <3>1 DEF Assign
  <2>6. new.type = ty /\ new.val = Fresh(ty)
    BY DEF Typed
  <2>7. QED
    BY <1>3, <2>1, <2>3, <2>4, <2>5, <2>6 DEF FitsType, Content
<1>4. QED
  BY <1>2, <1>3

LEMMA RemovalSettled ==
  ASSUME NEW V, NEW k, NEW v, NEW t, Settled(V, t)
  PROVE  DropIfEmpty(Assign(V, k, v), k) = With(V, k, v)
<1>1. V = [values |-> V.values, expirations |-> V.expirations]
  BY WellFormedFacts DEF Settled
<1>2. Assign(V, k, v) = [values |-> Put(V.values, k, v), expirations |-> V.expirations]
  BY <1>1 DEF Assign
<1>3. k \in DOMAIN Put(V.values, k, v) /\ Put(V.values, k, v)[k] = v
  BY DEF Put
<1>4. RemoveKey(Assign(V, k, v), k) = RemoveKey(V, k)
  <2>1. Drop(Put(V.values, k, v), k) = Drop(V.values, k)
    BY DEF Drop, Restrict, Put
  <2>2. QED
    BY <1>2, <2>1 DEF RemoveKey
<1>5. QED
  BY <1>2, <1>3, <1>4 DEF DropIfEmpty, With

\* What a read_typed answers, when a missing key's answer is that of an
\* empty collection.
LEMMA ReadingSettled ==
  ASSUME NEW V, NEW k, NEW ty, NEW missing, NEW found
  PROVE  /\ ~FitsType(V, k, ty) => Reading(V, k, ty, missing, found) = Result(V, WrongType, << >>)
         /\ FitsType(V, k, ty) =>
              Reading(V, k, ty, missing, found)
                = IF k \in DOMAIN V.values THEN found ELSE missing
BY DEF FitsType, Reading

LEMMA DELSettled ==
  ASSUME NEW V, NEW k, NEW t \in Int, Settled(V, t)
  PROVE  /\ k \in DOMAIN V.values =>
              DEL(V, k, t) = Result(RemoveKey(V, k), Integer(1), <<Record("DEL", k, << >>)>>)
         /\ k \notin DOMAIN V.values =>
              DEL(V, k, t) = Result(RemoveKey(V, k), Integer(0), << >>)
BY SettledStays DEF DEL, Bit

LEMMA PUSHRefused ==
  ASSUME NEW verb, NEW V, NEW k, NEW e, NEW t \in Int, Settled(V, t), ~FitsType(V, k, "list")
  PROVE  PUSH(verb, V, k, e, t) = Result(V, WrongType, << >>)
BY MadeSettled DEF PUSH, Made, Writing

LEMMA PUSHSettled ==
  ASSUME NEW verb, NEW V, NEW k, NEW e, NEW t \in Int, Settled(V, t), FitsType(V, k, "list")
  PROVE  LET new == PushedOn(verb, Content(V, k, "list"), e)
         IN  PUSH(verb, V, k, e, t) = Result(Assign(V, k, Typed("list", new)),
                                             Integer(Len(new)), <<Record(verb, k, <<e>>)>>)
BY MadeSettled DEF PUSH, Made, Writing, PushedOn

LEMMA POPSettled ==
  ASSUME NEW verb, NEW V, NEW k, NEW t \in Int, Settled(V, t)
  PROVE  /\ ~FitsType(V, k, "list") => POP(verb, V, k, t) = Result(V, WrongType, << >>)
         /\ FitsType(V, k, "list") /\ Content(V, k, "list") = << >> =>
              POP(verb, V, k, t) = Result(V, NullBulkString, << >>)
         /\ FitsType(V, k, "list") /\ Content(V, k, "list") # << >> =>
              POP(verb, V, k, t)
                = Result(With(V, k, Typed("list", PopRest(verb, Content(V, k, "list")))),
                         BulkString(PopOut(verb, Content(V, k, "list"))),
                         <<Record(verb, k, << >>)>>)
<1>1. Fresh("list") = << >>
  BY DEF Fresh
<1>2. QED
  BY <1>1, SettledStays, ReadingSettled, RemovalSettled DEF POP, Content, PopRest, PopOut

LEMMA HSETSettled ==
  ASSUME NEW V, NEW k, NEW field, NEW e, NEW t \in Int, Settled(V, t)
  PROVE  /\ ~FitsType(V, k, "hash") => HSET(V, k, field, e, t) = Result(V, WrongType, << >>)
         /\ FitsType(V, k, "hash") =>
              HSET(V, k, field, e, t)
                = Result(Assign(V, k, Typed("hash", Put(Content(V, k, "hash"), field, e))),
                         Bit(field \notin DOMAIN Content(V, k, "hash")),
                         <<Record("HSET", k, <<field, e>>)>>)
BY MadeSettled DEF HSET, Made, Writing

LEMMA HDELSettled ==
  ASSUME NEW V, NEW k, NEW field, NEW t \in Int, Settled(V, t)
  PROVE  /\ ~FitsType(V, k, "hash") => HDEL(V, k, field, t) = Result(V, WrongType, << >>)
         /\ FitsType(V, k, "hash") /\ field \notin DOMAIN Content(V, k, "hash") =>
              HDEL(V, k, field, t) = Result(V, Integer(0), << >>)
         /\ FitsType(V, k, "hash") /\ field \in DOMAIN Content(V, k, "hash") =>
              HDEL(V, k, field, t)
                = Result(With(V, k, Typed("hash", Drop(Content(V, k, "hash"), field))),
                         Integer(1), <<Record("HDEL", k, <<field>>)>>)
<1>1. DOMAIN Fresh("hash") = {}
  BY EmptyFnDomain DEF Fresh
<1>2. QED
  BY <1>1, SettledStays, ReadingSettled, RemovalSettled DEF HDEL, Content

LEMMA SADDSettled ==
  ASSUME NEW V, NEW k, NEW e, NEW t \in Int, Settled(V, t)
  PROVE  /\ ~FitsType(V, k, "set") => SADD(V, k, e, t) = Result(V, WrongType, << >>)
         /\ FitsType(V, k, "set") =>
              SADD(V, k, e, t)
                = Result(Assign(V, k, Typed("set", Content(V, k, "set") \cup {e})),
                         Bit(e \notin Content(V, k, "set")),
                         IF e \notin Content(V, k, "set")
                           THEN <<Record("SADD", k, <<e>>)>> ELSE << >>)
<1> DEFINE made == Made(V, k, "set", t)
           set  == Content(V, k, "set")
<1>1. SADD(V, k, e, t)
        = Writing(made, k, "set",
                  Result(Assign(made, k, Typed("set", made.values[k].val \cup {e})),
                         Bit(e \notin made.values[k].val),
                         IF e \notin made.values[k].val
                           THEN <<Record("SADD", k, <<e>>)>> ELSE << >>))
  BY DEF SADD, Made
<1>2. /\ FitsType(V, k, "set") =>
           /\ made.values[k].type = "set"
           /\ made.values[k].val = set
           /\ \A v : Assign(made, k, v) = Assign(V, k, v)
      /\ ~FitsType(V, k, "set") => made = V /\ V.values[k].type # "set"
  BY MadeSettled
<1> HIDE DEF made, set
<1>3. QED
  BY <1>1, <1>2 DEF Writing, set

LEMMA SREMSettled ==
  ASSUME NEW V, NEW k, NEW e, NEW t \in Int, Settled(V, t)
  PROVE  /\ ~FitsType(V, k, "set") => SREM(V, k, e, t) = Result(V, WrongType, << >>)
         /\ FitsType(V, k, "set") /\ e \notin Content(V, k, "set") =>
              SREM(V, k, e, t) = Result(V, Integer(0), << >>)
         /\ FitsType(V, k, "set") /\ e \in Content(V, k, "set") =>
              SREM(V, k, e, t)
                = Result(With(V, k, Typed("set", Content(V, k, "set") \ {e})),
                         Integer(1), <<Record("SREM", k, <<e>>)>>)
<1> DEFINE set   == V.values[k].val
           none  == Result(V, Integer(0), << >>)
           found == Result(With(V, k, Typed("set", set \ {e})),
                           Integer(1), <<Record("SREM", k, <<e>>)>>)
<1>1. SREM(V, k, e, t) = Reading(V, k, "set", none, IF e \in set THEN found ELSE none)
  BY SettledStays, RemovalSettled DEF SREM
<1>2. CASE k \notin DOMAIN V.values
  <2>1. Content(V, k, "set") = {}
    BY <1>2 DEF Content, Fresh
  <2> HIDE DEF none, found
  <2>2. QED
    BY <1>1, <1>2, <2>1, ReadingSettled DEF none, FitsType
<1>3. CASE k \in DOMAIN V.values
  <2>1. Content(V, k, "set") = set
    BY <1>3 DEF Content
  <2>2. found = Result(With(V, k, Typed("set", Content(V, k, "set") \ {e})),
                       Integer(1), <<Record("SREM", k, <<e>>)>>)
    BY <2>1
  <2> HIDE DEF none, found, set
  <2>3. /\ ~FitsType(V, k, "set") => SREM(V, k, e, t) = Result(V, WrongType, << >>)
        /\ FitsType(V, k, "set") /\ e \notin set => SREM(V, k, e, t) = none
        /\ FitsType(V, k, "set") /\ e \in set => SREM(V, k, e, t) = found
    BY <1>1, <1>3, ReadingSettled
  <2>4. QED
    BY <2>1, <2>2, <2>3 DEF none
<1>4. QED
  BY <1>2, <1>3

-----------------------------------------------------------------------------
(* The log: on a Store with nothing to sweep, a command records what changes *)
(* it and nothing else.                                                      *)

\* SET, HSET and EXPIRE overwrite without comparing.
Overwrites == {"SET", "HSET", "EXPIRE"}

Logged(result, V) ==
  /\ result.records = << >> => result.store = V
  /\ \A r \in Range(result.records) : r.verb \in Overwrites \/ result.store # V

LEMMA QuietResult ==
  ASSUME NEW st, NEW rep
  PROVE  Logged(Result(st, rep, << >>), st)
BY DEF Logged, Result, Range

LEMMA LoggedResult ==
  ASSUME NEW st, NEW rep, NEW V, NEW r, r.verb \in Overwrites \/ st # V
  PROVE  Logged(Result(st, rep, <<r>>), V)
BY DEF Logged, Result, Range

LEMMA ContentValue ==
  ASSUME NEW V, NEW k, NEW ty, NEW t, Settled(V, t), k \in DOMAIN V.values, FitsType(V, k, ty)
  PROVE  V.values[k] = Typed(ty, Content(V, k, ty)) /\ V.values[k] \in Value
<1>1. V.values[k] \in Value
  BY WellFormedFacts DEF Settled, IsPartialFn
<1>2. V.values[k] = Typed(V.values[k].type, V.values[k].val)
  BY <1>1 DEF Value, StringValue, ListValue, HashValue, SetValue, Typed
<1>3. QED
  BY <1>1, <1>2 DEF FitsType, Content

LEMMA ContentTypes ==
  ASSUME NEW V, NEW k, NEW t, Settled(V, t)
  PROVE  /\ FitsType(V, k, "list") => Content(V, k, "list") \in Seq(Elem)
         /\ FitsType(V, k, "hash") => IsPartialFn(Content(V, k, "hash"), Elem, Elem)
         /\ FitsType(V, k, "set") => Content(V, k, "set") \in SUBSET Elem
<1>1. CASE k \in DOMAIN V.values
  <2>1. V.values[k] \in Value
    BY <1>1, WellFormedFacts DEF Settled, IsPartialFn
  <2>2. FitsType(V, k, "list") => Content(V, k, "list") \in Seq(Elem)
    BY <1>1, <2>1, ValueTypes DEF FitsType, Content
  <2>3. FitsType(V, k, "hash") => IsPartialFn(Content(V, k, "hash"), Elem, Elem)
    BY <1>1, <2>1, ValueTypes DEF FitsType, Content
  <2>4. FitsType(V, k, "set") => Content(V, k, "set") \in SUBSET Elem
    BY <1>1, <2>1, ValueTypes DEF FitsType, Content
  <2>5. QED
    BY <2>2, <2>3, <2>4
<1>2. CASE k \notin DOMAIN V.values
  <2>1. /\ Content(V, k, "list") = << >>
        /\ Content(V, k, "hash") = EmptyFn
        /\ Content(V, k, "set") = {}
    BY <1>2 DEF Content, Fresh
  <2>2. << >> \in Seq(Elem) /\ IsPartialFn(EmptyFn, Elem, Elem) /\ {} \in SUBSET Elem
    BY EmptyFnType
  <2>3. QED
    BY <2>1, <2>2
<1>3. QED
  BY <1>1, <1>2

\* Storing what is there already changes nothing, and only that.
LEMMA AssignChanges ==
  ASSUME NEW V, NEW k, NEW v, NEW t, Settled(V, t)
  PROVE  Assign(V, k, v) = V <=> k \in DOMAIN V.values /\ V.values[k] = v
<1>1. /\ V = [values |-> V.values, expirations |-> V.expirations]
      /\ V.values = [x \in DOMAIN V.values |-> V.values[x]]
  BY WellFormedFacts DEF Settled, IsPartialFn
<1>2. Assign(V, k, v) = [values |-> Put(V.values, k, v), expirations |-> V.expirations]
  BY <1>1 DEF Assign
<1>3. k \in DOMAIN Put(V.values, k, v) /\ Put(V.values, k, v)[k] = v
  BY DEF Put
<1>4. k \in DOMAIN V.values /\ V.values[k] = v => Put(V.values, k, v) = V.values
  BY <1>1 DEF Put
<1>5. QED
  BY <1>1, <1>2, <1>3, <1>4

LEMMA RemoveKeyChanges ==
  ASSUME NEW V, NEW k, NEW t, Settled(V, t)
  PROVE  RemoveKey(V, k) = V <=> k \notin DOMAIN V.values
<1>1. /\ V = [values |-> V.values, expirations |-> V.expirations]
      /\ V.values = [x \in DOMAIN V.values |-> V.values[x]]
      /\ V.expirations = [x \in DOMAIN V.expirations |-> V.expirations[x]]
      /\ DOMAIN V.expirations \subseteq DOMAIN V.values
  BY WellFormedFacts DEF Settled, IsPartialFn, NoOrphan
<1>2. k \notin DOMAIN RemoveKey(V, k).values
  BY DropDomain DEF RemoveKey
<1>3. ASSUME k \notin DOMAIN V.values
      PROVE  RemoveKey(V, k) = V
  <2>1. DOMAIN V.values \ {k} = DOMAIN V.values /\ DOMAIN V.expirations \ {k} = DOMAIN V.expirations
    BY <1>1, <1>3
  <2>2. Drop(V.values, k) = V.values /\ Drop(V.expirations, k) = V.expirations
    BY <1>1, <2>1, RestrictionAll DEF Drop
  <2>3. QED
    BY <1>1, <2>2 DEF RemoveKey
<1>4. QED
  BY <1>2, <1>3

\* A collection that is given other elements is another collection.
LEMMA WithChanges ==
  ASSUME NEW V, NEW k, NEW ty, NEW new, NEW t, Settled(V, t),
         k \in DOMAIN V.values, FitsType(V, k, ty), new # Content(V, k, ty)
  PROVE  With(V, k, Typed(ty, new)) # V
<1>1. V.values[k] = Typed(ty, Content(V, k, ty))
  BY ContentValue
<1>2. V.values[k] # Typed(ty, new)
  BY <1>1 DEF Typed
<1>3. QED
  BY <1>2, AssignChanges, RemoveKeyChanges DEF With

LEMMA DELLogged ==
  ASSUME NEW V, NEW k, NEW t \in Int, Settled(V, t)
  PROVE  Logged(DEL(V, k, t), V)
<1>1. CASE k \in DOMAIN V.values
  <2>1. RemoveKey(V, k) # V
    BY <1>1, RemoveKeyChanges
  <2>2. DEL(V, k, t) = Result(RemoveKey(V, k), Integer(1), <<Record("DEL", k, << >>)>>)
    BY <1>1, DELSettled
  <2>3. QED
    BY <2>1, <2>2, LoggedResult
<1>2. CASE k \notin DOMAIN V.values
  <2>1. RemoveKey(V, k) = V
    BY <1>2, RemoveKeyChanges
  <2>2. DEL(V, k, t) = Result(RemoveKey(V, k), Integer(0), << >>)
    BY <1>2, DELSettled
  <2>3. QED
    BY <2>1, <2>2, QuietResult
<1>3. QED
  BY <1>1, <1>2

LEMMA PUSHLogged ==
  ASSUME NEW verb, NEW V, NEW k, NEW e \in Elem, NEW t \in Int, Settled(V, t)
  PROVE  Logged(PUSH(verb, V, k, e, t), V)
<1> DEFINE list == Content(V, k, "list")
           new  == PushedOn(verb, list, e)
           r    == Record(verb, k, <<e>>)
<1>1. CASE ~FitsType(V, k, "list")
  BY <1>1, PUSHRefused, QuietResult
<1>2. CASE FitsType(V, k, "list")
  <2>1. list \in Seq(Elem)
    BY <1>2, ContentTypes
  <2>2. new # list
    <3> HIDE DEF list
    <3>1. Len(<<e>> \o list) = 1 + Len(list) /\ Len(Append(list, e)) = 1 + Len(list)
      BY <2>1
    <3>2. Len(list) \in Nat
      BY <2>1
    <3>3. QED
      BY <3>1, <3>2 DEF PushedOn
  <2>3. PUSH(verb, V, k, e, t) = Result(Assign(V, k, Typed("list", new)), Integer(Len(new)), <<r>>)
    BY <1>2, PUSHSettled
  <2>4. k \in DOMAIN V.values => V.values[k] = Typed("list", list)
    BY <1>2, ContentValue
  <2> HIDE DEF list, new, r
  <2>5. k \in DOMAIN V.values => V.values[k] # Typed("list", new)
    BY <2>2, <2>4 DEF Typed
  <2>6. Assign(V, k, Typed("list", new)) # V
    BY <2>5, AssignChanges
  <2>7. QED
    BY <2>3, <2>6, LoggedResult
<1>3. QED
  BY <1>1, <1>2

LEMMA PrefixLength ==
  ASSUME NEW S, NEW s \in Seq(S), Len(s) # 0
  PROVE  Len(SubSeq(s, 1, Len(s) - 1)) = Len(s) - 1
<1> DEFINE n == Len(s) - 1
<1>1. n \in Nat /\ \A i \in 1 .. n : s[i] \in S
  OBVIOUS
<1> HIDE DEF n
<1>2. Len(SubSeq(s, 1, n)) = IF 1 <= n THEN n - 1 + 1 ELSE 0
  BY <1>1, SubSeqProperties
<1>3. Len(SubSeq(s, 1, n)) = n
  BY <1>1, <1>2
<1>4. QED
  BY <1>3 DEF n

LEMMA POPLogged ==
  ASSUME NEW verb, NEW V, NEW k, NEW t \in Int, Settled(V, t)
  PROVE  Logged(POP(verb, V, k, t), V)
<1> DEFINE list == Content(V, k, "list")
           rest == PopRest(verb, list)
           r    == Record(verb, k, << >>)
<1>1. CASE ~FitsType(V, k, "list")
  BY <1>1, POPSettled, QuietResult
<1>2. CASE FitsType(V, k, "list") /\ list = << >>
  BY <1>2, POPSettled, QuietResult
<1>3. CASE FitsType(V, k, "list") /\ list # << >>
  <2>1. list \in Seq(Elem)
    BY <1>3, ContentTypes
  <2>2. k \in DOMAIN V.values
    BY <1>3 DEF Content, Fresh
  <2>3. rest # list
    <3> HIDE DEF list
    <3>1. Len(list) \in Nat \ {0}
      BY <1>3, <2>1
    <3>2. Len(Tail(list)) = Len(list) - 1
      BY <2>1, <3>1
    <3>3. Len(SubSeq(list, 1, Len(list) - 1)) = Len(list) - 1
      BY <2>1, <3>1, PrefixLength
    <3>4. Tail(list) # list
      <4> DEFINE tail == Tail(list)
      <4>1. Len(tail) = Len(list) - 1
        BY <3>2
      <4> HIDE DEF tail
      <4>2. tail # list
        BY <3>1, <4>1
      <4>3. QED
        BY <4>2 DEF tail
    <3>5. SubSeq(list, 1, Len(list) - 1) # list
      BY <3>1, <3>3
    <3>6. QED
      BY <3>4, <3>5 DEF PopRest
  <2>4. POP(verb, V, k, t)
          = Result(With(V, k, Typed("list", rest)), BulkString(PopOut(verb, list)), <<r>>)
    BY <1>3, POPSettled
  <2> HIDE DEF rest, r
  <2>5. With(V, k, Typed("list", rest)) # V
    BY <1>3, <2>2, <2>3, WithChanges
  <2>6. QED
    BY <2>4, <2>5, LoggedResult
<1>4. QED
  BY <1>1, <1>2, <1>3

LEMMA HSETLogged ==
  ASSUME NEW V, NEW k, NEW field, NEW e, NEW t \in Int, Settled(V, t)
  PROVE  Logged(HSET(V, k, field, e, t), V)
<1> DEFINE new == Assign(V, k, Typed("hash", Put(Content(V, k, "hash"), field, e)))
           bit == Bit(field \notin DOMAIN Content(V, k, "hash"))
           r   == Record("HSET", k, <<field, e>>)
<1>1. CASE ~FitsType(V, k, "hash")
  <2>1. HSET(V, k, field, e, t) = Result(V, WrongType, << >>)
    BY <1>1, HSETSettled
  <2>2. QED
    BY <2>1, QuietResult
<1>2. CASE FitsType(V, k, "hash")
  <2>1. HSET(V, k, field, e, t) = Result(new, bit, <<r>>)
    BY <1>2, HSETSettled
  <2>2. r.verb \in Overwrites
    BY DEF Record, Overwrites
  <2> HIDE DEF new, bit, r
  <2>3. QED
    BY <2>1, <2>2, LoggedResult
<1>3. QED
  BY <1>1, <1>2

LEMMA HDELLogged ==
  ASSUME NEW V, NEW k, NEW field, NEW t \in Int, Settled(V, t)
  PROVE  Logged(HDEL(V, k, field, t), V)
<1> DEFINE hash == Content(V, k, "hash")
           rest == Drop(hash, field)
           r    == Record("HDEL", k, <<field>>)
<1>1. CASE ~FitsType(V, k, "hash")
  BY <1>1, HDELSettled, QuietResult
<1>2. CASE FitsType(V, k, "hash") /\ field \notin DOMAIN hash
  BY <1>2, HDELSettled, QuietResult
<1>3. CASE FitsType(V, k, "hash") /\ field \in DOMAIN hash
  <2>1. HDEL(V, k, field, t) = Result(With(V, k, Typed("hash", rest)), Integer(1), <<r>>)
    BY <1>3, HDELSettled
  <2>2. k \in DOMAIN V.values
    BY <1>3, EmptyFnDomain DEF Content, Fresh
  <2>3. rest # hash
    BY <1>3, DropDomain
  <2> HIDE DEF rest, r
  <2>4. With(V, k, Typed("hash", rest)) # V
    BY <1>3, <2>2, <2>3, WithChanges
  <2>5. QED
    BY <2>1, <2>4, LoggedResult
<1>4. QED
  BY <1>1, <1>2, <1>3

LEMMA SADDLogged ==
  ASSUME NEW V, NEW k, NEW e, NEW t \in Int, Settled(V, t)
  PROVE  Logged(SADD(V, k, e, t), V)
<1> DEFINE set == Content(V, k, "set")
           new == set \cup {e}
           r   == Record("SADD", k, <<e>>)
<1>1. CASE ~FitsType(V, k, "set")
  <2>1. SADD(V, k, e, t) = Result(V, WrongType, << >>)
    BY <1>1, SADDSettled
  <2>2. QED
    BY <2>1, QuietResult
<1>2. CASE FitsType(V, k, "set") /\ e \in set
  <2>1. SADD(V, k, e, t) = Result(Assign(V, k, Typed("set", new)), Bit(e \notin set), << >>)
    BY <1>2, SADDSettled
  <2>2. new = set
    BY <1>2
  <2>3. k \in DOMAIN V.values
    BY <1>2 DEF Content, Fresh
  <2>4. V.values[k] = Typed("set", set)
    BY <1>2, <2>3, ContentValue
  <2>5. Assign(V, k, Typed("set", new)) = V
    BY <2>2, <2>3, <2>4, AssignChanges
  <2>6. QED
    BY <2>1, <2>5, QuietResult
<1>3. CASE FitsType(V, k, "set") /\ e \notin set
  <2>1. SADD(V, k, e, t) = Result(Assign(V, k, Typed("set", new)), Bit(e \notin set), <<r>>)
    BY <1>3, SADDSettled
  <2>2. new # set
    BY <1>3
  <2>3. k \in DOMAIN V.values => V.values[k] = Typed("set", set)
    BY <1>3, ContentValue
  <2> HIDE DEF new, set, r
  <2>4. Assign(V, k, Typed("set", new)) # V
    BY <2>2, <2>3, AssignChanges DEF Typed
  <2>5. QED
    BY <2>1, <2>4, LoggedResult
<1>4. QED
  BY <1>1, <1>2, <1>3

LEMMA SREMLogged ==
  ASSUME NEW V, NEW k, NEW e, NEW t \in Int, Settled(V, t)
  PROVE  Logged(SREM(V, k, e, t), V)
<1> DEFINE set  == Content(V, k, "set")
           rest == set \ {e}
           r    == Record("SREM", k, <<e>>)
<1>1. CASE ~FitsType(V, k, "set")
  <2>1. SREM(V, k, e, t) = Result(V, WrongType, << >>)
    BY <1>1, SREMSettled
  <2>2. QED
    BY <2>1, QuietResult
<1>2. CASE FitsType(V, k, "set") /\ e \notin set
  <2>1. SREM(V, k, e, t) = Result(V, Integer(0), << >>)
    BY <1>2, SREMSettled
  <2>2. QED
    BY <2>1, QuietResult
<1>3. CASE FitsType(V, k, "set") /\ e \in set
  <2>1. SREM(V, k, e, t) = Result(With(V, k, Typed("set", rest)), Integer(1), <<r>>)
    BY <1>3, SREMSettled
  <2>2. k \in DOMAIN V.values
    BY <1>3 DEF Content, Fresh
  <2>3. rest # set
    BY <1>3
  <2> HIDE DEF rest, r
  <2>4. With(V, k, Typed("set", rest)) # V
    BY <1>3, <2>2, <2>3, WithChanges
  <2>5. QED
    BY <2>1, <2>4, LoggedResult
<1>4. QED
  BY <1>1, <1>2, <1>3

LEMMA SETLogged ==
  ASSUME NEW V, NEW k, NEW e
  PROVE  Logged(SET(V, k, e), V)
BY LoggedResult DEF SET, Overwrites, Record

\* EXPIRE with no time left is logged as the DEL it is.
LEMMA EXPIRELogged ==
  ASSUME NEW V, NEW k, NEW seconds \in Int, NEW t \in Int, NEW u \in Int, NEW w, Settled(V, u)
  PROVE  LET result == EXPIRE(V, k, seconds, t, u, w)
         IN  /\ result.records = << >> => result.store = V
             /\ LogsDeadline(result) =>
                  result.records # << >> /\ \A r \in Range(result.records) : r.verb \in Overwrites
             /\ \A r \in Range(result.records) :
                  \/ r.verb \in Overwrites
                  \/ result.store = RemoveKey(V, k) /\ result.store # V
<1> DEFINE result == EXPIRE(V, k, seconds, t, u, w)
           new == [V EXCEPT !.expirations = Put(V.expirations, k, t + seconds * TicksPerSecond)]
           r   == Record("EXPIRE", k, <<UnixSeconds(w) + seconds>>)
           del == Record("DEL", k, << >>)
<1>1. ExpireIfDue(V, k, u) = V
  BY SettledStays
<1>2. MaxSeconds(t) \in Int
  BY ClockAssumption DEF MaxSeconds
<1>3. CASE seconds > MaxSeconds(t)
  <2>1. result = Result(V, NotAnInteger, << >>)
    BY <1>2, <1>3 DEF EXPIRE
  <2>2. QED
    BY <2>1 DEF Result, Range, LogsDeadline
<1>4. CASE seconds <= MaxSeconds(t) /\ k \notin DOMAIN V.values
  <2>1. result = Result(V, Integer(0), << >>)
    BY <1>1, <1>2, <1>4 DEF EXPIRE
  <2>2. QED
    BY <2>1 DEF Result, Range, LogsDeadline
<1>5. CASE seconds <= MaxSeconds(t) /\ k \in DOMAIN V.values /\ seconds <= 0
  <2>1. RemoveKey(V, k) # V
    BY <1>5, RemoveKeyChanges
  <2>2. result = Result(RemoveKey(V, k), Integer(1), <<del>>)
    BY <1>1, <1>2, <1>5 DEF EXPIRE
  <2>3. del.verb # "EXPIRE"
    BY DEF Record
  <2> HIDE DEF result, del
  <2>4. result.records = <<del>> /\ result.store = RemoveKey(V, k)
    BY <2>2 DEF Result
  <2>5. ~LogsDeadline(result)
    BY <2>3, <2>4 DEF LogsDeadline, Range
  <2>6. QED
    BY <2>1, <2>4, <2>5 DEF result
<1>6. CASE seconds <= MaxSeconds(t) /\ k \in DOMAIN V.values /\ seconds > 0
  <2>1. result = Result(new, Integer(1), <<r>>)
    BY <1>1, <1>2, <1>6 DEF EXPIRE
  <2>2. r.verb \in Overwrites
    BY DEF Record, Overwrites
  <2> HIDE DEF result, new, r
  <2>3. result.records = <<r>>
    BY <2>1 DEF Result
  <2>4. QED
    BY <2>2, <2>3 DEF Range, result
<1>7. QED
  BY <1>2, <1>3, <1>4, <1>5, <1>6

LEMMA ReadingLogged ==
  ASSUME NEW V, NEW k, NEW ty, NEW rep1, NEW rep2
  PROVE  Logged(Reading(V, k, ty, Result(V, rep1, << >>), Result(V, rep2, << >>)), V)
BY QuietResult, ReadingSettled

LEMMA QueriesLogged ==
  ASSUME NEW V, NEW k, NEW e, NEW start, NEW stop, NEW t \in Int, NEW u, Settled(V, t)
  PROVE  /\ Logged(TTL(V, k, t, u), V)
         /\ Logged(GET(V, k, t), V)
         /\ Logged(LLEN(V, k, t), V)
         /\ Logged(LRANGE(V, k, start, stop, t), V)
         /\ Logged(HEXISTS(V, k, e, t), V)
         /\ Logged(HLEN(V, k, t), V)
         /\ Logged(SISMEMBER(V, k, e, t), V)
         /\ Logged(SCARD(V, k, t), V)
         /\ Logged(SMEMBERS(V, k, t), V)
         /\ Logged(HGET(V, k, e, t), V)
<1>1. ExpireIfDue(V, k, t) = V
  BY SettledStays
<1>2. Logged(TTL(V, k, t, u), V)
  BY <1>1, QuietResult DEF TTL
<1>3. Logged(GET(V, k, t), V) /\ Logged(LLEN(V, k, t), V) /\ Logged(LRANGE(V, k, start, stop, t), V)
  BY <1>1, ReadingLogged DEF GET, LLEN, LRANGE
<1>4. Logged(HEXISTS(V, k, e, t), V) /\ Logged(HLEN(V, k, t), V)
  BY <1>1, ReadingLogged DEF HEXISTS, HLEN
<1>5. /\ Logged(SISMEMBER(V, k, e, t), V) /\ Logged(SCARD(V, k, t), V)
      /\ Logged(SMEMBERS(V, k, t), V)
  BY <1>1, ReadingLogged DEF SISMEMBER, SCARD, SMEMBERS
<1>6. Logged(HGET(V, k, e, t), V)
  BY <1>1, QuietResult, ReadingSettled DEF HGET
<1>7. QED
  BY <1>2, <1>3, <1>4, <1>5, <1>6

-----------------------------------------------------------------------------
(* Every step of the keyspace *)

StepLogged ==
  /\ records' = << >> => Visible(store', now') = Visible(store, now')
  /\ \A r \in Range(records') :
       r.verb \in Overwrites \/ Visible(store', now') # Visible(store, now')

LEMMA RunLogged ==
  ASSUME NEW req, NEW result, NEW seen, Run(req, result),
         SeenAs(result, seen, now), Logged(seen, Visible(store, now))
  PROVE  StepLogged
BY DEF Run, Apply, SeenAs, Logged, StepLogged

LEMMA ExpireLogged ==
  ASSUME Inv, NEW k \in Key, NEW secs \in Seconds,
         NEW gap1 \in 0 .. MaxGap, NEW gap2 \in 0 .. MaxGap, Expire(k, secs, gap1, gap2)
  PROVE  StepLogged
<1> DEFINE u     == now + gap1
           w     == now + gap1 + gap2
           lazy  == EXPIRE(store, k, secs, now, u, w)
           V     == Visible(store, u)
           eager == EXPIRE(V, k, secs, now, u, w)
<1>1. secs \in Int /\ now \in Int /\ u \in Int
  BY KeyspaceAssumption DEF Inv
<1>2. /\ Visible(lazy.store, u) = Visible(eager.store, u)
      /\ lazy.records = eager.records
  BY <1>1, EXPIRESeen DEF Inv
<1>3. Settled(V, u)
  BY <1>1, VisibleSettled DEF Inv
<1>4. /\ eager.records = << >> => eager.store = V
      /\ LogsDeadline(eager) =>
           eager.records # << >> /\ \A r \in Range(eager.records) : r.verb \in Overwrites
      /\ \A r \in Range(eager.records) :
           \/ r.verb \in Overwrites
           \/ eager.store = RemoveKey(V, k) /\ eager.store # V
  BY <1>1, <1>3, EXPIRELogged
<1>5. Visible(V, u) = V
  BY <1>1, <1>3, SettledStays
<1>6. eager.store = RemoveKey(V, k) => Visible(eager.store, u) = eager.store
  BY <1>5, RemoveKeyCommutes
<1>7. /\ store' = lazy.store /\ records' = lazy.records /\ now' = now + (gap1 + gap2)
      /\ gap2 > 0 => LogsDeadline(lazy)
  BY DEF Expire, RunFor, Apply
<1>8. LogsDeadline(lazy) => LogsDeadline(eager)
  BY <1>2 DEF LogsDeadline
<1>9. ~(gap2 > 0) => now' = u
  BY <1>1, <1>7, KeyspaceAssumption
<1> HIDE DEF u, w, lazy, eager, V
<1>10. CASE LogsDeadline(lazy)
  BY <1>2, <1>4, <1>7, <1>8, <1>10 DEF StepLogged
<1>11. CASE now' = u
  BY <1>2, <1>4, <1>5, <1>6, <1>7, <1>11 DEF StepLogged, V
<1>12. QED
  BY <1>7, <1>9, <1>10, <1>11

LEMMA TtlLogged ==
  ASSUME Inv, NEW k, NEW gap \in 0 .. MaxGap, Ttl(k, gap)
  PROVE  StepLogged
<1> DEFINE u     == now + gap
           lazy  == TTL(store, k, now, u)
           V     == Visible(store, now)
<1>1. now \in Int /\ u \in Int /\ now <= u
  BY KeyspaceAssumption DEF Inv
<1>2. Visible(lazy.store, now) = V /\ lazy.records = << >>
  <2>1. SeenAs(lazy, TTL(V, k, now, u), now) /\ ExpireIfDue(V, k, now) = V
    BY <1>1, TTLSeen, VisibleSettled, SettledStays DEF Inv
  <2>2. TTL(V, k, now, u).store = V /\ TTL(V, k, now, u).records = << >>
    BY <2>1 DEF TTL, Result
  <2>3. QED
    BY <2>1, <2>2 DEF SeenAs
<1>3. WellFormed(store) /\ WellFormed(lazy.store)
  BY TTLSound DEF Inv, Sound
<1>4. Visible(lazy.store, u) = Visible(store, u)
  BY <1>1, <1>2, <1>3, VisibleAtLater
<1>5. store' = lazy.store /\ records' = lazy.records /\ now' = u
  BY DEF Ttl, RunFor, Apply
<1>6. QED
  BY <1>2, <1>4, <1>5 DEF StepLogged, Range

LEMMA WriteLogged ==
  ASSUME Inv, Write
  PROVE  StepLogged
<1> DEFINE V == Visible(store, now)
<1>1. WellFormed(store) /\ now \in Int /\ Settled(V, now)
  BY KeyspaceAssumption, VisibleSettled DEF Inv
<1> HIDE DEF V
<1>2. ASSUME NEW k \in Key, Del(k)
      PROVE  StepLogged
  BY <1>1, <1>2, DELSeen, DELLogged, RunLogged DEF Del, V
<1>3. ASSUME NEW k \in Key, NEW secs \in Seconds, NEW gap1 \in 0 .. MaxGap, NEW gap2 \in 0 .. MaxGap,
             Expire(k, secs, gap1, gap2)
      PROVE  StepLogged
  BY <1>3, ExpireLogged
<1>4. ASSUME NEW k \in Key, NEW verb, Pop(verb, k)
      PROVE  StepLogged
  BY <1>1, <1>4, POPSeen, POPLogged, RunLogged DEF Pop, V
<1>5. ASSUME NEW k \in Key, NEW e \in Elem, Set(k, e)
      PROVE  StepLogged
  BY <1>1, <1>5, SETSeen, SETLogged, RunLogged DEF Set, V
<1>6. ASSUME NEW k \in Key, NEW e \in Elem, NEW verb, Push(verb, k, e)
      PROVE  StepLogged
  BY <1>1, <1>6, PUSHSeen, PUSHLogged, RunLogged DEF Push, V
<1>7. ASSUME NEW k \in Key, NEW e \in Elem, NEW field \in Elem, Hset(k, field, e)
      PROVE  StepLogged
  BY <1>1, <1>7, HSETSeen, HSETLogged, RunLogged DEF Hset, V
<1>8. ASSUME NEW k \in Key, NEW e \in Elem, Hdel(k, e)
      PROVE  StepLogged
  BY <1>1, <1>8, HDELSeen, HDELLogged, RunLogged DEF Hdel, V
<1>9. ASSUME NEW k \in Key, NEW e \in Elem, Sadd(k, e)
      PROVE  StepLogged
  BY <1>1, <1>9, SADDSeen, SADDLogged, RunLogged DEF Sadd, V
<1>10. ASSUME NEW k \in Key, NEW e \in Elem, Srem(k, e)
       PROVE  StepLogged
  BY <1>1, <1>10, SREMSeen, SREMLogged, RunLogged DEF Srem, V
<1>11. QED
  BY <1>2, <1>3, <1>4, <1>5, <1>6, <1>7, <1>8, <1>9, <1>10 DEF Write

LEMMA ReadLogged ==
  ASSUME Inv, Read
  PROVE  StepLogged
<1> DEFINE V == Visible(store, now)
<1>1. WellFormed(store) /\ now \in Int /\ Settled(V, now)
  BY KeyspaceAssumption, VisibleSettled DEF Inv
<1> HIDE DEF V
<1>2. ASSUME NEW why, Ping \/ Reject(why)
      PROVE  StepLogged
  <2>1. store' = store /\ now' = now /\ records' = << >>
    BY <1>2 DEF Ping, Reject, Run, Apply, PING, REJECT, Result
  <2>2. QED
    BY <2>1 DEF StepLogged, Range
<1>3. ASSUME NEW k \in Key, NEW gap \in 0 .. MaxGap, Ttl(k, gap)
      PROVE  StepLogged
  BY <1>3, TtlLogged
<1>4. ASSUME NEW k \in Key, Get(k)
      PROVE  StepLogged
  BY <1>1, <1>4, GETSeen, QueriesLogged, RunLogged DEF Get, V
<1>5. ASSUME NEW k \in Key, Llen(k)
      PROVE  StepLogged
  BY <1>1, <1>5, LLENSeen, QueriesLogged, RunLogged DEF Llen, V
<1>6. ASSUME NEW k \in Key, NEW start, NEW stop, Lrange(k, start, stop)
      PROVE  StepLogged
  BY <1>1, <1>6, LRANGESeen, QueriesLogged, RunLogged DEF Lrange, V
<1>7. ASSUME NEW k \in Key, Hlen(k)
      PROVE  StepLogged
  BY <1>1, <1>7, HLENSeen, QueriesLogged, RunLogged DEF Hlen, V
<1>8. ASSUME NEW k \in Key, Scard(k) \/ Smembers(k)
      PROVE  StepLogged
  BY <1>1, <1>8, SetQueriesSeen, QueriesLogged, RunLogged DEF Scard, Smembers, V
<1>9. ASSUME NEW k \in Key, NEW e \in Elem, Hget(k, e)
      PROVE  StepLogged
  BY <1>1, <1>9, HGETSeen, QueriesLogged, RunLogged DEF Hget, V
<1>10. ASSUME NEW k \in Key, NEW e \in Elem, Hexists(k, e)
       PROVE  StepLogged
  BY <1>1, <1>10, HEXISTSSeen, QueriesLogged, RunLogged DEF Hexists, V
<1>11. ASSUME NEW k \in Key, NEW e \in Elem, Sismember(k, e)
       PROVE  StepLogged
  BY <1>1, <1>11, SetQueriesSeen, QueriesLogged, RunLogged DEF Sismember, V
<1>12. QED
  BY <1>2, <1>3, <1>4, <1>5, <1>6, <1>7, <1>8, <1>9, <1>10, <1>11 DEF Read

LEMMA NextLogged ==
  ASSUME Inv, Next
  PROVE  StepLogged
<1>1. CASE Tick
  BY <1>1 DEF Tick, StepLogged, Range
<1>2. QED
  BY <1>1, WriteLogged, ReadLogged DEF Next

\* Whatever a command changes that a client could see, its record is appended:
\* every branch of execute_command that changes the Store ends in log_command
\* or log_expire, and a sweep that is not logged was due anyway.
THEOREM EveryChangeIsLogged == Spec => ChangesAreLogged
<1>1. ASSUME Inv, [Next]_keyspaceVars
      PROVE  [records' = << >> => Visible(store', now') = Visible(store, now')]_keyspaceVars
  BY <1>1, NextLogged DEF StepLogged
<1>2. QED
  BY <1>1, Invariance, PTL DEF Spec, ChangesAreLogged

\* A pop, DEL, HDEL, SADD or SREM that found nothing to do is not recorded.
THEOREM EveryRecordIsAChange == Spec => NoOpsAreNotLogged
<1>1. ASSUME Inv, [Next]_keyspaceVars
      PROVE  [\A r \in Range(records') :
                \/ r.verb \in {"SET", "HSET", "EXPIRE"}
                \/ Visible(store', now') # Visible(store, now')]_keyspaceVars
  BY <1>1, NextLogged DEF StepLogged, Overwrites
<1>2. QED
  BY <1>1, Invariance, PTL DEF Spec, NoOpsAreNotLogged

-----------------------------------------------------------------------------
(* Replaying a step's record *)

\* The same under k, whatever its deadline.
SameAt(st1, st2, k) ==
  /\ k \in DOMAIN st1.values <=> k \in DOMAIN st2.values
  /\ k \in DOMAIN st1.values => st1.values[k] = st2.values[k]
  /\ k \in DOMAIN st1.expirations <=> k \in DOMAIN st2.expirations

\* st2 is st after something happened to k that gave no key a deadline.
Touches(st, st2, k) ==
  /\ st2 = [values |-> st2.values, expirations |-> st2.expirations]
  /\ \A x : x # k => SameAt(st, st2, x)
  /\ \A x \in DOMAIN st2.expirations :
       x \in DOMAIN st.expirations /\ st2.expirations[x] = st.expirations[x]

LEMMA TouchesNothing ==
  ASSUME NEW st, NEW k, st = [values |-> st.values, expirations |-> st.expirations]
  PROVE  Touches(st, st, k)
BY DEF Touches, SameAt

LEMMA TouchesInTurn ==
  ASSUME NEW st1, NEW st2, NEW st3, NEW k, Touches(st1, st2, k), Touches(st2, st3, k)
  PROVE  Touches(st1, st3, k)
BY DEF Touches, SameAt

LEMMA RemoveKeyTouches ==
  ASSUME NEW st, NEW k
  PROVE  Touches(st, RemoveKey(st, k), k)
BY DEF Touches, SameAt, RemoveKey, Drop, Restrict

LEMMA ExpireIfDueTouches ==
  ASSUME NEW st, NEW k, NEW t, st = [values |-> st.values, expirations |-> st.expirations]
  PROVE  Touches(st, ExpireIfDue(st, k, t), k)
BY TouchesNothing, RemoveKeyTouches DEF ExpireIfDue

Reproduces(result, st, u) ==
  \A r \in Range(result.records), k \in Key :
    \/ k = r.key /\ (PastTheClock(r, u) \/ Overtaken(r, st, u))
    \/ Agree(Replay(r, st, u, u, u), result.store, k)

LEMMA AgreeSelf ==
  ASSUME NEW st, NEW k, WellFormed(st)
  PROVE  Agree(st, st, k)
<1>1. k \in DOMAIN st.expirations => st.expirations[k] \in Int
  BY WellFormedFacts DEF IsPartialFn
<1>2. TicksPerSecond + 3 * MaxGap \in Nat \ {0}
  BY ClockAssumption, KeyspaceAssumption
<1>3. QED
  BY <1>1, <1>2, ClockAssumption, KeyspaceAssumption DEF Agree

\* The records of a result are r, if any.
Records(result, r) == \A x \in Range(result.records) : x = r

LEMMA RecordsResult ==
  ASSUME NEW st, NEW rep, NEW r
  PROVE  Records(Result(st, rep, << >>), r) /\ Records(Result(st, rep, <<r>>), r)
BY DEF Records, Result, Range

LEMMA RecordsReading ==
  ASSUME NEW st, NEW k, NEW ty, NEW missing, NEW found, NEW r,
         Records(missing, r), Records(found, r)
  PROVE  Records(Reading(st, k, ty, missing, found), r)
<1>1. Records(Result(st, WrongType, << >>), r)
  BY RecordsResult
<1>2. QED
  BY <1>1 DEF Reading

LEMMA RecordsWriting ==
  ASSUME NEW st, NEW k, NEW ty, NEW found, NEW r, Records(found, r)
  PROVE  Records(Writing(st, k, ty, found), r)
BY RecordsResult DEF Writing

\* Every record but EXPIRE's names the command itself.
LEMMA SameAgain ==
  ASSUME NEW result, NEW st, NEW u, NEW r, Sound(result), Records(result, r),
         Replay(r, st, u, u, u) = result.store
  PROVE  Reproduces(result, st, u)
BY AgreeSelf DEF Reproduces, Sound, Records

LEMMA RecordFields ==
  ASSUME NEW verb, NEW k, NEW args
  PROVE  LET r == Record(verb, k, args) IN r.verb = verb /\ r.key = k /\ r.args = args
BY DEF Record

LEMMA DELReproduces ==
  ASSUME NEW st, NEW k \in Key, NEW u, WellFormed(st)
  PROVE  Reproduces(DEL(st, k, u), st, u)
<1> DEFINE r == Record("DEL", k, << >>)
<1>1. Sound(DEL(st, k, u))
  BY DELSound
<1>2. Records(DEL(st, k, u), r)
  BY RecordsResult DEF DEL
<1>3. Replay(r, st, u, u, u) = DEL(st, k, u).store
  BY RecordFields DEF Replay
<1>4. QED
  BY <1>1, <1>2, <1>3, SameAgain

LEMMA SETReproduces ==
  ASSUME NEW st, NEW k \in Key, NEW e \in Elem, NEW u, WellFormed(st)
  PROVE  Reproduces(SET(st, k, e), st, u)
<1> DEFINE r == Record("SET", k, <<e>>)
<1>1. Sound(SET(st, k, e))
  BY SETSound
<1>2. Records(SET(st, k, e), r)
  BY RecordsResult DEF SET
<1>3. Replay(r, st, u, u, u) = SET(st, k, e).store
  BY RecordFields DEF Replay
<1>4. QED
  BY <1>1, <1>2, <1>3, SameAgain

LEMMA PUSHReproduces ==
  ASSUME NEW verb \in {"LPUSH", "RPUSH"}, NEW st, NEW k \in Key, NEW e \in Elem, NEW u, WellFormed(st)
  PROVE  Reproduces(PUSH(verb, st, k, e, u), st, u)
<1> DEFINE r == Record(verb, k, <<e>>)
<1>1. Sound(PUSH(verb, st, k, e, u))
  BY PUSHSound
<1>2. Records(PUSH(verb, st, k, e, u), r)
  BY RecordsResult, RecordsWriting DEF PUSH
<1>3. Replay(r, st, u, u, u) = PUSH(verb, st, k, e, u).store
  BY RecordFields DEF Replay
<1>4. QED
  BY <1>1, <1>2, <1>3, SameAgain

LEMMA POPReproduces ==
  ASSUME NEW verb \in {"LPOP", "RPOP"}, NEW st, NEW k \in Key, NEW u, WellFormed(st)
  PROVE  Reproduces(POP(verb, st, k, u), st, u)
<1> DEFINE r == Record(verb, k, << >>)
<1>1. Sound(POP(verb, st, k, u))
  BY POPSound
<1>2. Records(POP(verb, st, k, u), r)
  BY RecordsResult, RecordsReading DEF POP
<1>3. Replay(r, st, u, u, u) = POP(verb, st, k, u).store
  BY RecordFields DEF Replay
<1>4. QED
  BY <1>1, <1>2, <1>3, SameAgain

LEMMA HSETReproduces ==
  ASSUME NEW st, NEW k \in Key, NEW f \in Elem, NEW e \in Elem, NEW u, WellFormed(st)
  PROVE  Reproduces(HSET(st, k, f, e, u), st, u)
<1> DEFINE r == Record("HSET", k, <<f, e>>)
<1>1. Sound(HSET(st, k, f, e, u))
  BY HSETSound
<1>2. Records(HSET(st, k, f, e, u), r)
  BY RecordsResult, RecordsWriting DEF HSET
<1>3. Replay(r, st, u, u, u) = HSET(st, k, f, e, u).store
  BY RecordFields DEF Replay
<1>4. QED
  BY <1>1, <1>2, <1>3, SameAgain

LEMMA HDELReproduces ==
  ASSUME NEW st, NEW k \in Key, NEW f, NEW u, WellFormed(st)
  PROVE  Reproduces(HDEL(st, k, f, u), st, u)
<1> DEFINE r == Record("HDEL", k, <<f>>)
<1>1. Sound(HDEL(st, k, f, u))
  BY HDELSound
<1>2. Records(HDEL(st, k, f, u), r)
  BY RecordsResult, RecordsReading DEF HDEL
<1>3. Replay(r, st, u, u, u) = HDEL(st, k, f, u).store
  BY RecordFields DEF Replay
<1>4. QED
  BY <1>1, <1>2, <1>3, SameAgain

LEMMA SADDReproduces ==
  ASSUME NEW st, NEW k \in Key, NEW e \in Elem, NEW u, WellFormed(st)
  PROVE  Reproduces(SADD(st, k, e, u), st, u)
<1> DEFINE r == Record("SADD", k, <<e>>)
<1>1. Sound(SADD(st, k, e, u))
  BY SADDSound
<1>2. Records(SADD(st, k, e, u), r)
  BY RecordsResult, RecordsWriting DEF SADD
<1>3. Replay(r, st, u, u, u) = SADD(st, k, e, u).store
  BY RecordFields DEF Replay
<1>4. QED
  BY <1>1, <1>2, <1>3, SameAgain

LEMMA SREMReproduces ==
  ASSUME NEW st, NEW k \in Key, NEW e, NEW u, WellFormed(st)
  PROVE  Reproduces(SREM(st, k, e, u), st, u)
<1> DEFINE r == Record("SREM", k, <<e>>)
<1>1. Sound(SREM(st, k, e, u))
  BY SREMSound
<1>2. Records(SREM(st, k, e, u), r)
  BY RecordsResult, RecordsReading DEF SREM
<1>3. Replay(r, st, u, u, u) = SREM(st, k, e, u).store
  BY RecordFields DEF Replay
<1>4. QED
  BY <1>1, <1>2, <1>3, SameAgain

\* Two deadlines of one key, no further apart than a gap between readings.
LEMMA DeadlinesAgree ==
  ASSUME NEW st, NEW k, NEW d1 \in Int, NEW d2 \in Int, NEW x, WellFormed(st),
         d1 - d2 <= 2 * MaxGap, d2 - d1 <= 2 * MaxGap
  PROVE  Agree([st EXCEPT !.expirations = Put(st.expirations, k, d1)],
               [st EXCEPT !.expirations = Put(st.expirations, k, d2)], x)
<1> DEFINE l1 == Put(st.expirations, k, d1)
           l2 == Put(st.expirations, k, d2)
           s1 == [st EXCEPT !.expirations = l1]
           s2 == [st EXCEPT !.expirations = l2]
<1>1. st = [values |-> st.values, expirations |-> st.expirations]
  BY WellFormedFacts
<1>2. /\ s1.values = st.values /\ s1.expirations = l1
      /\ s2.values = st.values /\ s2.expirations = l2
  BY <1>1
<1>3. \A y \in DOMAIN st.expirations : st.expirations[y] \in Int
  BY WellFormedFacts DEF IsPartialFn
<1>4. DOMAIN l1 = DOMAIN st.expirations \cup {k} /\ DOMAIN l2 = DOMAIN st.expirations \cup {k}
  BY PutDomain
<1>5. \A y \in DOMAIN st.expirations \cup {k} :
        /\ l1[y] = IF y = k THEN d1 ELSE st.expirations[y]
        /\ l2[y] = IF y = k THEN d2 ELSE st.expirations[y]
  BY PutValue
<1>6. TicksPerSecond \in Nat \ {0} /\ MaxGap \in Nat
  BY ClockAssumption, KeyspaceAssumption
<1> HIDE DEF l1, l2, s1, s2
<1>7. ASSUME x \in DOMAIN l1
      PROVE  /\ l1[x] < l2[x] + TicksPerSecond + 3 * MaxGap
             /\ l2[x] < l1[x] + TicksPerSecond + 3 * MaxGap
  BY <1>3, <1>4, <1>5, <1>6, <1>7
<1>8. Agree(s1, s2, x)
  BY <1>2, <1>4, <1>7 DEF Agree
<1>9. QED
  BY <1>8 DEF s1, s2, l1, l2

LEMMA UnixSecondsInt ==
  ASSUME NEW t \in Int
  PROVE  UnixSeconds(t) \in Int
BY ClockAssumption DEF UnixSeconds

\* But for the key it names, EXPIRE leaves everything as it was.
Elsewhere(st, st2, k) ==
  \A x : x # k =>
    /\ x \in DOMAIN st2.values <=> x \in DOMAIN st.values
    /\ x \in DOMAIN st2.values => st2.values[x] = st.values[x]
    /\ x \in DOMAIN st2.expirations <=> x \in DOMAIN st.expirations
    /\ x \in DOMAIN st2.expirations => st2.expirations[x] = st.expirations[x]

LEMMA EXPIREElsewhere ==
  ASSUME NEW st, NEW k, NEW seconds \in Int, NEW t \in Int, NEW u, NEW w, WellFormed(st)
  PROVE  Elsewhere(st, EXPIRE(st, k, seconds, t, u, w).store, k)
<1> DEFINE s   == ExpireIfDue(st, k, u)
           d   == t + seconds * TicksPerSecond
           new == [s EXCEPT !.expirations = Put(s.expirations, k, d)]
           st2 == EXPIRE(st, k, seconds, t, u, w).store
<1>1. MaxSeconds(t) \in Int
  BY ClockAssumption DEF MaxSeconds
<1>2. s = st \/ s = RemoveKey(st, k)
  BY DEF ExpireIfDue
<1>3. WellFormed(s)
  BY ExpireIfDueWellFormed
<1>4. s = [values |-> s.values, expirations |-> s.expirations]
  BY <1>3, WellFormedFacts
<1>5. \A x : Elsewhere(x, x, k) /\ Elsewhere(x, RemoveKey(x, k), k)
  BY DEF Elsewhere, RemoveKey, Drop, Restrict
<1> HIDE DEF s, d
<1>6. Elsewhere(st, s, k)
  BY <1>2, <1>5
<1>7. new.values = s.values /\ new.expirations = Put(s.expirations, k, d)
  BY <1>4
<1> HIDE DEF new
<1>8. Elsewhere(s, new, k)
  BY <1>7 DEF Elsewhere, Put
<1>9. Elsewhere(st, RemoveKey(s, k), k) /\ Elsewhere(st, new, k)
  BY <1>5, <1>6, <1>8 DEF Elsewhere
<1>10. st2 = st \/ st2 = s \/ st2 = RemoveKey(s, k) \/ st2 = new
  <2>1. CASE seconds > MaxSeconds(t)
    BY <1>1, <2>1 DEF EXPIRE, Result
  <2>2. CASE seconds <= MaxSeconds(t) /\ k \notin DOMAIN s.values
    BY <1>1, <2>2 DEF EXPIRE, Result, s
  <2>3. CASE seconds <= MaxSeconds(t) /\ k \in DOMAIN s.values /\ seconds <= 0
    BY <1>1, <2>3 DEF EXPIRE, Result, s
  <2>4. CASE seconds <= MaxSeconds(t) /\ k \in DOMAIN s.values /\ seconds > 0
    BY <1>1, <2>4 DEF EXPIRE, Result, s, new, d
  <2>5. QED
    BY <1>1, <2>1, <2>2, <2>3, <2>4
<1>11. QED
  BY <1>5, <1>6, <1>9, <1>10

LEMMA ElsewhereAgrees ==
  ASSUME NEW st, NEW st1, NEW st2, NEW k, NEW x, x # k, WellFormed(st),
         Elsewhere(st, st1, k), Elsewhere(st, st2, k)
  PROVE  Agree(st1, st2, x)
<1>1. Agree(st, st, x)
  BY AgreeSelf
<1>2. QED
  BY <1>1 DEF Agree, Elsewhere

\* What EXPIRE logs at w, replayed at w: the deadline counts from w, and not
\* from t, and if the key is due at w, and was not at u, it is lost.
LEMMA ExpireReproduces ==
  ASSUME NEW st, NEW k \in Key, NEW seconds \in Int,
         NEW t \in Nat, NEW u \in Nat, NEW w \in Nat, WellFormed(st),
         t <= u, u <= w, w - t <= 2 * MaxGap,
         LogsDeadline(EXPIRE(st, k, seconds, t, u, w)) \/ u = w
  PROVE  Reproduces(EXPIRE(st, k, seconds, t, u, w), st, w)
<1> DEFINE s      == ExpireIfDue(st, k, u)
           result == EXPIRE(st, k, seconds, t, u, w)
           r      == Record("EXPIRE", k, <<UnixSeconds(w) + seconds>>)
           del    == Record("DEL", k, << >>)
           d1     == w + seconds * TicksPerSecond
           d2     == t + seconds * TicksPerSecond
<1>1. MaxSeconds(t) \in Int /\ MaxSeconds(w) \in Int /\ UnixSeconds(w) \in Int
  BY ClockAssumption, UnixSecondsInt DEF MaxSeconds
<1>2. WellFormed(s)
  BY ExpireIfDueWellFormed
<1>3. CASE seconds > MaxSeconds(t)
  <2>1. result = Result(st, NotAnInteger, << >>)
    BY <1>1, <1>3 DEF EXPIRE
  <2>2. QED
    BY <2>1 DEF Reproduces, Result, Range
<1>4. CASE seconds <= MaxSeconds(t) /\ k \notin DOMAIN s.values
  <2>1. result = Result(s, Integer(0), << >>)
    BY <1>1, <1>4 DEF EXPIRE
  <2>2. QED
    BY <2>1 DEF Reproduces, Result, Range
<1>5. CASE seconds <= MaxSeconds(t) /\ k \in DOMAIN s.values /\ seconds <= 0
  <2>1. result = Result(RemoveKey(s, k), Integer(1), <<del>>)
    BY <1>1, <1>5 DEF EXPIRE
  <2>2. del.verb # "EXPIRE" /\ Replay(del, st, u, u, u) = RemoveKey(s, k)
    BY RecordFields DEF Replay, DEL, Result
  <2> HIDE DEF s, del
  <2>3. result.records = <<del>> /\ result.store = RemoveKey(s, k)
    BY <2>1 DEF Result
  <2> HIDE DEF result
  <2>4. ~LogsDeadline(result)
    BY <2>2, <2>3 DEF LogsDeadline, Range
  <2>5. Records(result, del)
    BY <2>3 DEF Records, Range
  <2>6. Sound(result)
    BY EXPIRESound DEF result
  <2>7. Reproduces(result, st, u)
    BY <2>2, <2>3, <2>5, <2>6, SameAgain
  <2>8. QED
    BY <2>4, <2>7 DEF result
<1>6. CASE seconds <= MaxSeconds(t) /\ k \in DOMAIN s.values /\ seconds > 0
  <2>1. result = Result([s EXCEPT !.expirations = Put(s.expirations, k, d2)], Integer(1), <<r>>)
    BY <1>1, <1>6 DEF EXPIRE
  <2>2. r.verb = "EXPIRE" /\ r.key = k /\ r.args[1] - UnixSeconds(w) = seconds
    BY <1>1 DEF Record
  <2>3. Replay(r, st, w, w, w) = EXPIRE(st, k, seconds, w, w, w).store
    BY <1>6, <2>2 DEF Replay, ReplayExpire
  <2>4. ASSUME ~Due(st, k, w)
        PROVE  s = st /\ ExpireIfDue(st, k, w) = st
    <3>1. k \in DOMAIN st.expirations => st.expirations[k] \in Int
      BY WellFormedFacts DEF Deadlines
    <3>2. ~Due(st, k, u)
      BY <2>4, <3>1 DEF Due
    <3>3. QED
      BY <2>4, <3>2 DEF ExpireIfDue
  <2>5. ASSUME seconds <= MaxSeconds(w), ~Due(st, k, w)
        PROVE  Replay(r, st, w, w, w) = [s EXCEPT !.expirations = Put(s.expirations, k, d1)]
    <3>1. ExpireIfDue(st, k, w) = s
      BY <2>4, <2>5
    <3>2. QED
      BY <1>1, <1>6, <2>3, <2>5, <3>1 DEF EXPIRE, Result
  <2>6. d1 \in Int /\ d2 \in Int /\ d1 - d2 = w - t
    BY ClockAssumption
  <2>7. d1 - d2 <= 2 * MaxGap /\ d2 - d1 <= 2 * MaxGap
    BY <2>6, KeyspaceAssumption
  <2> HIDE DEF s, r, d1, d2
  <2>8. Records(result, r) /\ result.store = [s EXCEPT !.expirations = Put(s.expirations, k, d2)]
    <3>1. Records(result, r)
      BY <2>1, RecordsResult
    <3>2. result.store = [s EXCEPT !.expirations = Put(s.expirations, k, d2)]
      BY <2>1 DEF Result
    <3>3. QED
      BY <3>1, <3>2
  <2>9. ASSUME NEW x, seconds <= MaxSeconds(w), ~Due(st, k, w)
        PROVE  Agree(Replay(r, st, w, w, w), result.store, x)
    <3>1. Agree([s EXCEPT !.expirations = Put(s.expirations, k, d1)],
                [s EXCEPT !.expirations = Put(s.expirations, k, d2)], x)
      BY <1>2, <2>6, <2>7, DeadlinesAgree
    <3>2. QED
      BY <2>5, <2>8, <2>9, <3>1
  <2>10. seconds > MaxSeconds(w) => PastTheClock(r, w)
    BY <2>2 DEF PastTheClock
  <2>11. Due(st, k, w) => Overtaken(r, st, w)
    BY <2>2 DEF Overtaken
  <2>12. ASSUME NEW x, x # k
         PROVE  Agree(Replay(r, st, w, w, w), result.store, x)
    BY <2>3, <2>12, EXPIREElsewhere, ElsewhereAgrees
  <2> HIDE DEF result
  <2>13. ASSUME NEW x
         PROVE  \/ x = r.key /\ (PastTheClock(r, w) \/ Overtaken(r, st, w))
                \/ Agree(Replay(r, st, w, w, w), result.store, x)
    BY <1>1, <2>2, <2>9, <2>10, <2>11, <2>12
  <2>14. Reproduces(result, st, w)
    BY <2>8, <2>13 DEF Reproduces, Records
  <2>15. QED
    BY <2>14 DEF result
<1>7. QED
  BY <1>1, <1>3, <1>4, <1>5, <1>6

\* No record is appended that would not, replayed where the command ran, do
\* what the command did: but to the key of an EXPIRE that only just fitted the
\* clock, or whose old deadline came between its sweep and its record.
THEOREM RecordsSuffice == Spec => RecordsReproduceSteps
<1> DEFINE Step == \A r \in Range(records'), k \in Key :
                     \/ k = r.key /\ (PastTheClock(r, now') \/ Overtaken(r, store, now'))
                     \/ Agree(Replay(r, store, now', now', now'), store', k)
<1>1. ASSUME NEW req, NEW result, Run(req, result), Reproduces(result, store, now)
      PROVE  Step
  BY <1>1 DEF Run, Apply, Reproduces
<1>2. ASSUME Inv, Write
      PROVE  Step
  <2>1. WellFormed(store) /\ now \in Nat
    BY <1>2, KeyspaceAssumption DEF Inv
  <2> HIDE DEF Step
  <2>2. ASSUME NEW k \in Key, Del(k)
        PROVE  Step
    BY <1>1, <2>1, <2>2, DELReproduces DEF Del
  <2>3. ASSUME NEW k \in Key, NEW secs \in Seconds, NEW gap1 \in 0 .. MaxGap, NEW gap2 \in 0 .. MaxGap,
               Expire(k, secs, gap1, gap2)
        PROVE  Step
    <3> DEFINE u == now + gap1
               w == now + gap1 + gap2
               result == EXPIRE(store, k, secs, now, u, w)
    <3>1. /\ secs \in Int /\ u \in Nat /\ w \in Nat /\ w = now + (gap1 + gap2)
          /\ now <= u /\ u <= w /\ w - now <= 2 * MaxGap
          /\ ~(gap2 > 0) => u = w
      BY <2>1, KeyspaceAssumption
    <3>2. /\ store' = result.store /\ records' = result.records /\ now' = now + (gap1 + gap2)
          /\ gap2 > 0 => LogsDeadline(result)
      BY <2>3 DEF Expire, RunFor, Apply
    <3>3. now' = w
      BY <3>1, <3>2
    <3> HIDE DEF u, w
    <3>4. Reproduces(result, store, w)
      BY <2>1, <3>1, <3>2, ExpireReproduces
    <3>5. QED
      BY <3>2, <3>3, <3>4 DEF Reproduces, Step
  <2>4. ASSUME NEW k \in Key, NEW verb \in {"LPOP", "RPOP"}, Pop(verb, k)
        PROVE  Step
    BY <1>1, <2>1, <2>4, POPReproduces DEF Pop
  <2>5. ASSUME NEW k \in Key, NEW e \in Elem, Set(k, e)
        PROVE  Step
    BY <1>1, <2>1, <2>5, SETReproduces DEF Set
  <2>6. ASSUME NEW k \in Key, NEW e \in Elem, NEW verb \in {"LPUSH", "RPUSH"}, Push(verb, k, e)
        PROVE  Step
    BY <1>1, <2>1, <2>6, PUSHReproduces DEF Push
  <2>7. ASSUME NEW k \in Key, NEW e \in Elem, NEW field \in Elem, Hset(k, field, e)
        PROVE  Step
    BY <1>1, <2>1, <2>7, HSETReproduces DEF Hset
  <2>8. ASSUME NEW k \in Key, NEW e \in Elem, Hdel(k, e)
        PROVE  Step
    BY <1>1, <2>1, <2>8, HDELReproduces DEF Hdel
  <2>9. ASSUME NEW k \in Key, NEW e \in Elem, Sadd(k, e)
        PROVE  Step
    BY <1>1, <2>1, <2>9, SADDReproduces DEF Sadd
  <2>10. ASSUME NEW k \in Key, NEW e \in Elem, Srem(k, e)
         PROVE  Step
    BY <1>1, <2>1, <2>10, SREMReproduces DEF Srem
  <2>11. QED
    BY <1>2, <2>2, <2>3, <2>4, <2>5, <2>6, <2>7, <2>8, <2>9, <2>10 DEF Write
<1>3. ASSUME Tick
      PROVE  Step
  BY <1>3 DEF Tick, Range
<1>4. ASSUME Read
      PROVE  Step
  BY <1>4, ReadAppendsNothing DEF Range
<1> HIDE DEF Step
<1>5. Inv /\ [Next]_keyspaceVars => Step \/ UNCHANGED keyspaceVars
  BY <1>2, <1>3, <1>4 DEF Next
<1>6. Inv /\ [Next]_keyspaceVars =>
        [\A r \in Range(records'), k \in Key :
            \/ k = r.key /\ (PastTheClock(r, now') \/ Overtaken(r, store, now'))
            \/ Agree(Replay(r, store, now', now', now'), store', k)
          ]_keyspaceVars
  BY <1>5 DEF Step
<1>7. QED
  BY <1>6, Invariance, PTL DEF Spec, RecordsReproduceSteps

-----------------------------------------------------------------------------
(* Keyspace implements EagerStore: what clients see of the lazy Store       *)
(* behaves, step by step, as a store that forgets each key at the tick of   *)
(* its deadline and has no empty collections to drop.  The contents.        *)

\* EagerStore's operators on partial functions and values are the same ones.
LEMMA SameOperators ==
  /\ \A f, k, v : Eager!Put(f, k, v) = Put(f, k, v)
  /\ \A f, k : Eager!Drop(f, k) = Drop(f, k)
  /\ \A v : Eager!IsEmptyCollection(v) <=> IsEmptyCollection(v)
  /\ \A ty, x : Eager!Typed(ty, x) = Typed(ty, x)
  /\ Eager!EmptyFn = EmptyFn
BY DEF Eager!Put, Eager!Drop, Eager!IsEmptyCollection, Eager!Typed, Eager!EmptyFn,
       Put, Drop, IsEmptyCollection, Typed, EmptyFn, Eager!Restrict, Restrict

\* And its replies.
LEMMA SameReplies ==
  /\ \A x : Eager!SimpleString(x) = SimpleString(x)
  /\ \A x : Eager!Integer(x) = Integer(x)
  /\ \A x : Eager!BulkString(x) = BulkString(x)
  /\ \A x : Eager!Array(x) = Array(x)
  /\ Eager!NullBulkString = NullBulkString
  /\ Eager!OK = OK /\ Eager!WrongType = WrongType
  /\ Eager!NotAnInteger = NotAnInteger /\ Eager!BadRequest = BadRequest
BY DEF SimpleString, Integer, BulkString, Array, NullBulkString, OK, WrongType, NotAnInteger,
       BadRequest, Error, Eager!SimpleString, Eager!Integer, Eager!BulkString, Eager!Array,
       Eager!NullBulkString, Eager!OK, Eager!WrongType, Eager!NotAnInteger, Eager!BadRequest,
       Eager!Error

LEMMA SameBit == ASSUME NEW b PROVE Eager!Bit(b) = Bit(b)
BY SameReplies DEF Bit, Eager!Bit

LEMMA SameCardinality == ASSUME NEW S PROVE Eager!Cardinality(S) = Cardinality(S)
BY DEF Eager!Cardinality, Cardinality

\* What clients see.
Seen == Visible(store, now)

\* A collection, missing or not, is the same to both.
LEMMA SameContent ==
  ASSUME NEW k
  PROVE  /\ Eager!AsList(k) = Content(Seen, k, "list")
         /\ Eager!AsHash(k) = Content(Seen, k, "hash")
         /\ Eager!AsSet(k) = Content(Seen, k, "set")
         /\ Eager!Exists(k) <=> k \in DOMAIN Seen.values
BY SameOperators DEF Eager!AsList, Eager!AsHash, Eager!AsSet, Eager!Exists, Content, Fresh, Seen

LEMMA SameFit ==
  ASSUME NEW k, NEW ty
  PROVE  Eager!Fits(k, ty) <=> FitsType(Seen, k, ty)
BY DEF Eager!Fits, Eager!Exists, FitsType, Seen

-----------------------------------------------------------------------------
(* Steps *)

\* The command req is answered rep at one instant, and clients now see W.
Turns(req, W, rep) == /\ Visible(store', now') = W
                      /\ now' = now
                      /\ request' = req
                      /\ reply' = rep

\* A command does what it would on a Store with nothing to sweep.
LEMMA RunTurns ==
  ASSUME NEW req, NEW result, NEW seen, NEW W, NEW rep, NEW recs,
         Run(req, result), SeenAs(result, seen, now), seen = Result(W, rep, recs)
  PROVE  Turns(req, W, rep)
BY DEF Run, Apply, SeenAs, Result, Turns

LEMMA SeenSettled == Inv => Settled(Seen, now) /\ now \in Int
BY VisibleSettled, KeyspaceAssumption DEF Inv, Seen

\* The eager store holds what is left of d and l at t.
LEMMA HoldLater ==
  ASSUME NEW d, NEW l, NEW t, Visible(store', now') = Later(d, l, t), now' = t
  PROVE  Eager!Hold(d, l, t)
BY DEF Eager!Hold, Later, Gone, Eager!Restrict, Restrict

LEMMA HoldSettled ==
  ASSUME NEW req, NEW W, NEW rep, Turns(req, W, rep), now \in Int, Settled(W, now)
  PROVE  Eager!Hold(W.values, W.expirations, now)
<1>1. IsStore(W) /\ Deadlines(W.expirations) /\ NothingDue(W.expirations, now)
  BY WellFormedFacts DEF Settled
<1>2. Later(W.values, W.expirations, now) = W
  BY <1>1, LaterNothing DEF IsStore, IsPartialFn
<1>3. QED
  BY <1>2, HoldLater DEF Turns

LEMMA TurnsKeep ==
  ASSUME NEW req, NEW rep, Turns(req, Seen, rep)
  PROVE  Eager!Keep /\ Eager!Asked(req) /\ Eager!Answer(rep)
BY DEF Turns, Seen, Eager!Keep, Eager!Asked, Eager!Answer

LEMMA TurnsAnswer ==
  ASSUME NEW req, NEW W, NEW rep, Turns(req, W, rep)
  PROVE  Eager!Asked(req) /\ Eager!Answer(rep)
BY DEF Turns, Eager!Asked, Eager!Answer

LEMMA TurnsAssign ==
  ASSUME Inv, NEW req, NEW rep, NEW k \in Key, NEW v \in Value, ~IsEmptyCollection(v),
         Turns(req, Assign(Seen, k, v), rep)
  PROVE  Eager!Hold(Put(Seen.values, k, v), Seen.expirations, now)
<1> DEFINE W == Assign(Seen, k, v)
<1>1. Settled(Seen, now) /\ now \in Int
  BY SeenSettled
<1>2. WellFormed(W)
  BY <1>1, WellFormedNearly, AssignWellFormed DEF Settled
<1>3. W.values = Put(Seen.values, k, v) /\ W.expirations = Seen.expirations
  BY <1>1, WellFormedFacts DEF Assign, Settled, IsStore
<1>4. Settled(W, now)
  BY <1>1, <1>2, <1>3 DEF Settled
<1>5. QED
  BY <1>1, <1>3, <1>4, HoldSettled

LEMMA TurnsRemove ==
  ASSUME Inv, NEW req, NEW rep, NEW k, Turns(req, RemoveKey(Seen, k), rep)
  PROVE  Eager!Forget(k)
<1> DEFINE W == RemoveKey(Seen, k)
<1>1. Settled(Seen, now) /\ now \in Int
  BY SeenSettled
<1>2. WellFormed(W)
  BY <1>1, WellFormedNearly, RemoveKeyWellFormed DEF Settled
<1>3. W.values = Drop(Seen.values, k) /\ W.expirations = Drop(Seen.expirations, k)
  BY DEF RemoveKey
<1>4. Settled(W, now)
  BY <1>1, <1>2, <1>3 DEF Settled, NothingDue, Drop, Restrict
<1>5. Eager!Hold(Drop(Seen.values, k), Drop(Seen.expirations, k), now)
  BY <1>1, <1>3, <1>4, HoldSettled
<1>6. QED
  BY <1>5, SameOperators DEF Eager!Forget, Seen

\* A collection is assigned, or goes if nothing is left of it.
LEMMA TurnsBecome ==
  ASSUME Inv, NEW req, NEW rep, NEW k \in Key, NEW v \in Value, Turns(req, With(Seen, k, v), rep)
  PROVE  Eager!Become(k, v)
<1>1. CASE IsEmptyCollection(v)
  BY <1>1, TurnsRemove, SameOperators DEF With, Eager!Become
<1>2. CASE ~IsEmptyCollection(v)
  BY <1>2, TurnsAssign, SameOperators DEF With, Eager!Become, Seen
<1>3. QED
  BY <1>1, <1>2

-----------------------------------------------------------------------------
(* Commands that fit any type *)

LEMMA DelEager ==
  ASSUME Inv, NEW k \in Key, Del(k)
  PROVE  Eager!Asked(<<"DEL", k>>) /\ Eager!Del(k)
<1>1. Settled(Seen, now) /\ now \in Int
  BY SeenSettled
<1>2. SeenAs(DEL(store, k, now), DEL(Seen, k, now), now)
  BY <1>1, DELSeen DEF Inv, Seen
<1>3. CASE k \in DOMAIN Seen.values
  <2>1. DEL(Seen, k, now) = Result(RemoveKey(Seen, k), Integer(1), <<Record("DEL", k, << >>)>>)
    BY <1>1, <1>3, DELSettled
  <2>2. Turns(<<"DEL", k>>, RemoveKey(Seen, k), Integer(1))
    BY <1>2, <2>1, RunTurns DEF Del
  <2>3. QED
    BY <1>3, <2>2, TurnsRemove, TurnsAnswer, SameContent, SameBit DEF Bit, Eager!Del
<1>4. CASE k \notin DOMAIN Seen.values
  <2>1. DEL(Seen, k, now) = Result(RemoveKey(Seen, k), Integer(0), << >>)
    BY <1>1, <1>4, DELSettled
  <2>2. Turns(<<"DEL", k>>, RemoveKey(Seen, k), Integer(0))
    BY <1>2, <2>1, RunTurns DEF Del
  <2>3. QED
    BY <1>4, <2>2, TurnsRemove, TurnsAnswer, SameContent, SameBit DEF Bit, Eager!Del
<1>5. QED
  BY <1>3, <1>4

LEMMA SetEager ==
  ASSUME Inv, NEW k \in Key, NEW e \in Elem, Set(k, e)
  PROVE  Eager!Asked(<<"SET", k, e>>) /\ Eager!Set(k, e)
<1> DEFINE v == Typed("string", e)
           W == SET(Seen, k, e).store
<1>1. Settled(Seen, now) /\ now \in Int
  BY SeenSettled
<1>2. SeenAs(SET(store, k, e), SET(Seen, k, e), now)
  BY <1>1, SETSeen DEF Inv, Seen
<1>3. W.values = Put(Seen.values, k, v) /\ W.expirations = Drop(Seen.expirations, k)
  BY DEF SET, Result
<1>4. Turns(<<"SET", k, e>>, W, OK)
  BY <1>2, RunTurns DEF SET, Set, Result
<1>5. WellFormed(W)
  BY <1>1, SETSound DEF Settled, Sound
<1>6. Settled(W, now)
  BY <1>1, <1>3, <1>5 DEF Settled, NothingDue, Drop, Restrict
<1>7. Eager!Hold(Put(Seen.values, k, v), Drop(Seen.expirations, k), now)
  BY <1>1, <1>3, <1>4, <1>6, HoldSettled
<1>8. QED
  BY <1>4, <1>7, TurnsAnswer, SameOperators, SameReplies DEF Eager!Set, Seen

\* A query of one type keeps everything, and answers on what clients see.
LEMMA QueryTurns ==
  ASSUME NEW req, NEW result, NEW k, NEW ty, NEW missing, NEW found, Run(req, result),
         SeenAs(result, Reading(Seen, k, ty, Result(Seen, missing, << >>),
                                             Result(Seen, found, << >>)), now)
  PROVE  /\ Eager!Asked(req) /\ Eager!Keep
         /\ ~Eager!Fits(k, ty) => Eager!Answer(WrongType)
         /\ Eager!Fits(k, ty) => Eager!Answer(IF Eager!Exists(k) THEN found ELSE missing)
<1> DEFINE rep == IF k \in DOMAIN Seen.values THEN found ELSE missing
           seen == Reading(Seen, k, ty, Result(Seen, missing, << >>), Result(Seen, found, << >>))
<1>1. CASE ~FitsType(Seen, k, ty)
  <2>1. seen = Result(Seen, WrongType, << >>)
    BY <1>1, ReadingSettled
  <2>2. Turns(req, Seen, WrongType)
    BY <2>1, RunTurns
  <2>3. QED
    BY <1>1, <2>2, TurnsKeep, SameFit
<1>2. CASE FitsType(Seen, k, ty)
  <2>1. seen = Result(Seen, rep, << >>)
    BY <1>2, ReadingSettled
  <2>2. Turns(req, Seen, rep)
    BY <2>1, RunTurns
  <2>3. QED
    BY <1>2, <2>2, TurnsKeep, SameFit, SameContent
<1>3. QED
  BY <1>1, <1>2

LEMMA GetEager ==
  ASSUME Inv, NEW k, Get(k)
  PROVE  Eager!Asked(<<"GET", k>>) /\ Eager!Get(k)
<1>1. SeenAs(GET(store, k, now), GET(Seen, k, now), now) /\ ExpireIfDue(Seen, k, now) = Seen
  BY SeenSettled, SettledStays, GETSeen DEF Inv, Seen
<1>2. SeenAs(GET(store, k, now),
             Reading(Seen, k, "string", Result(Seen, NullBulkString, << >>),
                     Result(Seen, BulkString(Seen.values[k].val), << >>)), now)
  BY <1>1 DEF GET
<1>3. Run(<<"GET", k>>, GET(store, k, now))
  BY DEF Get
<1>4. QED
  BY <1>2, <1>3, QueryTurns, SameReplies DEF Eager!Get, Eager!On, Seen

-----------------------------------------------------------------------------
(* Lists *)

LEMMA LlenEager ==
  ASSUME Inv, NEW k, Llen(k)
  PROVE  Eager!Asked(<<"LLEN", k>>) /\ Eager!Llen(k)
<1>1. SeenAs(LLEN(store, k, now), LLEN(Seen, k, now), now) /\ ExpireIfDue(Seen, k, now) = Seen
  BY SeenSettled, SettledStays, LLENSeen DEF Inv, Seen
<1>2. SeenAs(LLEN(store, k, now),
             Reading(Seen, k, "list", Result(Seen, Integer(0), << >>),
                     Result(Seen, Integer(Len(Seen.values[k].val)), << >>)), now)
  BY <1>1 DEF LLEN
<1>3. Run(<<"LLEN", k>>, LLEN(store, k, now))
  BY DEF Llen
<1>4. Integer(Len(Eager!AsList(k)))
        = IF Eager!Exists(k) THEN Integer(Len(Seen.values[k].val)) ELSE Integer(0)
  BY SameContent DEF Content, Fresh
<1>5. QED
  BY <1>2, <1>3, <1>4, QueryTurns, SameReplies DEF Eager!Llen, Eager!On

\* LRANGE's loop, between the two bounds it clamps, is the list cut down to the
\* positions asked for.
LEMMA SameRange ==
  ASSUME NEW list \in Seq(Elem), NEW start \in Int, NEW stop \in Int
  PROVE  SubSeq(list, 1 + RangeStart(start, Len(list)), 1 + RangeStop(stop, Len(list)))
           = Eager!Between(list, start, stop)
<1> DEFINE n == Len(list)
           a == 1 + RangeStart(start, n)
           b == 1 + RangeStop(stop, n)
           from == IF start >= 0 THEN start + 1 ELSE n + 1 + start
           to == IF stop >= 0 THEN stop + 1 ELSE n + 1 + stop
           in == {p \in DOMAIN list : from <= p /\ p <= to}
<1>1. n \in Nat /\ DOMAIN list = 1 .. n
  OBVIOUS
<1> HIDE DEF n
<1>2. /\ a \in Int /\ a = IF from > 1 THEN from ELSE 1
      /\ b \in Int /\ b = IF to < n THEN to ELSE n
  BY <1>1 DEF RangeStart, RangeStop, AbsoluteIndex
<1>3. from \in Int /\ to \in Int
  BY <1>1
<1> HIDE DEF a, b, from, to
<1>4. in = a .. b
  BY <1>1, <1>2, <1>3
<1>5. Eager!Between(list, start, stop)
        = [i \in 1 .. Cardinality(in) |-> list[Eager!Min(in) + i - 1]]
  BY SameCardinality DEF Eager!Between, from, to, n
<1> HIDE DEF in
<1>6. CASE a <= b
  <2> DEFINE sub == SubSeq(list, a, b)
             c == b - a + 1
             cut == [i \in 1 .. c |-> list[a + i - 1]]
  <2>1. a \in Int /\ b \in Int /\ 1 <= a /\ b <= n
    BY <1>1, <1>2, <1>3
  <2>2. Cardinality(a .. b) = c
    BY <1>6, <2>1, FS_Interval
  <2>3. Eager!Min(in) = a
    BY <1>4, <1>6, <2>1 DEF Eager!Min
  <2>4. \A i \in a .. b : list[i] \in Elem
    BY <1>1, <2>1
  <2>5. sub \in Seq(Elem) /\ Len(sub) = c /\ \A i \in 1 .. c : sub[i] = list[a + i - 1]
    BY <1>6, <2>1, <2>4, SubSeqProperties
  <2> HIDE DEF sub, c
  <2>6. sub = cut
    BY <2>5
  <2>7. Eager!Between(list, start, stop) = cut
    BY <1>4, <1>5, <2>2, <2>3
  <2>8. QED
    BY <2>6, <2>7 DEF sub, a, b, n
<1>7. CASE ~(a <= b)
  <2>1. a \in Int /\ b \in Int /\ a > b
    BY <1>1, <1>2, <1>3, <1>7
  <2>2. Cardinality(a .. b) = 0
    BY <2>1, FS_Interval
  <2>3. SubSeq(list, a, b) = << >>
    BY <2>1, SubSeqEmpty
  <2>4. [i \in 1 .. 0 |-> list[Eager!Min(in) + i - 1]] = << >>
    OBVIOUS
  <2>5. QED
    BY <1>4, <1>5, <2>2, <2>3, <2>4 DEF a, b, n
<1>8. QED
  BY <1>6, <1>7

LEMMA LrangeEager ==
  ASSUME Inv, NEW k, NEW start \in Indices, NEW stop \in Indices, Lrange(k, start, stop)
  PROVE  Eager!Asked(<<"LRANGE", k, start, stop>>) /\ Eager!Lrange(k, start, stop)
<1> DEFINE list == Seen.values[k].val
           range(l) == SubSeq(l, 1 + RangeStart(start, Len(l)), 1 + RangeStop(stop, Len(l)))
<1>1. /\ SeenAs(LRANGE(store, k, start, stop, now), LRANGE(Seen, k, start, stop, now), now)
      /\ ExpireIfDue(Seen, k, now) = Seen
  BY SeenSettled, SettledStays, LRANGESeen DEF Inv, Seen
<1>2. SeenAs(LRANGE(store, k, start, stop, now),
             Reading(Seen, k, "list", Result(Seen, Array(<< >>), << >>),
                     Result(Seen, Array(range(list)), << >>)), now)
  BY <1>1 DEF LRANGE
<1>3. Run(<<"LRANGE", k, start, stop>>, LRANGE(store, k, start, stop, now))
  BY DEF Lrange
<1> HIDE DEF range
<1>4. ASSUME Eager!Fits(k, "list")
      PROVE  Array(Eager!Between(Eager!AsList(k), start, stop))
               = IF Eager!Exists(k) THEN Array(range(list)) ELSE Array(<< >>)
  <2>1. FitsType(Seen, k, "list") /\ Eager!AsList(k) = Content(Seen, k, "list")
    BY <1>4, SameFit, SameContent
  <2>2. Eager!AsList(k) \in Seq(Elem) /\ start \in Int /\ stop \in Int
    BY <2>1, SeenSettled, ContentTypes, KeyspaceAssumption
  <2>3. Eager!Between(Eager!AsList(k), start, stop) = range(Eager!AsList(k))
    BY <2>2, SameRange DEF range
  <2>4. range(<< >>) = << >>
    BY <2>2 DEF range, RangeStart, RangeStop, AbsoluteIndex
  <2>5. QED
    BY <2>1, <2>3, <2>4, SameContent DEF Content, Fresh
<1>5. QED
  BY <1>2, <1>3, <1>4, QueryTurns, SameReplies DEF Eager!Lrange, Eager!On

LEMMA PushEager ==
  ASSUME Inv, NEW verb \in {"LPUSH", "RPUSH"}, NEW k \in Key, NEW e \in Elem, Push(verb, k, e)
  PROVE  /\ Eager!Asked(<<verb, k, e>>)
         /\ verb = "LPUSH" => Eager!Lpush(k, e)
         /\ verb = "RPUSH" => Eager!Rpush(k, e)
<1> DEFINE list == Content(Seen, k, "list")
           new == PushedOn(verb, list, e)
           req == <<verb, k, e>>
<1>1. Settled(Seen, now) /\ now \in Int
  BY SeenSettled
<1>2. SeenAs(PUSH(verb, store, k, e, now), PUSH(verb, Seen, k, e, now), now)
  BY <1>1, PUSHSeen DEF Inv, Seen
<1>3. Run(req, PUSH(verb, store, k, e, now))
  BY DEF Push
<1>4. Eager!Asked(req) /\ Eager!Pushed(k, new)
  <2>1. CASE ~FitsType(Seen, k, "list")
    <3>1. Turns(req, Seen, WrongType)
      BY <1>1, <1>2, <1>3, <2>1, PUSHRefused, RunTurns
    <3>2. QED
      BY <2>1, <3>1, TurnsKeep, SameFit, SameReplies DEF Eager!Pushed, Eager!On
  <2>2. CASE FitsType(Seen, k, "list")
    <3>1. PUSH(verb, Seen, k, e, now) = Result(Assign(Seen, k, Typed("list", new)),
                                               Integer(Len(new)), <<Record(verb, k, <<e>>)>>)
      BY <1>1, <2>2, PUSHSettled
    <3>2. Turns(req, Assign(Seen, k, Typed("list", new)), Integer(Len(new)))
      BY <1>2, <1>3, <3>1, RunTurns
    <3>3. list \in Seq(Elem)
      BY <1>1, <2>2, ContentTypes
    <3>4. new \in Seq(Elem) /\ new # << >>
      BY <3>3 DEF PushedOn
    <3>5. Typed("list", new) \in Value /\ ~IsEmptyCollection(Typed("list", new))
      BY <3>4, ListIsValue DEF IsEmptyCollection, Typed
    <3>6. Eager!Become(k, Typed("list", new))
      BY <3>2, <3>5, TurnsBecome DEF With
    <3>7. QED
      BY <2>2, <3>2, <3>6, TurnsAnswer, SameFit, SameReplies, SameOperators
         DEF Eager!Pushed, Eager!On, Eager!BecomeList
  <2>3. QED
    BY <2>1, <2>2
<1>5. Eager!AsList(k) = list
  BY SameContent
<1>6. verb = "LPUSH" => new = Eager!Cons(e, Eager!AsList(k))
  BY <1>5 DEF PushedOn, Eager!Cons
<1>7. verb = "RPUSH" => new = Append(Eager!AsList(k), e)
  BY <1>5 DEF PushedOn
<1>8. QED
  BY <1>4, <1>6, <1>7 DEF Eager!Lpush, Eager!Rpush

LEMMA PopEager ==
  ASSUME Inv, NEW verb \in {"LPOP", "RPOP"}, NEW k \in Key, Pop(verb, k)
  PROVE  /\ Eager!Asked(<<verb, k>>)
         /\ verb = "LPOP" => Eager!Lpop(k)
         /\ verb = "RPOP" => Eager!Rpop(k)
<1> DEFINE list == Content(Seen, k, "list")
           rest == PopRest(verb, list)
           end == IF verb = "LPOP" THEN 1 ELSE Len(list)
           req == <<verb, k>>
<1>1. Settled(Seen, now) /\ now \in Int
  BY SeenSettled
<1>2. SeenAs(POP(verb, store, k, now), POP(verb, Seen, k, now), now)
  BY <1>1, POPSeen DEF Inv, Seen
<1>3. Run(req, POP(verb, store, k, now))
  BY DEF Pop
<1>4. Eager!AsList(k) = list
  BY SameContent
<1> HIDE DEF list
<1>5. Eager!Asked(req) /\ Eager!Popped(k, end, rest)
  <2>1. CASE ~FitsType(Seen, k, "list")
    <3>1. POP(verb, Seen, k, now) = Result(Seen, WrongType, << >>)
      BY <1>1, <2>1, POPSettled
    <3>2. Turns(req, Seen, WrongType)
      BY <1>2, <1>3, <3>1, RunTurns
    <3>3. QED
      BY <2>1, <3>2, TurnsKeep, SameFit, SameReplies DEF Eager!Popped, Eager!On
  <2>2. CASE FitsType(Seen, k, "list") /\ list = << >>
    <3>1. POP(verb, Seen, k, now) = Result(Seen, NullBulkString, << >>)
      BY <1>1, <2>2, POPSettled DEF list
    <3>2. Turns(req, Seen, NullBulkString)
      BY <1>2, <1>3, <3>1, RunTurns
    <3>3. QED
      BY <1>4, <2>2, <3>2, TurnsKeep, SameFit, SameReplies DEF Eager!Popped, Eager!On
  <2>3. CASE FitsType(Seen, k, "list") /\ list # << >>
    <3>1. POP(verb, Seen, k, now) = Result(With(Seen, k, Typed("list", rest)),
                                           BulkString(PopOut(verb, list)),
                                           <<Record(verb, k, << >>)>>)
      BY <1>1, <2>3, POPSettled DEF list
    <3>2. Turns(req, With(Seen, k, Typed("list", rest)), BulkString(PopOut(verb, list)))
      BY <1>2, <1>3, <3>1, RunTurns
    <3>3. list \in Seq(Elem)
      BY <1>1, <2>3, ContentTypes DEF list
    <3>4. Typed("list", rest) \in Value
      <4>1. rest \in Seq(Elem)
        BY <2>3, <3>3 DEF PopRest
      <4>2. QED
        BY <4>1, ListIsValue
    <3>5. Eager!Become(k, Typed("list", rest))
      BY <3>2, <3>4, TurnsBecome
    <3>6. PopOut(verb, list) = list[end]
      BY <2>3, <3>3 DEF PopOut
    <3>7. QED
      BY <1>4, <2>3, <3>2, <3>5, <3>6, TurnsAnswer, SameFit, SameReplies, SameOperators
         DEF Eager!Popped, Eager!On, Eager!BecomeList
  <2>4. QED
    BY <2>1, <2>2, <2>3
<1>6. verb = "LPOP" => rest = Tail(Eager!AsList(k)) /\ end = 1
  BY <1>4 DEF PopRest
<1>7. verb = "RPOP" => rest = Eager!Front(Eager!AsList(k)) /\ end = Len(Eager!AsList(k))
  BY <1>4 DEF PopRest, Eager!Front
<1>8. QED
  BY <1>5, <1>6, <1>7 DEF Eager!Lpop, Eager!Rpop

-----------------------------------------------------------------------------
(* Hashes *)

\* Assigning what k holds already, nothing if it is missing, changes nothing.
LEMMA WithSame ==
  ASSUME NEW V, NEW k, NEW ty \in {"list", "hash", "set"}, NEW t, Settled(V, t), FitsType(V, k, ty)
  PROVE  With(V, k, Typed(ty, Content(V, k, ty))) = V
<1> DEFINE v == Typed(ty, Content(V, k, ty))
<1>1. CASE k \in DOMAIN V.values
  <2>1. V.values[k] = v
    BY <1>1, ContentValue
  <2>2. ~IsEmptyCollection(v)
    BY <1>1, <2>1 DEF Settled, WellFormed, NoEmpty
  <2>3. Assign(V, k, v) = V
    BY <1>1, <2>1, AssignChanges
  <2>4. QED
    BY <2>2, <2>3 DEF With
<1>2. CASE k \notin DOMAIN V.values
  <2>1. IsEmptyCollection(v)
    BY <1>2 DEF IsEmptyCollection, Typed, Content, Fresh, EmptyFn
  <2>2. RemoveKey(V, k) = V
    BY <1>2, RemoveKeyChanges
  <2>3. QED
    BY <2>1, <2>2 DEF With
<1>3. QED
  BY <1>1, <1>2

\* Dropping what is not there changes nothing.
LEMMA DropNothing ==
  ASSUME NEW f, NEW k, f = [x \in DOMAIN f |-> f[x]], k \notin DOMAIN f
  PROVE  Drop(f, k) = f
BY RestrictionAll DEF Drop

LEMMA EmptyHash == DOMAIN EmptyFn = {} /\ Cardinality(DOMAIN EmptyFn) = 0
BY FS_EmptySet DEF EmptyFn

LEMMA HexistsEager ==
  ASSUME Inv, NEW k, NEW f, Hexists(k, f)
  PROVE  Eager!Asked(<<"HEXISTS", k, f>>) /\ Eager!Hexists(k, f)
<1>1. SeenAs(HEXISTS(store, k, f, now), HEXISTS(Seen, k, f, now), now) /\ ExpireIfDue(Seen, k, now) = Seen
  BY SeenSettled, SettledStays, HEXISTSSeen DEF Inv, Seen
<1>2. SeenAs(HEXISTS(store, k, f, now),
             Reading(Seen, k, "hash", Result(Seen, Integer(0), << >>),
                     Result(Seen, Bit(f \in DOMAIN Seen.values[k].val), << >>)), now)
  BY <1>1 DEF HEXISTS
<1>3. Run(<<"HEXISTS", k, f>>, HEXISTS(store, k, f, now))
  BY DEF Hexists
<1>4. Bit(f \in DOMAIN Eager!AsHash(k))
        = IF Eager!Exists(k) THEN Bit(f \in DOMAIN Seen.values[k].val) ELSE Integer(0)
  BY SameContent, SameOperators, EmptyHash DEF Content, Fresh, Bit
<1>5. QED
  BY <1>2, <1>3, <1>4, QueryTurns, SameReplies, SameBit DEF Eager!Hexists, Eager!On

LEMMA HlenEager ==
  ASSUME Inv, NEW k, Hlen(k)
  PROVE  Eager!Asked(<<"HLEN", k>>) /\ Eager!Hlen(k)
<1>1. SeenAs(HLEN(store, k, now), HLEN(Seen, k, now), now) /\ ExpireIfDue(Seen, k, now) = Seen
  BY SeenSettled, SettledStays, HLENSeen DEF Inv, Seen
<1>2. SeenAs(HLEN(store, k, now),
             Reading(Seen, k, "hash", Result(Seen, Integer(0), << >>),
                     Result(Seen, Integer(Cardinality(DOMAIN Seen.values[k].val)), << >>)), now)
  BY <1>1 DEF HLEN
<1>3. Run(<<"HLEN", k>>, HLEN(store, k, now))
  BY DEF Hlen
<1>4. Integer(Cardinality(DOMAIN Eager!AsHash(k)))
        = IF Eager!Exists(k) THEN Integer(Cardinality(DOMAIN Seen.values[k].val)) ELSE Integer(0)
  BY SameContent, SameOperators, EmptyHash DEF Content, Fresh
<1>5. QED
  BY <1>2, <1>3, <1>4, QueryTurns, SameReplies, SameCardinality DEF Eager!Hlen, Eager!On

LEMMA HgetEager ==
  ASSUME Inv, NEW k, NEW f, Hget(k, f)
  PROVE  Eager!Asked(<<"HGET", k, f>>) /\ Eager!Hget(k, f)
<1> DEFINE hash == Seen.values[k].val
           found == IF f \in DOMAIN hash THEN BulkString(hash[f]) ELSE NullBulkString
<1>1. SeenAs(HGET(store, k, f, now), HGET(Seen, k, f, now), now) /\ ExpireIfDue(Seen, k, now) = Seen
  BY SeenSettled, SettledStays, HGETSeen DEF Inv, Seen
<1>2. SeenAs(HGET(store, k, f, now),
             Reading(Seen, k, "hash", Result(Seen, NullBulkString, << >>),
                     Result(Seen, found, << >>)), now)
  <2>1. Result(Seen, found, << >>) = IF f \in DOMAIN hash THEN Result(Seen, BulkString(hash[f]), << >>)
                                                          ELSE Result(Seen, NullBulkString, << >>)
    OBVIOUS
  <2>2. QED
    BY <1>1, <2>1 DEF HGET
<1>3. Run(<<"HGET", k, f>>, HGET(store, k, f, now))
  BY DEF Hget
<1>4. (IF f \in DOMAIN Eager!AsHash(k) THEN BulkString(Eager!AsHash(k)[f]) ELSE NullBulkString)
        = IF Eager!Exists(k) THEN found ELSE NullBulkString
  BY SameContent, SameOperators, EmptyHash DEF Content, Fresh
<1>5. QED
  BY <1>2, <1>3, <1>4, QueryTurns, SameReplies DEF Eager!Hget, Eager!On

LEMMA HsetEager ==
  ASSUME Inv, NEW k \in Key, NEW f \in Elem, NEW e \in Elem, Hset(k, f, e)
  PROVE  Eager!Asked(<<"HSET", k, f, e>>) /\ Eager!Hset(k, f, e)
<1> DEFINE hash == Content(Seen, k, "hash")
           new == Put(hash, f, e)
           req == <<"HSET", k, f, e>>
<1>1. Settled(Seen, now) /\ now \in Int
  BY SeenSettled
<1>2. SeenAs(HSET(store, k, f, e, now), HSET(Seen, k, f, e, now), now)
  BY <1>1, HSETSeen DEF Inv, Seen
<1>3. Run(req, HSET(store, k, f, e, now))
  BY DEF Hset
<1>4. Eager!AsHash(k) = hash
  BY SameContent
<1>5. CASE ~FitsType(Seen, k, "hash")
  <2>1. HSET(Seen, k, f, e, now) = Result(Seen, WrongType, << >>)
    BY <1>1, <1>5, HSETSettled
  <2>2. Turns(req, Seen, WrongType)
    BY <1>2, <1>3, <2>1, RunTurns
  <2>3. QED
    BY <1>5, <2>2, TurnsKeep, SameFit, SameReplies DEF Eager!Hset, Eager!On
<1>6. CASE FitsType(Seen, k, "hash")
  <2>1. HSET(Seen, k, f, e, now) = Result(Assign(Seen, k, Typed("hash", new)),
                                          Bit(f \notin DOMAIN hash),
                                          <<Record("HSET", k, <<f, e>>)>>)
    BY <1>1, <1>6, HSETSettled
  <2>2. Turns(req, Assign(Seen, k, Typed("hash", new)), Bit(f \notin DOMAIN hash))
    BY <1>2, <1>3, <2>1, RunTurns
  <2>3. IsPartialFn(hash, Elem, Elem)
    BY <1>1, <1>6, ContentTypes
  <2>4. IsPartialFn(new, Elem, Elem) /\ DOMAIN new # {}
    <3>1. IsPartialFn(new, Elem, Elem)
      BY <2>3, PutType
    <3>2. QED
      BY <3>1 DEF Put
  <2>5. Typed("hash", new) \in Value /\ ~IsEmptyCollection(Typed("hash", new))
    BY <2>4, HashIsValue
  <2>6. With(Seen, k, Typed("hash", new)) = Assign(Seen, k, Typed("hash", new))
    BY <2>5 DEF With
  <2>7. Turns(req, With(Seen, k, Typed("hash", new)), Bit(f \notin DOMAIN hash))
    BY <2>2, <2>6
  <2>8. Eager!Become(k, Typed("hash", new))
    BY <2>5, <2>7, TurnsBecome
  <2>9. QED
    BY <1>4, <1>6, <2>7, <2>8, TurnsAnswer, SameFit, SameBit, SameOperators
       DEF Eager!Hset, Eager!On, Eager!BecomeHash
<1>7. QED
  BY <1>5, <1>6

LEMMA HdelEager ==
  ASSUME Inv, NEW k \in Key, NEW f \in Elem, Hdel(k, f)
  PROVE  Eager!Asked(<<"HDEL", k, f>>) /\ Eager!Hdel(k, f)
<1> DEFINE hash == Content(Seen, k, "hash")
           new == Drop(hash, f)
           req == <<"HDEL", k, f>>
<1>1. Settled(Seen, now) /\ now \in Int
  BY SeenSettled
<1>2. SeenAs(HDEL(store, k, f, now), HDEL(Seen, k, f, now), now)
  BY <1>1, HDELSeen DEF Inv, Seen
<1>3. Run(req, HDEL(store, k, f, now))
  BY DEF Hdel
<1>4. Eager!AsHash(k) = hash
  BY SameContent
<1>5. CASE ~FitsType(Seen, k, "hash")
  <2>1. HDEL(Seen, k, f, now) = Result(Seen, WrongType, << >>)
    BY <1>1, <1>5, HDELSettled
  <2>2. Turns(req, Seen, WrongType)
    BY <1>2, <1>3, <2>1, RunTurns
  <2>3. QED
    BY <1>5, <2>2, TurnsKeep, SameFit, SameReplies DEF Eager!Hdel, Eager!On
<1>6. CASE FitsType(Seen, k, "hash")
  <2>1. Content(Seen, k, "hash") = hash /\ IsPartialFn(hash, Elem, Elem)
    BY <1>1, <1>6, ContentTypes
  <2>2. Typed("hash", new) \in Value
    BY <2>1, DropType, HashIsValue
  <2>3. ASSUME f \in DOMAIN hash
        PROVE  Turns(req, With(Seen, k, Typed("hash", new)), Bit(f \in DOMAIN hash))
    <3>1. HDEL(Seen, k, f, now) = Result(With(Seen, k, Typed("hash", new)), Integer(1),
                                         <<Record("HDEL", k, <<f>>)>>)
      BY <1>1, <1>6, <2>3, HDELSettled
    <3>2. QED
      BY <1>2, <1>3, <2>3, <3>1, RunTurns DEF Bit
  <2>4. ASSUME f \notin DOMAIN hash
        PROVE  Turns(req, With(Seen, k, Typed("hash", new)), Bit(f \in DOMAIN hash))
    <3>1. HDEL(Seen, k, f, now) = Result(Seen, Integer(0), << >>)
      BY <1>1, <1>6, <2>4, HDELSettled
    <3>2. new = hash
      BY <2>1, <2>4, DropNothing DEF IsPartialFn
    <3>3. With(Seen, k, Typed("hash", new)) = Seen
      BY <1>1, <1>6, <3>2, WithSame
    <3>4. Bit(f \in DOMAIN hash) = Integer(0)
      BY <2>4 DEF Bit
    <3>5. QED
      BY <1>2, <1>3, <3>1, <3>3, <3>4, RunTurns
  <2>7. Turns(req, With(Seen, k, Typed("hash", new)), Bit(f \in DOMAIN hash))
    BY <2>3, <2>4
  <2>8. Eager!Become(k, Typed("hash", new))
    BY <2>2, <2>7, TurnsBecome
  <2>9. QED
    BY <1>4, <1>6, <2>7, <2>8, TurnsAnswer, SameFit, SameBit, SameOperators
       DEF Eager!Hdel, Eager!On, Eager!BecomeHash
<1>7. QED
  BY <1>5, <1>6

-----------------------------------------------------------------------------
(* Sets *)

LEMMA SismemberEager ==
  ASSUME Inv, NEW k, NEW e, Sismember(k, e)
  PROVE  Eager!Asked(<<"SISMEMBER", k, e>>) /\ Eager!Sismember(k, e)
<1>1. SeenAs(SISMEMBER(store, k, e, now), SISMEMBER(Seen, k, e, now), now) /\ ExpireIfDue(Seen, k, now) = Seen
  BY SeenSettled, SettledStays, SetQueriesSeen DEF Inv, Seen
<1>2. SeenAs(SISMEMBER(store, k, e, now),
             Reading(Seen, k, "set", Result(Seen, Integer(0), << >>),
                     Result(Seen, Bit(e \in Seen.values[k].val), << >>)), now)
  BY <1>1 DEF SISMEMBER
<1>3. Run(<<"SISMEMBER", k, e>>, SISMEMBER(store, k, e, now))
  BY DEF Sismember
<1>4. Bit(e \in Eager!AsSet(k))
        = IF Eager!Exists(k) THEN Bit(e \in Seen.values[k].val) ELSE Integer(0)
  BY SameContent, SameOperators DEF Content, Fresh, Bit
<1>5. QED
  BY <1>2, <1>3, <1>4, QueryTurns, SameReplies, SameBit DEF Eager!Sismember, Eager!On

LEMMA ScardEager ==
  ASSUME Inv, NEW k, Scard(k)
  PROVE  Eager!Asked(<<"SCARD", k>>) /\ Eager!Scard(k)
<1>1. SeenAs(SCARD(store, k, now), SCARD(Seen, k, now), now) /\ ExpireIfDue(Seen, k, now) = Seen
  BY SeenSettled, SettledStays, SetQueriesSeen DEF Inv, Seen
<1>2. SeenAs(SCARD(store, k, now),
             Reading(Seen, k, "set", Result(Seen, Integer(0), << >>),
                     Result(Seen, Integer(Cardinality(Seen.values[k].val)), << >>)), now)
  BY <1>1 DEF SCARD
<1>3. Run(<<"SCARD", k>>, SCARD(store, k, now))
  BY DEF Scard
<1>4. Integer(Cardinality(Eager!AsSet(k)))
        = IF Eager!Exists(k) THEN Integer(Cardinality(Seen.values[k].val)) ELSE Integer(0)
  BY SameContent, SameOperators, FS_EmptySet DEF Content, Fresh
<1>5. QED
  BY <1>2, <1>3, <1>4, QueryTurns, SameReplies, SameCardinality DEF Eager!Scard, Eager!On

LEMMA SmembersEager ==
  ASSUME Inv, NEW k, Smembers(k)
  PROVE  Eager!Asked(<<"SMEMBERS", k>>) /\ Eager!Smembers(k)
<1>1. SeenAs(SMEMBERS(store, k, now), SMEMBERS(Seen, k, now), now) /\ ExpireIfDue(Seen, k, now) = Seen
  BY SeenSettled, SettledStays, SetQueriesSeen DEF Inv, Seen
<1>2. SeenAs(SMEMBERS(store, k, now),
             Reading(Seen, k, "set", Result(Seen, Array({}), << >>),
                     Result(Seen, Array(Seen.values[k].val), << >>)), now)
  BY <1>1 DEF SMEMBERS
<1>3. Run(<<"SMEMBERS", k>>, SMEMBERS(store, k, now))
  BY DEF Smembers
<1>4. Array(Eager!AsSet(k))
        = IF Eager!Exists(k) THEN Array(Seen.values[k].val) ELSE Array({})
  BY SameContent, SameOperators DEF Content, Fresh
<1>5. QED
  BY <1>2, <1>3, <1>4, QueryTurns, SameReplies, SameBit DEF Eager!Smembers, Eager!On

LEMMA SaddEager ==
  ASSUME Inv, NEW k \in Key, NEW e \in Elem, Sadd(k, e)
  PROVE  Eager!Asked(<<"SADD", k, e>>) /\ Eager!Sadd(k, e)
<1> DEFINE set == Content(Seen, k, "set")
           new == set \cup {e}
           req == <<"SADD", k, e>>
<1>1. Settled(Seen, now) /\ now \in Int
  BY SeenSettled
<1>2. SeenAs(SADD(store, k, e, now), SADD(Seen, k, e, now), now)
  BY <1>1, SADDSeen DEF Inv, Seen
<1>3. Run(req, SADD(store, k, e, now))
  BY DEF Sadd
<1>4. Eager!AsSet(k) = set
  BY SameContent
<1>5. CASE ~FitsType(Seen, k, "set")
  <2>1. SADD(Seen, k, e, now) = Result(Seen, WrongType, << >>)
    BY <1>1, <1>5, SADDSettled
  <2>2. Turns(req, Seen, WrongType)
    BY <1>2, <1>3, <2>1, RunTurns
  <2>3. QED
    BY <1>5, <2>2, TurnsKeep, SameFit, SameReplies DEF Eager!Sadd, Eager!On
<1>6. CASE FitsType(Seen, k, "set")
  <2>1. SADD(Seen, k, e, now) = Result(Assign(Seen, k, Typed("set", new)), Bit(e \notin set),
                                       IF e \notin set THEN <<Record("SADD", k, <<e>>)>> ELSE << >>)
    BY <1>1, <1>6, SADDSettled
  <2>2. Turns(req, Assign(Seen, k, Typed("set", new)), Bit(e \notin set))
    BY <1>2, <1>3, <2>1, RunTurns
  <2>3. set \in SUBSET Elem
    BY <1>1, <1>6, ContentTypes
  <2>4. new \in SUBSET Elem /\ new # {}
    BY <2>3
  <2>5. Typed("set", new) \in Value /\ ~IsEmptyCollection(Typed("set", new))
    BY <2>4, SetIsValue
  <2>6. With(Seen, k, Typed("set", new)) = Assign(Seen, k, Typed("set", new))
    BY <2>5 DEF With
  <2>7. Turns(req, With(Seen, k, Typed("set", new)), Bit(e \notin set))
    BY <2>2, <2>6
  <2>8. Eager!Become(k, Typed("set", new))
    BY <2>5, <2>7, TurnsBecome
  <2>9. QED
    BY <1>4, <1>6, <2>7, <2>8, TurnsAnswer, SameFit, SameBit, SameOperators
       DEF Eager!Sadd, Eager!On, Eager!BecomeSet
<1>7. QED
  BY <1>5, <1>6

LEMMA SremEager ==
  ASSUME Inv, NEW k \in Key, NEW e \in Elem, Srem(k, e)
  PROVE  Eager!Asked(<<"SREM", k, e>>) /\ Eager!Srem(k, e)
<1> DEFINE set == Content(Seen, k, "set")
           new == set \ {e}
           req == <<"SREM", k, e>>
<1>1. Settled(Seen, now) /\ now \in Int
  BY SeenSettled
<1>2. SeenAs(SREM(store, k, e, now), SREM(Seen, k, e, now), now)
  BY <1>1, SREMSeen DEF Inv, Seen
<1>3. Run(req, SREM(store, k, e, now))
  BY DEF Srem
<1>4. Eager!AsSet(k) = set
  BY SameContent
<1>5. CASE ~FitsType(Seen, k, "set")
  <2>1. SREM(Seen, k, e, now) = Result(Seen, WrongType, << >>)
    BY <1>1, <1>5, SREMSettled
  <2>2. Turns(req, Seen, WrongType)
    BY <1>2, <1>3, <2>1, RunTurns
  <2>3. QED
    BY <1>5, <2>2, TurnsKeep, SameFit, SameReplies DEF Eager!Srem, Eager!On
<1>6. CASE FitsType(Seen, k, "set")
  <2>1. Content(Seen, k, "set") = set /\ set \in SUBSET Elem
    BY <1>1, <1>6, ContentTypes
  <2>2. Typed("set", new) \in Value
    BY <2>1, SetIsValue
  <2>3. ASSUME e \in set
        PROVE  Turns(req, With(Seen, k, Typed("set", new)), Bit(e \in set))
    <3>1. SREM(Seen, k, e, now) = Result(With(Seen, k, Typed("set", new)), Integer(1),
                                         <<Record("SREM", k, <<e>>)>>)
      BY <1>1, <1>6, <2>3, SREMSettled
    <3>2. QED
      BY <1>2, <1>3, <2>3, <3>1, RunTurns DEF Bit
  <2>4. ASSUME e \notin set
        PROVE  Turns(req, With(Seen, k, Typed("set", new)), Bit(e \in set))
    <3>1. SREM(Seen, k, e, now) = Result(Seen, Integer(0), << >>)
      BY <1>1, <1>6, <2>4, SREMSettled
    <3>2. new = set
      BY <2>1, <2>4
    <3>3. With(Seen, k, Typed("set", new)) = Seen
      BY <1>1, <1>6, <3>2, WithSame
    <3>4. Bit(e \in set) = Integer(0)
      BY <2>4 DEF Bit
    <3>5. QED
      BY <1>2, <1>3, <3>1, <3>3, <3>4, RunTurns
  <2>7. Turns(req, With(Seen, k, Typed("set", new)), Bit(e \in set))
    BY <2>3, <2>4
  <2>8. Eager!Become(k, Typed("set", new))
    BY <2>2, <2>7, TurnsBecome
  <2>9. QED
    BY <1>4, <1>6, <2>7, <2>8, TurnsAnswer, SameFit, SameBit, SameOperators
       DEF Eager!Srem, Eager!On, Eager!BecomeSet
<1>7. QED
  BY <1>5, <1>6

-----------------------------------------------------------------------------
(* Deadlines *)

\* Rounding up is the one way to fit a life into whole seconds.
LEMMA SameSeconds ==
  ASSUME NEW x \in -MaxClock .. MaxClock
  PROVE  CeilSeconds(x) = Eager!WholeSeconds(x)
<1> DEFINE T == TicksPerSecond
           q == (-x) \div T
           n == -q
           Fits(m) == x <= m * T /\ (m - 1) * T < x
<1>1. T \in Nat \ {0} /\ MaxClock \in Nat /\ x \in Int
  BY ClockAssumption
<1>2. q \in Int /\ q * T <= -x /\ -x < q * T + T
  BY <1>1
<1> HIDE DEF T, q
<1>3. n \in Int /\ n * T = -(q * T) /\ (n - 1) * T = -(q * T) - T
  BY <1>1, <1>2
<1>4. Fits(n)
  BY <1>1, <1>2, <1>3
<1>5. ASSUME NEW a \in Int, NEW b \in Int, a <= b
      PROVE  a * T <= b * T
  BY <1>1, <1>5
<1>6. ASSUME NEW m \in Int, Fits(m)
      PROVE  m = n
  <2>1. m <= n
    <3>1. SUFFICES ASSUME n <= m - 1 PROVE FALSE
      BY <1>3
    <3>2. n * T <= (m - 1) * T
      BY <1>3, <1>5, <3>1
    <3>3. n * T \in Int /\ (m - 1) * T \in Int
      BY <1>1, <1>3
    <3>4. QED
      BY <1>1, <1>4, <1>6, <3>2, <3>3
  <2>2. n <= m
    <3>1. SUFFICES ASSUME m <= n - 1 PROVE FALSE
      BY <1>3
    <3>2. m * T <= (n - 1) * T
      BY <1>3, <1>5, <3>1
    <3>3. m * T \in Int /\ (n - 1) * T \in Int
      BY <1>1, <1>3
    <3>4. QED
      BY <1>1, <1>4, <1>6, <3>2, <3>3
  <2>3. QED
    BY <1>3, <2>1, <2>2
<1>7. n \in -MaxClock .. MaxClock
  <2>1. n <= MaxClock
    <3>1. SUFFICES ASSUME MaxClock + 1 <= n PROVE FALSE
      BY <1>1, <1>3
    <3>2. MaxClock * T <= (n - 1) * T
      BY <1>1, <1>3, <1>5, <3>1
    <3>3. MaxClock <= MaxClock * T /\ MaxClock * T \in Int /\ (n - 1) * T \in Int
      BY <1>1, <1>3
    <3>4. QED
      BY <1>1, <1>4, <3>2, <3>3
  <2>2. -MaxClock <= n
    <3>1. SUFFICES ASSUME n <= -MaxClock - 1 PROVE FALSE
      BY <1>1, <1>3
    <3>2. n * T <= (-MaxClock - 1) * T
      BY <1>1, <1>3, <1>5, <3>1
    <3>3. (-MaxClock - 1) * T < -MaxClock /\ n * T \in Int /\ (-MaxClock - 1) * T \in Int
      BY <1>1, <1>3
    <3>4. QED
      BY <1>1, <1>4, <3>2, <3>3
  <2>3. QED
    BY <1>1, <1>3, <2>1, <2>2
<1>8. Eager!WholeSeconds(x) = CHOOSE m \in -MaxClock .. MaxClock : Fits(m)
  BY DEF Eager!WholeSeconds, T
<1> HIDE DEF Fits, n
<1>9. (CHOOSE m \in -MaxClock .. MaxClock : Fits(m)) = n
  BY <1>1, <1>4, <1>6, <1>7
<1>10. QED
  BY <1>8, <1>9 DEF CeilSeconds, n, q, T

\* TTL takes place at its second reading of the clock, though it sweeps at its first.
LEMMA TtlEager ==
  ASSUME Inv, NEW k, NEW gap \in 0 .. MaxGap, Ttl(k, gap)
  PROVE  Eager!Asked(<<"TTL", k>>) /\ Eager!Ttl(k, gap)
<1> DEFINE u == now + gap
           result == TTL(store, k, now, u)
           values == Seen.values
           deadlines == Seen.expirations
           n == IF k \notin DOMAIN values THEN -2
                ELSE IF k \notin DOMAIN deadlines THEN -1 ELSE CeilSeconds(deadlines[k] - u)
<1>1. /\ Settled(Seen, now) /\ WellFormed(store) /\ now \in Nat /\ u \in Int /\ now <= u
      /\ u <= MaxTime /\ MaxTime <= MaxClock /\ MaxClock \in Nat /\ MaxTime \in Nat
  BY SeenSettled, KeyspaceAssumption, ClockAssumption DEF Inv, Ttl, RunFor
<1>2. store' = result.store /\ reply' = result.reply /\ now' = u /\ request' = <<"TTL", k>>
  BY DEF Ttl, RunFor, Apply
<1>3. ExpireIfDue(Seen, k, now) = Seen
  BY <1>1, SettledStays
<1> HIDE DEF u
<1>4. TTL(Seen, k, now, u) = Result(Seen, Integer(n), << >>)
  BY <1>3 DEF TTL
<1>5. SeenAs(result, TTL(Seen, k, now, u), now)
  BY <1>1, TTLSeen DEF Seen
<1> HIDE DEF n, result
<1>6. Visible(result.store, now) = Seen /\ result.reply = Integer(n)
  BY <1>4, <1>5 DEF SeenAs, Result
<1>7. WellFormed(result.store)
  BY <1>1, TTLSound DEF Sound, result
<1>8. Visible(store', now') = Later(values, deadlines, u)
  BY <1>1, <1>2, <1>6, <1>7, VisibleAtLater
<1>9. Eager!Hold(values, deadlines, u)
  BY <1>2, <1>8, HoldLater
<1>10. DOMAIN deadlines \subseteq DOMAIN values
  BY <1>1, WellFormedFacts DEF Settled, NoOrphan
<1>11. ASSUME k \in DOMAIN deadlines
       PROVE  n = Eager!WholeSeconds(deadlines[k] - u)
  <2>1. deadlines[k] \in Int /\ deadlines[k] > now /\ deadlines[k] <= MaxClock
    BY <1>1, <1>11, WellFormedFacts DEF Settled, NothingDue, WellFormed, OnClock, Deadlines
  <2>2. deadlines[k] - u \in -MaxClock .. MaxClock
    BY <1>1, <2>1
  <2>3. QED
    BY <1>10, <1>11, <2>2, SameSeconds DEF n
<1>12. /\ k \notin DOMAIN values => n = -2
       /\ k \in DOMAIN values /\ k \notin DOMAIN deadlines => n = -1
  BY DEF n
<1>13. Eager!Answer(Integer(n)) /\ Eager!Asked(<<"TTL", k>>)
  BY <1>2, <1>6 DEF Eager!Answer, Eager!Asked
<1>14. QED
  BY <1>9, <1>10, <1>11, <1>12, <1>13, SameContent, SameReplies DEF Eager!Ttl, Seen, u

\* Time first and a removal after is a removal first and time after.
LEMMA LaterDrop ==
  ASSUME NEW d, NEW l, NEW k, NEW t
  PROVE  RemoveKey(Later(d, l, t), k) = Later(Drop(d, k), Drop(l, k), t)
<1> DEFINE d2 == Drop(d, k)
           l2 == Drop(l, k)
<1>1. DOMAIN d2 = DOMAIN d \ {k} /\ DOMAIN l2 = DOMAIN l \ {k}
  BY DropDomain
<1>2. Gone(l2, t) = Gone(l, t) \ {k}
  BY DEF Gone, Drop, Restrict
<1>3. /\ (DOMAIN d \ Gone(l, t)) \ {k} = DOMAIN d2 \ Gone(l2, t)
      /\ (DOMAIN l \ Gone(l, t)) \ {k} = DOMAIN l2 \ Gone(l2, t)
  BY <1>1, <1>2
<1>4. /\ Drop(Later(d, l, t).values, k) = Restrict(d, DOMAIN d2 \ Gone(l2, t))
      /\ Drop(Later(d, l, t).expirations, k) = Restrict(l, DOMAIN l2 \ Gone(l2, t))
  BY <1>3, DropRestriction DEF Later
<1>5. /\ Restrict(d2, DOMAIN d2 \ Gone(l2, t)) = Restrict(d, DOMAIN d2 \ Gone(l2, t))
      /\ Restrict(l2, DOMAIN l2 \ Gone(l2, t)) = Restrict(l, DOMAIN l2 \ Gone(l2, t))
  BY <1>1, RestrictionOfDrop
<1>6. QED
  BY <1>4, <1>5 DEF RemoveKey, Later

\* And so for a deadline given to a key whose time has not come.
LEMMA LaterPut ==
  ASSUME NEW d, NEW l, NEW k, NEW x \in Int, NEW t \in Int, Deadlines(l), k \notin Gone(l, t)
  PROVE  LET V == Later(d, l, t)
         IN  Later(V.values, Put(V.expirations, k, x), t) = Later(d, Put(l, k, x), t)
<1> DEFINE V == Later(d, l, t)
           l1 == Put(V.expirations, k, x)
           l2 == Put(l, k, x)
<1>1. /\ DOMAIN V.values = DOMAIN d \ Gone(l, t)
      /\ DOMAIN V.expirations = DOMAIN l \ Gone(l, t)
      /\ \A y \in DOMAIN d \ Gone(l, t) : V.values[y] = d[y]
      /\ \A y \in DOMAIN l \ Gone(l, t) : V.expirations[y] = l[y]
  BY LaterFields
<1> HIDE DEF V
<1>2. /\ DOMAIN l1 = (DOMAIN l \ Gone(l, t)) \cup {k}
      /\ DOMAIN l2 = DOMAIN l \cup {k}
      /\ l1[k] = x /\ l2[k] = x
      /\ \A y \in DOMAIN l \ Gone(l, t) : y # k => l1[y] = l[y]
      /\ \A y \in DOMAIN l : y # k => l2[y] = l[y]
  BY <1>1 DEF Put
<1> HIDE DEF l1, l2
<1>3. Gone(l1, t) = IF x <= t THEN {k} ELSE {}
  BY <1>2 DEF Gone, Deadlines
<1>4. Gone(l2, t) = Gone(l, t) \cup (IF x <= t THEN {k} ELSE {})
  BY <1>2 DEF Gone, Deadlines
<1>5. DOMAIN V.values \ Gone(l1, t) = DOMAIN d \ Gone(l2, t)
  BY <1>1, <1>3, <1>4
<1>6. DOMAIN l1 \ Gone(l1, t) = DOMAIN l2 \ Gone(l2, t)
  BY <1>2, <1>3, <1>4
<1>7. \A y \in DOMAIN V.values \ Gone(l1, t) : V.values[y] = d[y]
  BY <1>1
<1>8. \A y \in DOMAIN l1 \ Gone(l1, t) : l1[y] = l2[y]
  BY <1>2
<1>9. Later(V.values, l1, t) = Later(d, l2, t)
  BY <1>5, <1>6, <1>7, <1>8, LaterEqual
<1>10. QED
  BY <1>9 DEF V, l1, l2

\* EXPIRE takes place at its second reading of the clock, counting from its
\* first, and what comes due before its third is gone by then.
LEMMA ExpireEager ==
  ASSUME Inv, NEW k \in Key, NEW secs \in Seconds,
         NEW gap1 \in 0 .. MaxGap, NEW gap2 \in 0 .. MaxGap, Expire(k, secs, gap1, gap2)
  PROVE  Eager!Asked(<<"EXPIRE", k, secs>>) /\ Eager!Expire(k, secs, gap1, gap2)
<1> DEFINE u == now + gap1
           w == now + gap1 + gap2
           result == EXPIRE(store, k, secs, now, u, w)
           values == Seen.values
           deadlines == Seen.expirations
           V == Visible(store, u)
           seen == EXPIRE(V, k, secs, now, u, w)
           D == now + secs * TicksPerSecond
           present == k \in DOMAIN values /\ ~(k \in DOMAIN deadlines /\ deadlines[k] <= u)
<1>1. /\ Settled(Seen, now) /\ WellFormed(store) /\ now \in Nat /\ u \in Int /\ now <= u
      /\ secs \in Int /\ MaxSeconds(now) \in Int /\ D \in Int
      /\ w \in Int /\ u <= w /\ now + (gap1 + gap2) = w
  BY SeenSettled, KeyspaceAssumption, ClockAssumption DEF Inv, MaxSeconds
<1>2. store' = result.store /\ reply' = result.reply /\ now' = w /\ request' = <<"EXPIRE", k, secs>>
  BY <1>1 DEF Expire, RunFor, Apply
<1>3. WellFormed(result.store)
  BY <1>1, EXPIRESound DEF Sound
<1> HIDE DEF u, w, D
<1>4. V = Later(values, deadlines, u)
  BY <1>1, VisibleAtLater DEF Seen
<1>5. Settled(V, u) /\ Visible(V, u) = V /\ ExpireIfDue(V, k, u) = V
  BY <1>1, VisibleSettled, SettledStays
<1>6. Visible(result.store, u) = Visible(seen.store, u) /\ result.reply = seen.reply
  BY <1>1, EXPIRESeen
<1> HIDE DEF result, V
<1>7. Deadlines(deadlines)
  BY <1>1, WellFormedFacts DEF Settled
<1>8. ASSUME NEW d, NEW l, Deadlines(l), Visible(result.store, u) = Later(d, l, u)
      PROVE  Eager!Hold(d, l, w)
  <2>1. Visible(result.store, w) = Later(d, l, w)
    BY <1>1, <1>3, <1>8, VisibleAtLater, LaterLater
  <2>2. QED
    BY <1>2, <2>1, HoldLater
<1>9. k \in DOMAIN V.values <=> present
  BY <1>4, LaterFields DEF Gone
<1>10. /\ MaxSeconds(now) = Eager!MaxSeconds(now) /\ D = now + secs * TicksPerSecond
       /\ Eager!Asked(<<"EXPIRE", k, secs>>)
       /\ Eager!Exists(k) <=> k \in DOMAIN values
  BY <1>2, SameContent DEF MaxSeconds, Eager!MaxSeconds, Eager!Asked, D
<1>11. CASE secs > MaxSeconds(now)
  <2>1. seen = Result(V, NotAnInteger, << >>)
    BY <1>1, <1>11 DEF EXPIRE
  <2>2. Eager!Hold(values, deadlines, w) /\ Eager!Answer(NotAnInteger)
    BY <1>2, <1>4, <1>5, <1>6, <1>7, <1>8, <2>1 DEF Result, Eager!Answer
  <2>3. QED
    BY <1>10, <1>11, <2>2, SameReplies DEF Eager!Expire, Seen, u, w
<1>12. CASE secs <= MaxSeconds(now) /\ ~present
  <2>1. seen = Result(V, Integer(0), << >>)
    BY <1>1, <1>5, <1>9, <1>12 DEF EXPIRE
  <2>2. Eager!Hold(values, deadlines, w) /\ Eager!Answer(Integer(0))
    BY <1>2, <1>4, <1>5, <1>6, <1>7, <1>8, <2>1 DEF Result, Eager!Answer
  <2>3. QED
    BY <1>10, <1>12, <2>2, SameReplies DEF Eager!Expire, Seen, u, w
<1>13. CASE secs <= MaxSeconds(now) /\ present /\ secs <= 0
  <2>1. seen = Result(RemoveKey(V, k), Integer(1), <<Record("DEL", k, << >>)>>)
    BY <1>1, <1>5, <1>9, <1>13 DEF EXPIRE
  <2>2. Visible(seen.store, u) = Later(Drop(values, k), Drop(deadlines, k), u)
    BY <1>4, <1>5, <2>1, RemoveKeyCommutes, LaterDrop DEF Result
  <2>3. Deadlines(Drop(deadlines, k))
    BY <1>7 DEF Deadlines, Drop, Restrict
  <2>4. Eager!Hold(Drop(values, k), Drop(deadlines, k), w) /\ Eager!Answer(Integer(1))
    BY <1>2, <1>6, <1>8, <2>1, <2>2, <2>3 DEF Result, Eager!Answer
  <2>5. QED
    BY <1>10, <1>13, <2>4, SameOperators, SameReplies DEF Eager!Expire, Seen, u, w
<1>14. CASE secs <= MaxSeconds(now) /\ present /\ secs > 0
  <2> DEFINE new == [V EXCEPT !.expirations = Put(V.expirations, k, D)]
  <2>1. seen = Result(new, Integer(1), <<Record("EXPIRE", k, <<UnixSeconds(w) + secs>>)>>)
    BY <1>1, <1>5, <1>9, <1>14 DEF EXPIRE, D
  <2>2. seen.store = new /\ seen.reply = Integer(1)
    BY <2>1 DEF Result
  <2>3. Visible(new, u) = Later(V.values, Put(V.expirations, k, D), u)
    <3>1. u \in Int /\ D \in Int /\ WellFormed(V) /\ k \in DOMAIN V.values /\ ~Due(V, k, u)
      BY <1>1, <1>5, <1>9, <1>14, SettledStays DEF Settled
    <3>2. Visible(V, u) = V
      BY <1>5
    <3> HIDE DEF seen, present
    <3>3. LET X == Visible(V, u)
          IN  Visible(new, u) = Later(X.values, Put(X.expirations, k, D), u)
      BY <3>1, DeadlineSeen
    <3>4. QED
      BY <3>2, <3>3
  <2>4. k \notin Gone(deadlines, u)
    BY <1>14 DEF Gone
  <2>5. Later(V.values, Put(V.expirations, k, D), u) = Later(values, Put(deadlines, k, D), u)
    BY <1>1, <1>4, <1>7, <2>4, LaterPut
  <2>6. Visible(result.store, u) = Later(values, Put(deadlines, k, D), u)
    BY <1>6, <2>2, <2>3, <2>5
  <2>7. Deadlines(Put(deadlines, k, D))
    BY <1>1, <1>7 DEF Deadlines, Put
  <2>8. Eager!Hold(values, Put(deadlines, k, D), w)
    BY <1>8, <2>6, <2>7
  <2>9. Eager!Answer(Integer(1))
    BY <1>2, <1>6, <2>2 DEF Eager!Answer
  <2>10. QED
    BY <1>10, <1>14, <2>8, <2>9, SameOperators, SameReplies DEF Eager!Expire, Seen, u, w
<1>15. QED
  BY <1>1, <1>11, <1>12, <1>13, <1>14

-----------------------------------------------------------------------------
(* The refinement *)

LEMMA InitEager == Init => Eager!Init
BY SameOperators, SameReplies
   DEF Init, Eager!Init, Visible, Alive, EmptyStore, EmptyFn, Restrict

\* A tick takes away what is due.
LEMMA TickEager ==
  ASSUME Inv, Tick
  PROVE  Eager!Tick
<1>1. WellFormed(store) /\ now \in Int /\ now + 1 \in Int /\ now <= now + 1
  BY KeyspaceAssumption DEF Inv
<1>2. Visible(store', now') = Later(Seen.values, Seen.expirations, now + 1)
  BY <1>1, VisibleAtLater DEF Tick, Seen
<1>3. QED
  BY <1>2, HoldLater DEF Tick, Eager!Tick, Seen

\* A refusal looks at nothing.
LEMMA TrivialEager ==
  ASSUME Ping \/ \E why \in {BadRequest, NotAnInteger} : Reject(why)
  PROVE  Eager!Trivial
<1>1. store' = store /\ now' = now
  BY DEF Ping, PING, Reject, REJECT, Run, Apply, Result
<1>2. Eager!Keep
  BY <1>1 DEF Eager!Keep
<1>3. CASE Ping
  BY <1>2, <1>3, SameReplies
     DEF Ping, PING, Run, Apply, Result, Eager!Trivial, Eager!Asked, Eager!Answer
<1>4. CASE \E why \in {BadRequest, NotAnInteger} : Reject(why)
  BY <1>2, <1>4, SameReplies
     DEF Reject, REJECT, Run, Apply, Result, Eager!Trivial, Eager!Asked, Eager!Answer
<1>5. QED
  BY <1>3, <1>4

LEMMA WriteEager ==
  ASSUME Inv, Write
  PROVE  Eager!Next
<1>1. PICK k \in Key :
        \/ Del(k)
        \/ \E secs \in Seconds, gap1, gap2 \in 0 .. MaxGap : Expire(k, secs, gap1, gap2)
        \/ \E verb \in {"LPOP", "RPOP"} : Pop(verb, k)
        \/ \E e \in Elem :
             \/ Set(k, e)
             \/ \E verb \in {"LPUSH", "RPUSH"} : Push(verb, k, e)
             \/ \E field \in Elem : Hset(k, field, e)
             \/ Hdel(k, e)
             \/ Sadd(k, e)
             \/ Srem(k, e)
  BY DEF Write
<1>2. CASE Del(k)
  BY <1>2, DelEager DEF Eager!Next
<1>3. ASSUME NEW secs \in Seconds, NEW gap1 \in 0 .. MaxGap, NEW gap2 \in 0 .. MaxGap,
             Expire(k, secs, gap1, gap2)
      PROVE  Eager!Next
  BY <1>3, ExpireEager DEF Eager!Next
<1>4. ASSUME NEW verb \in {"LPOP", "RPOP"}, Pop(verb, k)
      PROVE  Eager!Next
  BY <1>4, PopEager DEF Eager!Next
<1>5. ASSUME NEW e \in Elem, Set(k, e)
      PROVE  Eager!Next
  BY <1>5, SetEager DEF Eager!Next
<1>6. ASSUME NEW e \in Elem, NEW verb \in {"LPUSH", "RPUSH"}, Push(verb, k, e)
      PROVE  Eager!Next
  BY <1>6, PushEager DEF Eager!Next
<1>7. ASSUME NEW e \in Elem, NEW field \in Elem, Hset(k, field, e)
      PROVE  Eager!Next
  BY <1>7, HsetEager DEF Eager!Next
<1>8. ASSUME NEW e \in Elem, Hdel(k, e)
      PROVE  Eager!Next
  BY <1>8, HdelEager DEF Eager!Next
<1>9. ASSUME NEW e \in Elem, Sadd(k, e)
      PROVE  Eager!Next
  BY <1>9, SaddEager DEF Eager!Next
<1>10. ASSUME NEW e \in Elem, Srem(k, e)
       PROVE  Eager!Next
  BY <1>10, SremEager DEF Eager!Next
<1>11. QED
  BY <1>1, <1>2, <1>3, <1>4, <1>5, <1>6, <1>7, <1>8, <1>9, <1>10

LEMMA ReadEager ==
  ASSUME Inv, Read
  PROVE  Eager!Next
<1>1. CASE Ping \/ \E why \in {BadRequest, NotAnInteger} : Reject(why)
  BY <1>1, TrivialEager DEF Eager!Next
<1>2. ASSUME NEW k \in Key, NEW gap \in 0 .. MaxGap, Ttl(k, gap)
      PROVE  Eager!Next
  BY <1>2, TtlEager DEF Eager!Next
<1>3. ASSUME NEW k \in Key, Get(k) \/ Llen(k) \/ Hlen(k) \/ Scard(k) \/ Smembers(k)
      PROVE  Eager!Next
  BY <1>3, GetEager, LlenEager, HlenEager, ScardEager, SmembersEager DEF Eager!Next
<1>4. ASSUME NEW k \in Key, NEW start \in Indices, NEW stop \in Indices, Lrange(k, start, stop)
      PROVE  Eager!Next
  BY <1>4, LrangeEager DEF Eager!Next
<1>5. ASSUME NEW k \in Key, NEW e \in Elem, Hget(k, e) \/ Hexists(k, e) \/ Sismember(k, e)
      PROVE  Eager!Next
  BY <1>5, HgetEager, HexistsEager, SismemberEager DEF Eager!Next
<1>6. QED
  BY <1>1, <1>2, <1>3, <1>4, <1>5 DEF Read

\* Lazy expiration is never observable: to its clients the keyspace is a store
\* that drops each key at the tick of its deadline and holds no empty collection.
THEOREM LazyIsEager == Spec => ImplementsEager
<1>1. Inv /\ [Next]_keyspaceVars => [Eager!Next]_(Eager!vars)
  <2>1. ASSUME Inv, Tick
        PROVE  Eager!Next
    BY <2>1, TickEager DEF Eager!Next
  <2>2. ASSUME UNCHANGED keyspaceVars
        PROVE  UNCHANGED Eager!vars
    BY <2>2 DEF keyspaceVars, Eager!vars
  <2>3. QED
    BY <2>1, <2>2, WriteEager, ReadEager DEF Next
<1>2. QED
  BY <1>1, InitEager, Invariance, PTL DEF Spec, ImplementsEager, Eager!Spec
=============================================================================
