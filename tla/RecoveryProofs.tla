--------------------------- MODULE RecoveryProofs ---------------------------
(***************************************************************************)
(* Proofs about Recovery and Server, for every set of keys and elements,   *)
(* any number of restarts, and a disk that may fail.                       *)
(***************************************************************************)
EXTENDS Server, KeyspaceProofs

\* The records that log_command and log_expire write.
LogRecord ==
  [verb : {"DEL", "LPOP", "RPOP"}, key : Key, args : {<< >>}]
    \cup [verb : {"EXPIRE"}, key : Key, args : {<<n>> : n \in Int}]
    \cup [verb : {"SET", "LPUSH", "RPUSH", "HDEL", "SADD", "SREM"}, key : Key,
          args : {<<e>> : e \in Elem}]
    \cup [verb : {"HSET"}, key : Key, args : {<<f, e>> : f \in Elem, e \in Elem}]

\* What one command appends: one of them, or nothing.
Logs(recs) == recs = << >> \/ \E r \in LogRecord : recs = <<r>>

-----------------------------------------------------------------------------
(* The records of each command *)

LEMMA NoArgsRecord ==
  ASSUME NEW verb \in {"DEL", "LPOP", "RPOP"}, NEW k \in Key
  PROVE  Record(verb, k, << >>) \in LogRecord
BY DEF Record, LogRecord

LEMMA ExpireRecord ==
  ASSUME NEW k \in Key, NEW n \in Int
  PROVE  Record("EXPIRE", k, <<n>>) \in LogRecord
BY DEF Record, LogRecord

LEMMA ElemRecord ==
  ASSUME NEW verb \in {"SET", "LPUSH", "RPUSH", "HDEL", "SADD", "SREM"},
         NEW k \in Key, NEW e \in Elem
  PROVE  Record(verb, k, <<e>>) \in LogRecord
BY DEF Record, LogRecord

LEMMA FieldRecord ==
  ASSUME NEW k \in Key, NEW f \in Elem, NEW e \in Elem
  PROVE  Record("HSET", k, <<f, e>>) \in LogRecord
BY DEF Record, LogRecord

LEMMA ResultLogs ==
  ASSUME NEW st, NEW rep, NEW recs, Logs(recs)
  PROVE  Logs(Result(st, rep, recs).records)
BY DEF Result

LEMMA NothingLogs == Logs(<< >>)
BY DEF Logs

LEMMA OneLogs ==
  ASSUME NEW r \in LogRecord
  PROVE  Logs(<<r>>)
BY DEF Logs

LEMMA ReadingLogs ==
  ASSUME NEW st, NEW k, NEW ty, NEW ifMissing, NEW ifFound,
         Logs(ifMissing.records), Logs(ifFound.records)
  PROVE  Logs(Reading(st, k, ty, ifMissing, ifFound).records)
<1>1. Logs(Result(st, WrongType, << >>).records)
  BY NothingLogs, ResultLogs
<1>2. QED
  BY <1>1 DEF Reading

LEMMA WritingLogs ==
  ASSUME NEW st, NEW k, NEW ty, NEW ifFound, Logs(ifFound.records)
  PROVE  Logs(Writing(st, k, ty, ifFound).records)
<1>1. Logs(Result(st, WrongType, << >>).records)
  BY NothingLogs, ResultLogs
<1>2. QED
  BY <1>1 DEF Writing

LEMMA DELLogs ==
  ASSUME NEW st, NEW k \in Key, NEW t
  PROVE  Logs(DEL(st, k, t).records)
BY NothingLogs, OneLogs, NoArgsRecord DEF DEL, Result

LEMMA EXPIRELogs ==
  ASSUME NEW st, NEW k \in Key, NEW seconds \in Int, NEW t \in Nat, NEW u, NEW w \in Nat
  PROVE  Logs(EXPIRE(st, k, seconds, t, u, w).records)
<1>1. MaxSeconds(t) \in Int /\ UnixSeconds(w) + seconds \in Int
  BY ClockAssumption DEF MaxSeconds, UnixSeconds
<1> DEFINE n == UnixSeconds(w) + seconds
           most == MaxSeconds(t)
<1>2. Logs(<<Record("EXPIRE", k, <<n>>)>>) /\ Logs(<<Record("DEL", k, << >>)>>)
  BY <1>1, ExpireRecord, NoArgsRecord, OneLogs
<1>3. seconds > most \/ (seconds <= most /\ seconds <= 0) \/ (seconds <= most /\ seconds > 0)
  BY <1>1
<1>4. QED
  BY <1>1, <1>2, <1>3, NothingLogs DEF EXPIRE, Result

LEMMA SETLogs ==
  ASSUME NEW st, NEW k \in Key, NEW e \in Elem
  PROVE  Logs(SET(st, k, e).records)
BY OneLogs, ElemRecord DEF SET, Result

LEMMA PUSHLogs ==
  ASSUME NEW verb \in {"LPUSH", "RPUSH"}, NEW st, NEW k \in Key, NEW e \in Elem, NEW t
  PROVE  Logs(PUSH(verb, st, k, e, t).records)
BY OneLogs, ElemRecord, ResultLogs, WritingLogs DEF PUSH

LEMMA POPLogs ==
  ASSUME NEW verb \in {"LPOP", "RPOP"}, NEW st, NEW k \in Key, NEW t
  PROVE  Logs(POP(verb, st, k, t).records)
BY NothingLogs, OneLogs, NoArgsRecord, ResultLogs, ReadingLogs DEF POP

LEMMA HSETLogs ==
  ASSUME NEW st, NEW k \in Key, NEW f \in Elem, NEW e \in Elem, NEW t
  PROVE  Logs(HSET(st, k, f, e, t).records)
BY OneLogs, FieldRecord, ResultLogs, WritingLogs DEF HSET

LEMMA HDELLogs ==
  ASSUME NEW st, NEW k \in Key, NEW f \in Elem, NEW t
  PROVE  Logs(HDEL(st, k, f, t).records)
BY NothingLogs, OneLogs, ElemRecord, ResultLogs, ReadingLogs DEF HDEL

LEMMA SADDLogs ==
  ASSUME NEW st, NEW k \in Key, NEW e \in Elem, NEW t
  PROVE  Logs(SADD(st, k, e, t).records)
BY NothingLogs, OneLogs, ElemRecord, ResultLogs, WritingLogs DEF SADD

LEMMA SREMLogs ==
  ASSUME NEW st, NEW k \in Key, NEW e \in Elem, NEW t
  PROVE  Logs(SREM(st, k, e, t).records)
BY NothingLogs, OneLogs, ElemRecord, ResultLogs, ReadingLogs DEF SREM

-----------------------------------------------------------------------------
(* Replay *)

LEMMA RecordParts ==
  ASSUME NEW r \in LogRecord
  PROVE  /\ r.verb \in Verb /\ r.key \in Key
         /\ r.verb = "EXPIRE" => r.args[1] \in Int
         /\ r.verb \in {"SET", "LPUSH", "RPUSH", "HDEL", "SADD", "SREM", "HSET"}
              => r.args[1] \in Elem
         /\ r.verb = "HSET" => r.args[2] \in Elem
BY DEF LogRecord, Verb

\* A record of the log, replayed on a well-formed Store, leaves one.
LEMMA ReplayWellFormed ==
  ASSUME NEW r \in LogRecord, NEW st, NEW t \in Nat, NEW u \in Nat, NEW v \in Nat,
         WellFormed(st)
  PROVE  WellFormed(Replay(r, st, t, u, v))
<1>1. /\ r.verb \in Verb /\ r.key \in Key
      /\ r.verb = "EXPIRE" => r.args[1] \in Int
      /\ r.verb \in {"SET", "LPUSH", "RPUSH", "HDEL", "SADD", "SREM", "HSET"}
           => r.args[1] \in Elem
      /\ r.verb = "HSET" => r.args[2] \in Elem
  BY RecordParts
<1>2. CASE r.verb = "EXPIRE"
  <2> DEFINE remaining == r.args[1] - UnixSeconds(t)
  <2>1. remaining \in Int
    BY <1>1, <1>2, ClockAssumption DEF UnixSeconds
  <2>2. Replay(r, st, t, u, v) = IF remaining <= 0 THEN DEL(st, r.key, v).store
                                 ELSE EXPIRE(st, r.key, remaining, u, v, v).store
    BY <1>2 DEF Replay, ReplayExpire
  <2> HIDE DEF remaining
  <2>3. Sound(DEL(st, r.key, v)) /\ Sound(EXPIRE(st, r.key, remaining, u, v, v))
    BY <1>1, <2>1, DELSound, EXPIRESound
  <2>4. QED
    BY <2>2, <2>3 DEF Sound
<1>3. CASE r.verb = "SET"
  BY <1>1, <1>3, SETSound DEF Replay, Sound
<1>4. CASE r.verb = "DEL"
  BY <1>4, DELSound DEF Replay, Sound
<1>5. CASE r.verb \in {"LPUSH", "RPUSH"}
  BY <1>1, <1>5, PUSHSound DEF Replay, Sound
<1>6. CASE r.verb \in {"LPOP", "RPOP"}
  BY <1>6, POPSound DEF Replay, Sound
<1>7. CASE r.verb = "HSET"
  BY <1>1, <1>7, HSETSound DEF Replay, Sound
<1>8. CASE r.verb = "HDEL"
  BY <1>8, HDELSound DEF Replay, Sound
<1>9. CASE r.verb = "SADD"
  BY <1>1, <1>9, SADDSound DEF Replay, Sound
<1>10. CASE r.verb = "SREM"
  BY <1>10, SREMSound DEF Replay, Sound
<1>11. QED
  BY <1>1, <1>2, <1>3, <1>4, <1>5, <1>6, <1>7, <1>8, <1>9, <1>10 DEF Verb

-----------------------------------------------------------------------------
(* What a command appends *)

LEMMA WriteLogs == Inv /\ Write => Logs(records')
<1> SUFFICES ASSUME Inv, NEW k \in Key,
               \/ Del(k)
               \/ \E secs \in Seconds, gap1, gap2 \in 0 .. MaxGap : Expire(k, secs, gap1, gap2)
               \/ \E verb \in {"LPOP", "RPOP"} : Pop(verb, k)
               \/ \E e \in Elem :
                    \/ Set(k, e)
                    \/ \E verb \in {"LPUSH", "RPUSH"} : Push(verb, k, e)
                    \/ \E field \in Elem : Hset(k, field, e)
                    \/ Hdel(k, e)
                    \/ Sadd(k, e)
                    \/ Srem(k, e)
             PROVE  Logs(records')
  BY DEF Write
<1>1. CASE Del(k)
  BY <1>1, DELLogs DEF Del, Run, Apply
<1>2. ASSUME NEW secs \in Seconds, NEW gap1 \in 0 .. MaxGap, NEW gap2 \in 0 .. MaxGap,
             Expire(k, secs, gap1, gap2)
      PROVE  Logs(records')
  <2>1. secs \in Int /\ now \in Nat /\ now + gap1 + gap2 \in Nat
    BY KeyspaceAssumption DEF Inv
  <2>2. Logs(EXPIRE(store, k, secs, now, now + gap1, now + gap1 + gap2).records)
    BY <2>1, EXPIRELogs
  <2>3. QED
    BY <1>2, <2>2 DEF Expire, RunFor, Apply
<1>3. ASSUME NEW verb \in {"LPOP", "RPOP"}, Pop(verb, k)
      PROVE  Logs(records')
  BY <1>3, POPLogs DEF Pop, Run, Apply
<1>4. ASSUME NEW e \in Elem, Set(k, e)
      PROVE  Logs(records')
  BY <1>4, SETLogs DEF Set, Run, Apply
<1>5. ASSUME NEW e \in Elem, NEW verb \in {"LPUSH", "RPUSH"}, Push(verb, k, e)
      PROVE  Logs(records')
  BY <1>5, PUSHLogs DEF Push, Run, Apply
<1>6. ASSUME NEW e \in Elem, NEW field \in Elem, Hset(k, field, e)
      PROVE  Logs(records')
  BY <1>6, HSETLogs DEF Hset, Run, Apply
<1>7. ASSUME NEW e \in Elem, Hdel(k, e) \/ Sadd(k, e) \/ Srem(k, e)
      PROVE  Logs(records')
  BY <1>7, HDELLogs, SADDLogs, SREMLogs DEF Hdel, Sadd, Srem, Run, Apply
<1>8. QED
  BY <1>1, <1>2, <1>3, <1>4, <1>5, <1>6, <1>7

\* A query appends nothing.
LEMMA ReadLogs == Read => Logs(records')
  BY ReadAppendsNothing, NothingLogs

-----------------------------------------------------------------------------
(* The log *)

\* The process has memory only while it serves or replays.  While its stream is
\* good the file holds every change; when it is bad, at least the one that
\* failed is missing; and whatever the file holds was written in order.
Memory == /\ WellFormed(loaded) /\ WellFormed(before)
          /\ phase # "serving" => store = EmptyStore
          /\ phase # "replaying" => loaded = EmptyStore
File == /\ log \in Seq(LogRecord) /\ made \in Seq(LogRecord)
        /\ Len(made) <= MaxLog
        /\ Len(log) <= Len(made)
        /\ \A i \in 1 .. Len(log) : log[i] = made[i]
        /\ bad => phase = "serving" /\ Len(log) < Len(made)
        /\ phase = "serving" /\ ~bad => ~torn /\ Len(log) = Len(made)
Bounds == /\ phase \in Phase
          /\ torn \in BOOLEAN /\ bad \in BOOLEAN
          /\ pos \in 0 .. Len(log)
          /\ crashes \in 0 .. MaxCrashes
RecoveryInv == Inv /\ Memory /\ File /\ Bounds

LEMMA RecoveryInitInv == RecoveryInit => RecoveryInv
<1> SUFFICES ASSUME RecoveryInit
             PROVE  RecoveryInv
  OBVIOUS
<1>1. Inv
  BY InitInv DEF RecoveryInit
<1>2. Memory
  BY EmptyStoreWellFormed DEF RecoveryInit, Memory
<1>3. File
  BY RecoveryAssumption DEF RecoveryInit, File
<1>4. Bounds
  <2>1. Len(log) = 0 /\ pos = 0
    BY DEF RecoveryInit
  <2>2. phase \in Phase /\ torn \in BOOLEAN /\ bad \in BOOLEAN
    BY DEF RecoveryInit, Phase
  <2>3. crashes \in 0 .. MaxCrashes
    BY RecoveryAssumption DEF RecoveryInit
  <2>4. QED
    BY <2>1, <2>2, <2>3 DEF Bounds
<1>5. QED
  BY <1>1, <1>2, <1>3, <1>4 DEF RecoveryInv

\* Appending to both sequences, or to the longer.
LEMMA AppendBoth ==
  ASSUME NEW S, NEW s \in Seq(S), NEW t \in Seq(S), NEW r \in Seq(S),
         Len(s) = Len(t), \A i \in 1 .. Len(s) : s[i] = t[i]
  PROVE  \A i \in 1 .. Len(s \o r) : (s \o r)[i] = (t \o r)[i]
OBVIOUS

LEMMA AppendLonger ==
  ASSUME NEW S, NEW s \in Seq(S), NEW t \in Seq(S), NEW r \in Seq(S),
         Len(s) <= Len(t), \A i \in 1 .. Len(s) : s[i] = t[i]
  PROVE  /\ Len(t \o r) = Len(t) + Len(r)
         /\ \A i \in 1 .. Len(s) : s[i] = (t \o r)[i]
OBVIOUS

LEMMA LogsType ==
  ASSUME NEW recs, Logs(recs)
  PROVE  recs \in Seq(LogRecord) /\ (recs # << >> => Len(recs) = 1)
<1>1. CASE recs = << >>
  BY <1>1
<1>2. ASSUME NEW r \in LogRecord, recs = <<r>>
      PROVE  recs \in Seq(LogRecord) /\ Len(recs) = 1
  BY <1>2
<1>3. QED
  BY <1>1, <1>2 DEF Logs

LEMMA ServeInv == RecoveryInv /\ Serve => RecoveryInv'
<1> SUFFICES ASSUME RecoveryInv, Serve
             PROVE  RecoveryInv'
  OBVIOUS
<1>1. Inv'
  BY WriteInv, ReadInv DEF RecoveryInv, Serve
<1>2. records' \in Seq(LogRecord) /\ (records' # << >> => Len(records') = 1)
  BY WriteLogs, ReadLogs, LogsType DEF RecoveryInv, Serve
<1>3. /\ phase = "serving" /\ phase' = phase /\ pos' = pos /\ loaded' = loaded
      /\ crashes' = crashes /\ before' = before /\ made' = made \o records'
      /\ Len(made') <= MaxLog
  BY DEF Serve
<1>4. Memory'
  BY <1>3 DEF RecoveryInv, Memory
<1>5. /\ log \in Seq(LogRecord) /\ made \in Seq(LogRecord) /\ Len(log) <= Len(made)
      /\ \A i \in 1 .. Len(log) : log[i] = made[i]
      /\ torn \in BOOLEAN /\ bad \in BOOLEAN
      /\ bad => Len(log) < Len(made)
      /\ ~bad => ~torn /\ Len(log) = Len(made)
      /\ pos \in 0 .. Len(log)
  BY <1>3 DEF RecoveryInv, File, Bounds
<1>6. made' \in Seq(LogRecord) /\ Len(made') = Len(made) + Len(records')
  BY <1>2, <1>3, <1>5
<1>7. \A i \in 1 .. Len(log) : log[i] = made'[i]
  BY <1>2, <1>3, <1>5, AppendLonger
<1>8. CASE AppendRecord(records')
  <2>1. /\ log' = log \o records' /\ torn' = torn /\ ~bad /\ bad' = bad
    BY <1>8 DEF AppendRecord
  <2>2. /\ log' \in Seq(LogRecord) /\ Len(log') = Len(log) + Len(records')
        /\ Len(records') \in Nat
    BY <1>2, <1>5, <2>1
  <2>3. \A i \in 1 .. Len(log') : log'[i] = made'[i]
    <3>1. Len(log) = Len(made)
      BY <1>5, <2>1
    <3>2. \A i \in 1 .. Len(log \o records') : (log \o records')[i] = (made \o records')[i]
      BY <1>2, <1>5, <3>1, AppendBoth
    <3>3. QED
      BY <1>3, <2>1, <3>2
  <2>4. bad' = FALSE /\ torn' = FALSE /\ Len(log') = Len(made')
    BY <1>5, <1>6, <2>1, <2>2
  <2>5. File'
    <3>1. Len(log') <= Len(made')
      BY <1>5, <2>2, <2>4
    <3>2. QED
      BY <1>3, <1>6, <2>2, <2>3, <2>4, <3>1 DEF File
  <2>6. Bounds'
    BY <1>3, <1>5, <2>1, <2>2 DEF RecoveryInv, Bounds
  <2>7. QED
    BY <1>1, <1>4, <2>5, <2>6 DEF RecoveryInv
<1>9. CASE AppendFails(records')
  <2>1. /\ log' = log /\ torn' \in BOOLEAN /\ ~bad /\ bad' = TRUE /\ Len(records') = 1
    BY <1>2, <1>5, <1>9 DEF AppendFails
  <2>2. File'
    BY <1>3, <1>5, <1>6, <1>7, <2>1 DEF File
  <2>3. Bounds'
    BY <1>3, <1>5, <2>1 DEF RecoveryInv, Bounds
  <2>4. QED
    BY <1>1, <1>4, <2>2, <2>3 DEF RecoveryInv
<1>10. CASE SkipAppend(records')
  <2>1. /\ log' = log /\ torn' = torn /\ bad /\ bad' = bad /\ Len(records') \in Nat
    BY <1>2, <1>10 DEF SkipAppend
  <2>2. File'
    BY <1>3, <1>5, <1>6, <1>7, <2>1 DEF File
  <2>3. Bounds'
    BY <1>3, <1>5, <2>1 DEF RecoveryInv, Bounds
  <2>4. QED
    BY <1>1, <1>4, <2>2, <2>3 DEF RecoveryInv
<1>11. QED
  BY <1>8, <1>9, <1>10 DEF Serve

\* A step that leaves memory, the file and the replay alone.
LEMMA TimePassesInv == RecoveryInv /\ TimePasses => RecoveryInv'
<1> SUFFICES ASSUME RecoveryInv, TimePasses
             PROVE  RecoveryInv'
  OBVIOUS
<1>1. Inv' /\ UNCHANGED <<store, recoveryVars>>
  BY TickInv DEF RecoveryInv, TimePasses, Tick
<1>2. QED
  BY <1>1 DEF RecoveryInv, Memory, File, Bounds, recoveryVars

\* Going down takes the memory, whatever becomes of the file.
LEMMA GoDownInv ==
  ASSUME RecoveryInv, GoDown,
         /\ log' \in Seq(LogRecord) /\ Len(log') <= Len(made)
         /\ \A i \in 1 .. Len(log') : log'[i] = made[i]
         /\ torn' \in BOOLEAN
  PROVE  RecoveryInv'
<1>1. /\ store' = EmptyStore /\ loaded' = EmptyStore /\ phase' = "down" /\ bad' = FALSE
      /\ pos' = 0 /\ made' = made /\ now' = now /\ Len(records') = 0
      /\ before' = store \/ before' = before
      /\ crashes' \in 0 .. MaxCrashes
  BY RecoveryAssumption DEF GoDown, RecoveryInv, Bounds
<1>2. Inv'
  BY <1>1, EmptyStoreWellFormed DEF RecoveryInv, Inv
<1>3. Memory'
  BY <1>1, EmptyStoreWellFormed DEF RecoveryInv, Memory, Inv
<1>4. File'
  BY <1>1 DEF RecoveryInv, File
<1>5. Len(log') \in Nat
  OBVIOUS
<1>6. Bounds'
  <2>1. phase' \in Phase /\ bad' \in BOOLEAN /\ torn' \in BOOLEAN
    BY <1>1 DEF Phase
  <2>2. pos' \in 0 .. Len(log')
    BY <1>1, <1>5
  <2>3. QED
    BY <1>1, <2>1, <2>2 DEF Bounds
<1>7. QED
  BY <1>2, <1>3, <1>4, <1>6 DEF RecoveryInv

LEMMA StopInv == RecoveryInv /\ Stop => RecoveryInv'
<1> SUFFICES ASSUME RecoveryInv, Stop
             PROVE  RecoveryInv'
  OBVIOUS
<1>1. /\ log \in Seq(LogRecord) /\ made \in Seq(LogRecord) /\ Len(log) <= Len(made)
      /\ \A i \in 1 .. Len(log) : log[i] = made[i]
      /\ torn \in BOOLEAN
      /\ bad => Len(log) < Len(made)
  BY DEF RecoveryInv, File, Bounds
<1>2. CASE torn' \in BOOLEAN /\ log' = log
  BY <1>1, <1>2, GoDownInv DEF Stop
<1>3. CASE bad /\ log' = Append(log, made[Len(log) + 1]) /\ torn' = torn
  <2>1. Len(log) + 1 \in 1 .. Len(made)
    BY <1>1, <1>3
  <2>2. made[Len(log) + 1] \in LogRecord
    BY <1>1, <2>1
  <2>3. /\ log' \in Seq(LogRecord) /\ Len(log') = Len(log) + 1
        /\ \A i \in 1 .. Len(log) : log'[i] = log[i]
        /\ log'[Len(log) + 1] = made[Len(log) + 1]
    BY <1>1, <1>3, <2>2
  <2>4. \A i \in 1 .. Len(log') : log'[i] = made[i]
    BY <1>1, <2>3
  <2>5. QED
    BY <1>1, <1>3, <2>1, <2>3, <2>4, GoDownInv DEF Stop
<1>4. QED
  BY <1>1, <1>2, <1>3 DEF Stop, LastTry

LEMMA StopMidAppendInv == RecoveryInv /\ StopMidAppend => RecoveryInv'
BY GoDownInv DEF StopMidAppend, RecoveryInv, File

LEMMA StartReplayInv == RecoveryInv /\ StartReplay => RecoveryInv'
<1> SUFFICES ASSUME RecoveryInv, StartReplay
             PROVE  RecoveryInv'
  OBVIOUS
<1>1. /\ phase = "down" /\ phase' = "replaying"
      /\ UNCHANGED <<keyspaceVars, log, torn, bad, pos, loaded, crashes, before, made>>
  BY DEF StartReplay
<1>2. Inv'
  BY <1>1 DEF RecoveryInv, Inv, keyspaceVars
<1>3. Memory' /\ File' /\ Bounds'
  BY <1>1 DEF RecoveryInv, Memory, File, Bounds, Phase, keyspaceVars
<1>4. QED
  BY <1>2, <1>3 DEF RecoveryInv

LEMMA ReplayRecordInv == RecoveryInv /\ ReplayRecord => RecoveryInv'
<1> SUFFICES ASSUME RecoveryInv, ReplayRecord
             PROVE  RecoveryInv'
  OBVIOUS
<1>1. /\ phase = "replaying" /\ pos < Len(log) /\ pos' = pos + 1
      /\ UNCHANGED <<store, records, phase, log, torn, bad, crashes, before, made>>
  BY DEF ReplayRecord
<1>2. PICK gap1 \in 0 .. MaxGap, gap2 \in 0 .. MaxGap :
        /\ now + gap1 + gap2 <= MaxTime /\ now' = now + gap1 + gap2
        /\ loaded' = Replay(log[pos + 1], loaded, now, now + gap1, now')
  BY DEF ReplayRecord
<1>3. now \in Nat /\ now + gap1 \in Nat /\ now' \in 0 .. MaxTime /\ now' \in Nat
  BY <1>2, KeyspaceAssumption DEF RecoveryInv, Inv
<1>4. log \in Seq(LogRecord) /\ pos \in Nat /\ Len(log) \in Nat
  BY DEF RecoveryInv, File, Bounds
<1>5. log[pos + 1] \in LogRecord
  BY <1>1, <1>4
<1>6. WellFormed(loaded')
  BY <1>2, <1>3, <1>5, ReplayWellFormed DEF RecoveryInv, Memory
<1>7. Inv'
  BY <1>1, <1>3 DEF RecoveryInv, Inv
<1>8. Memory'
  BY <1>1, <1>6 DEF RecoveryInv, Memory
<1>9. File' /\ Bounds'
  BY <1>1, <1>4 DEF RecoveryInv, File, Bounds
<1>10. QED
  BY <1>7, <1>8, <1>9 DEF RecoveryInv

LEMMA FinishReplayInv == RecoveryInv /\ FinishReplay => RecoveryInv'
<1> SUFFICES ASSUME RecoveryInv, FinishReplay
             PROVE  RecoveryInv'
  OBVIOUS
<1>1. /\ phase = "replaying" /\ ~torn /\ phase' = "serving"
      /\ store' = loaded /\ loaded' = EmptyStore /\ pos' = 0 /\ made' = log
      /\ UNCHANGED <<now, records, log, torn, bad, crashes, before>>
  BY DEF FinishReplay
<1>2. Inv'
  BY <1>1 DEF RecoveryInv, Inv, Memory
<1>3. Memory'
  BY <1>1, EmptyStoreWellFormed DEF RecoveryInv, Memory
<1>4. log \in Seq(LogRecord) /\ Len(log) \in Nat /\ Len(log) <= MaxLog
  BY RecoveryAssumption DEF RecoveryInv, File
<1>5. File'
  BY <1>1, <1>4 DEF RecoveryInv, File
<1>6. Bounds'
  BY <1>1, <1>4 DEF RecoveryInv, Bounds, Phase
<1>7. QED
  BY <1>2, <1>3, <1>5, <1>6 DEF RecoveryInv

LEMMA RefuseLogInv == RecoveryInv /\ RefuseLog => RecoveryInv'
<1> SUFFICES ASSUME RecoveryInv, RefuseLog
             PROVE  RecoveryInv'
  OBVIOUS
<1>1. /\ phase = "replaying" /\ phase' = "refused"
      /\ loaded' = EmptyStore /\ pos' = 0 /\ Len(log) \in Nat
      /\ UNCHANGED <<keyspaceVars, log, torn, bad, crashes, before, made>>
  BY DEF RefuseLog, RecoveryInv, File
<1>2. Inv'
  BY <1>1 DEF RecoveryInv, Inv, keyspaceVars
<1>3. Memory'
  BY <1>1, EmptyStoreWellFormed DEF RecoveryInv, Memory, keyspaceVars
<1>4. File' /\ Bounds'
  BY <1>1 DEF RecoveryInv, File, Bounds, Phase
<1>5. QED
  BY <1>2, <1>3, <1>4 DEF RecoveryInv

LEMMA FixLogInv == RecoveryInv /\ FixLog => RecoveryInv'
<1> SUFFICES ASSUME RecoveryInv, FixLog
             PROVE  RecoveryInv'
  OBVIOUS
<1>1. /\ phase = "refused" /\ phase' = "down" /\ torn' = FALSE
      /\ UNCHANGED <<keyspaceVars, log, bad, pos, loaded, crashes, before, made>>
  BY DEF FixLog
<1>2. Inv'
  BY <1>1 DEF RecoveryInv, Inv, keyspaceVars
<1>3. Memory' /\ File' /\ Bounds'
  BY <1>1 DEF RecoveryInv, Memory, File, Bounds, Phase, keyspaceVars
<1>4. QED
  BY <1>2, <1>3 DEF RecoveryInv

LEMMA RecoveryNextInv == RecoveryInv /\ [RecoveryNext]_vars => RecoveryInv'
<1>1. RecoveryInv /\ UNCHANGED vars => RecoveryInv'
  BY DEF RecoveryInv, Inv, Memory, File, Bounds, vars, keyspaceVars, recoveryVars
<1>2. QED
  BY <1>1, ServeInv, TimePassesInv, StopInv, StopMidAppendInv, StartReplayInv,
     ReplayRecordInv, FinishReplayInv, RefuseLogInv, FixLogInv DEF RecoveryNext

LEMMA RecoveryInvariance == RecoverySpec => []RecoveryInv
BY RecoveryInitInv, RecoveryNextInv, PTL DEF RecoverySpec

-----------------------------------------------------------------------------
\* Through any number of restarts the Store, the one being rebuilt and the log
\* are well typed, and only a process that serves or replays has a Store.
THEOREM RecoveryTypeCorrect == RecoverySpec => []RecoveryTypeOK
<1>1. ASSUME RecoveryInv
      PROVE  \A r \in Range(log) : r.verb \in Verb /\ r.key \in Key
  <2>1. log \in Seq(LogRecord)
    BY <1>1 DEF RecoveryInv, File
  <2>2. \A r \in Range(log) : r \in LogRecord
    BY <2>1 DEF Range
  <2>3. QED
    BY <2>2, RecordParts
<1>2. RecoveryInv => Len(log) <= MaxLog
  BY RecoveryAssumption DEF RecoveryInv, File
<1>3. RecoveryInv => RecoveryTypeOK
  BY <1>1, <1>2 DEF RecoveryInv, Inv, Memory, Bounds, WellFormed, TypeOK, RecoveryTypeOK
<1>4. QED
  BY <1>3, RecoveryInvariance, PTL

\* No append follows a broken record, whether a crash or a failing disk broke it.
THEOREM AppendsToWholeLogs == RecoverySpec => []ServesWholeLogs
<1>1. RecoveryInv => ServesWholeLogs
  BY DEF RecoveryInv, File, ServesWholeLogs
<1>2. QED
  BY <1>1, RecoveryInvariance, PTL

\* However many appends fail, the log never has a gap: what a restart replays is
\* the changes from the first to some last one.
THEOREM LogHasNoGap == RecoverySpec => []LogIsPrefix
<1>1. ASSUME RecoveryInv
      PROVE  log = SubSeq(made, 1, Len(log))
  <2>1. /\ log \in Seq(LogRecord) /\ made \in Seq(LogRecord) /\ Len(log) <= Len(made)
        /\ \A i \in 1 .. Len(log) : log[i] = made[i]
    BY <1>1 DEF RecoveryInv, File
  <2>2. QED
    BY <2>1
<1>2. RecoveryInv => LogIsPrefix
  BY <1>1 DEF RecoveryInv, File, LogIsPrefix
<1>3. QED
  BY <1>2, RecoveryInvariance, PTL

\* A Store rebuilt from the log is as well formed as one that never went down:
\* after any restart no deadline is without its key.
THEOREM DeadlinesHaveKeysAfterRestart == RecoverySpec => []NoOrphanDeadline
<1>1. RecoveryInv => NoOrphanDeadline
  BY DEF RecoveryInv, Inv, WellFormed, NoOrphan, NoOrphanDeadline
<1>2. QED
  BY <1>1, RecoveryInvariance, PTL

-----------------------------------------------------------------------------
(* Server: for any clients, buffers of any size, and any number of crashes. *)

\* Until an append fails, no reply, sent or waiting, knows of more changes than
\* are in the file.
Known == /\ \A c \in Client : \A i \in 1 .. Len(output[c]) : output[c][i] <= Len(log)
         /\ told <= Len(log)
Answers == /\ output \in [Client -> Seq(Nat)]
           /\ told \in Nat
           /\ bad => failed
           /\ failed \/ Known
ServerInv == RecoveryInv /\ Answers

\* The file does not change, and the buffers are left alone.
LEMMA KeepsAnswers ==
  ASSUME Answers, bad' => bad, ~bad => log' = log, UNCHANGED <<output, told, failed>>
  PROVE  Answers'
<1>1. bad' => failed'
  BY DEF Answers
<1>2. ASSUME ~failed'
      PROVE  Known'
  <2>1. Known /\ log' = log
    BY <1>2 DEF Answers
  <2>2. QED
    BY <2>1 DEF Known
<1>3. QED
  BY <1>1, <1>2 DEF Answers

\* No step of Recovery but Serve changes the file, unless the stream is bad.
LEMMA KeepsLog ==
  ASSUME Stop \/ StopMidAppend \/ StartReplay \/ ReplayRecord \/ FinishReplay \/ RefuseLog
           \/ FixLog \/ TimePasses \/ UNCHANGED vars
  PROVE  (bad' => bad) /\ (~bad => log' = log)
<1>1. CASE Stop \/ StopMidAppend
  BY <1>1 DEF Stop, StopMidAppend, GoDown, LastTry
<1>2. CASE StartReplay \/ ReplayRecord \/ FinishReplay
  BY <1>2 DEF StartReplay, ReplayRecord, FinishReplay
<1>3. CASE RefuseLog \/ FixLog \/ TimePasses \/ UNCHANGED vars
  BY <1>3 DEF RefuseLog, FixLog, TimePasses, vars, recoveryVars
<1>4. QED
  BY <1>1, <1>2, <1>3

LEMMA ExecuteInv ==
  ASSUME ServerInv, NEW c \in Client, Execute(c)
  PROVE  ServerInv'
<1>1. /\ Serve /\ RecoveryInv /\ Answers
      /\ output' = [output EXCEPT ![c] = Append(@, Len(made'))]
      /\ told' = told
      /\ failed' = (failed \/ bad')
  BY DEF Execute, ServerInv
<1>2. RecoveryInv'
  BY <1>1, ServeInv
<1>3. Len(made') \in Nat
  BY <1>2 DEF RecoveryInv, File
<1>4. output' \in [Client -> Seq(Nat)] /\ told' \in Nat /\ (bad' => failed')
  <2>1. output' \in [Client -> Seq(Nat)]
    BY <1>1, <1>3 DEF Answers
  <2>2. told' \in Nat
    BY <1>1 DEF Answers
  <2>3. bad' => failed'
    BY <1>1
  <2>4. QED
    BY <2>1, <2>2, <2>3
<1>5. ASSUME ~failed'
      PROVE  Known'
  <2>1. ~failed /\ ~bad' /\ ~bad /\ Known
    BY <1>1, <1>5 DEF Answers
  <2>2. phase' = "serving" /\ log' = log \o records'
    <3>1. phase = "serving" /\ phase' = phase
      BY <1>1 DEF Serve
    <3>2. AppendRecord(records')
      BY <1>1, <2>1 DEF Serve, AppendFails, SkipAppend
    <3>3. QED
      BY <3>1, <3>2 DEF AppendRecord
  <2>3. records' \in Seq(LogRecord)
    BY <1>1, WriteLogs, ReadLogs, LogsType DEF RecoveryInv, Serve
  <2>4. Len(log) \in Nat /\ Len(log') \in Nat /\ Len(log) <= Len(log')
    BY <1>1, <2>2, <2>3 DEF RecoveryInv, File
  <2>5. Len(made') = Len(log')
    BY <1>2, <2>1, <2>2 DEF RecoveryInv, File
  <2>6. ASSUME NEW d \in Client, NEW i \in 1 .. Len(output'[d])
        PROVE  output'[d][i] <= Len(log')
    <3>1. \A j \in 1 .. Len(output[d]) : output[d][j] \in Nat
      BY <1>1 DEF Answers
    <3>2. \A j \in 1 .. Len(output[d]) : output[d][j] <= Len(log')
      BY <2>1, <2>4, <3>1 DEF Known
    <3>3. CASE d # c
      <4>1. output'[d] = output[d]
        BY <1>1, <3>3 DEF Answers
      <4>2. QED
        BY <2>6, <3>2, <4>1
    <3>4. CASE d = c
      <4>1. output[c] \in Seq(Nat) /\ output'[c] = Append(output[c], Len(made'))
        BY <1>1 DEF Answers
      <4>2. i \in 1 .. Len(output[c]) \/ output'[c][i] = Len(made')
        BY <1>3, <2>6, <3>4, <4>1
      <4>3. i \in 1 .. Len(output[c]) => output'[c][i] = output[c][i]
        BY <1>3, <4>1
      <4>4. QED
        BY <2>4, <2>5, <3>2, <3>4, <4>2, <4>3
    <3>5. QED
      BY <3>3, <3>4
  <2>7. told' <= Len(log')
    BY <1>1, <2>1, <2>4 DEF Answers, Known
  <2>8. QED
    BY <2>6, <2>7 DEF Known
<1>6. QED
  BY <1>2, <1>4, <1>5 DEF ServerInv, Answers

LEMMA TrySendInv ==
  ASSUME ServerInv, NEW c \in Client, NEW n \in 0 .. Len(output[c]), TrySend(c, n)
  PROVE  ServerInv'
<1>1. /\ RecoveryInv /\ Answers /\ UNCHANGED vars /\ failed' = failed
      /\ told' = IF n = 0 \/ output[c][n] <= told THEN told ELSE output[c][n]
      /\ output' = [output EXCEPT ![c] = SubSeq(@, n + 1, Len(@))]
  BY DEF TrySend, ServerInv
<1>2. RecoveryInv' /\ bad' = bad /\ log' = log
  BY <1>1, RecoveryNextInv DEF vars, recoveryVars
<1>3. output[c] \in Seq(Nat) /\ output \in [Client -> Seq(Nat)]
  BY <1>1 DEF Answers
<1>4. told' \in Nat
  <2>1. n = 0 \/ output[c][n] \in Nat
    BY <1>3
  <2>2. QED
    BY <1>1, <2>1 DEF Answers
<1>5. /\ SubSeq(output[c], n + 1, Len(output[c])) \in Seq(Nat)
      /\ \A i \in 1 .. Len(SubSeq(output[c], n + 1, Len(output[c]))) :
           /\ SubSeq(output[c], n + 1, Len(output[c]))[i] = output[c][n + i]
           /\ n + i \in 1 .. Len(output[c])
  BY <1>3
<1>6. output' \in [Client -> Seq(Nat)]
  BY <1>1, <1>3, <1>5
<1>7. ASSUME ~failed'
      PROVE  Known'
  <2>1. Known
    BY <1>1, <1>7 DEF Answers
  <2>2. told' <= Len(log')
    BY <1>1, <1>2, <2>1 DEF Known
  <2>3. ASSUME NEW d \in Client, NEW i \in 1 .. Len(output'[d])
        PROVE  output'[d][i] <= Len(log')
    <3>1. CASE d # c
      BY <1>1, <1>2, <1>3, <2>1, <2>3, <3>1 DEF Known
    <3>2. CASE d = c
      <4>1. output'[c] = SubSeq(output[c], n + 1, Len(output[c]))
        BY <1>1, <1>3
      <4>2. output'[c][i] = output[c][n + i] /\ n + i \in 1 .. Len(output[c])
        BY <1>5, <2>3, <3>2, <4>1
      <4>3. QED
        BY <1>2, <2>1, <3>2, <4>2 DEF Known
    <3>3. QED
      BY <3>1, <3>2
  <2>4. QED
    BY <2>2, <2>3 DEF Known
<1>8. QED
  BY <1>1, <1>2, <1>4, <1>6, <1>7 DEF ServerInv, Answers

LEMMA CrashInv == ServerInv /\ Crash => ServerInv'
<1> SUFFICES ASSUME ServerInv, Crash
             PROVE  ServerInv'
  OBVIOUS
<1>1. RecoveryInv /\ Answers /\ RecoveryInv'
  BY StopInv, StopMidAppendInv DEF ServerInv, Crash
<1>2. (bad' => bad) /\ (~bad => log' = log) /\ told' = told /\ failed' = failed
  BY KeepsLog DEF Crash
<1>3. output' = [c \in Client |-> << >>]
  BY DEF Crash
<1>4. /\ output' \in [Client -> Seq(Nat)]
      /\ \A c \in Client : Len(output'[c]) = 0
  BY <1>3
<1>5. bad' => failed'
  BY <1>1, <1>2 DEF Answers
<1>6. failed' \/ Known'
  <2>1. failed \/ (log' = log /\ Known)
    BY <1>1, <1>2 DEF Answers
  <2>2. QED
    BY <1>2, <1>4, <2>1 DEF Known
<1>7. QED
  BY <1>1, <1>2, <1>4, <1>5, <1>6 DEF ServerInv, Answers

LEMMA ServerNextInv == ServerInv /\ [ServerNext]_serverVars => ServerInv'
<1> SUFFICES ASSUME ServerInv, [ServerNext]_serverVars
             PROVE  ServerInv'
  OBVIOUS
<1>1. RecoveryInv /\ Answers
  BY DEF ServerInv
<1>2. ASSUME UNCHANGED <<output, told, failed>>,
             Restart \/ TimePasses \/ UNCHANGED vars
      PROVE  ServerInv'
  <2>1. RecoveryInv'
    BY <1>1, <1>2, StartReplayInv, ReplayRecordInv, FinishReplayInv, RefuseLogInv, FixLogInv,
       TimePassesInv, RecoveryNextInv DEF Restart
  <2>2. (bad' => bad) /\ (~bad => log' = log)
    BY <1>2, KeepsLog DEF Restart
  <2>3. Answers'
    BY <1>1, <1>2, <2>2, KeepsAnswers
  <2>4. QED
    BY <2>1, <2>3 DEF ServerInv
<1>3. ASSUME NEW c \in Client, Arrive(c) \/ ReadEvent(c)
      PROVE  ServerInv'
  BY <1>2, <1>3 DEF Arrive, ReadEvent
<1>4. ASSUME NEW c \in Client, ReadEventEnds(c) \/ WriteEvent(c)
      PROVE  ServerInv'
  <2>1. PICK n \in 0 .. Len(output[c]) : TrySend(c, n)
    <3>1. Len(output[c]) \in Nat
      BY <1>1 DEF Answers
    <3>2. QED
      BY <1>4, <3>1 DEF ReadEventEnds, WriteEvent
  <2>2. QED
    BY <2>1, TrySendInv
<1>5. CASE Restart \/ (TimePasses /\ UNCHANGED bufferVars) \/ UNCHANGED serverVars
  BY <1>2, <1>5 DEF Restart, bufferVars, serverVars
<1>6. QED
  BY <1>3, <1>4, <1>5, ExecuteInv, CrashInv DEF ServerNext

-----------------------------------------------------------------------------
\* Until an append fails, no crash of the process takes back what a client was told.
THEOREM AnswersOutliveTheProcess == ServerSpec => []ToldIsLogged
<1>1. ServerInit => ServerInv
  <2> SUFFICES ASSUME ServerInit
               PROVE  ServerInv
    OBVIOUS
  <2>1. RecoveryInv
    BY RecoveryInitInv DEF ServerInit
  <2>2. /\ ~bad /\ Len(log) = 0 /\ told = 0
        /\ output = [c \in Client |-> << >>]
    BY DEF ServerInit, RecoveryInit
  <2>3. output \in [Client -> Seq(Nat)] /\ \A c \in Client : Len(output[c]) = 0
    BY <2>2
  <2>4. QED
    BY <2>1, <2>2, <2>3 DEF ServerInv, Answers, Known
<1>2. ServerInv => ToldIsLogged
  BY DEF ServerInv, Answers, Known, ToldIsLogged
<1>3. QED
  BY <1>1, <1>2, ServerNextInv, PTL DEF ServerSpec
=============================================================================
