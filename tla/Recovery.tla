------------------------------ MODULE Recovery ------------------------------
(***************************************************************************)
(* The append-only log and what a restart makes of it (persistence.cpp,    *)
(* and the start of run_server).  A serving process appends the record of  *)
(* each change as it makes it; when the process goes, memory goes and the  *)
(* file stays; a new process replays the file, one record at a time, with  *)
(* the clocks still running, into a Store of its own that it moves into    *)
(* place only when the whole file has been read.                           *)
(***************************************************************************)
EXTENDS Keyspace

CONSTANTS MaxLog,      \* bound: records in the log
          MaxCrashes,  \* bound: times the process goes down
          DiskMayFail  \* may an append fail?

ASSUME RecoveryAssumption ==
  MaxLog \in Nat /\ MaxCrashes \in Nat /\ DiskMayFail \in BOOLEAN

VARIABLES phase,    \* what the process is doing: see Phase
          log,      \* the complete records in the file
          torn,     \* is there part of a record after them?
          bad,      \* serving: has an append to the log failed?
          pos,      \* replaying: how many records have been read
          loaded,   \* replaying: the Store being rebuilt
          crashes,  \* how often the process has gone down
          before,   \* ghost: the Store in memory when it last went down
          made      \* ghost: the records of the changes it is made of

recoveryVars == <<phase, log, torn, bad, pos, loaded, crashes, before, made>>
vars == <<keyspaceVars, recoveryVars>>

Phase == {"serving", "down", "replaying", "refused"}

\* A server that has just found no file to replay.
RecoveryInit == /\ Init
                /\ phase = "serving"
                /\ log = << >> /\ torn = FALSE /\ bad = FALSE
                /\ pos = 0 /\ loaded = EmptyStore
                /\ crashes = 0
                /\ before = EmptyStore /\ made = << >>

-----------------------------------------------------------------------------
\* Mutant: no flush, so that the record waits in the stream's buffer.
AppendRecordUnflushed(recs) == ~bad /\ UNCHANGED <<log, torn, bad>>

\* Append one command's record, or none, and flush.
AppendRecord(recs) == /\ ~bad
                      /\ log' = log \o recs
                      /\ UNCHANGED <<torn, bad>>

\* The disk is full, or fails: part of the record may be in the file, and the
\* stream is bad from now on.  Nobody looks.
AppendFails(recs) == /\ DiskMayFail /\ ~bad /\ recs # << >>
                     /\ torn' \in {torn, TRUE}
                     /\ bad' = TRUE
                     /\ UNCHANGED log

\* Mutant: each append is tried on a stream that was cleared.
SkipAppendCleared(recs) == bad /\ log' = log \o recs /\ UNCHANGED <<torn, bad>>

\* write() and flush() on a bad stream do nothing.
SkipAppend(recs) == bad /\ UNCHANGED <<log, torn, bad>>

\* execute_command with the log open: mutate, append, flush, answer.
Serve == /\ phase = "serving"
         /\ Write \/ Read
         /\ AppendRecord(records') \/ AppendFails(records') \/ SkipAppend(records')
         /\ made' = made \o records'
         /\ Len(made') <= MaxLog
         /\ UNCHANGED <<phase, pos, loaded, crashes, before>>

TimePasses == Tick /\ UNCHANGED recoveryVars

\* A process that returns closes the stream, and the library's file buffer may
\* then write once more what a failed flush left in it: the record that failed.
\* libstdc++'s does; the code neither asks for it nor prevents it.
LastTry == /\ bad
           /\ \/ torn' \in {torn, TRUE} /\ UNCHANGED log
              \/ ~torn /\ log' = Append(log, made[Len(log) + 1]) /\ UNCHANGED torn

\* Memory is lost; the file keeps what was flushed.
GoDown == /\ crashes < MaxCrashes
          /\ crashes' = crashes + 1
          /\ phase' = "down"
          /\ store' = EmptyStore /\ request' = << >> /\ reply' = OK /\ records' = << >>
          /\ loaded' = EmptyStore /\ pos' = 0
          /\ before' = IF phase = "serving" THEN store ELSE before
          /\ bad' = FALSE
          /\ UNCHANGED <<now, made>>

\* A signal or a crash between two commands, or a crash between two records.
Stop == /\ phase \in {"serving", "replaying"}
        /\ GoDown
        /\ LastTry \/ UNCHANGED <<log, torn>>

\* The process is killed while a record is being written, and leaves part of it
\* in the file.  The command it came from was never answered.
StopMidAppend == /\ phase = "serving"
                 /\ GoDown
                 /\ torn' = TRUE /\ UNCHANGED log

StartReplay == /\ phase = "down"
               /\ phase' = "replaying"
               /\ UNCHANGED <<keyspaceVars, log, torn, bad, pos, loaded, crashes, before, made>>

\* Replaying one record reads the clocks up to three times.
ReplayRecord == /\ phase = "replaying" /\ pos < Len(log)
                /\ \E gap1, gap2 \in 0 .. MaxGap :
                     /\ now + gap1 + gap2 <= MaxTime
                     /\ now' = now + gap1 + gap2
                     /\ loaded' = Replay(log[pos + 1], loaded, now, now + gap1, now')
                /\ pos' = pos + 1
                /\ UNCHANGED <<store, request, reply, records,
                               phase, log, torn, bad, crashes, before, made>>

\* Mutant: a record that breaks off is taken for the end of the file.
FinishReplayTolerant == /\ phase = "replaying" /\ pos = Len(log)
                        /\ phase' = "serving"
                        /\ store' = loaded
                        /\ loaded' = EmptyStore /\ pos' = 0
                        /\ made' = log
                        /\ UNCHANGED <<now, request, reply, records,
                                       log, torn, bad, crashes, before>>

\* End of file after whole records: the loaded Store becomes the server's.
FinishReplay == /\ phase = "replaying" /\ pos = Len(log) /\ ~torn
                /\ phase' = "serving"
                /\ store' = loaded
                /\ loaded' = EmptyStore /\ pos' = 0
                /\ made' = log
                /\ UNCHANGED <<now, request, reply, records, log, torn, bad, crashes, before>>

\* Mutant: replay fills the server's own Store, and leaves it half loaded.
RefuseLogInPlace == /\ phase = "replaying" /\ pos = Len(log) /\ torn
                    /\ phase' = "refused"
                    /\ store' = loaded
                    /\ loaded' = EmptyStore /\ pos' = 0
                    /\ UNCHANGED <<now, request, reply, records, log, torn, bad, crashes, before, made>>

\* A record that breaks off: what was loaded is thrown away, and run_server
\* returns 1.
RefuseLog == /\ phase = "replaying" /\ pos = Len(log) /\ torn
             /\ phase' = "refused"
             /\ loaded' = EmptyStore /\ pos' = 0
             /\ UNCHANGED <<keyspaceVars, log, torn, bad, crashes, before, made>>

\* "fix or remove <log> and try again": the operator cuts the broken record off.
FixLog == /\ phase = "refused"
          /\ phase' = "down"
          /\ torn' = FALSE
          /\ UNCHANGED <<keyspaceVars, log, bad, pos, loaded, crashes, before, made>>

RecoveryNext == \/ Serve \/ TimePasses
                \/ Stop \/ StopMidAppend
                \/ StartReplay \/ ReplayRecord \/ FinishReplay
                \/ RefuseLog \/ FixLog

RecoverySpec == RecoveryInit /\ [][RecoveryNext]_vars

-----------------------------------------------------------------------------
(* Properties *)

\* The types, and that only a process that is serving or replaying has a Store.
RecoveryTypeOK ==
  /\ TypeOK
  /\ phase \in Phase
  /\ \A r \in Range(log) : r.verb \in Verb /\ r.key \in Key
  /\ Len(log) <= MaxLog
  /\ torn \in BOOLEAN /\ bad \in BOOLEAN
  /\ pos \in 0 .. Len(log)
  /\ IsStore(loaded) /\ IsStore(before)
  /\ crashes \in 0 .. MaxCrashes
  /\ phase # "serving" => store = EmptyStore
  /\ phase # "replaying" => loaded = EmptyStore

\* No process appends to a file with a broken record in it: it would append to
\* the broken record and lose what follows.
ServesWholeLogs == phase = "serving" /\ ~bad => ~torn

\* Whatever appends fail, the file holds the changes in the order they were
\* made, up to some point: a restart loses the latest ones, never one that a
\* later one in the file was made on.
LogIsPrefix == Len(log) <= Len(made) /\ log = SubSeq(made, 1, Len(log))

\* The tick an EXPIRE record's deadline falls on.
Deadline(r) == r.args[1] * TicksPerSecond - WallOffset

\* Where k's records are, and its EXPIRE records since it was last SET or DELeted.
RecordsOf(k, verbs) == {i \in DOMAIN log : log[i].key = k /\ log[i].verb \in verbs}
Expiries(k) == {i \in RecordsOf(k, {"EXPIRE"}) : \A j \in RecordsOf(k, {"SET", "DEL"}) : j < i}

\* A replay of the EXPIRE is sure not to be refused for going past the clock.
FitsTheClock(r) == Deadline(r) + TicksPerSecond + MaxGap <= MaxClock

\* A restart from a log that no append failed to reach restores every key none
\* of whose deadlines, of those recorded since it was last SET or deleted, has
\* come yet: its exact value, a deadline if and only if it had one, and that
\* within a second.
RestartRestores ==
  [][FinishReplay /\ log = made =>
       \A k \in Key :
         (\A i \in Expiries(k) : now + 2 * MaxGap < Deadline(log[i]) /\ FitsTheClock(log[i]))
            => Agree(before, store', k)]_vars

\* While no append has failed, and however often the process restarts, a
\* deadline in memory is the one in the key's last EXPIRE record, to the second:
\* rounding errors do not add up.
DeadlinesTrackLog ==
  ~bad =>
  \A k \in DOMAIN store.expirations :
    \E i \in Expiries(k) :
      /\ \A j \in Expiries(k) : j <= i
      /\ FitsTheClock(log[i]) =>
           /\ Deadline(log[i]) - 2 * MaxGap <= store.expirations[k]
           /\ store.expirations[k] < Deadline(log[i]) + TicksPerSecond + MaxGap

\* A key that nothing was done to after it was given a deadline is gone after a
\* restart by the time the deadline has passed.
ExpiredStaysGone ==
  [][FinishReplay =>
       \A k \in Key : \A i \in RecordsOf(k, {"EXPIRE"}) :
         /\ \A j \in RecordsOf(k, Verb) : j <= i
         /\ Deadline(log[i]) + TicksPerSecond + MaxGap <= now
         => k \notin Alive(store', now')]_vars

\* Violated.  A key of any type whose deadline passed while the server was
\* down is gone after the restart.
ExpiredWhileDownIsGone ==
  [][FinishReplay =>
       \A k \in DOMAIN before.expirations :
         before.expirations[k] + TicksPerSecond + MaxGap <= now
            => k \notin Alive(store', now')]_vars

\* Violated.  A key that had more than a second left to live, or no deadline,
\* is still there after the restart.
LiveKeysSurviveRestart ==
  [][FinishReplay =>
       \A k \in DOMAIN before.values :
         (k \in DOMAIN before.expirations
             => before.expirations[k] > now + TicksPerSecond + MaxGap)
            => k \in Alive(store', now')]_vars
=============================================================================
