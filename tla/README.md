# Redis-Lite in TLA+

A specification of Redis-Lite (`src/`), a single-threaded, in-memory data store
that speaks RESP2 over TCP, expires keys lazily and keeps an append-only log.
The modules here are translated from the C++ sources; TLC checks them on small
instances, and TLAPS proves for all instances the invariants of the keyspace, of
recovery, of the event loop and of their composition, that lazy expiration cannot
be told from eager expiration, what the log records, that its bytes are read back as
what was written, what a restart restores, that it makes no difference how a stream of
requests is cut, and that the event loop answers every client in order and once.

## 1. The system

| Component | Source | State it keeps | Operations | Modelled in |
| --- | --- | --- | --- | --- |
| Command engine, typed keyspace | `src/commands.cpp`, `.hpp` | `Store`: a map of typed values and a map of deadlines | `execute_command`: 22 verbs | `Types`, `Commands`, `Keyspace` |
| Lazy expiration | `src/commands.cpp:48-58` | the deadlines; two clocks | `expire_if_due`, at the head of almost every command | `Commands`, `Keyspace` |
| Persistence | `src/persistence.cpp` | the log file, its open stream | `log_command`, `log_expire`, `replay_log`, `open_log` | `Commands` (replaying a record), `Recovery` (records), `LogFile` (bytes) |
| RESP2 | `src/resp.cpp` | none (pure) | `parse`, `serialize`, constructors | `Resp` (`parse`), `RespValues` (`serialize`), `RespStream`, `RespRoundTrip`; replies as the keyspace sees them in `Types` |
| Event loop | `src/server.cpp` | per client an input and an output buffer, the set of clients to close, kqueue interests, `g_running` | accept, read-parse-execute-send, write, close, shut down | `EventLoop`; with the keyspace and the log in `Server` |
| `main`, tests, benchmarks, experiments, demos, build | `src/main.cpp`, `tests/`, ... | | | no |

How they interact: the event loop drains a readable socket into the client's
input buffer, parses it for as long as whole requests come out, and calls
`execute_command` for each with the one `Store` and the one log stream.  The
command sweeps its key, changes the two maps, and appends the record of what it
did *before* its reply is queued.  At start-up, before the first socket is
opened, `replay_log` calls the same `execute_command` without a log, once per
record, on a `Store` of its own, and moves it into place at the end.

There are no threads and no locks.  What is hard here is therefore not
interleaved memory accesses but:

* **time**: a key is dead from its deadline on, but stays in memory until a
  command happens to name it; TTL reads the clock twice, and EXPIRE three times: for
  the new deadline, to sweep the key, and in `log_expire`, which reads the other
  clock, that the log uses, in whole seconds;
* **two maps kept in step by convention**, by every path that removes a key;
* **restart**: what a command logs must be enough to repeat it, on the Store
  replay has rebuilt so far and at a later time; a crash can cut a record;
* **framing and buffering**: requests in pieces, several at once, partial
  sends, half-closed and broken peers, batches of events about descriptors that
  an earlier event of the batch closed;
* **shutdown**: a flag set by a signal handler and read by a loop that sleeps.

What makes each component correct:

* keyspace: a client cannot tell it from a store that expires keys on the tick
  and has no notion of an empty collection; the two maps agree;
* log: exactly the steps that change something are recorded, and a record
  repeats its step;
* restart: live keys come back with the same value and deadline, dead keys stay
  dead, and a file that breaks off is refused as a whole;
* parser: verdicts and values do not depend on how the stream is cut;
* event loop: replies come back in order, once, to the client that asked; each
  connection and the server itself can always be shut down.

`PROJECT.json` lists under "hazards" each such thing at its line, with the
properties that watch it, or why none does.

## 2. The modules

* **`Types`** - the values a key can hold, replies, partial functions for the
  hash maps, and the two clocks.  Keys and all other strings are members of the
  sets `Key` and `Elem`.  Time is in ticks, `TicksPerSecond` to a second, so that
  `duration_cast<seconds>`, `ceil<seconds>` and the Unix second round as in the
  program.  `WallOffset` is the distance between the two clocks; the wall clock is
  not stepped.  An error reply is its prefix, SMEMBERS' array (whose order is
  unspecified) a set.
* **`Commands`** - `execute_command`, one operator per verb, written with the
  code's helpers: `ExpireIfDue` (`expire_if_due`), `RemoveKey` (`remove_key`),
  `Reading` and `Writing`/`Materialise` (`read_typed`, `write_typed`),
  `DropIfEmpty`.  Each takes a Store, the arguments and the readings of the clock,
  and returns the Store left, the reply, and the records logged.  `Replay` is one
  iteration of `replay_log`'s loop, through the same operators.
* **`Keyspace`** - one running server: the Store, the clock, the last request
  with its reply, and what the last step logged.  One action per command; a
  command is one step because the event loop is one thread.  `gap`, in TTL, is the
  time between its two readings of the clock; `gap1` and `gap2`, in EXPIRE, those
  between its three, of which the last is made only when a deadline is logged
  (`LogsDeadline`).  Every
  request that is answered without looking at the Store (shape, arity, unknown
  verb, an argument that is no integer) is the action `Reject`.
* **`EagerStore`** - what a client is promised, with none of the machinery: keys
  vanish on the tick of their deadline, a missing key *is* the empty list, hash
  and set, nothing is swept or dropped.  `Keyspace` implements it under the
  mapping `db, ttl <- Visible(store, now)`: what is not yet due.
* **`Recovery`** - EXTENDS `Keyspace` with the log file, the process's phase
  (serving, down, replaying, refused), and the Store being rebuilt.  `Serve` is a
  command with the log open; `Stop` takes the process, and not the machine, down
  between two commands
  or two records (a crash inside a command, before or after its flush, is the
  same as one before or after it, since it was never answered); `StopMidAppend`
  leaves part of a record behind; `ReplayRecord` replays one record with the
  clocks running (and up to two gaps inside); `FinishReplay`, `RefuseLog` and
  `FixLog` are the three ends of a start.
  An append may fail (`AppendFails`): it may leave part of the record, and puts
  the stream in a state in which every later append does nothing (`SkipAppend`),
  until the stream is closed, which tries the failed write once more (`LastTry`).
  That it does is not asked for by `persistence.cpp`, nor by the standard: it is what
  libstdc++'s `filebuf` does with a buffer it could not write.
* **`LogFile`** - what `Recovery` abstracts as "whole records, and perhaps part of
  one more": the units a record is written as, a file that can be cut at any of
  them, and `replay_log`'s reader, number by number and field by field.  `Stop` and
  `StopMidRecord` end the process between two records or in one; `TailLost` is a
  machine that loses what was flushed and not synced; `StopAndRetry` is a write that
  failed halfway, as the disk was full, and that libstdc++'s stream makes again, from
  its beginning, when it is closed and there is room (with another library there may be
  no such step).  Keys and values hold blanks,
  newlines, digits and verbs.  Numbers are binary, so that short texts have lengths
  of two digits.  Of the ghosts, `whole` is the records that are in the file whole,
  `unread` says that a process served without reading the file, and `retried` that a
  record that is not `Short` was written again.
* **`Resp`** - `parse` over units (a type byte, CR, LF, a numeral, other text): CRLF
  lines, bulk strings by length, nested arrays, the three verdicts, the nesting limit.
  The code's recursion over a value is here one over places: `Values` gives, at each
  depth, the value that would be parsed at each place of the input, from those one
  level deeper.  An array takes its elements from there, one after the other.
* **`RespStream`** - one connection's stream through the parser: a peer writes
  anything; the network cuts the stream wherever it likes; the receiver appends to its
  buffer and parses while whole values come out (`Drain`).
* **`RespValues`**, **`RespRoundTrip`** - `serialize`, and a stream whose peer
  serializes values and writes anything between them.
* **`EventLoop`** - `run_server`'s loop and its handlers.  `pc` is where the process
  is: at the loop condition (`check`), between it and `kevent()` (`enter`), `asleep`
  in it, handling a batch, or gone.  A handler is one step, as the process is one
  thread; connecting, sending, reading, half-closing, closing, a reset and a signal
  come between any two steps.  `Wake` takes a batch of the conditions that hold
  (level-triggered, as registered); `AcceptClients`, `StaleEvent`, `ReadFails`,
  `ReadServes`, `ReadRefuses`, `WriteSends`, `SendFails` and `SigPipe` are the ways an
  event can be handled.  The kernel gives a new connection the lowest free
  descriptor, so one closed early in a batch is reused later in it.  A stream is a
  sequence of units: part of a request, the end of one, or what no parser accepts
  (that the parser turns bytes into these, however they are cut, is `RespStream`'s
  subject).
* **`Service`** - what the loop promises each client, with no descriptors, buffers or
  batches: its requests are executed in order, once each, and what it has read is a
  prefix of the answers to them, with none before its request was executed.
  `EventLoop` implements it under the mapping `Promise`.
* **`Selection`** - the part of a sequence at a set of positions (`At`), by which both
  say what a buffer or a history holds of one kind.
* **`Server`** - EXTENDS `Recovery` with the connections' buffers, and takes a READ
  event apart: requests executed and logged one after the other, replies queued, and
  sent when none is left to execute, or later.  The process may go, and the buffers
  with it, between any two of these steps.  The commands are `Keyspace`'s.
* **`MCKeyspace`, `MCRecovery`, `MCLogFile`, `MCResp`, `MCEventLoop`, `MCServer`** -
  instances for TLC.
* **`KeyspaceProofs`, `VisibleProofs`, `RecoveryProofs`, `RestartProofs`,
  `LogFileProofs`, `RespProofs`, `ServiceProofs`** - the theorems: section 4.
  **`Induction`** - the lemmas about induction and recursion that the last three share.

Definitions marked "Mutant" in a comment are not part of the model: each is a
plausible mistake in the definition it precedes, which some property must catch
when it is put in that definition's place.

## 3. What TLC checks

| Run | Instance | Properties |
| --- | --- | --- |
| `keyspace` (`MCKeyspace.cfg`) | 1 key, 2 elements, lists up to 2, ticks 0..3, 2 ticks a second, EXPIRE 0 to 3 on a clock that ends at 7, so that some are past it, LRANGE -3..2 | `TypeOK`, `NoOrphanDeadline`, `NoEmptyCollection`, `DeadlineRepresentable`, `ImplementsEager`, `RecordsReproduceSteps`, `ChangesAreLogged`, `NoOpsAreNotLogged` |
| `recovery` (`MCRecovery.cfg`) | 1 key, 2 elements, logs up to 3 records, 2 crashes, ticks 0..5 | `RecoveryTypeOK`, `ServesWholeLogs`, `DeadlinesTrackLog`, `RestartRestores`, `ExpiredStaysGone` |
| `server` (`MCServer.cfg`) | 2 clients, 1 key, 1 element, logs up to 2 records, 2 crashes, 2 requests and replies per client; appends may fail | `ServesWholeLogs`, `LogIsPrefix`, `ToldIsLogged` |
| `log_file` (`MCLogFile.cfg`) | 2 records of 4 shapes, keys and values of up to 4 units | `WholeLogsReadBack` |
| `resp` (`MCResp.cfg`) | 3 writes of 10 values or 11 pieces, nesting limit 2 | `ChunkingIsInvisible`, `ParsesWhatSerializeWrites`, `NestingIsBounded`, `ValuesArrive` |
| `event_loop` (`MCEventLoop.cfg`) | 2 clients of 2 units each, 2 descriptors, requests up to 2 units, sockets that hold 1 reply; half-close, close, reset, signals, refused connections, a failing `kevent()` | `TypeOK`, `OneDescriptorEach`, `NothingLeftBehind`, `OutputIsWatched`, `FinishedClientsLoseNothing`, `ImplementsService` |
| `event_loop_live` (`MCEventLoopLive.cfg`) | the same, whole requests only; half-close, close, reset, refused connections; `FairSpec` | `Answered`, `ConnectionsAreFreed` |
| `live_keys` (`MCRecoveryLiveKeys.cfg`) | as `recovery`, 1 element, one crash, EXPIRE 1 and 4 | `LiveKeysSurviveRestart`: **violated** |
| `expired_keys` (`MCRecoveryExpired.cfg`) | the same | `ExpiredWhileDownIsGone`: **violated** |
| `retried_write` (`MCLogFileRetry.cfg`) | one SET of a key of 5 units, one DEL | `BrokenLogsAreRefused`: **violated** |
| `sigpipe` (`MCEventLoopSigPipe.cfg`) | 1 client of 3 requests | `RunsUntilSignalled`: **violated** |
| `shutdown` (`MCEventLoopShutdown.cfg`) | 1 client, `FairSpec` | `SignalEndsTheLoop`: **violated** |

* `ImplementsEager` ties every reply to the request and to what is alive: lazy
  expiration, with the two clock readings of TTL and the first two of EXPIRE, is not
  observable, and neither is what comes due before EXPIRE's third.
  One key is enough: a command names one and touches no other (`Touches`, which
  `RestartProofs` proves of each), and the theorems are for any number.  Two elements tell the ends
  of a list, and a field from a value, apart.  Four ticks hold a key's life
  before, at, and after its deadline, and a second life.
* `RecordsReproduceSteps`: the record a step logs, replayed on the Store before
  the step, gives the Store after it (deadlines to the second).  Excepted is the key of
  two kinds of EXPIRE: one so near the end of the clock that it fits at the command's
  first reading and no longer at its last (`PastTheClock`); and one overtaken by the
  deadline it replaces (`Overtaken`), which comes after `expire_if_due` has let the key
  pass (commands.cpp:175) and before `log_expire` reads its clock (persistence.cpp:130).
  There the Store keeps the key, and a replay at the time of the record finds it due.
  Every other key is the same even then.
* `NoOrphanDeadline`, `NoEmptyCollection`: what every removing path must do.
* `DeadlineRepresentable`: EXPIRE's `max_seconds` guard is sufficient although
  the key is swept at a later reading.
* `ChangesAreLogged`, `NoOpsAreNotLogged`: a step logs nothing exactly when it
  changes nothing a client could see, but for SET, HSET and EXPIRE, which write
  and log without comparing (README.md:214-216 of the repository says commands
  that change nothing are not recorded; these three overwrite with an equal value
  and are).
* `ServesWholeLogs`: no process serves, and so appends to, a file that ends in a
  broken record.
* `DeadlinesTrackLog`: through any number of restarts the deadline in memory is
  the one in the key's last EXPIRE record, to the second: rounding does not drift.
  It may be up to two gaps before that one, as the record is dated by EXPIRE's third
  reading of the clock and the deadline counted from its first.
* `RestartRestores`: a restart restores exactly each key for which no recorded
  deadline, since it was last SET or deleted, has come.  The condition is as weak
  as the code allows; the two violated properties are what one would like instead.
* `ExpiredStaysGone`: a key whose last record is an EXPIRE stays gone once its
  deadline has passed.  Of a key that was written to after its deadline was set this
  is not true, not even of a string: a key that expires between its deadline in
  memory and the one recorded, up to a gap between clock readings later, and is then
  recreated by a push, comes back as what it was before in a restart within that gap,
  and as the list in the next one.
* `LogIsPrefix`: whatever appends fail, the file holds the first so many of the
  changes, in order: no later change is in it without the one it was made on.
* `ToldIsLogged`: until an append fails, every reply a client has had, to a write of
  its own or to a read that saw another client's, rests on changes that are in the
  file; so no crash of the process, however often, takes back what somebody was told.
  It is why the record is flushed before the reply is queued.  A crash of the machine
  may: `flush()` is not `fsync()`.  What that leaves in the file is `LogFile`'s
  `TailLost`.
* `WholeLogsReadBack`: a file cut between records is read back exactly; one cut
  inside a record, even one whose missing end is a digit or a newline, is refused.
  So is one in which part of a record is followed by the whole of it, if no word of
  the record is as long as what it begins with (its verb, a blank and a length, which
  take a word of seven bytes at least): of longer ones that is not true, see below.
* `ChunkingIsInvisible`: the values, the rest and the verdict are those of parsing
  all that has arrived at once, so `Ok` and `Malformed` stand whatever follows; and
  where a stream is found to be malformed, what is still on its way would change neither
  that nor the values before it.
  `ParsesWhatSerializeWrites` and `ValuesArrive` are the two directions of "`parse`
  inverts `serialize`"; the first also covers streams nobody serialized.
* `OneDescriptorEach`, `NothingLeftBehind`, `OutputIsWatched`: the maps and kqueue's
  registrations, which are kept in step by hand in five places, through batches that
  close, accept and send in any order.
* `FinishedClientsLoseNothing`: a client that half-closes is not cut off.
* `ImplementsService`: replies in order, once, to the client that asked, and never
  before the request was executed, whatever else the loop does.
* `Answered`, `ConnectionsAreFreed`: liveness.  Every request of a client that stays
  and reads is answered in time, unless it is refused or the process has ended, as
  another client's going away may make it (SIGPIPE, below); a connection whose client
  has finished or gone is closed in the end.  In the run clients half-close, close, and
  are reset, so both of "finished" and "gone" happen: without the fairness of
  `ResetArrives` the second fails.  Signals are left to the other runs: one ends the
  loop at any time.  That a half-closed client keeps the loop busy until it reads, as
  described below, is not against either property.

**Bounds of keyspace, recovery and server.** `MaxTime`, `MaxGap` (time between two
readings of the clock), `MaxLen` (lists are pushed to while shorter), `MaxLog`,
`MaxCrashes`, `MaxWaiting`.  Three records are what it takes to create a key, give
it a life, and write to it or extend it; two crashes let a replay itself be
interrupted and deadlines be converted twice.  In the recovery instances the clock's
maximum is far off: with it near, a replayed EXPIRE could round up past
`max_seconds` and be rejected, which in the program needs a deadline 292 years away.
`RestartRestores` and `DeadlinesTrackLog` except it (`FitsTheClock`), and are proved for
every maximum.
The recovery and server instances identify states that differ only in the last
request, its reply and its record (`VIEW Lasting`): these decide nothing that
follows.  In `server` two clients and two waiting requests are what it takes for
one client's reply to be held back while another's tells of the same change.

**Bounds of the log file and the parser.** `MaxRecords`, `MaxWrites`, `MaxDepth`.  Two
records let one begin where the reader may think the one before goes on; an empty
DEL, newline included, is one of the values.  `log_file` stops where a server has
not read its file (`CONSTRAINT Explored`): nothing is claimed of what follows.
Three writes are enough for an array within an array beyond the limit, a line with
a stray CR or LF in it, and a bulk string whose terminator is something else.

**Bounds of the event loop.** `MaxFd`, `MaxRequest` (`kMaxRequestBytes` in units),
`SendRoom` (what a socket holds), `MaxSent`; `MaxBatch` is the code's 64, so a batch is
all that is ready.  A socket with room for one reply makes every second one wait;
requests of two units can be whole, cut, or, pipelined, too large; two clients and
two descriptors let a batch close one, accept onto it, and hold another's event.

**Fairness.** `FairSpec` assumes weak fairness of `LoopStep`: the process is scheduled,
and every loop in it is a step here.  It assumes it of `ReadReply` and `ResetArrives`
for each client: a client that is there reads what it is sent, and the network
delivers the reset of one that closed with something unread.  Nothing is assumed of connecting, sending, closing or signals.
A client that never reads keeps its output, and its connection, for ever: the code
has no timeouts, so no property promises otherwise.

**Deadlock.** In the keyspace, recovery, server and log-file instances none is
excused: time may stop at `MaxTime`, but PING always remains, and a process that is
down restarts.  The streams and the event loop may stop (`CHECK_DEADLOCK FALSE`):
when everything was written and read, or the process is gone.

### What the violated properties show

1. `LiveKeysSurviveRestart`.  `SET k`, `EXPIRE k 1`, `EXPIRE k 100`, restart
   after two seconds: the key is lost.  `replay_log` (persistence.cpp:185-188) sees
   that the first deadline has passed and deletes the key there and then; the
   second EXPIRE finds nothing.  A live server would have kept it.
2. `ExpiredWhileDownIsGone`.  `RPUSH k a`, `EXPIRE k 1`, `RPUSH k b`, down for two
   seconds: the key is back, holding only `b`, and with no deadline at all.  The
   DEL is replayed at the place of the EXPIRE, and the push after it makes a new
   key.

   Both come from acting on an expired deadline at its place in the log and not
   at the end of it.
3. `BrokenLogsAreRefused`.  `log_command` does not look at what became of a write.
   When one fails halfway, part of the record is in the file and all of it is still in
   the stream, and libstdc++'s writes it once more when it is closed.  If a word is long
   enough, the part goes on in the record after it: of `SET 8 00000003 1 x`, cut
   after `SET 8 000`, the file `SET 8 000SET 8 00000003 1 x` is replayed as setting
   the key `000SET 8` to `1 x`.  `Recovery` takes a file that was written so for one
   that ends in part of a record, which for short records `WholeLogsReadBack` says it
   is; what it claims of restarts is claimed of those.
4. `RunsUntilSignalled`.  A client closes without reading its replies; the connection
   is reset; the next `send()` (server.cpp:102) raises SIGPIPE, which nothing ignores,
   and the process is gone.  The path written for a failed send is not reached.
5. `SignalEndsTheLoop`.  A signal that is handled after `while (g_running)` was
   evaluated and before `kevent()` sleeps sets the flag and interrupts nothing: the
   server sleeps until the next client does something.

### Other departures from the documents

The models show these too; no run asserts them.

* An EXPIRE overtaken by the deadline it replaces (commands.cpp:175, 188;
  `Overtaken`): the live server keeps the key with its new deadline, while the record,
  executed at the time it was logged at, would find the key due.  README.md:217-218
  says replay is "consistent with live execution".  It takes a deadline that comes
  within one command; what a restart makes of it is the first violated property above.
* An append that fails is not noticed (persistence.cpp:119, 126; `AppendFails`,
  `SkipAppend`): the command has changed memory and is answered OK, and so is every
  later one, while the file stays as it was.  README.md:204 says mutating commands
  are written to the log.  `ToldIsLogged` is claimed only until then.
* A log that cannot be opened for reading is taken for one that is not there
  (persistence.cpp:136-137; `StartUnread`): a server that may append but not read
  starts empty and appends to the old records.
* The size limit is compared with all that is buffered before any of it is parsed
  (server.cpp:168; `Overflows`): a pipeline of small whole requests that arrives in
  one drain is refused as one request too large, where server.cpp and README.md:171
  speak of an *unfinished* request.
* Once a client has half-closed, its descriptor stays readable: until its output is
  sent each round of the loop reads nothing and tries `send()` on the full socket
  (server.cpp:215; `ReadServes`), which the comment at server.cpp:112-113 means to
  avoid.
* A line that already holds a stray CR or LF is `Incomplete` until its CRLF comes
  (resp.cpp:16; `ReadLine`), where resp.hpp:32 says "valid so far".
* The error for an unknown verb holds the verb as it came (commands.cpp:545), a bulk
  string that may hold CR and LF, in a line that may not (`Serialize`): such a reply
  parses as something else, and the replies after it out of step.

## 4. What is proved

All theorems are for every value of the constants, from the assumptions named in
the modules (`ClockAssumption`, `KeyspaceAssumption`, `RecoveryAssumption`,
`LogFileAssumption`, `MaxDepthAssumption`, `RespStreamAssumption`,
`EventLoopAssumption`, `ServerAssumption`).

**`KeyspaceProofs`**, for all `Key`, `Elem`, `TicksPerSecond > 0`, clocks, gaps and
EXPIRE arguments:

* `TypeCorrect`, `DeadlinesHaveKeys`, `CollectionsHaveElements`,
  `DeadlinesFitTheClock`: `Spec => []TypeOK`, `[]NoOrphanDeadline`,
  `[]NoEmptyCollection`, `[]DeadlineRepresentable`;
* `RangeInBounds`: every index LRANGE's loop reaches is one of the list's.

The inductive invariant is `Inv`: the Store is `WellFormed` (well typed, no
deadline without a key, no deadline beyond the clock, no empty collection), the
clock is in bounds, a step logs one record at most.  The parts are proved
together because they need each other: a pop keeps the types only because the
list it finds is one, EXPIRE keeps deadlines and keys together only because it
looks for the key.  Inside a command the last part breaks: `write_typed` creates
an empty collection and a pop leaves one.  `NearlyWellFormed(st, k)`, everything
but that for `k`, is the invariant of the middle of a command; the lemmas about
`Materialise`, `Assign`, `DropIfEmpty` and `RemoveKey` lead from one to the other.
One lemma per command then says its result is `Sound` (a well-formed Store, one
record at most), and `WriteInv` and `ReadInv` need nothing else about commands.

**`VisibleProofs`**: `EveryChangeIsLogged`, `EveryRecordIsAChange` and `RecordsSuffice`:
`Spec => ChangesAreLogged`, `NoOpsAreNotLogged`, `RecordsReproduceSteps`.  The argument is
that a command on the Store and the same command on what is visible of it (the Store
with every key that is due taken out) give the same reply, the same record, and
Stores of which the same is visible (`SeenAs`, one lemma per command, with a lemma for
each helper under it).  On a Store where nothing is due nothing is swept, so what a
command changes and what it records can be compared branch by branch (`Logged`).

Its last part proves `LazyIsEager`: `Spec => ImplementsEager`, the whole refinement of
`EagerStore`, initial states and steps.  Because of `SeenAs` only the visible Store has
to be looked at: there each verb of `execute_command` is the action of `EagerStore` with
the same request and reply, and time taking a key away is `EagerStore`'s tick.  `Inv`
gives what the mapping cannot: no collection is empty, so that a missing key and an
empty one are never two states.

**`RecoveryProofs`**: `RecoveryTypeCorrect`, `AppendsToWholeLogs`, `LogHasNoGap` and
`DeadlinesHaveKeysAfterRestart`: `RecoverySpec => []RecoveryTypeOK`,
`[]ServesWholeLogs`, `[]LogIsPrefix`, `[]NoOrphanDeadline`.  The inductive invariant
`RecoveryInv` adds to `Inv` that the Store being rebuilt is well formed too (`Memory`)
and what the file is to the changes made (`File`): a prefix of them; all of them, with
nothing broken after, while the process serves on a good stream; and short of at
least one on a bad one, which is why the last try at closing can add the record
that failed and leave a prefix.  Replaying a record keeps `WellFormed` because it
runs the same commands, so `KeyspaceProofs`' lemma for each is cited again.

Its last part is about the composition, `Server`: `AnswersOutliveTheProcess`:
`ServerSpec => []ToldIsLogged`, for any clients, commands, buffers and crashes.  The
invariant adds to `RecoveryInv` that no *queued* reply knows of more changes than the
file holds either (`Known`), since what is told is what was queued; and that a bad
stream means an append has failed.

**`RestartProofs`**: `RestartsKeepDeadlines`, `RestartsExpireKeys` and
`RestartsRestoreKeys`: `RecoverySpec => []DeadlinesTrackLog`, `ExpiredStaysGone`,
`RestartRestores`.  A log is replayed record by record, with commands, crashes and
other restarts in between, so nothing can be said of a replay as a whole; the
invariants say what a *prefix* of the log has made of a Store, and one lemma for each
(`TracksOneMore`, `ExpiringOneMore`, `RestoresOneMore`) says that one record more keeps
it so, whether it is executed with the log open or read back.  `Does` is what the two
have in common: executing a command and replaying its record are the same function of
the Store, but for an EXPIRE, which may be a DEL by then, and which, executed, sweeps
its key at an earlier reading than the one it logs (`Expires` says what follows).

* `Deadlined`: every deadline of the Store comes from the last EXPIRE record of its
  key, to the second (`Tracks`).  Rounding cannot add up because each replay starts
  from the record, not from what an earlier replay made of it; a key that was SET or
  deleted since has no deadline at all.
* `Restored`: while it serves, the Store is what any replay of the changes made would
  restore, *from whatever times on the clock it is made at* (`Restores`); when the
  process is down the same holds of what it had in memory.  A Store being rebuilt is
  one such replay (`Rebuilt`), which is why at its end the two agree on each key whose
  deadlines have not come; and it restores the records read so far in its turn, which
  is what the next restart needs.  That other keys expire on the way, in one Store and
  not in the other, makes no difference: a command looks at one key (`Touches`), and on
  two Stores that are alike under it does the same there (`Alike`, one lemma per verb).

**`LogFileProofs`**, for any records, of which the words are of any length and
content, any number of them, and files cut anywhere: `LogFileHoldsLogged`,
`LogsReadBack`: `Spec => [](~unread /\ ~retried => FileIsLogged)`,
`[]WholeLogsReadBack`.  `FileIsLogged` says what a file can be: the records logged; or,
when no process serves, these with some units of one more, or with a piece of one and
the short record again.  Both theorems speak of files that every process that appended
to them had read, and in which no record that is not `Short` was written again: a
file that was appended to unread, or that reads as other records than were logged
(`BrokenLogsAreRefused`), can afterwards hold anything.  The inductive invariant `IInv`
is the first theorem's formula with the types.  That it is inductive is where the reader comes in: `Start` has
read the file without an error, so it must be the first of these, and what is
appended then is appended to whole records.  The argument about the reader:

* A reader that finds a text at its place reads it, whatever follows (`Holds`,
  `ReadsNumber`, `ReadsField`, `ReadsRecord`, one lemma for each part of a record), so
  the records at the head of a file are read one by one (`ReadsLog`).  A number needs
  care: it ends where something follows that is no digit, so it stands only because a
  blank or a newline comes after it.
* A record that is not there to its end is refused: at each place where it may be cut
  some part of the reader fails, and none can succeed on less, since the end is
  found from the lengths and the last unit is the newline; and a number that was cut
  is a smaller number, or is followed by nothing.
* A short record, begun and then written again, is refused (`RetryRefused`).  If it broke
  off in front of a word's text, a verb comes where a number or a blank is due.  If it
  broke off in the text (`AgainWord`), the word goes on in what the second one begins with,
  but ends there, as it is short: then what is left of that beginning, and the second one's
  first words, are read as the first one's next words, and no newline comes where it
  should (`AgainTail`).
* A machine that fails cuts the file, not the record; what is left is whole records
  and a piece of the next (`TailTorn`).  After a start the invariant's second half
  is gone, so no file is cut twice.

**`RespProofs`**, for any nesting limit, and a peer that writes any sequences of units,
any number of them: `StreamInvariant`, `ChunksAreInvisible`: `Spec => []IInv`,
`[]ChunkingIsInvisible`.  The inductive invariant `IInv` says that there is a stretch of
the stream, `past`, of which what came out, what waits and the verdict are what one
parse loop over all of it gives (`Received`), and that the rest is on the wire.

* An answer other than `Incomplete` is given on what was read, and stands when more
  follows (`Stands`): of a line, since the first CRLF stays the first (`LineStands`); of a
  bulk string, since only its own units are looked at (`BulkStands`); of an array, as the
  element that decides has such an answer (`ElementsStand`); and so of a value, one level
  of nesting after the other, from beyond the limit, where every answer is `Malformed`,
  up to the outermost (`ValuesStand`).
* A parse loop ends, as each value takes at least one unit (`RestIs`), so that `Drain` is
  defined (`DrainExists`).  What it has got out of the first of two texts it gets out of
  the two together, and then goes on with what was left and the second (`DrainMore`),
  by induction on the first one's length.
* A read takes a piece off the wire and puts it behind `past`; `DrainMore` is what
  `IInv` then says of the new buffer.  It holds of a malformed stream too, of which
  nothing more is read.

That what is parsed is what was serialized is not part of this: see below.

**`ServiceProofs`**, for any number of clients and descriptors and any sizes of
batches, requests and sockets, begins with `DescriptorsAreReusedClean`, `NoReplyIsForgotten`,
`DescriptorsAreNotShared`: `Spec => []NothingLeftBehind`, `[]OutputIsWatched`,
`[]OneDescriptorEach`.  The inductive invariant is these three with `Shape` (the types
they need) and `OnePlaceEach`: a client is not idle in the backlog or behind a
descriptor, occurs once in the two together, and in neither once it was closed.
Without it an accept could give a client a second descriptor.

It goes on, for any number of units sent, to `LoopImplementsService`, `FinishedInFull` and `LoopTypeOK`:
`Spec => ImplementsService`, `[]FinishedClientsLoseNothing`, `[]TypeOK`.

The invariant, `Books`, keeps an account of each client, which is of one of three
kinds.  A client not yet accepted has only sent (`Fresh`).  Of one behind a descriptor
(`Connected`), everything received that the parser could answer is executed, in order,
and is in exactly one of three places: read, in the socket, or in the output buffer;
the input buffer holds only parts of a request; and one that is to be closed
has been received to its end.  Of one that was closed (`Gone`), what was executed, and
what it was sent, are beginnings of what it asked, and all of it if it was closed for
having finished.  There is one lemma per action; those about a read have to say that
the buffer with what was received, parsed, gives what the whole stream gives beyond
what was answered before (`AnswersConcat`), and those about a
failing handler that to stop anywhere leaves a beginning.

`Service` is simulated step by step: what a client sends is `Ask`, a reply it reads is
`Deliver`, a handler that executes requests is `Execute` whatever becomes of the replies,
and every other step changes nothing that `Service` speaks of.  The error about a
request too large is no answer to anything asked, so the mapping leaves it out.

`LoopTypeOK` needs `Books` for whose units are where, and that the set of events is
finite, since `Wake` takes as many as a batch holds: otherwise a batch could be empty.

What the parse loop answers of a buffer is a recursive function of it (`At`), so
these theorems rest on induction.  The library's induction theorems are about
predicates and cannot be instantiated here; `LeastNat`, `InductionOnNat` and
`InductionOnSeq` are about sets, and follow from `WFMin`, which is too.

**Only model-checked**: that `parse` and `serialize` are inverse, and that values are no
deeper than the limit (`ParsesWhatSerializeWrites`, `ValuesArrive`, `NestingIsBounded`),
which speak of `Serialize` and `Depth`: they go down into a value, which holds values,
so nothing can be proved of them but by induction over data, which the prover does not
have; and `Answered` and `ConnectionsAreFreed`, as liveness under fairness is out of its
reach.  Every other property of a run that TLC finds true is a theorem.

## 5. What is not modelled

* `main`, tests, benchmarks, experiments, demos and the build: no part of the
  server's behaviour.
* Upper-casing of verbs, parsing of integers inside commands, the words of error
  replies, what is written to the terminal.
* A `kevent()` registration that fails outside `accept_clients` (server.cpp:114; its
  result is not looked at), which takes a kernel without memory; `EV_ERROR`
  (server.cpp:318), which `kevent()` reports only for a list of changes, and the loop
  passes none.
* Read errors in the middle of a replay (persistence.cpp:153), which the library may
  report as an end of file; corruption of the log other than at its end.
* Steps of the wall clock, and the steady clock starting again when the machine
  does: deadlines in memory do not outlive the process, so only EXPIRE's
  292-year guard could tell.
* Memory exhaustion, of which output buffers without a limit are one way.

## 6. Plan

What is left, in order of weight:

1. The rest of what `Service` promises: that what `Server` tells a client is what
   `Service` does, so that `ToldIsLogged` and `LoopImplementsService` speak of one system.
2. `EventLoop`'s units from `RespStream`'s: that its requests, parts of requests and
   what no parser accepts are what `Drain` makes of a stream, for which
   `ChunksAreInvisible` is what is needed.
