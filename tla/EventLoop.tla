------------------------------ MODULE EventLoop ------------------------------
(***************************************************************************)
(* run_server's loop (server.cpp): one thread that sleeps in kevent(),     *)
(* takes a batch of events, and handles them one after the other on        *)
(* non-blocking sockets, with an input and an output buffer for each       *)
(* client.  A handler is one step; around it clients connect, send, read,  *)
(* half-close and go away, the kernel's buffers fill, and signals arrive.  *)
(*                                                                         *)
(* A stream is a sequence of units: a part of a request, the end of one,   *)
(* or something no parser accepts.  A request is known by the unit that    *)
(* ends it, and so is its reply; an error reply by the unit it rejects.    *)
(***************************************************************************)
EXTENDS Selection, FiniteSets, FiniteSetsExt, SequencesExt

CONSTANTS Client,      \* each connects once
          Nobody,      \* the client of a descriptor that is not open
          MaxFd,       \* bound: descriptors the process may have for clients
          MaxBatch,    \* the most events kevent() reports at once: 64
          MaxRequest,  \* kMaxRequestBytes, in units
          SendRoom,    \* what a socket holds of replies not read yet
          MaxSent,     \* bound: units a client sends
          Kind,        \* the units clients send: "part", "end", "bad"
          Environment  \* what else happens: "halfClose", "close", "signal", "refuse",
                       \* "waitFails"

ASSUME EventLoopAssumption ==
  /\ Nobody \notin Client
  /\ MaxFd \in Nat /\ MaxRequest \in Nat /\ MaxSent \in Nat
  /\ SendRoom \in Nat \ {0} /\ MaxBatch \in Nat \ {0}
  /\ Kind \subseteq {"part", "end", "bad"}

Fd == 1 .. MaxFd

VARIABLES peer,      \* a client's end: idle, open, half (closed), closed, reset
          sent,      \* all a client has sent
          got,       \* all a client has read
          backlog,   \* connections not accepted yet
          conn,      \* the client behind each descriptor
          inbox,     \* what has arrived on a connection and was not received
          outbox,    \* what was sent on a connection and the client has not read
          reading, writing,  \* the descriptors with EVFILT_READ, EVFILT_WRITE
          pc,        \* where the process is: see ControlPoint
          running,   \* g_running
          batch,     \* the events of this batch not handled yet
          input,     \* client_input: received, not parsed
          output,    \* client_output: owed to the client
          closing,   \* close once the reply is written
          executed,  \* the requests handed to execute_command, in order
          ended      \* why the server closed a client's connection, or ""

peerVars == <<peer, sent, got>>
loopVars == <<conn, reading, writing, input, output, closing, ended>>
vars == <<peerVars, backlog, inbox, outbox, pc, running, batch, executed, loopVars>>

ControlPoint == {"starting", "check", "enter", "asleep", "handle",
                 "failed", "stopped", "killed"}
Alive == pc \notin {"failed", "stopped", "killed"}

Init == /\ peer = [c \in Client |-> "idle"]
        /\ sent = [c \in Client |-> << >>] /\ got = [c \in Client |-> << >>]
        /\ backlog = << >>
        /\ conn = [fd \in Fd |-> Nobody]
        /\ inbox = [c \in Client |-> << >>] /\ outbox = [c \in Client |-> << >>]
        /\ reading = {} /\ writing = {}
        /\ pc = "starting" /\ running = TRUE /\ batch = {}
        /\ input = [fd \in Fd |-> << >>] /\ output = [fd \in Fd |-> << >>]
        /\ closing = {}
        /\ executed = << >>
        /\ ended = [c \in Client |-> ""]

-----------------------------------------------------------------------------
(* The parse loop over one buffer *)

Bad(s) == {i \in DOMAIN s : s[i].kind = "bad"}
Malformed(s) == Bad(s) # {}
Parsed(s) == {i \in DOMAIN s : \A j \in Bad(s) : i <= j}
\* What is answered, in order: each whole request up to the first bad unit,
\* and that unit.
Answers(s) == At(s, {i \in Parsed(s) : s[i].kind # "part"})
Requests(s) == At(s, {i \in Parsed(s) : s[i].kind = "end"})
\* Mutant: the last unit of the last request stays.
UnparsedAndOne(s) == SubSeq(s, Max({i \in DOMAIN s : s[i].kind = "end"} \cup {1}), Len(s))
\* What buffer.erase leaves: the units after the last whole request.
Unparsed(s) == SubSeq(s, Max({i \in DOMAIN s : s[i].kind = "end"} \cup {0}) + 1, Len(s))

TooLarge(c) == [from |-> c, n |-> 0, kind |-> "large"]

-----------------------------------------------------------------------------
(* send() and close_client *)

Taken(c, owed) == Min({SendRoom - Len(outbox[c]), Len(owed)})
SentNow(c, owed) == SubSeq(owed, 1, Taken(c, owed))
Unsent(c, owed) == SubSeq(owed, Taken(c, owed) + 1, Len(owed))

\* Has the connection been reset, or may it be while a handler runs?
Resettable(c) == peer[c] = "closed" /\ outbox[c] # << >>
SendMayFail(c) == peer[c] = "reset" \/ Resettable(c)

Deliver(c, owed) == outbox' = [outbox EXCEPT ![c] = @ \o SentNow(c, owed)]

\* Mutants: the descriptor stays open; the closing mark outlives the client.
CloseClientLeaks(fd, why) ==
  /\ ended' = [c \in Client |-> IF c = conn[fd] THEN why ELSE ended[c]]
  /\ reading' = reading \ {fd} /\ writing' = writing \ {fd}
  /\ input' = [input EXCEPT ![fd] = << >>]
  /\ output' = [output EXCEPT ![fd] = << >>]
  /\ closing' = closing \ {fd}
  /\ UNCHANGED conn
CloseClientKeepsMark(fd, why) ==
  /\ conn' = [conn EXCEPT ![fd] = Nobody]
  /\ ended' = [c \in Client |-> IF c = conn[fd] THEN why ELSE ended[c]]
  /\ reading' = reading \ {fd} /\ writing' = writing \ {fd}
  /\ input' = [input EXCEPT ![fd] = << >>]
  /\ output' = [output EXCEPT ![fd] = << >>]
  /\ UNCHANGED closing

\* close_client; on a descriptor closed before, by an earlier event of the
\* batch, its system calls fail without harm.
CloseClient(fd, why) ==
  /\ conn' = [conn EXCEPT ![fd] = Nobody]
  /\ ended' = [c \in Client |-> IF c = conn[fd] THEN why ELSE ended[c]]
  /\ reading' = reading \ {fd} /\ writing' = writing \ {fd}
  /\ input' = [input EXCEPT ![fd] = << >>]
  /\ output' = [output EXCEPT ![fd] = << >>]
  /\ closing' = closing \ {fd}

\* The process goes, and the kernel closes what it had open.
ProcessEnds(as) ==
  /\ pc' = as
  /\ batch' = {} /\ backlog' = << >>
  /\ conn' = [fd \in Fd |-> Nobody]
  /\ ended' = [c \in Client |-> IF c \in Range(conn) \cup Range(backlog) THEN as ELSE ended[c]]
  /\ reading' = {} /\ writing' = {} /\ closing' = {}
  /\ input' = [fd \in Fd |-> << >>] /\ output' = [fd \in Fd |-> << >>]

-----------------------------------------------------------------------------
(* The environment *)

\* connect() succeeds once the listening socket is there.
Connect(c) == /\ pc # "starting" /\ Alive
              /\ peer[c] = "idle"
              /\ peer' = [peer EXCEPT ![c] = "open"]
              /\ backlog' = Append(backlog, c)
              /\ UNCHANGED <<sent, got, inbox, outbox, pc, running, batch, executed, loopVars>>

Send(c, kind) == LET unit == [from |-> c, n |-> Len(sent[c]) + 1, kind |-> kind]
                 IN  /\ peer[c] = "open" /\ ended[c] = ""
                     /\ Len(sent[c]) < MaxSent
                     /\ sent' = [sent EXCEPT ![c] = Append(@, unit)]
                     /\ inbox' = [inbox EXCEPT ![c] = Append(@, unit)]
                     /\ UNCHANGED <<peer, got, backlog, outbox, pc, running, batch, executed, loopVars>>

ReadReply(c) == /\ peer[c] \in {"open", "half"}
                /\ outbox[c] # << >>
                /\ got' = [got EXCEPT ![c] = Append(@, Head(outbox[c]))]
                /\ outbox' = [outbox EXCEPT ![c] = Tail(@)]
                /\ UNCHANGED <<peer, sent, backlog, inbox, pc, running, batch, executed, loopVars>>

PeerGoes(c, from, to) ==
  /\ peer[c] \in from
  /\ peer' = [peer EXCEPT ![c] = to]
  /\ UNCHANGED <<sent, got, backlog, inbox, outbox, pc, running, batch, executed, loopVars>>

HalfClose(c) == "halfClose" \in Environment /\ PeerGoes(c, {"open"}, "half")
Close(c) == "close" \in Environment /\ PeerGoes(c, {"open", "half"}, "closed")
\* The answer to replies that nobody is there to read.
ResetArrives(c) == Resettable(c) /\ PeerGoes(c, {"closed"}, "reset")

\* handle_shutdown_signal.  A process asleep in kevent() is woken with EINTR
\* and goes on with the loop condition.
Signal == /\ "signal" \in Environment /\ Alive
          /\ running' = FALSE
          /\ pc' = IF pc = "asleep" THEN "check" ELSE pc
          /\ UNCHANGED <<peerVars, backlog, inbox, outbox, batch, executed, loopVars>>

-----------------------------------------------------------------------------
(* The loop *)

\* Replay, socket, bind, listen, kqueue: whatever fails, run_server returns 1.
StartUp == /\ pc = "starting"
           /\ pc' \in {"check", "failed"}
           /\ UNCHANGED <<peerVars, backlog, inbox, outbox, running, batch, executed, loopVars>>

\* while (g_running)
CheckRunning == /\ pc = "check" /\ running
                /\ pc' = "enter"
                /\ UNCHANGED <<peerVars, backlog, inbox, outbox, running, batch, executed, loopVars>>

\* Whatever its buffers still hold is not sent.
ShutDown == /\ pc = "check" /\ ~running
            /\ ProcessEnds("stopped")
            /\ UNCHANGED <<peerVars, inbox, outbox, running, executed>>

\* kqueue's level-triggered conditions.
Readable(c) == inbox[c] # << >> \/ peer[c] \in {"half", "closed", "reset"}
Writable(c) == Len(outbox[c]) < SendRoom \/ peer[c] = "reset"
Event == [filter : {"read", "write"}, fd : Fd] \cup {[filter |-> "listen", fd |-> 0]}
Ready == {e \in Event : CASE e.filter = "read" -> e.fd \in reading /\ Readable(conn[e.fd])
                          [] e.filter = "write" -> e.fd \in writing /\ Writable(conn[e.fd])
                          [] e.filter = "listen" -> backlog # << >>}

\* kevent() with nothing to report, and with a batch.
Sleep == /\ pc = "enter" /\ Ready = {}
         /\ pc' = "asleep"
         /\ UNCHANGED <<peerVars, backlog, inbox, outbox, running, batch, executed, loopVars>>

Wake == /\ pc \in {"enter", "asleep"} /\ Ready # {}
        /\ pc' = "handle"
        /\ batch' \in kSubset(Min({MaxBatch, Cardinality(Ready)}), Ready)
        /\ UNCHANGED <<peerVars, backlog, inbox, outbox, running, executed, loopVars>>

\* kevent() fails for another reason than a signal: the loop is left.
WaitFails == /\ "waitFails" \in Environment /\ pc = "enter"
             /\ ProcessEnds("stopped")
             /\ UNCHANGED <<peerVars, inbox, outbox, running, executed>>

\* Mutant: a break where a continue was meant.
HandledAndOut(e) == /\ pc = "handle" /\ e \in batch
                    /\ batch' = batch \ {e}
                    /\ pc' = "check"

\* Takes an event off the batch; after the last, back to the loop condition.
Handled(e) == /\ pc = "handle" /\ e \in batch
              /\ batch' = batch \ {e}
              /\ pc' = IF batch' = {} THEN "check" ELSE "handle"

\* accept_clients: each connection gets the lowest free descriptor; one that
\* cannot be prepared is closed, and when there is no descriptor left the rest
\* stay where they are.
AcceptClients(e) ==
  LET free == {fd \in Fd : conn[fd] = Nobody} IN
  /\ Handled(e) /\ e.filter = "listen"
  /\ \E n \in 0 .. Len(backlog), new \in SUBSET free :
     \E kept \in {K \in SUBSET (1 .. n) : K = 1 .. n \/ "refuse" \in Environment} :
     \E at \in Bijection(new, kept) :
       /\ \A f \in new : \A g \in free : g < f => g \in new /\ at[g] < at[f]
       /\ n = Len(backlog) \/ new = free
       /\ backlog' = SubSeq(backlog, n + 1, Len(backlog))
       /\ conn' = [fd \in Fd |-> IF fd \in new THEN backlog[at[fd]] ELSE conn[fd]]
       /\ reading' = reading \cup new
       /\ input' = [fd \in Fd |-> IF fd \in new THEN << >> ELSE input[fd]]
       /\ output' = [fd \in Fd |-> IF fd \in new THEN << >> ELSE output[fd]]
       /\ ended' = [c \in Client |->
                      IF \E i \in (1 .. n) \ kept : backlog[i] = c THEN "refused" ELSE ended[c]]
  /\ UNCHANGED <<peerVars, inbox, outbox, running, executed, writing, closing>>

\* A descriptor an earlier event of the batch closed.  recv fails, and
\* close_client finds nothing to close; EVFILT_WRITE finds nothing to send.
StaleEvent(e) ==
  /\ Handled(e) /\ e.filter # "listen" /\ conn[e.fd] = Nobody
  /\ CloseClient(e.fd, "")
  /\ UNCHANGED <<peerVars, backlog, inbox, outbox, running, executed>>

\* recv reports the reset.
ReadFails(e) ==
  /\ Handled(e) /\ e.filter = "read" /\ conn[e.fd] # Nobody
  /\ peer[conn[e.fd]] = "reset"
  /\ inbox' = [inbox EXCEPT ![conn[e.fd]] = << >>]
  /\ CloseClient(e.fd, "broken")
  /\ UNCHANGED <<peerVars, backlog, outbox, running, executed>>

\* handle_readable: drain the socket, run what is whole, send what it owes.
\* What was received, what is owed for it, and what was executed.
Received(fd) == input[fd] \o inbox[conn[fd]]
Overflows(fd) == Len(Received(fd)) > MaxRequest
Refuses(fd) == Overflows(fd) \/ Malformed(Received(fd))
Owed(fd) == output[fd] \o (IF Overflows(fd) THEN <<TooLarge(conn[fd])>>
                                            ELSE Answers(Received(fd)))
Executing(fd) == IF Overflows(fd) THEN << >> ELSE Requests(Received(fd))

Receive(e) == /\ e.filter = "read" /\ conn[e.fd] # Nobody
              /\ peer[conn[e.fd]] # "reset"
              /\ inbox' = [inbox EXCEPT ![conn[e.fd]] = << >>]
              /\ executed' = executed \o Executing(e.fd)
              /\ UNCHANGED <<peerVars, backlog, running>>

\* Mutants: the registration is forgotten; a finished client is closed with
\* replies pending; it is only marked, though none is.
NoInterest(fd, left) == writing
CloseAtOnce(left, finished) == finished
CloseLater(left, finished) == FALSE

\* try_send registers for EVFILT_WRITE when the socket takes no more.
Interest(fd, left) == IF left # << >> THEN writing \cup {fd} ELSE writing
\* A client that has finished sending is closed when all is sent.
CloseNow(left, finished) == left = << >> /\ finished

ReadServes(e) ==
  LET fd == e.fd
      c == conn[fd]
      left == Unsent(c, Owed(fd))
      finished == peer[c] \in {"half", "closed"}
  IN  /\ Handled(e) /\ Receive(e) /\ ~Refuses(fd)
      /\ Deliver(c, Owed(fd))
      /\ IF CloseNow(left, finished)
         THEN CloseClient(fd, "finished")
         ELSE /\ input' = [input EXCEPT ![fd] = Unparsed(Received(fd))]
              /\ output' = [output EXCEPT ![fd] = left]
              /\ writing' = Interest(fd, left)
              /\ closing' = IF finished THEN closing \cup {fd} ELSE closing
              /\ UNCHANGED <<conn, reading, ended>>

\* A request too large, or one the parser rejects: one try_send, and out.
ReadRefuses(e) ==
  /\ Handled(e) /\ Receive(e) /\ Refuses(e.fd)
  /\ Deliver(conn[e.fd], Owed(e.fd))
  /\ CloseClient(e.fd, "refused")

\* EVFILT_WRITE: send on; when all is sent, stop asking, and close if the
\* client had finished.
WriteSends(e) ==
  LET fd == e.fd
      c == conn[fd]
      left == Unsent(c, output[fd])
  IN  /\ Handled(e) /\ e.filter = "write" /\ c # Nobody
      /\ output[fd] = << >> \/ peer[c] # "reset"
      /\ Deliver(c, output[fd])
      /\ IF CloseNow(left, fd \in closing)
         THEN CloseClient(fd, "finished")
         ELSE /\ output' = [output EXCEPT ![fd] = left]
              /\ writing' = IF left = << >> THEN writing \ {fd} ELSE Interest(fd, left)
              /\ UNCHANGED <<conn, reading, input, closing, ended>>
      /\ UNCHANGED <<peerVars, backlog, inbox, running, executed>>

\* send() on a connection that was reset.  It fails, and the client is closed;
\* or it raises SIGPIPE, which nobody handles.
SendFails(e) ==
  LET fd == e.fd IN
  /\ e.filter # "listen" /\ conn[fd] # Nobody /\ SendMayFail(conn[fd])
  /\ \/ Receive(e) /\ Owed(fd) # << >>
     \/ /\ e.filter = "write" /\ output[fd] # << >>
        /\ UNCHANGED <<peerVars, backlog, inbox, running, executed>>
  /\ UNCHANGED outbox
  /\ Handled(e)
  /\ CloseClient(fd, IF e.filter = "read" /\ Refuses(fd) THEN "refused" ELSE "broken")

SigPipe(e) ==
  LET fd == e.fd IN
  /\ pc = "handle" /\ e \in batch /\ e.filter # "listen"
  /\ conn[fd] # Nobody /\ SendMayFail(conn[fd])
  /\ IF e.filter = "read"
     THEN peer[conn[fd]] # "reset" /\ Owed(fd) # << >> /\ executed' = executed \o Executing(fd)
     ELSE output[fd] # << >> /\ UNCHANGED executed
  /\ ProcessEnds("killed")
  /\ UNCHANGED <<peerVars, inbox, outbox, running>>

HandleEvent(e) == \/ AcceptClients(e) \/ StaleEvent(e)
                  \/ ReadFails(e) \/ ReadServes(e) \/ ReadRefuses(e)
                  \/ WriteSends(e) \/ SendFails(e) \/ SigPipe(e)

LoopStep == \/ StartUp \/ CheckRunning \/ ShutDown
            \/ Sleep \/ Wake \/ WaitFails
            \/ \E e \in batch : HandleEvent(e)

ClientStep(c) == \/ Connect(c) \/ ReadReply(c)
                 \/ \E kind \in Kind : Send(c, kind)
                 \/ HalfClose(c) \/ Close(c) \/ ResetArrives(c)

Next == LoopStep \/ Signal \/ \E c \in Client : ClientStep(c)

\* The process is scheduled; and the network delivers, and clients read what
\* they are sent.  Nothing else need ever happen.
Scheduled == WF_vars(LoopStep)
Reading == \A c \in Client : WF_vars(ReadReply(c)) /\ WF_vars(ResetArrives(c))

Spec == Init /\ [][Next]_vars
FairSpec == Spec /\ Scheduled /\ Reading

-----------------------------------------------------------------------------
(* Properties *)

Units(c) == [from : {c}, n : 0 .. MaxSent, kind : {"part", "end", "bad", "large"}]

\* The types; and the process is handling events while, and only while, some
\* of its batch are left.
TypeOK ==
  /\ peer \in [Client -> {"idle", "open", "half", "closed", "reset"}]
  /\ \A c \in Client : {sent[c], got[c], inbox[c], outbox[c]} \subseteq Seq(Units(c))
  /\ \A c \in Client : Len(outbox[c]) <= SendRoom
  /\ Range(backlog) \subseteq Client
  /\ conn \in [Fd -> Client \cup {Nobody}]
  /\ pc \in ControlPoint /\ running \in BOOLEAN
  /\ batch \subseteq Event /\ (batch # {} <=> pc = "handle")
  /\ Range(executed) \subseteq UNION {Units(c) : c \in Client}

\* A descriptor belongs to one connection, and a connection that was closed to
\* none: however it ends, its descriptor is free again, and no client is ever
\* accepted twice.
OneDescriptorEach ==
  /\ \A f, g \in Fd : conn[f] = conn[g] => f = g \/ conn[f] = Nobody
  /\ \A c \in Client : ended[c] # "" => c \notin Range(conn) \cup Range(backlog)

\* A descriptor given to a new client carries nothing of the old one: no bytes,
\* no mark that it is to be closed, no registration, whatever the order in
\* which a batch closes and accepts.
NothingLeftBehind ==
  \A fd \in Fd : conn[fd] = Nobody =>
    /\ input[fd] = << >> /\ output[fd] = << >>
    /\ fd \notin reading \cup writing \cup closing

\* Between two events, output that waits has a registration that will wake the
\* loop for it.
OutputIsWatched == \A fd \in Fd : output[fd] # << >> => fd \in writing

\* A client the server closes because it had finished sending has been
\* answered in full.
FinishedClientsLoseNothing ==
  \A c \in Client : ended[c] = "finished" => got[c] \o outbox[c] = Answers(sent[c])

\* To its clients the loop is a Service.  The error about size is no answer to
\* a request.
NoSizeError(s) == At(s, {i \in DOMAIN s : s[i].kind # "large"})
Promise == INSTANCE Service WITH asked <- [c \in Client |-> Answers(sent[c])],
                                 history <- executed,
                                 got <- [c \in Client |-> NoSizeError(got[c])]
ImplementsService == Promise!Spec

\* A client that stays and reads gets the answer to every request, in time:
\* unless it is refused, or the process ends, as another client's going away
\* may make it.  (Without signals: one ends the loop at any time.)
Answered ==
  \A c \in Client : \A i \in 1 .. MaxSent :
    Len(Answers(sent[c])) >= i ~>
      \/ Len(got[c]) >= i
      \/ peer[c] \in {"closed", "reset"} \/ ended[c] = "refused"
      \/ ~Alive

\* A connection whose client has finished sending, or has gone, is closed in
\* the end: its pending output does not keep it for ever.
ConnectionsAreFreed ==
  \A c \in Client : peer[c] \in {"half", "closed", "reset"} ~> ended[c] # ""

\* Violated.  A signal ends the loop.
SignalEndsTheLoop == ~running ~> ~Alive

\* Violated.  Once started, the process runs until a signal tells it to stop.
RunsUntilSignalled == pc \in {"stopped", "killed"} => ~running
=============================================================================
