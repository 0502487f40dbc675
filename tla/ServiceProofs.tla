--------------------------- MODULE ServiceProofs ---------------------------
(***************************************************************************)
(* What the event loop keeps true, and that it is a Service: for any       *)
(* number of clients, of descriptors, of events in a batch and of units    *)
(* sent, any limits, and whatever the environment does.                    *)
(***************************************************************************)
EXTENDS EventLoop, Induction, FiniteSetTheorems

-----------------------------------------------------------------------------
(* EventLoop: where things are, and what the loop keeps true of them. *)

\* Where things are: enough of the types to follow a descriptor.
Shape == /\ backlog \in Seq(Client)
         /\ conn \in [Fd -> Client \cup {Nobody}]
         /\ DOMAIN peer = Client
         /\ DOMAIN input = Fd /\ DOMAIN output = Fd
         /\ batch \subseteq Event

\* A client is in one place: not there yet, in the backlog, behind one
\* descriptor, or gone.
OnePlaceEach ==
  /\ \A i, j \in 1 .. Len(backlog) : backlog[i] = backlog[j] => i = j
  /\ \A i \in 1 .. Len(backlog), f \in Fd : backlog[i] # conn[f]
  /\ \A f, g \in Fd : conn[f] = conn[g] => f = g \/ conn[f] = Nobody
  /\ \A c \in Client : peer[c] = "idle" \/ ended[c] # "" =>
       /\ \A i \in 1 .. Len(backlog) : backlog[i] # c
       /\ \A f \in Fd : conn[f] # c
  /\ \A c \in Client : peer[c] = "idle" => ended[c] = ""

Inv == Shape /\ OnePlaceEach /\ NothingLeftBehind /\ OutputIsWatched

-----------------------------------------------------------------------------
LEMMA InitInv == Init => Inv
<1> SUFFICES ASSUME Init
             PROVE  Inv
  OBVIOUS
<1>1. Shape
  <2>1. backlog = << >> /\ batch = {}
    BY DEF Init
  <2>2. conn \in [Fd -> Client \cup {Nobody}]
    BY DEF Init
  <2>3. DOMAIN peer = Client /\ DOMAIN input = Fd /\ DOMAIN output = Fd
    BY DEF Init
  <2>4. QED
    BY <2>1, <2>2, <2>3 DEF Shape
<1>2. 1 .. Len(backlog) = {}
  <2>1. backlog = << >>
    BY DEF Init
  <2>2. QED
    BY <2>1
<1>3. OnePlaceEach
  <2>1. \A f \in Fd : conn[f] = Nobody
    BY DEF Init
  <2>2. \A c \in Client : ended[c] = "" /\ c # Nobody
    BY EventLoopAssumption DEF Init
  <2>3. QED
    BY <1>2, <2>1, <2>2 DEF OnePlaceEach
<1>4. NothingLeftBehind /\ OutputIsWatched
  BY DEF Init, NothingLeftBehind, OutputIsWatched
<1>5. QED
  BY <1>1, <1>3, <1>4 DEF Inv

LEMMA NobodyMoves ==
  ASSUME OnePlaceEach, UNCHANGED <<peer, backlog, conn, ended>>
  PROVE  OnePlaceEach'
<1>1. peer' = peer /\ backlog' = backlog /\ conn' = conn /\ ended' = ended
  OBVIOUS
<1>2. QED
  BY ONLY OnePlaceEach, <1>1 DEF OnePlaceEach

\* A step that touches no connection.
LEMMA QuietInv ==
  ASSUME Inv, UNCHANGED <<peer, backlog, loopVars>>, batch' \subseteq Event
  PROVE  Inv'
<1>1. UNCHANGED <<peer, backlog, conn, ended, input, output, reading, writing, closing>>
  BY DEF loopVars
<1>2. Shape'
  BY <1>1 DEF Inv, Shape
<1>3. OnePlaceEach'
  BY <1>1, NobodyMoves DEF Inv
<1>4. NothingLeftBehind' /\ OutputIsWatched'
  BY <1>1 DEF Inv, NothingLeftBehind, OutputIsWatched
<1>5. QED
  BY <1>2, <1>3, <1>4 DEF Inv

LEMMA PeerGoesInv ==
  ASSUME NEW c \in Client, NEW from, NEW to, "idle" \notin from, to # "idle",
         Inv, PeerGoes(c, from, to)
  PROVE  Inv'
<1>1. /\ peer' = [peer EXCEPT ![c] = to] /\ peer[c] # "idle" /\ peer'[c] # "idle"
      /\ \A d \in Client : peer'[d] = "idle" => peer[d] = "idle"
      /\ UNCHANGED <<backlog, batch, loopVars>>
  BY DEF PeerGoes, Inv, Shape
<1>2. Shape'
  BY <1>1 DEF Inv, Shape, loopVars
<1>3. OnePlaceEach'
  BY <1>1 DEF Inv, OnePlaceEach, loopVars
<1>4. NothingLeftBehind' /\ OutputIsWatched'
  BY <1>1 DEF Inv, NothingLeftBehind, OutputIsWatched, loopVars
<1>5. QED
  BY <1>2, <1>3, <1>4 DEF Inv

LEMMA ConnectInv ==
  ASSUME NEW c \in Client, Inv, Connect(c)
  PROVE  Inv'
<1>1. /\ peer[c] = "idle" /\ peer' = [peer EXCEPT ![c] = "open"]
      /\ backlog' = Append(backlog, c)
      /\ UNCHANGED <<batch, loopVars>>
  BY DEF Connect
<1>2. /\ backlog \in Seq(Client) /\ backlog' \in Seq(Client)
      /\ Len(backlog') = Len(backlog) + 1 /\ backlog'[Len(backlog) + 1] = c
      /\ \A i \in 1 .. Len(backlog) : backlog'[i] = backlog[i]
  BY <1>1 DEF Inv, Shape
<1>3. /\ peer'[c] = "open"
      /\ \A d \in Client : d # c => peer'[d] = peer[d]
  BY <1>1 DEF Inv, Shape
<1>4. Shape'
  BY <1>1, <1>2 DEF Inv, Shape, loopVars
<1>5. OnePlaceEach'
  <2>1. \A i \in 1 .. Len(backlog') : i \in 1 .. Len(backlog) \/ i = Len(backlog) + 1
    BY <1>2
  <2>2. /\ \A i \in 1 .. Len(backlog) : backlog[i] # c
        /\ \A f \in Fd : conn[f] # c
        /\ ended[c] = ""
    BY <1>1 DEF Inv, OnePlaceEach
  <2>3. \A i, j \in 1 .. Len(backlog') : backlog'[i] = backlog'[j] => i = j
    <3>1. \A i, j \in 1 .. Len(backlog) : backlog[i] = backlog[j] => i = j
      BY DEF Inv, OnePlaceEach
    <3>2. \A i \in 1 .. Len(backlog) : backlog'[i] # backlog'[Len(backlog) + 1]
      BY <1>2, <2>2
    <3>3. \A i, j \in 1 .. Len(backlog) : backlog'[i] = backlog'[j] => i = j
      BY <1>2, <3>1
    <3>4. QED
      BY <2>1, <3>2, <3>3
  <2>4. \A i \in 1 .. Len(backlog'), f \in Fd : backlog'[i] # conn'[f]
    <3>1. \A i \in 1 .. Len(backlog), f \in Fd : backlog'[i] # conn[f]
      <4>1. \A i \in 1 .. Len(backlog), f \in Fd : backlog[i] # conn[f]
        BY DEF Inv, OnePlaceEach
      <4>2. QED
        BY <1>2, <4>1
    <3>2. \A f \in Fd : backlog'[Len(backlog) + 1] # conn[f]
      BY <1>2, <2>2
    <3>3. conn' = conn
      BY <1>1 DEF loopVars
    <3>4. QED
      BY <2>1, <3>1, <3>2, <3>3
  <2>5. \A d \in Client : peer'[d] = "idle" \/ ended'[d] # "" =>
          /\ d # c
          /\ \A i \in 1 .. Len(backlog) : backlog[i] # d
          /\ \A f \in Fd : conn[f] # d
    BY <1>1, <1>3, <2>2 DEF Inv, OnePlaceEach, loopVars
  <2>6. \A d \in Client : peer'[d] = "idle" \/ ended'[d] # "" =>
          /\ \A i \in 1 .. Len(backlog') : backlog'[i] # d
          /\ \A f \in Fd : conn'[f] # d
    <3>1. conn' = conn
      BY <1>1 DEF loopVars
    <3>2. ASSUME NEW d \in Client, peer'[d] = "idle" \/ ended'[d] # "", NEW i \in 1 .. Len(backlog')
          PROVE  backlog'[i] # d
      <4>1. i \in 1 .. Len(backlog) \/ i = Len(backlog) + 1
        BY <2>1
      <4>2. QED
        BY <1>2, <2>5, <3>2, <4>1
    <3>3. QED
      BY <2>5, <3>1, <3>2
  <2>7. \A d \in Client : peer'[d] = "idle" => ended'[d] = ""
    BY <1>1, <1>3 DEF Inv, OnePlaceEach, loopVars
  <2>8. \A f, g \in Fd : conn'[f] = conn'[g] => f = g \/ conn'[f] = Nobody
    BY <1>1 DEF Inv, OnePlaceEach, loopVars
  <2>9. QED
    BY <2>3, <2>4, <2>6, <2>7, <2>8 DEF OnePlaceEach
<1>6. NothingLeftBehind' /\ OutputIsWatched'
  BY <1>1 DEF Inv, NothingLeftBehind, OutputIsWatched, loopVars
<1>7. QED
  BY <1>4, <1>5, <1>6 DEF Inv

-----------------------------------------------------------------------------
(* Closing *)

\* close_client on any descriptor, open or not.
LEMMA CloseClientInv ==
  ASSUME NEW fd \in Fd, NEW why, Inv, CloseClient(fd, why),
         UNCHANGED <<peer, backlog>>, batch' \subseteq Event
  PROVE  Inv'
<1>1. /\ \A f \in Fd : conn'[f] = IF f = fd THEN Nobody ELSE conn[f]
      /\ \A c \in Client : ended'[c] = IF c = conn[fd] THEN why ELSE ended[c]
  BY DEF CloseClient, Inv, Shape
<1>2. Shape'
  BY DEF CloseClient, Inv, Shape
<1>3. OnePlaceEach'
  <2>1. /\ \A i, j \in 1 .. Len(backlog) : backlog[i] = backlog[j] => i = j
        /\ \A i \in 1 .. Len(backlog), f \in Fd : backlog[i] # conn[f]
    BY DEF Inv, OnePlaceEach
  <2>2. \A i \in 1 .. Len(backlog) : backlog[i] \in Client /\ backlog[i] # Nobody
    BY EventLoopAssumption DEF Inv, Shape
  <2>3. \A i \in 1 .. Len(backlog), f \in Fd : backlog[i] # conn'[f]
    BY <1>1, <2>1, <2>2
  <2>4. \A f, g \in Fd : conn'[f] = conn'[g] => f = g \/ conn'[f] = Nobody
    <3>1. \A f, g \in Fd : conn[f] = conn[g] => f = g \/ conn[f] = Nobody
      BY DEF Inv, OnePlaceEach
    <3>2. QED
      BY <1>1, <3>1
  <2>5. \A c \in Client : c = conn[fd] =>
          /\ \A i \in 1 .. Len(backlog) : backlog[i] # c
          /\ \A f \in Fd : conn'[f] # c
          /\ peer[c] # "idle"
    <3> SUFFICES ASSUME NEW c \in Client, c = conn[fd]
                 PROVE  /\ \A i \in 1 .. Len(backlog) : backlog[i] # c
                        /\ \A f \in Fd : conn'[f] # c
                        /\ peer[c] # "idle"
      OBVIOUS
    <3>1. \A f \in Fd : conn[f] = c => f = fd
      BY EventLoopAssumption DEF Inv, OnePlaceEach
    <3>2. \A f \in Fd : conn'[f] # c
      BY <1>1, <3>1, EventLoopAssumption
    <3>3. peer[c] # "idle"
      BY DEF Inv, OnePlaceEach
    <3>4. QED
      BY <2>1, <3>2, <3>3
  <2>6. \A c \in Client : c # conn[fd] /\ (peer[c] = "idle" \/ ended'[c] # "") =>
          /\ \A i \in 1 .. Len(backlog) : backlog[i] # c
          /\ \A f \in Fd : conn'[f] # c
    <3>1. \A c \in Client : peer[c] = "idle" \/ ended[c] # "" =>
            /\ \A i \in 1 .. Len(backlog) : backlog[i] # c
            /\ \A f \in Fd : conn[f] # c
      BY DEF Inv, OnePlaceEach
    <3>2. ASSUME NEW c \in Client, c # conn[fd], peer[c] = "idle" \/ ended'[c] # ""
          PROVE  peer[c] = "idle" \/ ended[c] # ""
      BY <1>1, <3>2
    <3>3. \A c \in Client, f \in Fd : conn[f] # c => conn'[f] # c
      BY <1>1, EventLoopAssumption
    <3>4. QED
      BY <3>1, <3>2, <3>3
  <2>7. \A c \in Client : peer[c] = "idle" => ended'[c] = ""
    BY <1>1, <2>5 DEF Inv, OnePlaceEach
  <2>8. \A c \in Client : peer[c] = "idle" \/ ended'[c] # "" =>
          /\ \A i \in 1 .. Len(backlog) : backlog[i] # c
          /\ \A f \in Fd : conn'[f] # c
    BY <2>5, <2>6
  <2>9. peer' = peer /\ backlog' = backlog
    OBVIOUS
  <2>10. QED
    BY <2>1, <2>3, <2>4, <2>7, <2>8, <2>9 DEF OnePlaceEach
<1>4. NothingLeftBehind' /\ OutputIsWatched'
  BY <1>1 DEF CloseClient, Inv, Shape, NothingLeftBehind, OutputIsWatched
<1>5. QED
  BY <1>2, <1>3, <1>4 DEF Inv

LEMMA ProcessEndsInv ==
  ASSUME NEW as, Inv, ProcessEnds(as), UNCHANGED peer
  PROVE  Inv'
<1>1. /\ backlog' = << >> /\ batch' = {}
      /\ conn' = [fd \in Fd |-> Nobody]
      /\ \A c \in Client : ended'[c] = IF c \in Range(conn) \cup Range(backlog) THEN as ELSE ended[c]
      /\ reading' = {} /\ writing' = {} /\ closing' = {}
      /\ input' = [fd \in Fd |-> << >>] /\ output' = [fd \in Fd |-> << >>]
  BY DEF ProcessEnds
<1>2. /\ backlog' \in Seq(Client) /\ 1 .. Len(backlog') = {}
      /\ \A f \in Fd : conn'[f] = Nobody
      /\ \A c \in Client : c # Nobody
  BY <1>1, EventLoopAssumption
<1>3. Shape'
  <2>1. conn' \in [Fd -> Client \cup {Nobody}]
    BY <1>1
  <2>2. DOMAIN peer' = Client /\ DOMAIN input' = Fd /\ DOMAIN output' = Fd
    BY <1>1 DEF Inv, Shape
  <2>3. QED
    BY <1>1, <1>2, <2>1, <2>2 DEF Shape
<1>4. \A c \in Client : peer[c] = "idle" => ended'[c] = ""
  <2>1. \A c \in Client : peer[c] = "idle" => c \notin Range(conn)
    <3>1. DOMAIN conn = Fd
      BY DEF Inv, Shape
    <3>2. QED
      BY <3>1 DEF Inv, OnePlaceEach, Range
  <2>2. \A c \in Client : peer[c] = "idle" => c \notin Range(backlog)
    <3>1. DOMAIN backlog = 1 .. Len(backlog)
      BY DEF Inv, Shape
    <3>2. QED
      BY <3>1 DEF Inv, OnePlaceEach, Range
  <2>3. QED
    BY <1>1, <2>1, <2>2 DEF Inv, OnePlaceEach
<1>5. OnePlaceEach'
  BY <1>2, <1>4 DEF OnePlaceEach
<1>6. NothingLeftBehind' /\ OutputIsWatched'
  BY <1>1 DEF NothingLeftBehind, OutputIsWatched
<1>7. QED
  BY <1>3, <1>5, <1>6 DEF Inv

-----------------------------------------------------------------------------
(* Handling an event *)

\* Takes one event off the batch.
LEMMA HandledShrinks ==
  ASSUME NEW e, Inv, Handled(e)
  PROVE  /\ e \in Event /\ batch' \subseteq Event
         /\ e.filter # "listen" => e.fd \in Fd
BY DEF Handled, Inv, Shape, Event

\* A step at one open descriptor that leaves the others alone, and registers it
\* for what it leaves unsent.
LEMMA AtOneInv ==
  ASSUME NEW fd \in Fd, Inv, conn[fd] # Nobody,
         UNCHANGED <<peer, backlog, conn, reading, ended>>, batch' \subseteq Event,
         DOMAIN input' = Fd, DOMAIN output' = Fd,
         \A f \in Fd : f # fd => /\ input'[f] = input[f] /\ output'[f] = output[f]
                                 /\ f \in writing' <=> f \in writing
                                 /\ f \in closing' <=> f \in closing,
         output'[fd] # << >> => fd \in writing'
  PROVE  Inv'
<1>1. Shape'
  BY DEF Inv, Shape
<1>2. OnePlaceEach'
  BY NobodyMoves DEF Inv
<1>3. NothingLeftBehind'
  BY DEF Inv, NothingLeftBehind
<1>4. OutputIsWatched'
  BY DEF Inv, OutputIsWatched
<1>5. QED
  BY <1>1, <1>2, <1>3, <1>4 DEF Inv

LEMMA StaleEventInv ==
  ASSUME NEW e, Inv, StaleEvent(e)
  PROVE  Inv'
BY HandledShrinks, CloseClientInv DEF StaleEvent, peerVars

LEMMA ReadFailsInv ==
  ASSUME NEW e, Inv, ReadFails(e)
  PROVE  Inv'
<1>1. /\ Handled(e) /\ e.filter # "listen" /\ CloseClient(e.fd, "broken")
      /\ UNCHANGED <<peer, backlog>>
  BY DEF ReadFails, peerVars
<1>2. QED
  BY <1>1, HandledShrinks, CloseClientInv

LEMMA ReadServesInv ==
  ASSUME NEW e, Inv, ReadServes(e)
  PROVE  Inv'
<1> DEFINE fd   == e.fd
           c    == conn[fd]
           left == Unsent(c, Owed(fd))
           finished == peer[c] \in {"half", "closed"}
<1>1. /\ Handled(e) /\ e.filter # "listen" /\ conn[fd] # Nobody
      /\ UNCHANGED <<peer, backlog>>
  BY DEF ReadServes, Receive, peerVars
<1>2. fd \in Fd /\ batch' \subseteq Event
  BY <1>1, HandledShrinks
<1>3. CASE CloseNow(left, finished)
  BY <1>1, <1>2, <1>3, CloseClientInv DEF ReadServes
<1>4. CASE ~CloseNow(left, finished)
  <2>1. /\ input' = [input EXCEPT ![fd] = Unparsed(Received(fd))]
        /\ output' = [output EXCEPT ![fd] = left]
        /\ writing' = Interest(fd, left)
        /\ closing' = IF finished THEN closing \cup {fd} ELSE closing
        /\ UNCHANGED <<conn, reading, ended>>
    BY <1>4 DEF ReadServes
  <2> HIDE DEF left, finished, fd
  <2>2. /\ output'[fd] # << >> => fd \in writing'
        /\ \A f \in Fd : f # fd => (f \in writing' <=> f \in writing)
    BY <1>2, <2>1 DEF Interest, Inv, Shape
  <2>3. /\ DOMAIN input' = Fd /\ DOMAIN output' = Fd
        /\ \A f \in Fd : f # fd => /\ input'[f] = input[f] /\ output'[f] = output[f]
                                    /\ f \in closing' <=> f \in closing
    BY <2>1 DEF Inv, Shape
  <2>4. QED
    BY <1>1, <1>2, <2>1, <2>2, <2>3, AtOneInv
<1>5. QED
  BY <1>3, <1>4

LEMMA ReadRefusesInv ==
  ASSUME NEW e, Inv, ReadRefuses(e)
  PROVE  Inv'
<1>1. /\ Handled(e) /\ e.filter # "listen" /\ CloseClient(e.fd, "refused")
      /\ UNCHANGED <<peer, backlog>>
  BY DEF ReadRefuses, Receive, peerVars
<1>2. QED
  BY <1>1, HandledShrinks, CloseClientInv

LEMMA WriteSendsInv ==
  ASSUME NEW e, Inv, WriteSends(e)
  PROVE  Inv'
<1> DEFINE fd   == e.fd
           left == Unsent(conn[fd], output[fd])
<1>1. /\ Handled(e) /\ e.filter # "listen" /\ conn[fd] # Nobody
      /\ UNCHANGED <<peer, backlog>>
  BY DEF WriteSends, peerVars
<1>2. fd \in Fd /\ batch' \subseteq Event
  BY <1>1, HandledShrinks
<1>3. CASE CloseNow(left, fd \in closing)
  BY <1>1, <1>2, <1>3, CloseClientInv DEF WriteSends
<1>4. CASE ~CloseNow(left, fd \in closing)
  <2>1. /\ output' = [output EXCEPT ![fd] = left]
        /\ writing' = IF left = << >> THEN writing \ {fd} ELSE Interest(fd, left)
        /\ UNCHANGED <<conn, reading, input, closing, ended>>
    BY <1>4 DEF WriteSends
  <2> HIDE DEF left, fd
  <2>2. /\ output'[fd] # << >> => fd \in writing'
        /\ \A f \in Fd : f # fd => (f \in writing' <=> f \in writing)
    BY <1>2, <2>1 DEF Interest, Inv, Shape
  <2>3. /\ DOMAIN input' = Fd /\ DOMAIN output' = Fd
        /\ \A f \in Fd : f # fd => /\ input'[f] = input[f] /\ output'[f] = output[f]
                                    /\ f \in closing' <=> f \in closing
    BY <2>1 DEF Inv, Shape
  <2>4. QED
    BY <1>1, <1>2, <2>1, <2>2, <2>3, AtOneInv
<1>5. QED
  BY <1>3, <1>4

LEMMA SendFailsInv ==
  ASSUME NEW e, Inv, SendFails(e)
  PROVE  Inv'
<1>1. /\ Handled(e) /\ e.filter # "listen"
      /\ \E why : CloseClient(e.fd, why)
      /\ UNCHANGED <<peer, backlog>>
  BY DEF SendFails, Receive, peerVars
<1>2. QED
  BY <1>1, HandledShrinks, CloseClientInv

LEMMA SigPipeInv ==
  ASSUME NEW e, Inv, SigPipe(e)
  PROVE  Inv'
BY ProcessEndsInv DEF SigPipe, peerVars

-----------------------------------------------------------------------------
(* Accepting *)

\* The first n of the backlog leave it; those kept get free descriptors.
LEMMA AcceptClientsInv ==
  ASSUME NEW e, Inv, AcceptClients(e)
  PROVE  Inv'
<1> DEFINE free == {fd \in Fd : conn[fd] = Nobody}
           Accepted(n, new, kept, at) ==
        /\ backlog' = SubSeq(backlog, n + 1, Len(backlog))
        /\ conn' = [fd \in Fd |-> IF fd \in new THEN backlog[at[fd]] ELSE conn[fd]]
        /\ reading' = reading \cup new
        /\ input' = [fd \in Fd |-> IF fd \in new THEN << >> ELSE input[fd]]
        /\ output' = [fd \in Fd |-> IF fd \in new THEN << >> ELSE output[fd]]
        /\ ended' = [c \in Client |->
                       IF \E i \in (1 .. n) \ kept : backlog[i] = c THEN "refused" ELSE ended[c]]
<1> HIDE DEF Accepted
<1>1. PICK n \in 0 .. Len(backlog), new \in SUBSET free :
         \E kept \in SUBSET (1 .. n) : \E at \in Bijection(new, kept) :
           Accepted(n, new, kept, at)
  BY DEF AcceptClients, Accepted
<1>2. PICK kept \in SUBSET (1 .. n) : \E at \in Bijection(new, kept) :
         Accepted(n, new, kept, at)
  BY <1>1
<1>3. PICK at \in Bijection(new, kept) : Accepted(n, new, kept, at)
  BY <1>2
<1>4. /\ backlog' = SubSeq(backlog, n + 1, Len(backlog))
      /\ conn' = [fd \in Fd |-> IF fd \in new THEN backlog[at[fd]] ELSE conn[fd]]
      /\ reading' = reading \cup new
      /\ input' = [fd \in Fd |-> IF fd \in new THEN << >> ELSE input[fd]]
      /\ output' = [fd \in Fd |-> IF fd \in new THEN << >> ELSE output[fd]]
      /\ ended' = [c \in Client |->
                     IF \E i \in (1 .. n) \ kept : backlog[i] = c THEN "refused" ELSE ended[c]]
  BY <1>3 DEF Accepted
<1>5. UNCHANGED <<peer, writing, closing>> /\ batch' \subseteq Event
  BY HandledShrinks DEF AcceptClients, peerVars
<1>6. /\ backlog \in Seq(Client) /\ Len(backlog) \in Nat /\ n \in Nat /\ n <= Len(backlog)
      /\ \A i \in 1 .. Len(backlog) : backlog[i] \in Client /\ backlog[i] # Nobody
  BY EventLoopAssumption DEF Inv, Shape
<1>7. /\ at \in [new -> kept]
      /\ \A f, g \in new : at[f] = at[g] => f = g
  BY DEF Bijection, Injection, IsInjective
<1>8. \A f \in new : at[f] \in 1 .. n /\ at[f] \in 1 .. Len(backlog) /\ at[f] \in kept
  <2>1. \A f \in new : at[f] \in kept
    BY <1>7
  <2>2. kept \subseteq 1 .. n /\ 1 .. n \subseteq 1 .. Len(backlog)
    BY <1>6
  <2>3. QED
    BY <2>1, <2>2
<1>9. /\ backlog' \in Seq(Client) /\ Len(backlog') = Len(backlog) - n
      /\ \A i \in 1 .. Len(backlog') :
           n + i \in 1 .. Len(backlog) /\ n + i \notin 1 .. n /\ backlog'[i] = backlog[n + i]
  BY <1>4, <1>6
<1>10. \A f \in Fd : conn'[f] = IF f \in new THEN backlog[at[f]] ELSE conn[f]
  BY <1>4
<1>11. \A c \in Client : ended'[c] = IF \E i \in (1 .. n) \ kept : backlog[i] = c
                                     THEN "refused" ELSE ended[c]
  BY <1>4
<1>12. \A i, j \in 1 .. Len(backlog) : backlog[i] = backlog[j] => i = j
  BY DEF Inv, OnePlaceEach
<1>13. \A i \in 1 .. Len(backlog), f \in Fd : backlog[i] # conn[f]
  BY DEF Inv, OnePlaceEach
<1>14. \A f, g \in Fd : conn[f] = conn[g] => f = g \/ conn[f] = Nobody
  BY DEF Inv, OnePlaceEach
<1>15. \A c \in Client : peer[c] = "idle" \/ ended[c] # "" =>
         /\ \A i \in 1 .. Len(backlog) : backlog[i] # c
         /\ \A f \in Fd : conn[f] # c
  BY DEF Inv, OnePlaceEach
<1>16. Shape'
  <2>1. conn' \in [Fd -> Client \cup {Nobody}]
    <3>1. \A f \in Fd : conn'[f] \in Client \cup {Nobody}
      BY <1>6, <1>8, <1>10 DEF Inv, Shape
    <3>2. QED
      BY <1>4, <3>1
  <2>2. DOMAIN peer' = Client /\ DOMAIN input' = Fd /\ DOMAIN output' = Fd
    BY <1>4, <1>5 DEF Inv, Shape
  <2>3. QED
    BY <1>5, <1>9, <2>1, <2>2 DEF Shape
<1>17. OnePlaceEach'
  <2>1. \A i, j \in 1 .. Len(backlog') : backlog'[i] = backlog'[j] => i = j
    <3>1. \A i, j \in 1 .. Len(backlog') : backlog'[i] = backlog'[j] => n + i = n + j
      BY <1>9, <1>12
    <3>2. QED
      BY <1>6, <1>9, <3>1
  <2>2. \A i \in 1 .. Len(backlog'), f \in Fd : backlog'[i] # conn'[f]
    <3> SUFFICES ASSUME NEW i \in 1 .. Len(backlog'), NEW f \in Fd
                 PROVE  backlog'[i] # conn'[f]
      OBVIOUS
    <3>1. CASE f \in new
      <4>1. at[f] # n + i
        BY <1>8, <1>9, <3>1
      <4>2. backlog[at[f]] # backlog[n + i]
        BY <1>8, <1>9, <1>12, <3>1, <4>1
      <4>3. QED
        BY <1>9, <1>10, <3>1, <4>2
    <3>2. CASE f \notin new
      <4>1. n + i \in 1 .. Len(backlog) /\ backlog'[i] = backlog[n + i] /\ conn'[f] = conn[f]
        BY <1>9, <1>10, <3>2
      <4>2. QED
        BY <1>13, <4>1
    <3>3. QED
      BY <3>1, <3>2
  <2>3. \A f, g \in Fd : conn'[f] = conn'[g] => f = g \/ conn'[f] = Nobody
    <3> SUFFICES ASSUME NEW f \in Fd, NEW g \in Fd, conn'[f] = conn'[g]
                 PROVE  f = g \/ conn'[f] = Nobody
      OBVIOUS
    <3>1. CASE f \in new /\ g \in new
      <4>1. conn'[f] = backlog[at[f]] /\ conn'[g] = backlog[at[g]]
        BY <1>10, <3>1
      <4>2. at[f] = at[g]
        BY <1>8, <1>12, <3>1, <4>1
      <4>3. QED
        BY <1>7, <3>1, <4>2
    <3>2. CASE f \notin new /\ g \notin new
      BY <1>10, <1>14, <3>2
    <3>3. ASSUME NEW x \in new, NEW y \in Fd \ new
          PROVE  conn'[x] # conn'[y]
      <4>1. /\ conn'[x] = backlog[at[x]] /\ conn'[y] = conn[y]
            /\ at[x] \in 1 .. Len(backlog)
        BY <1>8, <1>10
      <4>2. \A i \in 1 .. Len(backlog) : backlog[i] # conn[y]
        BY <1>13
      <4>3. QED
        BY <4>1, <4>2
    <3>4. CASE f \in new /\ g \notin new
      BY <3>3, <3>4
    <3>5. CASE f \notin new /\ g \in new
      BY <3>3, <3>5
    <3>6. QED
      BY <3>1, <3>2, <3>4, <3>5
  <2>4. ASSUME NEW c \in Client, peer'[c] = "idle" \/ ended'[c] # ""
        PROVE  /\ \A i \in 1 .. Len(backlog') : backlog'[i] # c
               /\ \A f \in Fd : conn'[f] # c
    <3>1. CASE peer[c] = "idle" \/ ended[c] # ""
      <4>1. /\ \A i \in 1 .. Len(backlog) : backlog[i] # c
            /\ \A f \in Fd : conn[f] # c
        BY <1>15, <3>1
      <4>2. QED
        BY <1>8, <1>9, <1>10, <4>1
    <3>2. CASE ~(peer[c] = "idle" \/ ended[c] # "")
      <4>1. PICK i \in (1 .. n) \ kept : backlog[i] = c
        BY <1>5, <1>11, <2>4, <3>2
      <4>2. i \in 1 .. Len(backlog)
        BY <1>6
      <4>3. \A j \in 1 .. Len(backlog') : backlog'[j] # c
        <5>1. \A j \in 1 .. Len(backlog') : i # n + j
          BY <1>9, <4>1
        <5>2. \A j \in 1 .. Len(backlog) : backlog[j] = c => j = i
          BY <1>12, <4>1, <4>2
        <5>3. QED
          BY <1>9, <5>1, <5>2
      <4>4. \A f \in new : backlog[at[f]] # c
        BY <1>8, <1>12, <4>1, <4>2
      <4>5. \A f \in Fd : conn'[f] # c
        BY <1>10, <1>13, <4>1, <4>2, <4>4
      <4>6. QED
        BY <4>3, <4>5
    <3>3. QED
      BY <3>1, <3>2
  <2>5. \A c \in Client : peer'[c] = "idle" => ended'[c] = ""
    <3>1. \A c \in Client : peer[c] = "idle" =>
            ended[c] = "" /\ \A i \in 1 .. n : backlog[i] # c
      <4>1. 1 .. n \subseteq 1 .. Len(backlog)
        BY <1>6
      <4>2. \A c \in Client : peer[c] = "idle" => ended[c] = ""
        BY DEF Inv, OnePlaceEach
      <4>3. QED
        BY <1>15, <4>1, <4>2
    <3>2. QED
      BY <1>5, <1>11, <3>1
  <2>6. QED
    BY <2>1, <2>2, <2>3, <2>4, <2>5 DEF OnePlaceEach
<1>18. NothingLeftBehind'
  <2> SUFFICES ASSUME NEW f \in Fd, conn'[f] = Nobody
               PROVE  /\ input'[f] = << >> /\ output'[f] = << >>
                      /\ f \notin reading' \cup writing' \cup closing'
    BY DEF NothingLeftBehind
  <2>1. f \notin new /\ conn[f] = Nobody
    BY <1>6, <1>8, <1>10
  <2>2. QED
    BY <1>4, <1>5, <2>1 DEF Inv, NothingLeftBehind
<1>19. OutputIsWatched'
  BY <1>4, <1>5 DEF Inv, OutputIsWatched
<1>20. QED
  BY <1>16, <1>17, <1>18, <1>19 DEF Inv

-----------------------------------------------------------------------------
(* Every step *)

LEMMA HandleEventInv ==
  ASSUME NEW e, Inv, HandleEvent(e)
  PROVE  Inv'
BY AcceptClientsInv, StaleEventInv, ReadFailsInv, ReadServesInv, ReadRefusesInv,
   WriteSendsInv, SendFailsInv, SigPipeInv DEF HandleEvent

LEMMA LoopStepInv == Inv /\ LoopStep => Inv'
<1> SUFFICES ASSUME Inv, LoopStep
             PROVE  Inv'
  OBVIOUS
<1>1. batch \subseteq Event
  BY DEF Inv, Shape
<1>2. CASE StartUp \/ CheckRunning \/ Sleep
  BY <1>1, <1>2, QuietInv DEF StartUp, CheckRunning, Sleep, peerVars
<1>3. CASE Wake
  <2>1. batch' \subseteq Event
    BY <1>3 DEF Wake, Ready, kSubset
  <2>2. QED
    BY <1>3, <2>1, QuietInv DEF Wake, peerVars
<1>4. CASE ShutDown \/ WaitFails
  BY <1>4, ProcessEndsInv DEF ShutDown, WaitFails, peerVars
<1>5. CASE \E e \in batch : HandleEvent(e)
  BY <1>5, HandleEventInv
<1>6. QED
  BY <1>2, <1>3, <1>4, <1>5 DEF LoopStep

LEMMA ClientStepInv ==
  ASSUME NEW c \in Client, Inv, ClientStep(c)
  PROVE  Inv'
<1>1. batch \subseteq Event
  BY DEF Inv, Shape
<1>2. CASE ReadReply(c) \/ \E kind \in Kind : Send(c, kind)
  BY <1>1, <1>2, QuietInv DEF ReadReply, Send
<1>3. CASE HalfClose(c) \/ Close(c) \/ ResetArrives(c)
  BY <1>3, PeerGoesInv DEF HalfClose, Close, ResetArrives
<1>4. QED
  BY <1>2, <1>3, ConnectInv DEF ClientStep

LEMMA NextInv == Inv /\ [Next]_vars => Inv'
<1>1. Inv /\ UNCHANGED vars => Inv'
  BY QuietInv DEF Inv, Shape, vars, peerVars
<1>2. Inv /\ Signal => Inv'
  BY QuietInv DEF Inv, Shape, Signal, peerVars
<1>3. QED
  BY <1>1, <1>2, LoopStepInv, ClientStepInv DEF Next

LEMMA Invariance == Spec => []Inv
BY InitInv, NextInv, PTL DEF Spec

-----------------------------------------------------------------------------
\* Whatever a batch closes and accepts, and in whatever order, a descriptor is
\* given to a new client with nothing of the old one.
THEOREM DescriptorsAreReusedClean == Spec => []NothingLeftBehind
<1>1. Inv => NothingLeftBehind
  BY DEF Inv
<1>2. QED
  BY <1>1, Invariance, PTL

\* No reply waits in a buffer that nothing will look at again: whichever handler
\* leaves output behind has asked to be woken for it.
THEOREM NoReplyIsForgotten == Spec => []OutputIsWatched
<1>1. Inv => OutputIsWatched
  BY DEF Inv
<1>2. QED
  BY <1>1, Invariance, PTL

\* However a connection ends, its one descriptor is free again, and it is
\* never accepted a second time.
THEOREM DescriptorsAreNotShared == Spec => []OneDescriptorEach
<1>1. ASSUME Inv
      PROVE  OneDescriptorEach
  <2>1. DOMAIN backlog = 1 .. Len(backlog) /\ DOMAIN conn = Fd
    BY <1>1 DEF Inv, Shape
  <2>2. QED
    BY <1>1, <2>1 DEF Inv, OnePlaceEach, OneDescriptorEach, Range
<1>2. QED
  BY <1>1, Invariance, PTL

-----------------------------------------------------------------------------
(* At *)

\* f follows At's recursion on s and I up to n.
Picks(f, s, I, n) ==
  f = [i \in 0 .. n |-> IF i = 0 THEN << >>
                        ELSE IF i \in I THEN Append(f[i - 1], s[i]) ELSE f[i - 1]]

LEMMA PicksExists ==
  ASSUME NEW s, NEW I, NEW n \in Nat
  PROVE  \E f : Picks(f, s, I, n)
<1> DEFINE S == {m \in Nat : \E f : Picks(f, s, I, m)}
<1>1. 0 \in S
  <2> DEFINE f == [i \in 0 .. 0 |-> << >>]
  <2>1. Picks(f, s, I, 0)
    BY DEF Picks
  <2>2. QED
    BY <2>1
<1>2. ASSUME NEW m \in S
      PROVE  m + 1 \in S
  <2>1. PICK f : Picks(f, s, I, m)
    OBVIOUS
  <2> DEFINE last == IF m + 1 \in I THEN Append(f[m], s[m + 1]) ELSE f[m]
             g == [i \in 0 .. m + 1 |-> IF i = m + 1 THEN last ELSE f[i]]
             h == [i \in 0 .. m + 1 |-> IF i = 0 THEN << >>
                        ELSE IF i \in I THEN Append(g[i - 1], s[i]) ELSE g[i - 1]]
  <2>2. m \in Nat
    OBVIOUS
  <2>3. g[m + 1] = last /\ \A i \in 0 .. m : g[i] = f[i]
    BY <2>2
  <2>4. f[0] = << >> /\ \A i \in 1 .. m : f[i] = IF i \in I THEN Append(f[i - 1], s[i]) ELSE f[i - 1]
    <3>1. f[0] = << >>
      BY <2>1, <2>2 DEF Picks
    <3>2. ASSUME NEW i \in 1 .. m
          PROVE  f[i] = IF i \in I THEN Append(f[i - 1], s[i]) ELSE f[i - 1]
      <4>1. i \in 0 .. m /\ i # 0
        BY <2>2
      <4>2. QED
        BY <2>1, <4>1 DEF Picks
    <3>3. QED
      BY <3>1, <3>2
  <2> HIDE DEF g
  <2>5. ASSUME NEW i \in 0 .. m + 1
        PROVE  g[i] = h[i]
    <3>1. CASE i = 0
      BY <2>2, <2>3, <2>4, <3>1
    <3>2. CASE i = m + 1
      BY <2>2, <2>3, <3>2
    <3>3. CASE i \in 1 .. m
      <4>1. i - 1 \in 0 .. m /\ i \in 0 .. m /\ i # 0
        BY <2>2, <3>3
      <4>2. QED
        BY <2>3, <2>4, <3>3, <4>1
    <3>4. QED
      BY <2>2, <3>1, <3>2, <3>3
  <2>6. g = h
    BY <2>5 DEF g
  <2>7. Picks(g, s, I, m + 1)
    BY <2>6 DEF Picks
  <2>8. QED
    BY <2>2, <2>7
<1> HIDE DEF S
<1>3. S = Nat
  <2>1. S \subseteq Nat
    BY DEF S
  <2>2. QED
    BY <1>1, <1>2, <2>1, InductionOnNat
<1>4. QED
  BY <1>3 DEF S

\* At's recursion determines its value.
LEMMA PicksUnique ==
  ASSUME NEW f, NEW g, NEW s, NEW t, NEW I, NEW J, NEW n \in Nat, NEW m \in Nat, n <= m,
         Picks(f, s, I, n), Picks(g, t, J, m),
         \A i \in 1 .. n : s[i] = t[i] /\ (i \in I <=> i \in J)
  PROVE  f[n] = g[n]
<1> DEFINE S == {i \in Nat : i <= n => f[i] = g[i]}
<1>1. 0 \in S
  BY DEF Picks
<1>2. ASSUME NEW i \in S
      PROVE  i + 1 \in S
  <2>1. CASE i + 1 <= n
    <3>1. /\ i + 1 \in 1 .. n /\ i + 1 # 0 /\ (i + 1) - 1 = i /\ f[i] = g[i]
          /\ i + 1 \in 0 .. n /\ i + 1 \in 0 .. m
      BY <2>1
    <3>2. /\ f[i + 1] = IF i + 1 \in I THEN Append(f[i], s[i + 1]) ELSE f[i]
          /\ g[i + 1] = IF i + 1 \in J THEN Append(g[i], t[i + 1]) ELSE g[i]
      BY <3>1 DEF Picks
    <3>3. f[i + 1] = g[i + 1]
      BY <3>1, <3>2
    <3>4. QED
      BY <3>3
  <2>2. QED
    BY <2>1
<1> HIDE DEF S
<1>3. S = Nat
  <2>1. S \subseteq Nat
    BY DEF S
  <2>2. QED
    BY <1>1, <1>2, <2>1, InductionOnNat
<1>4. QED
  BY <1>3 DEF S

LEMMA AtPicks ==
  ASSUME NEW s, NEW I, Len(s) \in Nat
  PROVE  \E f : Picks(f, s, I, Len(s)) /\ At(s, I) = f[Len(s)]
<1> DEFINE f == CHOOSE g : Picks(g, s, I, Len(s))
<1>1. Picks(f, s, I, Len(s))
  BY PicksExists
<1>2. At(s, I) = f[Len(s)]
  BY DEF At, Picks
<1>3. QED
  BY <1>1, <1>2

LEMMA AtEmpty ==
  ASSUME NEW I
  PROVE  At(<< >>, I) = << >>
<1>1. PICK f : Picks(f, << >>, I, 0) /\ At(<< >>, I) = f[0]
  BY AtPicks
<1>2. QED
  BY <1>1 DEF Picks

LEMMA AtSame ==
  ASSUME NEW s, NEW I, NEW J, Len(s) \in Nat, \A i \in 1 .. Len(s) : i \in I <=> i \in J
  PROVE  At(s, I) = At(s, J)
<1>1. PICK f : Picks(f, s, I, Len(s)) /\ At(s, I) = f[Len(s)]
  BY AtPicks
<1>2. PICK g : Picks(g, s, J, Len(s)) /\ At(s, J) = g[Len(s)]
  BY AtPicks
<1>3. QED
  BY <1>1, <1>2, PicksUnique

LEMMA AtAppend ==
  ASSUME NEW X, NEW s \in Seq(X), NEW u \in X, NEW I
  PROVE  At(Append(s, u), I) = IF Len(s) + 1 \in I THEN Append(At(s, I), u) ELSE At(s, I)
<1> DEFINE t == Append(s, u)
           n == Len(s)
<1>1. /\ n \in Nat /\ Len(t) = n + 1 /\ t[n + 1] = u
      /\ \A i \in 1 .. n : s[i] = t[i]
  OBVIOUS
<1> HIDE DEF t
<1>2. PICK f : Picks(f, s, I, n) /\ At(s, I) = f[n]
  BY <1>1, AtPicks
<1>3. PICK g : Picks(g, t, I, n + 1) /\ At(t, I) = g[n + 1]
  BY <1>1, AtPicks
<1>4. f[n] = g[n]
  <2>1. n + 1 \in Nat /\ n <= n + 1
    BY <1>1
  <2> HIDE DEF n
  <2>2. QED
    BY <1>1, <1>2, <1>3, <2>1, PicksUnique
<1>5. g[n + 1] = IF n + 1 \in I THEN Append(g[n], t[n + 1]) ELSE g[n]
  <2>1. n + 1 \in 0 .. n + 1 /\ n + 1 # 0 /\ (n + 1) - 1 = n
    BY <1>1
  <2> HIDE DEF n
  <2>2. QED
    BY <1>3, <2>1 DEF Picks
<1>6. QED
  BY <1>1, <1>2, <1>3, <1>4, <1>5 DEF t

LEMMA AtType ==
  ASSUME NEW X, NEW Y, NEW s \in Seq(X), NEW I, \A i \in 1 .. Len(s) : i \in I => s[i] \in Y
  PROVE  At(s, I) \in Seq(Y)
<1> DEFINE Typed(t) == (\A i \in 1 .. Len(t) : i \in I => t[i] \in Y) => At(t, I) \in Seq(Y)
           P == {t \in Seq(X) : Typed(t)}
<1>1. << >> \in P
  <2>1. << >> \in Seq(X) /\ << >> \in Seq(Y) /\ At(<< >>, I) = << >>
    BY AtEmpty
  <2>2. Typed(<< >>)
    BY <2>1
  <2>3. QED
    BY <2>1, <2>2
<1>2. ASSUME NEW t \in P, NEW x \in X
      PROVE  Append(t, x) \in P
  <2>1. /\ t \in Seq(X) /\ Append(t, x) \in Seq(X) /\ Len(Append(t, x)) = Len(t) + 1
        /\ Len(t) \in Nat /\ Append(t, x)[Len(t) + 1] = x
        /\ \A i \in 1 .. Len(t) : Append(t, x)[i] = t[i]
    OBVIOUS
  <2>2. At(Append(t, x), I) = IF Len(t) + 1 \in I THEN Append(At(t, I), x) ELSE At(t, I)
    BY <2>1, AtAppend
  <2>3. ASSUME \A i \in 1 .. Len(t) + 1 : i \in I => Append(t, x)[i] \in Y
        PROVE  At(t, I) \in Seq(Y) /\ (Len(t) + 1 \in I => x \in Y)
    <3>1. \A i \in 1 .. Len(t) : i \in 1 .. Len(t) + 1
      BY <2>1
    <3>2. Len(t) + 1 \in 1 .. Len(t) + 1
      BY <2>1
    <3>3. Typed(t)
      OBVIOUS
    <3>4. QED
      BY <2>1, <2>3, <3>1, <3>2, <3>3
  <2>4. Typed(Append(t, x))
    BY <2>1, <2>2, <2>3
  <2>5. QED
    BY <2>1, <2>4
<1> HIDE DEF Typed
<1>3. P = Seq(X)
  BY <1>1, <1>2, InductionOnSeq
<1>4. Typed(s)
  BY <1>3
<1>5. QED
  BY <1>4 DEF Typed

\* Everything it holds is from s.
LEMMA AtFrom ==
  ASSUME NEW X, NEW s \in Seq(X), NEW I
  PROVE  /\ At(s, I) \in Seq(X)
         /\ \A j \in 1 .. Len(At(s, I)) : \E i \in 1 .. Len(s) : i \in I /\ At(s, I)[j] = s[i]
<1> DEFINE Y == {s[i] : i \in {i \in 1 .. Len(s) : i \in I}}
<1>1. At(s, I) \in Seq(Y)
  BY AtType
<1>2. \A j \in 1 .. Len(At(s, I)) : At(s, I)[j] \in Y
  BY <1>1
<1>3. \A i \in 1 .. Len(s) : s[i] \in X
  OBVIOUS
<1>4. At(s, I) \in Seq(X)
  BY <1>3, AtType
<1>5. QED
  BY <1>2, <1>4

LEMMA AppendConcat ==
  ASSUME NEW X, NEW s \in Seq(X), NEW t \in Seq(X), NEW x \in X
  PROVE  Append(s \o t, x) = s \o Append(t, x)
<1>1. /\ s \o t \in Seq(X) /\ Append(t, x) \in Seq(X)
      /\ Append(s \o t, x) = (s \o t) \o <<x>> /\ Append(t, x) = t \o <<x>>
  BY AppendIsConcat, ConcatProperties
<1>2. (s \o t) \o <<x>> = s \o (t \o <<x>>)
  BY ConcatAssociative
<1>3. QED
  BY <1>1, <1>2

LEMMA AtAll ==
  ASSUME NEW X, NEW s \in Seq(X), NEW I, \A i \in 1 .. Len(s) : i \in I
  PROVE  At(s, I) = s
<1> DEFINE P == {r \in Seq(X) : At(r, Nat) = r}
<1>1. << >> \in P
  BY AtEmpty
<1>2. ASSUME NEW r \in P, NEW x \in X
      PROVE  Append(r, x) \in P
  <2>1. At(Append(r, x), Nat) = Append(r, x)
    BY AtAppend
  <2>2. QED
    BY <2>1
<1> HIDE DEF P
<1>3. P = Seq(X)
  <2>1. P \subseteq Seq(X)
    BY DEF P
  <2>2. QED
    BY <1>1, <1>2, <2>1, InductionOnSeq
<1>4. At(s, Nat) = s
  BY <1>3 DEF P
<1>5. At(s, I) = At(s, Nat)
  BY AtSame
<1>6. QED
  BY <1>4, <1>5

LEMMA AtNone ==
  ASSUME NEW X, NEW s \in Seq(X), NEW I, \A i \in 1 .. Len(s) : i \notin I
  PROVE  At(s, I) = << >>
<1>1. At(s, I) \in Seq({})
  BY AtType
<1>2. QED
  BY <1>1

-----------------------------------------------------------------------------
(* The elements of a sequence that are in a set *)

Those(s, K) == At(s, {i \in DOMAIN s : s[i] \in K})

LEMMA ThoseEmpty ==
  ASSUME NEW K
  PROVE  Those(<< >>, K) = << >>
BY AtEmpty DEF Those

LEMMA ThoseAppend ==
  ASSUME NEW X, NEW s \in Seq(X), NEW u \in X, NEW K
  PROVE  Those(Append(s, u), K) = IF u \in K THEN Append(Those(s, K), u) ELSE Those(s, K)
<1> DEFINE t == Append(s, u)
           I == {i \in DOMAIN s : s[i] \in K}
           J == {i \in DOMAIN t : t[i] \in K}
<1>1. /\ Len(s) \in Nat /\ Len(t) = Len(s) + 1 /\ t[Len(s) + 1] = u
      /\ DOMAIN s = 1 .. Len(s) /\ DOMAIN t = 1 .. Len(t)
      /\ \A i \in 1 .. Len(s) : s[i] = t[i]
  OBVIOUS
<1>2. Len(s) + 1 \in J <=> u \in K
  BY <1>1
<1>3. \A i \in 1 .. Len(s) : i \in J <=> i \in I
  BY <1>1
<1> HIDE DEF I, J
<1>4. At(s, J) = At(s, I)
  BY <1>1, <1>3, AtSame
<1>5. At(t, J) = IF Len(s) + 1 \in J THEN Append(At(s, J), u) ELSE At(s, J)
  BY AtAppend
<1>6. Those(Append(s, u), K) = At(t, J) /\ Those(s, K) = At(s, I)
  BY DEF Those, I, J
<1>7. QED
  BY <1>2, <1>4, <1>5, <1>6

\* It is a sequence of elements of s, all of them in K.
LEMMA ThoseType ==
  ASSUME NEW X, NEW s \in Seq(X), NEW K
  PROVE  Those(s, K) \in Seq(X \cap K)
<1>1. \A i \in 1 .. Len(s) : i \in {j \in DOMAIN s : s[j] \in K} => s[i] \in X \cap K
  OBVIOUS
<1>2. QED
  BY <1>1, AtType DEF Those

LEMMA ThoseFrom ==
  ASSUME NEW X, NEW s \in Seq(X), NEW K
  PROVE  /\ Those(s, K) \in Seq(X)
         /\ \A j \in 1 .. Len(Those(s, K)) : \E i \in 1 .. Len(s) : Those(s, K)[j] = s[i]
<1> DEFINE I == {i \in DOMAIN s : s[i] \in K}
<1>1. Those(s, K) = At(s, I)
  BY DEF Those
<1> HIDE DEF I
<1>2. QED
  BY <1>1, AtFrom

LEMMA ThoseConcat ==
  ASSUME NEW X, NEW s \in Seq(X), NEW t \in Seq(X), NEW K
  PROVE  Those(s \o t, K) = Those(s, K) \o Those(t, K)
<1> DEFINE P == {r \in Seq(X) : Those(s \o r, K) = Those(s, K) \o Those(r, K)}
           a == Those(s, K)
<1>0. \A c, d \in Seq(X), x \in X : c \o Append(d, x) = Append(c \o d, x)
  BY AppendConcat
<1>1. a \in Seq(X)
  BY ThoseFrom
<1>2. << >> \in P
  <2>1. s \o << >> = s /\ a \o << >> = a
    BY <1>1, ConcatEmptySeq
  <2>2. << >> \in Seq(X) /\ Those(<< >>, K) = << >>
    BY ThoseEmpty
  <2>3. QED
    BY <2>1, <2>2
<1>3. ASSUME NEW r \in P, NEW x \in X
      PROVE  Append(r, x) \in P
  <2> DEFINE b == Those(r, K)
             q == s \o r
  <2>1. r \in Seq(X) /\ Append(r, x) \in Seq(X) /\ q \in Seq(X) /\ b \in Seq(X)
    BY ThoseFrom
  <2>2. s \o Append(r, x) = Append(q, x) /\ a \o Append(b, x) = Append(a \o b, x)
    <3> HIDE DEF P, a, b
    <3>1. s \o Append(r, x) = Append(q, x)
      BY SMTT(30), <2>1, AppendConcat
    <3>2. a \o Append(b, x) = Append(a \o b, x)
      BY ONLY <1>0, <1>1, <2>1, x \in X
    <3>3. QED
      BY <3>1, <3>2
  <2>3. Those(q, K) = a \o b
    OBVIOUS
  <2>4. Those(Append(r, x), K) = IF x \in K THEN Append(b, x) ELSE b
    BY <2>1, ThoseAppend
  <2>5. Those(Append(q, x), K) = IF x \in K THEN Append(Those(q, K), x) ELSE Those(q, K)
    <3> HIDE DEF P, q
    <3>1. QED
      BY <2>1, ThoseAppend
  <2> HIDE DEF a, b, q
  <2>6. Those(s \o Append(r, x), K) = a \o Those(Append(r, x), K)
    BY <2>2, <2>3, <2>4, <2>5
  <2>7. QED
    BY <2>1, <2>6 DEF a
<1> HIDE DEF P
<1>4. P = Seq(X)
  <2>1. P \subseteq Seq(X)
    BY DEF P
  <2>2. QED
    BY <1>2, <1>3, <2>1, InductionOnSeq
<1>5. QED
  BY <1>4 DEF P

LEMMA ThoseAll ==
  ASSUME NEW X, NEW s \in Seq(X), NEW K, X \subseteq K
  PROVE  Those(s, K) = s
<1>1. \A i \in 1 .. Len(s) : i \in {j \in DOMAIN s : s[j] \in K}
  OBVIOUS
<1>2. QED
  BY <1>1, AtAll DEF Those

LEMMA ThoseNone ==
  ASSUME NEW X, NEW s \in Seq(X), NEW K, X \cap K = {}
  PROVE  Those(s, K) = << >>
<1>1. \A i \in 1 .. Len(s) : i \notin {j \in DOMAIN s : s[j] \in K}
  OBVIOUS
<1>2. QED
  BY <1>1, AtNone DEF Those

-----------------------------------------------------------------------------
(* The parse loop *)

Unit == [from : Client, n : 0 .. MaxSent, kind : {"part", "end", "bad", "large"}]
\* What Answers leaves out; and what it may hold of a buffer.
Part == {u \in Unit : u.kind = "part"}
Plain == {u \in Unit : u.kind # "large"}
Whole == {u \in Unit : u.kind = "end"}

LEMMA MalformedEmpty == ~Malformed(<< >>)
BY DEF Malformed, Bad

LEMMA MalformedConcat ==
  ASSUME NEW s \in Seq(Unit), NEW t \in Seq(Unit)
  PROVE  Malformed(s \o t) <=> Malformed(s) \/ Malformed(t)
<1>1. /\ s \o t \in Seq(Unit) /\ Len(s \o t) = Len(s) + Len(t)
      /\ Len(s) \in Nat /\ Len(t) \in Nat
      /\ \A i \in 1 .. Len(s) : (s \o t)[i] = s[i]
      /\ \A i \in 1 .. Len(t) : (s \o t)[Len(s) + i] = t[i]
  OBVIOUS
<1>2. Malformed(s) \/ Malformed(t) => Malformed(s \o t)
  <2>1. ASSUME NEW i \in Bad(s)
        PROVE  i \in Bad(s \o t)
    BY <1>1 DEF Bad
  <2>2. ASSUME NEW i \in Bad(t)
        PROVE  Len(s) + i \in Bad(s \o t)
    BY <1>1 DEF Bad
  <2>3. QED
    BY <2>1, <2>2 DEF Malformed
<1>3. ASSUME NEW i \in Bad(s \o t)
      PROVE  Malformed(s) \/ Malformed(t)
  <2>1. i \in 1 .. Len(s) + Len(t) /\ (s \o t)[i].kind = "bad"
    BY <1>1 DEF Bad
  <2>2. CASE i \in 1 .. Len(s)
    BY <1>1, <2>1, <2>2 DEF Bad, Malformed
  <2>3. CASE i \notin 1 .. Len(s)
    <3>1. i - Len(s) \in 1 .. Len(t) /\ i = Len(s) + (i - Len(s))
      BY <1>1, <2>1, <2>3
    <3>2. i - Len(s) \in Bad(t)
      BY <1>1, <2>1, <3>1 DEF Bad
    <3>3. QED
      BY <3>2 DEF Malformed
  <2>4. QED
    BY <2>2, <2>3
<1>4. QED
  BY <1>2, <1>3 DEF Malformed

LEMMA MalformedAppend ==
  ASSUME NEW s \in Seq(Unit), NEW u \in Unit
  PROVE  Malformed(Append(s, u)) <=> Malformed(s) \/ u.kind = "bad"
<1> DEFINE last == <<u>>
<1>1. last \in Seq(Unit) /\ (Malformed(last) <=> u.kind = "bad")
  BY DEF Malformed, Bad
<1>2. Append(s, u) = s \o last
  BY AppendIsConcat
<1> HIDE DEF last
<1>3. Malformed(s \o last) <=> Malformed(s) \/ Malformed(last)
  BY <1>1, MalformedConcat
<1>4. QED
  BY <1>1, <1>2, <1>3

LEMMA ParsedAppend ==
  ASSUME NEW s \in Seq(Unit), NEW u \in Unit
  PROVE  /\ \A i \in 1 .. Len(s) : i \in Parsed(Append(s, u)) <=> i \in Parsed(s)
         /\ Len(s) + 1 \in Parsed(Append(s, u)) <=> ~Malformed(s)
<1> DEFINE t == Append(s, u)
           n == Len(s)
<1>1. /\ n \in Nat /\ Len(t) = n + 1 /\ DOMAIN s = 1 .. n /\ DOMAIN t = 1 .. n + 1
      /\ \A i \in 1 .. n : i \in 1 .. n + 1 /\ t[i] = s[i]
      /\ n + 1 \in 1 .. n + 1 /\ t[n + 1] = u
  OBVIOUS
<1>2. \A i \in 1 .. n : i \in Bad(t) <=> i \in Bad(s)
  BY <1>1 DEF Bad
<1>3. Bad(t) \subseteq 1 .. n + 1 /\ Bad(s) \subseteq 1 .. n
  BY <1>1 DEF Bad
<1> HIDE DEF t, n
<1>4. ASSUME NEW i \in 1 .. n
      PROVE  i \in Parsed(t) <=> i \in Parsed(s)
  <2>1. (\A j \in Bad(t) : i <= j) <=> (\A j \in Bad(s) : i <= j)
    BY <1>1, <1>2, <1>3
  <2>2. QED
    BY <1>1, <2>1 DEF Parsed
<1>5. n + 1 \in Parsed(t) <=> ~Malformed(s)
  <2>1. (\A j \in Bad(t) : n + 1 <= j) <=> Bad(s) = {}
    BY <1>1, <1>2, <1>3
  <2>2. QED
    BY <1>1, <2>1 DEF Parsed, Malformed
<1>6. QED
  BY <1>4, <1>5 DEF t, n

LEMMA AnswersAppend ==
  ASSUME NEW s \in Seq(Unit), NEW u \in Unit
  PROVE  Answers(Append(s, u)) = IF Malformed(s) \/ u.kind = "part" THEN Answers(s)
                                                                    ELSE Append(Answers(s), u)
<1> DEFINE t == Append(s, u)
           I == {i \in Parsed(s) : s[i].kind # "part"}
           J == {i \in Parsed(t) : t[i].kind # "part"}
<1>1. /\ Len(s) \in Nat /\ t[Len(s) + 1] = u
      /\ \A i \in 1 .. Len(s) : t[i] = s[i]
  OBVIOUS
<1>2. Len(s) + 1 \in J <=> ~Malformed(s) /\ u.kind # "part"
  BY <1>1, ParsedAppend
<1>3. \A i \in 1 .. Len(s) : i \in J <=> i \in I
  BY <1>1, ParsedAppend
<1>4. Answers(t) = At(t, J) /\ Answers(s) = At(s, I)
  BY DEF Answers
<1> HIDE DEF I, J
<1>5. At(s, J) = At(s, I)
  BY <1>1, <1>3, AtSame
<1>6. At(t, J) = IF Len(s) + 1 \in J THEN Append(At(s, J), u) ELSE At(s, J)
  BY AtAppend
<1>7. QED
  BY <1>2, <1>4, <1>5, <1>6

LEMMA RequestsAppend ==
  ASSUME NEW s \in Seq(Unit), NEW u \in Unit
  PROVE  Requests(Append(s, u)) = IF Malformed(s) \/ u.kind # "end" THEN Requests(s)
                                                                    ELSE Append(Requests(s), u)
<1> DEFINE t == Append(s, u)
           I == {i \in Parsed(s) : s[i].kind = "end"}
           J == {i \in Parsed(t) : t[i].kind = "end"}
<1>1. /\ Len(s) \in Nat /\ t[Len(s) + 1] = u
      /\ \A i \in 1 .. Len(s) : t[i] = s[i]
  OBVIOUS
<1>2. Len(s) + 1 \in J <=> ~Malformed(s) /\ u.kind = "end"
  BY <1>1, ParsedAppend
<1>3. \A i \in 1 .. Len(s) : i \in J <=> i \in I
  BY <1>1, ParsedAppend
<1>4. Requests(t) = At(t, J) /\ Requests(s) = At(s, I)
  BY DEF Requests
<1> HIDE DEF I, J
<1>5. At(s, J) = At(s, I)
  BY <1>1, <1>3, AtSame
<1>6. At(t, J) = IF Len(s) + 1 \in J THEN Append(At(s, J), u) ELSE At(s, J)
  BY AtAppend
<1>7. QED
  BY <1>2, <1>4, <1>5, <1>6

LEMMA NothingParsed == Answers(<< >>) = << >> /\ Requests(<< >>) = << >>
BY AtEmpty DEF Answers, Requests

LEMMA AnswersType ==
  ASSUME NEW X, NEW s \in Seq(X)
  PROVE  Answers(s) \in Seq(X) /\ Requests(s) \in Seq(X)
BY AtFrom DEF Answers, Requests

\* Up to the first bad unit, a buffer is answered piece by piece.
LEMMA AnswersConcat ==
  ASSUME NEW s \in Seq(Unit), NEW t \in Seq(Unit), ~Malformed(s)
  PROVE  Answers(s \o t) = Answers(s) \o Answers(t)
<1> DEFINE P == {r \in Seq(Unit) : Answers(s \o r) = Answers(s) \o Answers(r)}
           a == Answers(s)
<1>1. a \in Seq(Unit)
  BY AnswersType
<1>2. \A c, d \in Seq(Unit), x \in Unit : c \o Append(d, x) = Append(c \o d, x)
  BY AppendConcat
<1>3. << >> \in P
  <2>1. s \o << >> = s /\ a \o << >> = a
    BY <1>1, ConcatEmptySeq
  <2>2. << >> \in Seq(Unit) /\ Answers(<< >>) = << >>
    BY NothingParsed
  <2>3. QED
    BY <2>1, <2>2
<1>4. ASSUME NEW r \in P, NEW x \in Unit
      PROVE  Append(r, x) \in P
  <2> DEFINE b == Answers(r)
             q == s \o r
  <2>1. r \in Seq(Unit) /\ Append(r, x) \in Seq(Unit) /\ q \in Seq(Unit) /\ b \in Seq(Unit)
    BY AnswersType
  <2>2. Answers(q) = a \o b
    OBVIOUS
  <2>3. Answers(Append(r, x)) = IF Malformed(r) \/ x.kind = "part" THEN b ELSE Append(b, x)
    BY <2>1, AnswersAppend
  <2>4. Malformed(q) <=> Malformed(r)
    BY <2>1, MalformedConcat
  <2> HIDE DEF P, a, b
  <2>5. s \o Append(r, x) = Append(q, x)
    BY <1>2, <2>1
  <2> HIDE DEF q
  <2>6. Answers(Append(q, x))
          = IF Malformed(q) \/ x.kind = "part" THEN Answers(q) ELSE Append(Answers(q), x)
    BY <2>1, AnswersAppend
  <2>7. a \o Append(b, x) = Append(a \o b, x)
    BY ONLY <1>1, <1>2, <2>1, x \in Unit
  <2>8. Answers(s \o Append(r, x)) = a \o Answers(Append(r, x))
    BY <2>2, <2>3, <2>4, <2>5, <2>6, <2>7
  <2>9. QED
    BY <2>1, <2>8 DEF P, a
<1> HIDE DEF P
<1>5. P = Seq(Unit)
  <2>1. P \subseteq Seq(Unit)
    BY DEF P
  <2>2. QED
    BY <1>3, <1>4, <2>1, InductionOnSeq
<1>6. QED
  BY <1>5 DEF P

\* Parts of a request call for no answer.
LEMMA PartsUnanswered ==
  ASSUME NEW s \in Seq(Part)
  PROVE  ~Malformed(s) /\ Answers(s) = << >>
<1>1. \A i \in 1 .. Len(s) : s[i].kind = "part"
  BY DEF Part
<1>2. ~Malformed(s)
  BY <1>1 DEF Malformed, Bad
<1>3. \A i \in 1 .. Len(s) : i \notin {j \in Parsed(s) : s[j].kind # "part"}
  BY <1>1
<1>4. QED
  BY <1>2, <1>3, AtNone DEF Answers

\* What is answered was asked for: every whole request there is, up to the one
\* bad unit that ends a stream.
LEMMA AnswersAreRequests ==
  ASSUME NEW s \in Seq(Plain)
  PROVE  /\ Requests(s) \in Seq(Whole)
         /\ ~Malformed(s) => Answers(s) = Requests(s)
         /\ Malformed(s) => \E b \in Unit : b.kind = "bad" /\ Answers(s) = Append(Requests(s), b)
<1> DEFINE Right(r) ==
             /\ Requests(r) \in Seq(Whole)
             /\ ~Malformed(r) => Answers(r) = Requests(r)
             /\ Malformed(r) => \E b \in Unit : b.kind = "bad" /\ Answers(r) = Append(Requests(r), b)
           P == {r \in Seq(Plain) : Right(r)}
<1>1. << >> \in P
  <2>1. << >> \in Seq(Plain) /\ << >> \in Seq(Whole)
    OBVIOUS
  <2>2. Right(<< >>)
    BY <2>1, NothingParsed, MalformedEmpty
  <2>3. QED
    BY <2>1, <2>2
<1>2. ASSUME NEW r \in P, NEW x \in Plain
      PROVE  Append(r, x) \in P
  <2>1. r \in Seq(Plain) /\ Append(r, x) \in Seq(Plain) /\ r \in Seq(Unit) /\ x \in Unit
    BY DEF Plain
  <2>2. x.kind \in {"part", "end", "bad"} /\ (x.kind = "end" => x \in Whole)
    BY DEF Plain, Unit, Whole
  <2>3. Right(r)
    OBVIOUS
  <2>4. Answers(Append(r, x)) = IF Malformed(r) \/ x.kind = "part" THEN Answers(r)
                                                                   ELSE Append(Answers(r), x)
    BY <2>1, AnswersAppend
  <2>5. Requests(Append(r, x)) = IF Malformed(r) \/ x.kind # "end" THEN Requests(r)
                                                                   ELSE Append(Requests(r), x)
    BY <2>1, RequestsAppend
  <2>6. Malformed(Append(r, x)) <=> Malformed(r) \/ x.kind = "bad"
    BY <2>1, MalformedAppend
  <2>7. Right(Append(r, x))
    <3> DEFINE y == Append(r, x)
    <3> HIDE DEF y
    <3>1. /\ Answers(y) = IF Malformed(r) \/ x.kind = "part" THEN Answers(r) ELSE Append(Answers(r), x)
          /\ Requests(y) = IF Malformed(r) \/ x.kind # "end" THEN Requests(r) ELSE Append(Requests(r), x)
          /\ Malformed(y) <=> Malformed(r) \/ x.kind = "bad"
      BY <2>4, <2>5, <2>6 DEF y
    <3>2. Requests(y) \in Seq(Whole)
      BY <2>2, <2>3, <3>1
    <3>3. ~Malformed(y) => Answers(y) = Requests(y)
      BY <2>2, <2>3, <3>1
    <3>4. Malformed(y) => \E b \in Unit : b.kind = "bad" /\ Answers(y) = Append(Requests(y), b)
      <4>1. CASE Malformed(r)
        BY <2>3, <3>1, <4>1
      <4>2. CASE ~Malformed(r) /\ x.kind = "bad"
        BY <2>1, <2>3, <3>1, <4>2
      <4>3. QED
        BY <3>1, <4>1, <4>2
    <3>5. QED
      BY <3>2, <3>3, <3>4 DEF y
  <2> HIDE DEF Right
  <2>8. QED
    BY <2>1, <2>7
<1> HIDE DEF Right
<1>3. P = Seq(Plain)
  BY <1>1, <1>2, InductionOnSeq
<1>4. Right(s)
  BY <1>3
<1>5. QED
  BY <1>4 DEF Right

\* What stays in the buffer when it was parsed to the end.
LEMMA OnlyPartsStay ==
  ASSUME NEW X, X \subseteq Plain, NEW s \in Seq(X), ~Malformed(s)
  PROVE  Unparsed(s) \in Seq(X \cap Part)
<1> DEFINE E == {i \in DOMAIN s : s[i].kind = "end"} \cup {0}
           T == {k \in 0 .. Len(s) : \A i \in E : i <= k}
<1>1. Len(s) \in Nat /\ DOMAIN s = 1 .. Len(s)
  OBVIOUS
<1>2. T \subseteq Nat /\ Len(s) \in T /\ E \subseteq 0 .. Len(s) /\ 0 \in E
  BY <1>1
<1>3. PICK m \in T : \A k \in T : m <= k
  BY <1>2, LeastNat
<1>4. m \in Nat /\ m <= Len(s) /\ \A i \in E : i <= m
  BY <1>1, <1>3
<1>5. m \in E
  <2> SUFFICES ASSUME m \notin E
               PROVE  FALSE
    OBVIOUS
  <2>1. m # 0 /\ m - 1 \in 0 .. Len(s)
    BY <1>1, <1>2, <1>4
  <2>2. \A i \in E : i <= m - 1
    BY <1>2, <1>4, <2>1
  <2>3. QED
    BY <1>3, <1>4, <2>1, <2>2
<1>6. Max(E) = m
  <2> HIDE DEF E, T
  <2>1. \A i, j \in E : i \in Nat /\ (i >= j /\ j >= i => i = j)
    BY <1>1, <1>2
  <2>2. \A i \in E : m >= i
    BY <1>1, <1>2, <1>4
  <2>3. QED
    BY <1>5, <2>1, <2>2 DEF Max
<1>7. Unparsed(s) = SubSeq(s, m + 1, Len(s))
  BY <1>6 DEF Unparsed
<1>8. ASSUME NEW i \in m + 1 .. Len(s)
      PROVE  s[i] \in X \cap Part
  <2>1. i \in 1 .. Len(s)
    BY <1>1, <1>4
  <2>2. i \notin E
    BY <1>4
  <2>3. s[i].kind # "end"
    BY <1>1, <2>1, <2>2
  <2>4. s[i].kind # "bad"
    BY <1>1, <2>1 DEF Malformed, Bad
  <2>5. s[i] \in X /\ s[i] \in Plain
    BY <2>1
  <2>6. QED
    BY <2>3, <2>4, <2>5 DEF Plain, Part, Unit
<1>9. SubSeq(s, m + 1, Len(s)) \in Seq(X \cap Part)
  <2> HIDE DEF E, T
  <2>1. m + 1 \in Int /\ Len(s) \in Int
    BY <1>1, <1>4
  <2>2. QED
    BY <1>8, <2>1, SubSeqProperties
<1>10. QED
  BY <1>7, <1>9

-----------------------------------------------------------------------------
(* Sending *)

LEMMA InTwo ==
  ASSUME NEW X, NEW s \in Seq(X), NEW n \in 0 .. Len(s)
  PROVE  /\ SubSeq(s, 1, n) \in Seq(X) /\ SubSeq(s, n + 1, Len(s)) \in Seq(X)
         /\ Len(SubSeq(s, 1, n)) = n
         /\ s = SubSeq(s, 1, n) \o SubSeq(s, n + 1, Len(s))
<1> DEFINE a == SubSeq(s, 1, n)
           b == SubSeq(s, n + 1, Len(s))
<1>1. n \in Nat /\ Len(s) \in Nat /\ n <= Len(s)
  OBVIOUS
<1>2. a \in Seq(X) /\ Len(a) = n /\ \A i \in 1 .. n : a[i] = s[i]
  BY <1>1
<1>3. b \in Seq(X) /\ Len(b) = Len(s) - n /\ \A i \in 1 .. Len(s) - n : b[i] = s[n + i]
  BY <1>1
<1> HIDE DEF a, b
<1> DEFINE r == a \o b
<1>4. /\ r \in Seq(X) /\ Len(r) = Len(s)
      /\ \A i \in 1 .. Len(s) : r[i] = IF i <= n THEN a[i] ELSE b[i - n]
  <2>1. Len(a) + Len(b) = Len(s)
    BY <1>1, <1>2, <1>3
  <2>2. QED
    BY <1>2, <1>3, <2>1, ConcatProperties
<1> HIDE DEF r
<1>5. ASSUME NEW i \in 1 .. Len(s)
      PROVE  r[i] = s[i]
  <2>1. CASE i <= n
    BY <1>1, <1>2, <1>4, <2>1
  <2>2. CASE i > n
    <3>1. i - n \in 1 .. Len(s) - n /\ n + (i - n) = i
      BY <1>1, <2>2
    <3>2. r[i] = b[i - n]
      BY <1>1, <1>4, <2>2
    <3>3. QED
      BY <1>3, <3>1, <3>2
  <2>3. QED
    BY <1>1, <2>1, <2>2
<1>6. r = s
  BY <1>4, <1>5, SeqEqual
<1>7. QED
  BY <1>2, <1>3, <1>6 DEF a, b, r

LEMMA SomeSent ==
  ASSUME NEW c, NEW X, NEW owed \in Seq(X), Len(outbox[c]) \in Nat, Len(outbox[c]) <= SendRoom
  PROVE  /\ SentNow(c, owed) \in Seq(X) /\ Unsent(c, owed) \in Seq(X)
         /\ Len(outbox[c]) + Len(SentNow(c, owed)) <= SendRoom
         /\ owed = SentNow(c, owed) \o Unsent(c, owed)
<1> DEFINE n == Taken(c, owed)
           a == SendRoom - Len(outbox[c])
           b == Len(owed)
<1>1. a \in Nat /\ b \in Nat
  BY EventLoopAssumption
<1>2. n \in 0 .. Len(owed) /\ Len(outbox[c]) + n <= SendRoom
  <2>1. n = Min({a, b})
    BY DEF Taken
  <2>2. n \in {a, b} /\ n <= a /\ n <= b
    <3>1. \E x \in {a, b} : \A y \in {a, b} : x <= y
      BY <1>1
    <3> HIDE DEF a, b
    <3>2. QED
      BY <2>1, <3>1 DEF Min
  <2>3. QED
    BY <1>1, <2>2, EventLoopAssumption
<1> HIDE DEF n
<1>3. QED
  BY <1>2, InTwo DEF SentNow, Unsent, n

-----------------------------------------------------------------------------
(* The invariant *)

Begins(s, t) == \E r \in Seq(Unit) : t = s \o r

\* The requests of c that were executed, in order; what it was sent, read or
\* not, as far as it is about requests.
Of(c) == Those(executed, Units(c))
Replies(c) == Those(got[c] \o outbox[c], Plain)

Domains == /\ DOMAIN sent = Client /\ DOMAIN got = Client
           /\ DOMAIN inbox = Client /\ DOMAIN outbox = Client
           /\ executed \in Seq(Whole)

Typed(c) == /\ sent[c] \in Seq(Units(c) \cap Plain) /\ inbox[c] \in Seq(Units(c) \cap Plain)
            /\ got[c] \in Seq(Units(c)) /\ outbox[c] \in Seq(Units(c))
            /\ Len(outbox[c]) <= SendRoom

\* Before it is accepted, a client has only sent.
Fresh(c) == /\ inbox[c] = sent[c]
            /\ got[c] = << >> /\ outbox[c] = << >> /\ Of(c) = << >>

\* Behind a descriptor: all that was received of it is executed, answered or
\* owed.  One that is to be closed has finished sending, and was received in
\* full.
Connected(c, fd) ==
  /\ input[fd] \in Seq(Units(c) \cap Part) /\ output[fd] \in Seq(Units(c) \cap Plain)
  /\ got[c] \in Seq(Plain) /\ outbox[c] \in Seq(Plain)
  /\ \E p \in Seq(Units(c) \cap Plain) :
       /\ sent[c] = p \o inbox[c] /\ ~Malformed(p)
       /\ Answers(p) = Of(c)
  /\ Of(c) = (got[c] \o outbox[c]) \o output[fd]
  /\ fd \in closing => inbox[c] = << >> /\ peer[c] \in {"half", "closed", "reset"}

\* Once it was closed: what was executed and what it was sent begin what it
\* asked for, and no request was answered without being executed.
Gone(c) ==
  /\ Begins(Of(c), Answers(sent[c]))
  /\ Begins(Replies(c), Answers(sent[c]))
  /\ \A i \in 1 .. Len(Replies(c)) : Replies(c)[i] \in Whole => Replies(c)[i] \in Range(executed)
  /\ ended[c] = "finished" => got[c] \o outbox[c] = Answers(sent[c])

Account(c) == /\ Typed(c)
              /\ ended[c] = "" /\ (\A fd \in Fd : conn[fd] # c) => Fresh(c)
              /\ \A fd \in Fd : conn[fd] = c => Connected(c, fd)
              /\ ended[c] # "" => Gone(c)

Books == Domains /\ \A c \in Client : Account(c)

-----------------------------------------------------------------------------
(* Facts about its parts *)

LEMMA UnitsAreUnit ==
  /\ \A c \in Client : Units(c) \subseteq Unit
  /\ Whole \subseteq Plain /\ Plain \subseteq Unit /\ Part \subseteq Plain
  /\ \A c, d \in Client : c # d => Units(c) \cap Units(d) = {}
<1>1. \A c \in Client : Units(c) \subseteq Unit
  BY DEF Units, Unit
<1>2. Whole \subseteq Plain /\ Plain \subseteq Unit /\ Part \subseteq Plain
  BY DEF Whole, Plain, Part
<1>3. \A c, d \in Client : c # d => Units(c) \cap Units(d) = {}
  <2>1. \A c \in Client : \A u \in Units(c) : u.from = c
    BY DEF Units
  <2>2. QED
    BY <2>1
<1>4. QED
  BY <1>1, <1>2, <1>3

LEMMA InUnit ==
  ASSUME NEW c \in Client
  PROVE  /\ Seq(Units(c)) \subseteq Seq(Unit) /\ Seq(Units(c) \cap Plain) \subseteq Seq(Unit)
         /\ Seq(Units(c) \cap Plain) \subseteq Seq(Units(c))
         /\ Seq(Units(c) \cap Plain) \subseteq Seq(Plain)
         /\ Seq(Units(c) \cap Part) \subseteq Seq(Units(c) \cap Plain)
         /\ Seq(Units(c) \cap Part) \subseteq Seq(Part)
         /\ Seq(Plain) \subseteq Seq(Unit) /\ Seq(Whole) \subseteq Seq(Unit)
         /\ Seq(Units(c) \cap Whole) \subseteq Seq(Units(c) \cap Plain)
         /\ Seq(Units(c) \cap Whole) \subseteq Seq(Whole)
<1>1. \A X, Y : X \subseteq Y => Seq(X) \subseteq Seq(Y)
  BY SeqMonotonic
<1>2. /\ Units(c) \subseteq Unit /\ Units(c) \cap Plain \subseteq Unit
      /\ Units(c) \cap Plain \subseteq Units(c) /\ Units(c) \cap Plain \subseteq Plain
      /\ Units(c) \cap Part \subseteq Units(c) \cap Plain /\ Units(c) \cap Part \subseteq Part
      /\ Plain \subseteq Unit /\ Whole \subseteq Unit
      /\ Units(c) \cap Whole \subseteq Units(c) \cap Plain /\ Units(c) \cap Whole \subseteq Whole
  BY UnitsAreUnit
<1>3. QED
  BY ONLY <1>1, <1>2

\* The requests that one step executes are all of one client.
LEMMA OfGrows ==
  ASSUME NEW c \in Client, NEW x \in Seq(Units(c) \cap Whole),
         executed \in Seq(Whole), executed' = executed \o x
  PROVE  /\ executed' \in Seq(Whole)
         /\ Of(c)' = Of(c) \o x
         /\ \A d \in Client : d # c => Of(d)' = Of(d)
         /\ Range(executed) \subseteq Range(executed')
<1>1. x \in Seq(Whole) /\ executed' \in Seq(Whole)
  BY InUnit
<1>2. Those(x, Units(c)) = x
  <2>1. Units(c) \cap Whole \subseteq Units(c)
    OBVIOUS
  <2>2. QED
    BY <2>1, ThoseAll
<1>3. ASSUME NEW d \in Client, d # c
      PROVE  Of(d)' = Of(d)
  <2>1. (Units(c) \cap Whole) \cap Units(d) = {}
    BY <1>3, UnitsAreUnit
  <2>2. Those(x, Units(d)) = << >>
    BY <2>1, ThoseNone
  <2>3. Those(executed \o x, Units(d)) = Those(executed, Units(d)) \o << >>
    <3>1. Those(executed \o x, Units(d)) = Those(executed, Units(d)) \o Those(x, Units(d))
      BY <1>1, ThoseConcat
    <3>2. QED
      BY <2>2, <3>1
  <2>4. Those(executed, Units(d)) \in Seq(Whole)
    BY ThoseFrom
  <2>5. Those(executed, Units(d)) \o << >> = Those(executed, Units(d))
    BY <2>4, ConcatEmptySeq
  <2>6. QED
    BY <2>3, <2>5 DEF Of
<1>4. Of(c)' = Of(c) \o x
  <2>1. Those(executed \o x, Units(c)) = Those(executed, Units(c)) \o Those(x, Units(c))
    BY <1>1, ThoseConcat
  <2>2. QED
    BY <1>2, <2>1 DEF Of
<1>5. Range(executed) \subseteq Range(executed')
  <2>1. /\ DOMAIN executed = 1 .. Len(executed) /\ DOMAIN executed' = 1 .. Len(executed')
        /\ Len(executed) \in Nat /\ Len(x) \in Nat /\ Len(executed') = Len(executed) + Len(x)
    BY <1>1
  <2>2. \A i \in 1 .. Len(executed) : i \in 1 .. Len(executed') /\ executed'[i] = executed[i]
    BY <1>1, <2>1
  <2>3. QED
    BY <2>1, <2>2 DEF Range
<1>6. QED
  BY <1>1, <1>3, <1>4, <1>5

LEMMA BeginsLonger ==
  ASSUME NEW s \in Seq(Unit), NEW t \in Seq(Unit), NEW r, Begins(s \o t, r)
  PROVE  Begins(s, r)
<1>1. PICK q \in Seq(Unit) : r = (s \o t) \o q
  BY DEF Begins
<1>2. r = s \o (t \o q) /\ t \o q \in Seq(Unit)
  BY <1>1, ConcatAssociative
<1>3. QED
  BY <1>2 DEF Begins

LEMMA BeginsAfter ==
  ASSUME NEW s \in Seq(Unit), NEW t \in Seq(Unit), NEW r, Begins(t, r)
  PROVE  Begins(s \o t, s \o r)
<1>1. PICK q \in Seq(Unit) : r = t \o q
  BY DEF Begins
<1>2. s \o r = (s \o t) \o q
  <2>1. (s \o t) \o q = s \o (t \o q)
    BY SMTT(30), <1>1, ConcatAssociative
  <2>2. QED
    BY ONLY <1>1, <2>1
<1>3. QED
  BY <1>2 DEF Begins

LEMMA BeginsTrans ==
  ASSUME NEW s \in Seq(Unit), NEW t \in Seq(Unit), NEW r, Begins(s, t), Begins(t, r)
  PROVE  Begins(s, r)
<1>1. PICK q \in Seq(Unit) : t = s \o q
  BY DEF Begins
<1>2. QED
  BY <1>1, BeginsLonger

LEMMA BeginsItself ==
  ASSUME NEW s \in Seq(Unit)
  PROVE  Begins(s, s) /\ Begins(<< >>, s)
<1>1. << >> \in Seq(Unit) /\ s = s \o << >> /\ s = << >> \o s
  BY ConcatEmptySeq
<1>2. QED
  BY <1>1 DEF Begins

\* Stated of operators, so that the provers instantiate the laws where they
\* are wanted only.
Assoc(s, t, r) == (s \o t) \o r = s \o (t \o r)
Assoc4(s, t, r, q) == ((s \o t) \o r) \o q = s \o ((t \o r) \o q)

Distributes(s, t, K) == Those(s \o t, K) = Those(s, K) \o Those(t, K)

LEMMA Distributive == \A K : \A s, t \in Seq(Unit) : Distributes(s, t, K)
BY ThoseConcat DEF Distributes

LEMMA Associative == \A s, t, r \in Seq(Unit) : Assoc(s, t, r)
BY ConcatAssociative DEF Assoc

LEMMA Reassociate == \A s, t, r, q \in Seq(Unit) : Assoc4(s, t, r, q)
<1> SUFFICES ASSUME NEW s \in Seq(Unit), NEW t \in Seq(Unit), NEW r \in Seq(Unit), NEW q \in Seq(Unit)
             PROVE  ((s \o t) \o r) \o q = s \o ((t \o r) \o q)
  BY DEF Assoc4
<1> DEFINE m == t \o r
<1>1. m \in Seq(Unit)
  BY ConcatProperties
<1>2. Assoc(s, t, r)
  BY Associative
<1> HIDE DEF m
<1>3. Assoc(s, m, q)
  BY <1>1, Associative
<1>4. ((s \o t) \o r) \o q = s \o (m \o q)
  BY ONLY <1>2, <1>3 DEF Assoc, m
<1>5. QED
  BY ONLY <1>4 DEF m

\* A beginning of t \o w is, but for what it has of w, made of what t has.
LEMMA BeginsElements ==
  ASSUME NEW s \in Seq(Unit), NEW t \in Seq(Unit), NEW w \in Seq(Unit),
         \A i \in 1 .. Len(w) : w[i] \notin Whole, Begins(s, t \o w),
         NEW i \in 1 .. Len(s), s[i] \in Whole
  PROVE  \E j \in 1 .. Len(t) : s[i] = t[j]
<1>1. PICK q \in Seq(Unit) : t \o w = s \o q
  BY DEF Begins
<1>2. \A k \in 1 .. Len(w) : w[k] \notin Whole
  OBVIOUS
<1>3. /\ Len(s) \in Nat /\ Len(q) \in Nat /\ Len(t) \in Nat /\ Len(w) \in Nat
      /\ Len(s \o q) = Len(s) + Len(q) /\ Len(t \o w) = Len(t) + Len(w)
      /\ \A k \in 1 .. Len(s) + Len(q) : (s \o q)[k] = IF k <= Len(s) THEN s[k] ELSE q[k - Len(s)]
      /\ \A k \in 1 .. Len(t) + Len(w) : (t \o w)[k] = IF k <= Len(t) THEN t[k] ELSE w[k - Len(t)]
  BY ConcatProperties, LenProperties
<1> DEFINE r == s \o q
<1>4. /\ Len(r) = Len(s) + Len(q) /\ Len(r) = Len(t) + Len(w)
      /\ \A k \in 1 .. Len(s) + Len(q) : r[k] = IF k <= Len(s) THEN s[k] ELSE q[k - Len(s)]
      /\ \A k \in 1 .. Len(t) + Len(w) : r[k] = IF k <= Len(t) THEN t[k] ELSE w[k - Len(t)]
  BY <1>1, <1>3
<1>5. /\ Len(s) \in Nat /\ Len(q) \in Nat /\ Len(t) \in Nat /\ Len(w) \in Nat
      /\ i \in 1 .. Len(s)
  BY <1>3
<1> HIDE DEF r
<1>6. /\ i \in 1 .. Len(t) + Len(w) /\ r[i] = s[i]
  BY ONLY <1>4, <1>5
<1>7. i <= Len(t)
  <2>1. ASSUME ~(i <= Len(t))
        PROVE  FALSE
    <3>1. i - Len(t) \in 1 .. Len(w) /\ s[i] = w[i - Len(t)]
      BY ONLY <1>4, <1>5, <1>6, <2>1
    <3>2. QED
      BY <1>2, <3>1
  <2>2. QED
    BY <2>1
<1>8. i \in 1 .. Len(t) /\ s[i] = t[i]
  BY ONLY <1>4, <1>5, <1>6, <1>7
<1>9. QED
  BY ONLY <1>8

Settled(g, o, A, B, x, w, z) ==
  /\ Begins(A \o x, A \o B) /\ Begins(g \o z, A \o B)
  /\ \A i \in 1 .. Len(g \o z) :
       (g \o z)[i] \in Whole => \E j \in 1 .. Len(A \o x) : (g \o z)[i] = (A \o x)[j]

\* A client that was sent g and owed o, for requests and errors A, and asks for
\* B more, has x of it executed, w owed for the rest, and only z sent.
LEMMA LastWords ==
  ASSUME NEW g \in Seq(Unit), NEW o \in Seq(Unit), NEW A \in Seq(Unit), A = g \o o,
         NEW B \in Seq(Unit), NEW x \in Seq(Unit), NEW z \in Seq(Unit),
         NEW w \in Seq(Unit), \A i \in 1 .. Len(w) : w[i] \notin Whole,
         Begins(x \o w, B), Begins(z, (o \o x) \o w)
  PROVE  Settled(g, o, A, B, x, w, z)
<1>2. /\ A \o x \in Seq(Unit) /\ x \o w \in Seq(Unit) /\ g \o z \in Seq(Unit)
      /\ o \o x \in Seq(Unit)
  BY ConcatProperties
<1>3. (A \o x) \o w \in Seq(Unit) /\ (o \o x) \o w \in Seq(Unit)
  BY <1>2, ConcatProperties
<1>4. Begins((A \o x) \o w, A \o B)
  <2>1. Begins(A \o (x \o w), A \o B)
    BY <1>2, BeginsAfter
  <2>2. Assoc(A, x, w)
    BY Associative
  <2>3. QED
    BY ONLY <2>1, <2>2 DEF Assoc
<1>5. Begins(g \o z, (A \o x) \o w)
  <2>1. Begins(g \o z, g \o ((o \o x) \o w))
    BY BeginsAfter
  <2>2. Assoc4(g, o, x, w)
    BY Reassociate
  <2>3. QED
    BY ONLY <2>1, <2>2, A = g \o o DEF Assoc4
<1>6. Begins(A \o x, A \o B)
  BY <1>2, <1>4, BeginsLonger
<1>7. Begins(g \o z, A \o B)
  BY <1>2, <1>3, <1>4, <1>5, BeginsTrans
<1> DEFINE r == g \o z
           a == A \o x
<1>8. r \in Seq(Unit) /\ a \in Seq(Unit) /\ Begins(r, a \o w)
  BY <1>2, <1>5
<1> HIDE DEF r, a
<1>9. \A i \in 1 .. Len(r) : r[i] \in Whole => \E j \in 1 .. Len(a) : r[i] = a[j]
  BY <1>8, BeginsElements
<1>10. QED
  BY <1>6, <1>7, <1>9 DEF r, a, Settled

-----------------------------------------------------------------------------
(* What a step does to one client *)

LEMMA InitBooks == Init => Books
<1> SUFFICES ASSUME Init
             PROVE  Books
  OBVIOUS
<1>1. executed = << >> /\ executed \in Seq(Whole)
  <2>1. executed = << >>
    BY DEF Init
  <2>2. QED
    BY <2>1, EmptySeq
<1>2. Domains
  BY <1>1 DEF Init, Domains
<1>3. ASSUME NEW c \in Client
      PROVE  Account(c)
  <2>1. /\ sent[c] = << >> /\ inbox[c] = << >> /\ got[c] = << >> /\ outbox[c] = << >>
        /\ ended[c] = "" /\ \A fd \in Fd : conn[fd] # c
    BY <1>3, EventLoopAssumption DEF Init
  <2>2. Of(c) = << >>
    BY <1>1, ThoseEmpty DEF Of
  <2>3. Typed(c)
    <3>1. Len(outbox[c]) = 0 /\ 0 <= SendRoom
      <4>1. SendRoom \in Nat
        BY EventLoopAssumption
      <4>2. Len(<< >>) = 0
        BY EmptySeq
      <4>3. outbox[c] = << >>
        BY <2>1
      <4>4. Len(outbox[c]) = 0
        BY ONLY <4>2, <4>3
      <4>5. QED
        BY ONLY <4>1, <4>4
    <3>2. \A X : << >> \in Seq(X)
      BY EmptySeq
    <3>3. QED
      BY ONLY <2>1, <3>1, <3>2 DEF Typed
  <2>4. QED
    BY <2>1, <2>2, <2>3 DEF Account, Fresh
<1>4. QED
  BY <1>2, <1>3 DEF Books

\* Nothing: it may finish sending, and others may have requests executed.
Untouched(c) ==
  /\ sent'[c] = sent[c] /\ got'[c] = got[c]
  /\ inbox'[c] = inbox[c] /\ outbox'[c] = outbox[c] /\ ended'[c] = ended[c]
  /\ Of(c)' = Of(c) /\ Range(executed) \subseteq Range(executed')
  /\ \A f \in Fd : conn'[f] = c <=> conn[f] = c
  /\ \A f \in Fd : conn[f] = c => /\ input'[f] = input[f] /\ output'[f] = output[f]
                                  /\ f \in closing' => f \in closing
  /\ peer[c] \in {"half", "closed", "reset"} => peer'[c] \in {"half", "closed", "reset"}

LEMMA Elsewhere ==
  ASSUME NEW c \in Client, Account(c), Untouched(c)
  PROVE  Account(c)'
<1> USE DEF Untouched
<1>1. Typed(c)'
  BY DEF Account, Typed
<1>2. Fresh(c) => Fresh(c)'
  BY DEF Fresh
<1>3. ASSUME NEW fd \in Fd, conn[fd] = c, Connected(c, fd)
      PROVE  Connected(c, fd)'
  <2>1. /\ input'[fd] = input[fd] /\ output'[fd] = output[fd]
        /\ fd \in closing' => fd \in closing
    BY <1>3
  <2>2. (\E p \in Seq(Units(c) \cap Plain) :
           /\ sent[c] = p \o inbox[c] /\ ~Malformed(p)
           /\ Answers(p) = Of(c))'
    BY <1>3 DEF Connected
  <2>3. QED
    BY <1>3, <2>1, <2>2 DEF Connected
<1>4. Gone(c) => Gone(c)'
  <2>1. Replies(c)' = Replies(c)
    BY DEF Replies
  <2>2. QED
    BY <2>1 DEF Gone
<1>5. QED
  BY <1>1, <1>2, <1>3, <1>4 DEF Account

\* Its connection ends, before it was accepted.
LEMMA RefusedUnheard ==
  ASSUME NEW c \in Client, Account(c), Fresh(c),
         sent'[c] = sent[c], got'[c] = got[c], inbox'[c] = inbox[c], outbox'[c] = outbox[c],
         ended'[c] \notin {"", "finished"}, \A f \in Fd : conn'[f] # c,
         Of(c)' = Of(c)
  PROVE  Account(c)'
<1>1. Typed(c)'
  BY DEF Account, Typed
<1>2. Answers(sent[c]) \in Seq(Unit)
  <2>1. sent[c] \in Seq(Unit)
    BY InUnit DEF Account, Typed
  <2>2. QED
    BY <2>1, AnswersType
<1>3. Replies(c)' = << >> /\ Of(c)' = << >>
  <2>1. << >> \o << >> = << >>
    BY ConcatEmptySeq, EmptySeq
  <2>2. Those(<< >>, Plain) = << >>
    BY ThoseEmpty
  <2>3. QED
    BY <2>1, <2>2 DEF Replies, Fresh
<1>4. Begins(<< >>, Answers(sent'[c]))
  BY <1>2, BeginsItself
<1>5. Gone(c)'
  <2>1. 1 .. Len(Replies(c)') = {}
    <3>1. Len(<< >>) = 0
      BY EmptySeq
    <3>2. QED
      BY ONLY <1>3, <3>1
  <2>2. QED
    BY <1>3, <1>4, <2>1 DEF Gone
<1>6. QED
  BY <1>1, <1>5 DEF Account

\* Its connection ends, after the requests x were executed, before the error w
\* that may have followed them was sent in full, and with y sent as a last word.
Parting(c, fd, x, w, y) ==
  /\ x \in Seq(Unit) /\ y \in Seq(Units(c)) /\ w \in Seq(Unit)
  /\ \A i \in 1 .. Len(w) : w[i] \notin Whole
  /\ Begins(x \o w, Answers(inbox[c])) /\ Begins(Those(y, Plain), (output[fd] \o x) \o w)
  /\ sent'[c] = sent[c] /\ got'[c] = got[c]
  /\ inbox'[c] \in {inbox[c], << >>}
  /\ outbox'[c] = outbox[c] \o y /\ Len(outbox'[c]) <= SendRoom
  /\ Of(c)' = Of(c) \o x /\ executed' \in Seq(Whole)
  /\ ended'[c] # "" /\ (\A f \in Fd : conn'[f] # c)
  /\ ended'[c] = "finished" => got[c] \o outbox'[c] = Answers(sent[c])

LEMMA Leaves ==
  ASSUME NEW c \in Client, NEW fd \in Fd, Account(c), conn[fd] = c,
         NEW x, NEW w, NEW y, Parting(c, fd, x, w, y)
  PROVE  Account(c)'
<1>0. /\ x \in Seq(Unit) /\ y \in Seq(Units(c)) /\ w \in Seq(Unit)
      /\ sent'[c] = sent[c] /\ got'[c] = got[c]
      /\ outbox'[c] = outbox[c] \o y
  BY DEF Parting
<1> DEFINE A == Of(c)
           B == Answers(inbox[c])
           g == got[c] \o outbox[c]
           o == output[fd]
           z == Those(y, Plain)
<1>1. Typed(c) /\ Connected(c, fd)
  BY DEF Account
<1>2. PICK p \in Seq(Units(c) \cap Plain) : /\ sent[c] = p \o inbox[c] /\ ~Malformed(p)
                                             /\ Answers(p) = A
  BY <1>1 DEF Connected
<1>3. /\ p \in Seq(Unit) /\ inbox[c] \in Seq(Unit) /\ o \in Seq(Unit)
      /\ got[c] \in Seq(Unit) /\ outbox[c] \in Seq(Unit) /\ y \in Seq(Unit)
  BY <1>0, <1>1, InUnit DEF Typed, Connected
<1>4. A \in Seq(Unit) /\ B \in Seq(Unit) /\ z \in Seq(Unit)
  BY <1>2, <1>3, AnswersType, ThoseFrom
<1>5. g \in Seq(Plain) /\ g \in Seq(Unit)
  <2>1. got[c] \in Seq(Plain) /\ outbox[c] \in Seq(Plain)
    BY <1>1 DEF Connected
  <2>2. QED
    BY ONLY <1>3, <2>1, ConcatProperties
<1>6. Answers(sent[c]) = A \o B /\ A = g \o o
  <2>1. Answers(p \o inbox[c]) = Answers(p) \o Answers(inbox[c])
    BY <1>2, <1>3, AnswersConcat
  <2>2. A = g \o o
    BY <1>1 DEF Connected
  <2>3. QED
    BY ONLY <1>2, <2>1, <2>2
<1>7. Replies(c)' = g \o z
  <2>1. Assoc(got[c], outbox[c], y)
    BY ONLY <1>3, Associative
  <2>2. got'[c] \o outbox'[c] = g \o y
    BY ONLY <1>0, <2>1 DEF Assoc
  <2>3. Those(g \o y, Plain) = Those(g, Plain) \o z
    <3> HIDE DEF g
    <3>1. QED
      <4>1. y \in Seq(Unit) /\ g \in Seq(Unit)
        BY ONLY <1>3, <1>5
      <4>2. Distributes(g, y, Plain)
        BY ONLY <4>1, Distributive
      <4>3. QED
        BY ONLY <4>2 DEF Distributes
  <2>4. Those(g, Plain) = g
    BY ONLY <1>5, ThoseAll
  <2>5. QED
    BY ONLY <2>2, <2>3, <2>4 DEF Replies
<1> HIDE DEF A, B, g, o, z
<1>8. /\ Begins(x \o w, B) /\ Begins(z, (o \o x) \o w)
      /\ \A i \in 1 .. Len(w) : w[i] \notin Whole
  BY DEF B, z, o, Parting
<1>9. /\ Begins(A \o x, A \o B) /\ Begins(g \o z, A \o B)
      /\ \A i \in 1 .. Len(g \o z) :
           (g \o z)[i] \in Whole => \E j \in 1 .. Len(A \o x) : (g \o z)[i] = (A \o x)[j]
  <2>1. x \in Seq(Unit) /\ w \in Seq(Unit)
    BY <1>0
  <2>2. QED
    <3>1. Settled(g, o, A, B, x, w, z)
      BY ONLY <1>3, <1>4, <1>5, <1>6, <1>8, <2>1, LastWords
    <3>2. QED
      BY ONLY <3>1 DEF Settled
<1>10. \A j \in 1 .. Len(A \o x) : (A \o x)[j] \in Range(executed')
  <2> DEFINE a == A \o x
  <2>1. a = Those(executed', Units(c))
    BY DEF A, Of, Parting
  <2>2. executed' \in Seq(Whole)
    BY DEF Parting
  <2> HIDE DEF a
  <2>3. \A j \in 1 .. Len(a) : \E k \in 1 .. Len(executed') : a[j] = executed'[k]
    BY ONLY <2>1, <2>2, ThoseFrom
  <2>4. DOMAIN executed' = 1 .. Len(executed')
    BY ONLY <2>2, LenProperties
  <2>5. \A j \in 1 .. Len(a) : a[j] \in Range(executed')
    BY ONLY <2>3, <2>4 DEF Range
  <2>6. QED
    BY ONLY <2>5 DEF a
<1>11. Gone(c)'
  <2>1. Begins(Of(c)', Answers(sent'[c])) /\ Begins(Replies(c)', Answers(sent'[c]))
    <3>1. Of(c)' = A \o x /\ sent'[c] = sent[c]
      BY DEF A, Parting
    <3>2. QED
      BY ONLY <1>6, <1>7, <1>9, <3>1
  <2>2. \A i \in 1 .. Len(Replies(c)') : Replies(c)'[i] \in Whole => Replies(c)'[i] \in Range(executed')
    BY ONLY <1>7, <1>9, <1>10
  <2>3. ended'[c] = "finished" => got'[c] \o outbox'[c] = Answers(sent'[c])
    BY DEF Parting
  <2>4. QED
    BY ONLY <2>1, <2>2, <2>3 DEF Gone
<1>12. Typed(c)'
  <2>1. outbox[c] \o y \in Seq(Units(c))
    BY ONLY <1>0, <1>1, ConcatProperties DEF Typed
  <2>2. << >> \in Seq(Units(c) \cap Plain)
    BY EmptySeq
  <2>3. /\ sent'[c] \in Seq(Units(c) \cap Plain) /\ inbox'[c] \in Seq(Units(c) \cap Plain)
        /\ got'[c] \in Seq(Units(c))
    BY ONLY <1>1, <2>2, Parting(c, fd, x, w, y) DEF Typed, Parting
  <2>4. outbox'[c] \in Seq(Units(c)) /\ Len(outbox'[c]) <= SendRoom
    BY <1>0, <2>1 DEF Parting
  <2>5. QED
    BY ONLY <2>3, <2>4 DEF Typed
<1>13. QED
  BY <1>11, <1>12 DEF Account, Parting

-----------------------------------------------------------------------------
(* What a handler does to the client behind its descriptor *)

LEMMA InBoth ==
  ASSUME NEW X, NEW Y, NEW s, s \in Seq(X), s \in Seq(Y)
  PROVE  s \in Seq(X \cap Y)
<1>1. s \in [1 .. Len(s) -> X] /\ s \in [1 .. Len(s) -> Y] /\ Len(s) \in Nat
  BY LenProperties
<1>2. s \in [1 .. Len(s) -> X \cap Y]
  BY <1>1
<1>3. QED
  BY <1>1, <1>2, SeqDef

\* Parts kept from an earlier read change nothing about what a read answers.
LEMMA WhatIsReceived ==
  ASSUME NEW c \in Client, NEW fd \in Fd, conn[fd] = c, Typed(c), Connected(c, fd)
  PROVE  /\ Received(fd) \in Seq(Units(c) \cap Plain)
         /\ Answers(Received(fd)) = Answers(inbox[c])
         /\ Answers(Received(fd)) \in Seq(Units(c) \cap Plain)
         /\ Requests(Received(fd)) \in Seq(Units(c) \cap Whole)
         /\ Malformed(Received(fd)) <=> Malformed(inbox[c])
         /\ ~Malformed(Received(fd)) => Answers(Received(fd)) = Requests(Received(fd))
         /\ \E w \in Seq(Unit) : /\ \A i \in 1 .. Len(w) : w[i] \notin Whole
                                 /\ Answers(Received(fd)) = Requests(Received(fd)) \o w
<1> DEFINE r == input[fd] \o inbox[c]
<1>1. Received(fd) = r
  BY DEF Received
<1>2. /\ input[fd] \in Seq(Part) /\ input[fd] \in Seq(Unit) /\ inbox[c] \in Seq(Unit)
      /\ input[fd] \in Seq(Units(c) \cap Plain) /\ inbox[c] \in Seq(Units(c) \cap Plain)
  BY InUnit DEF Typed, Connected
<1>3. r \in Seq(Units(c) \cap Plain)
  BY ONLY <1>2, ConcatProperties
<1>4. r \in Seq(Plain) /\ r \in Seq(Units(c)) /\ r \in Seq(Unit)
  <2> HIDE DEF r
  <2>1. QED
    BY <1>3, InUnit
<1>5. ~Malformed(input[fd]) /\ Answers(input[fd]) = << >>
  BY <1>2, PartsUnanswered
<1>6. Answers(r) = Answers(inbox[c])
  <2>1. Answers(r) = Answers(input[fd]) \o Answers(inbox[c])
    BY ONLY <1>2, <1>5, AnswersConcat
  <2>2. Answers(inbox[c]) \in Seq(Unit)
    BY ONLY <1>2, AnswersType
  <2>3. << >> \o Answers(inbox[c]) = Answers(inbox[c])
    BY ONLY <2>2, ConcatEmptySeq
  <2>4. QED
    BY ONLY <1>5, <2>1, <2>3
<1>7. Malformed(r) <=> Malformed(inbox[c])
  BY ONLY <1>2, <1>5, MalformedConcat
<1> HIDE DEF r
<1>8. Answers(r) \in Seq(Units(c) \cap Plain) /\ Requests(r) \in Seq(Units(c))
  BY <1>3, <1>4, AnswersType
<1>9. /\ Requests(r) \in Seq(Whole)
      /\ ~Malformed(r) => Answers(r) = Requests(r)
      /\ Malformed(r) => \E b \in Unit : b.kind = "bad" /\ Answers(r) = Append(Requests(r), b)
  BY ONLY <1>4, AnswersAreRequests
<1>10. Requests(r) \in Seq(Units(c) \cap Whole)
  BY ONLY <1>8, <1>9, InBoth
<1>11. \E w \in Seq(Unit) : (\A i \in 1 .. Len(w) : w[i] \notin Whole) /\ Answers(r) = Requests(r) \o w
  <2>1. CASE Malformed(r)
    <3>1. PICK b \in Unit : b.kind = "bad" /\ Answers(r) = Append(Requests(r), b)
      BY <1>9, <2>1
    <3> DEFINE w == <<b>>
    <3>2. w \in Seq(Unit) /\ Len(w) = 1 /\ w[1] = b
      OBVIOUS
    <3>3. Answers(r) = Requests(r) \o w
      BY <1>9, <3>1, AppendIsConcat
    <3> HIDE DEF w
    <3>4. b \notin Whole
      BY <3>1 DEF Whole
    <3>5. \A i \in 1 .. Len(w) : w[i] \notin Whole
      BY <3>2, <3>4
    <3>6. QED
      BY <3>2, <3>3, <3>5
  <2>2. CASE ~Malformed(r)
    <3>1. Answers(r) = Requests(r) \o << >>
      BY <1>9, <2>2, ConcatEmptySeq
    <3>2. << >> \in Seq(Unit) /\ 1 .. Len(<< >>) = {}
      BY EmptySeq
    <3>3. QED
      BY <3>1, <3>2
  <2>3. QED
    BY <2>1, <2>2
<1>12. QED
  BY ONLY <1>1, <1>3, <1>6, <1>7, <1>8, <1>9, <1>10, <1>11

\* A handler works at fd, for c: it executes x and sends y; and it leaves what
\* belongs to other clients alone.
AtKernel(c, x, y) ==
  /\ executed' = executed \o x
  /\ peer' = peer /\ sent' = sent /\ got' = got
  /\ DOMAIN inbox' = Client /\ DOMAIN outbox' = Client
  /\ \A d \in Client : d # c => inbox'[d] = inbox[d] /\ outbox'[d] = outbox[d]
  /\ inbox'[c] \in {inbox[c], << >>} /\ outbox'[c] = outbox[c] \o y
AtLoop(c, fd) ==
  /\ conn'[fd] \in {c, Nobody}
  /\ \A d \in Client : d # c => ended'[d] = ended[d]
  /\ \A f \in Fd : f # fd => /\ conn'[f] = conn[f]
                             /\ input'[f] = input[f] /\ output'[f] = output[f]
                             /\ f \in closing' => f \in closing

LEMMA TheOthers ==
  ASSUME Books, NEW c \in Client, NEW fd \in Fd, conn[fd] = c,
         NEW x \in Seq(Units(c) \cap Whole), NEW y, AtKernel(c, x, y), AtLoop(c, fd)
  PROVE  /\ \A d \in Client : d # c => Account(d)'
         /\ Domains' /\ Of(c)' = Of(c) \o x
<1>1. executed \in Seq(Whole) /\ executed' = executed \o x
  BY DEF Books, Domains, AtKernel
<1>2. /\ executed' \in Seq(Whole) /\ Of(c)' = Of(c) \o x
      /\ \A d \in Client : d # c => Of(d)' = Of(d)
      /\ Range(executed) \subseteq Range(executed')
  BY ONLY c \in Client, x \in Seq(Units(c) \cap Whole), <1>1, OfGrows
<1>3. ASSUME NEW d \in Client, d # c
      PROVE  Account(d)'
  <2>1. Account(d) /\ d # Nobody
    BY EventLoopAssumption DEF Books
  <2>2. /\ sent'[d] = sent[d] /\ got'[d] = got[d] /\ peer'[d] = peer[d]
        /\ inbox'[d] = inbox[d] /\ outbox'[d] = outbox[d] /\ ended'[d] = ended[d]
        /\ Of(d)' = Of(d)
    BY <1>2, <1>3 DEF AtKernel, AtLoop
  <2>3. \A f \in Fd : conn'[f] = d <=> conn[f] = d
    BY <1>3, <2>1 DEF AtLoop
  <2>4. \A f \in Fd : conn[f] = d => /\ input'[f] = input[f] /\ output'[f] = output[f]
                                     /\ f \in closing' => f \in closing
    BY <1>3 DEF AtLoop
  <2>5. peer[d] \in {"half", "closed", "reset"} => peer'[d] \in {"half", "closed", "reset"}
    BY <2>2
  <2>6. Untouched(d)
    BY ONLY <1>2, <2>2, <2>3, <2>4, <2>5 DEF Untouched
  <2>7. QED
    BY <2>1, <2>6, Elsewhere
<1>4. Domains'
  BY <1>2 DEF AtKernel, Books, Domains
<1>5. QED
  BY ONLY <1>2, <1>3, <1>4

LEMMA ClosesOne ==
  ASSUME Inv, Books, NEW c \in Client, NEW fd \in Fd, conn[fd] = c,
         NEW why, CloseClient(fd, why), why # "",
         NEW x \in Seq(Units(c) \cap Whole), NEW y \in Seq(Units(c)), AtKernel(c, x, y),
         NEW w \in Seq(Unit), \A i \in 1 .. Len(w) : w[i] \notin Whole,
         Begins(x \o w, Answers(inbox[c])), Begins(Those(y, Plain), (output[fd] \o x) \o w),
         Len(outbox'[c]) <= SendRoom,
         why = "finished" => got[c] \o outbox'[c] = Answers(sent[c])
  PROVE  Books'
<1>1. /\ conn'[fd] = Nobody
      /\ \A f \in Fd : f # fd => conn'[f] = conn[f] /\ input'[f] = input[f] /\ output'[f] = output[f]
      /\ \A f \in Fd : f \in closing' => f \in closing
      /\ ended'[c] = why /\ \A d \in Client : d # c => ended'[d] = ended[d]
  BY DEF CloseClient, Inv, Shape
<1>2. \A f \in Fd : conn'[f] # c
  <2>1. \A f \in Fd : conn[f] = c => f = fd
    BY EventLoopAssumption DEF Inv, OnePlaceEach
  <2>2. Nobody # c
    BY EventLoopAssumption
  <2>3. QED
    BY ONLY <1>1, <2>1, <2>2
<1>3. AtLoop(c, fd)
  BY <1>1 DEF AtLoop
<1>4. /\ \A d \in Client : d # c => Account(d)'
      /\ Domains' /\ Of(c)' = Of(c) \o x
  BY <1>3, TheOthers
<1>5. Account(c)'
  <2>1. x \in Seq(Unit)
    BY InUnit
  <2>2. executed' \in Seq(Whole)
    BY <1>4 DEF Domains
  <2>3. Account(c)
    BY DEF Books
  <2>4. sent'[c] = sent[c] /\ got'[c] = got[c] /\ inbox'[c] \in {inbox[c], << >>}
        /\ outbox'[c] = outbox[c] \o y
    BY DEF AtKernel
  <2>5. Parting(c, fd, x, w, y)
    BY <1>1, <1>2, <1>4, <2>1, <2>2, <2>4 DEF Parting
  <2>6. QED
    BY ONLY <2>3, <2>5, c \in Client, fd \in Fd, conn[fd] = c, Leaves
<1>6. QED
  BY ONLY <1>4, <1>5 DEF Books

\* Having no last word.
LEMMA Silence ==
  ASSUME NEW c \in Client, NEW fd \in Fd, Account(c), conn[fd] = c,
         NEW x \in Seq(Units(c) \cap Whole), Begins(x, Answers(inbox[c]))
  PROVE  /\ << >> \in Seq(Unit) /\ << >> \in Seq(Units(c)) /\ x \in Seq(Unit)
         /\ \A i \in 1 .. Len(<< >>) : << >>[i] \notin Whole
         /\ Begins(x \o << >>, Answers(inbox[c]))
         /\ Begins(Those(<< >>, Plain), (output[fd] \o x) \o << >>)
         /\ outbox[c] = outbox[c] \o << >> /\ Len(outbox[c]) <= SendRoom
<1>1. /\ << >> \in Seq(Unit) /\ << >> \in Seq(Units(c)) /\ x \in Seq(Unit)
      /\ Len(<< >>) = 0
  BY InUnit, EmptySeq
<1>2. output[fd] \in Seq(Unit) /\ outbox[c] \in Seq(Unit) /\ Len(outbox[c]) <= SendRoom
  BY InUnit DEF Account, Typed, Connected
<1>3. x \o << >> = x /\ outbox[c] = outbox[c] \o << >>
  BY ONLY <1>1, <1>2, ConcatEmptySeq
<1>4. Begins(x \o << >>, Answers(inbox[c]))
  BY <1>3
<1>5. Begins(Those(<< >>, Plain), (output[fd] \o x) \o << >>)
  <2>1. (output[fd] \o x) \o << >> \in Seq(Unit)
    BY ONLY <1>1, <1>2, ConcatProperties
  <2>2. Those(<< >>, Plain) = << >>
    BY ThoseEmpty
  <2>3. QED
    BY ONLY <2>1, <2>2, BeginsItself
<1>6. \A i \in 1 .. Len(<< >>) : << >>[i] \notin Whole
  BY ONLY <1>1
<1>7. QED
  BY ONLY <1>1, <1>2, <1>3, <1>4, <1>5, <1>6

LEMMA ClosesSilently ==
  ASSUME Inv, Books, NEW c \in Client, NEW fd \in Fd, conn[fd] = c,
         NEW why, CloseClient(fd, why), why \notin {"", "finished"},
         NEW x \in Seq(Units(c) \cap Whole), AtKernel(c, x, << >>),
         Begins(x, Answers(inbox[c]))
  PROVE  Books'
<1>1. Account(c)
  BY DEF Books
<1>2. /\ << >> \in Seq(Unit) /\ << >> \in Seq(Units(c))
      /\ \A i \in 1 .. Len(<< >>) : << >>[i] \notin Whole
      /\ Begins(x \o << >>, Answers(inbox[c]))
      /\ Begins(Those(<< >>, Plain), (output[fd] \o x) \o << >>)
      /\ outbox[c] = outbox[c] \o << >> /\ Len(outbox[c]) <= SendRoom
  BY <1>1, Silence
<1>3. Len(outbox'[c]) <= SendRoom
  BY <1>2 DEF AtKernel
<1>4. why # "" /\ (why = "finished" => got[c] \o outbox'[c] = Answers(sent[c]))
  OBVIOUS
<1>5. QED
  BY <1>2, <1>3, <1>4, ClosesOne

\* What a handler that received from c can rely on.
LEMMA AtADescriptor ==
  ASSUME Inv, Books, NEW fd \in Fd, conn[fd] # Nobody
  PROVE  /\ conn[fd] \in Client /\ Account(conn[fd])
         /\ Typed(conn[fd]) /\ Connected(conn[fd], fd)
         /\ DOMAIN inbox = Client /\ DOMAIN outbox = Client
<1>1. conn[fd] \in Client
  BY DEF Inv, Shape
<1>2. Account(conn[fd])
  BY <1>1 DEF Books
<1>3. Typed(conn[fd]) /\ Connected(conn[fd], fd)
  BY <1>1, <1>2 DEF Account
<1>4. QED
  BY <1>1, <1>2, <1>3 DEF Books, Domains

LEMMA NothingExecuted ==
  ASSUME Books, NEW c \in Client
  PROVE  << >> \in Seq(Units(c) \cap Whole) /\ executed \o << >> = executed
<1>1. executed \in Seq(Whole)
  BY DEF Books, Domains
<1>2. << >> \in Seq(Units(c) \cap Whole)
  BY EmptySeq
<1>3. QED
  BY ONLY <1>1, <1>2, ConcatEmptySeq

LEMMA NothingSent ==
  ASSUME Books, NEW c \in Client
  PROVE  outbox[c] \o << >> = outbox[c]
<1>1. outbox[c] \in Seq(Units(c))
  BY DEF Books, Account, Typed
<1>2. QED
  BY ONLY <1>1, ConcatEmptySeq

LEMMA ReadFailsBooks ==
  ASSUME NEW e, Inv, Books, ReadFails(e)
  PROVE  Books'
<1> DEFINE fd == e.fd
<1>1. /\ Handled(e) /\ e.filter # "listen" /\ conn[fd] # Nobody
      /\ inbox' = [inbox EXCEPT ![conn[fd]] = << >>]
      /\ CloseClient(fd, "broken")
      /\ peer' = peer /\ sent' = sent /\ got' = got /\ outbox' = outbox /\ executed' = executed
  BY DEF ReadFails, peerVars
<1>2. fd \in Fd
  BY <1>1, HandledShrinks
<1> HIDE DEF fd
<1>3. PICK c \in Client : conn[fd] = c
  BY <1>1, <1>2, AtADescriptor
<1>4. /\ Typed(c) /\ DOMAIN inbox = Client /\ DOMAIN outbox = Client
  BY <1>1, <1>2, <1>3, AtADescriptor
<1>5. << >> \in Seq(Units(c) \cap Whole) /\ executed \o << >> = executed /\ outbox[c] \o << >> = outbox[c]
  BY <1>4, NothingExecuted, NothingSent
<1>6. AtKernel(c, << >>, << >>)
  BY <1>1, <1>4, <1>5, <1>3 DEF AtKernel
<1>7. Begins(<< >>, Answers(inbox[c]))
  BY <1>4, InUnit, AnswersType, BeginsItself DEF Typed
<1>8. QED
  BY <1>1, <1>2, <1>3, <1>5, <1>6, <1>7, ClosesSilently

LEMMA WhatIsExecuted ==
  ASSUME NEW c \in Client, NEW fd \in Fd, conn[fd] = c, Typed(c), Connected(c, fd)
  PROVE  /\ Executing(fd) \in Seq(Units(c) \cap Whole)
         /\ Begins(Executing(fd), Answers(inbox[c]))
<1>1. CASE Overflows(fd)
  <2>1. Executing(fd) = << >> /\ << >> \in Seq(Units(c) \cap Whole)
    BY <1>1, EmptySeq DEF Executing
  <2>2. Answers(inbox[c]) \in Seq(Unit)
    BY InUnit, AnswersType DEF Typed
  <2>3. QED
    BY <2>1, <2>2, BeginsItself
<1>2. CASE ~Overflows(fd)
  <2>1. Executing(fd) = Requests(Received(fd))
    BY <1>2 DEF Executing
  <2>2. /\ Requests(Received(fd)) \in Seq(Units(c) \cap Whole)
        /\ Answers(Received(fd)) = Answers(inbox[c])
        /\ \E w \in Seq(Unit) : Answers(Received(fd)) = Requests(Received(fd)) \o w
    BY WhatIsReceived
  <2>3. QED
    BY ONLY <2>1, <2>2 DEF Begins
<1>3. QED
  BY <1>1, <1>2

LEMMA SendFailsBooks ==
  ASSUME NEW e, Inv, Books, SendFails(e)
  PROVE  Books'
<1> DEFINE fd == e.fd
<1>1. /\ Handled(e) /\ e.filter # "listen" /\ conn[fd] # Nobody
      /\ \E why \in {"refused", "broken"} : CloseClient(fd, why)
      /\ outbox' = outbox
      /\ peer' = peer /\ sent' = sent /\ got' = got
      /\ \/ inbox' = [inbox EXCEPT ![conn[fd]] = << >>] /\ executed' = executed \o Executing(fd)
         \/ inbox' = inbox /\ executed' = executed
  BY DEF SendFails, Receive, peerVars
<1>2. fd \in Fd
  BY <1>1, HandledShrinks
<1> HIDE DEF fd
<1>3. PICK c \in Client : conn[fd] = c
  BY <1>1, <1>2, AtADescriptor
<1>4. /\ Typed(c) /\ Connected(c, fd)
      /\ DOMAIN inbox = Client /\ DOMAIN outbox = Client
  BY <1>1, <1>2, <1>3, AtADescriptor
<1>5. << >> \in Seq(Units(c) \cap Whole) /\ executed \o << >> = executed /\ outbox[c] \o << >> = outbox[c]
  BY <1>4, NothingExecuted, NothingSent
<1>6. PICK why \in {"refused", "broken"} : CloseClient(fd, why)
  BY <1>1
<1>7. CASE inbox' = [inbox EXCEPT ![conn[fd]] = << >>] /\ executed' = executed \o Executing(fd)
  <2>1. Executing(fd) \in Seq(Units(c) \cap Whole) /\ Begins(Executing(fd), Answers(inbox[c]))
    BY <1>2, <1>4, <1>3, WhatIsExecuted
  <2>2. AtKernel(c, Executing(fd), << >>)
    BY <1>1, <1>4, <1>3, <1>5, <1>7 DEF AtKernel
  <2>3. QED
    BY <1>2, <1>4, <1>3, <1>6, <2>1, <2>2, ClosesSilently
<1>8. CASE inbox' = inbox /\ executed' = executed
  <2>1. Begins(<< >>, Answers(inbox[c]))
    BY <1>4, InUnit, AnswersType, BeginsItself DEF Typed
  <2>2. AtKernel(c, << >>, << >>)
    BY <1>1, <1>4, <1>3, <1>5, <1>8 DEF AtKernel
  <2>3. QED
    BY <1>2, <1>4, <1>3, <1>5, <1>6, <2>1, <2>2, ClosesSilently
<1>9. QED
  BY <1>1, <1>7, <1>8

\* The process ends, perhaps after some requests of one more client.
LEMMA ProcessEndsBooks ==
  ASSUME Inv, Books, NEW as, as \notin {"", "finished"}, ProcessEnds(as), Domains',
         sent' = sent, got' = got, inbox' = inbox, outbox' = outbox, peer' = peer,
         Range(executed) \subseteq Range(executed'),
         \A d \in Client : \/ Of(d)' = Of(d)
                           \/ \E fd \in Fd : /\ conn[fd] = d
                                             /\ \E x \in Seq(Units(d) \cap Whole) :
                                                  Of(d)' = Of(d) \o x /\ Begins(x, Answers(inbox[d]))
  PROVE  Books'
<1> SUFFICES ASSUME NEW c \in Client
             PROVE  Account(c)'
  BY DEF Books
<1>1. Account(c) /\ c # Nobody /\ executed' \in Seq(Whole)
  BY EventLoopAssumption DEF Books, Domains
<1>2. /\ \A f \in Fd : conn'[f] = Nobody
      /\ ended'[c] = IF c \in Range(conn) \cup Range(backlog) THEN as ELSE ended[c]
      /\ closing' = {}
  BY DEF ProcessEnds
<1>3. \A f \in Fd : conn'[f] # c
  BY <1>1, <1>2
<1>4. /\ DOMAIN conn = Fd /\ DOMAIN backlog = 1 .. Len(backlog)
  <2>1. DOMAIN conn = Fd /\ backlog \in Seq(Client)
    BY DEF Inv, Shape
  <2>2. QED
    BY ONLY <2>1, LenProperties
<1>5. CASE \E fd \in Fd : conn[fd] = c
  <2>1. PICK fd \in Fd : conn[fd] = c
    BY <1>5
  <2>2. \E x \in Seq(Units(c) \cap Whole) : Of(c)' = Of(c) \o x /\ Begins(x, Answers(inbox[c]))
    <3>1. CASE Of(c)' = Of(c)
      <4>1. << >> \in Seq(Units(c) \cap Whole)
        BY EmptySeq
      <4>2. Begins(<< >>, Answers(inbox[c]))
        BY <1>1, InUnit, AnswersType, BeginsItself DEF Account, Typed
      <4>3. Of(c) \in Seq(Whole)
        BY ThoseFrom DEF Of, Books, Domains
      <4>4. Of(c) \o << >> = Of(c)
        BY ONLY <4>3, ConcatEmptySeq
      <4>5. QED
        BY <3>1, <4>1, <4>2, <4>4
    <3>2. QED
      BY <3>1
  <2>3. PICK x \in Seq(Units(c) \cap Whole) : Of(c)' = Of(c) \o x /\ Begins(x, Answers(inbox[c]))
    BY <2>2
  <2>4. /\ << >> \in Seq(Unit) /\ << >> \in Seq(Units(c)) /\ x \in Seq(Unit)
        /\ \A i \in 1 .. Len(<< >>) : << >>[i] \notin Whole
        /\ Begins(x \o << >>, Answers(inbox[c]))
        /\ Begins(Those(<< >>, Plain), (output[fd] \o x) \o << >>)
        /\ outbox[c] = outbox[c] \o << >> /\ Len(outbox[c]) <= SendRoom
    BY <1>1, <2>1, <2>3, Silence
  <2>5. ended'[c] = as
    BY <1>2, <1>4, <2>1 DEF Range
  <2>6. ended'[c] # "" /\ ended'[c] # "finished"
    BY <2>5
  <2>7. /\ sent'[c] = sent[c] /\ got'[c] = got[c] /\ inbox'[c] \in {inbox[c], << >>}
        /\ outbox'[c] = outbox[c]
    OBVIOUS
  <2>8. Parting(c, fd, x, << >>, << >>)
    BY ONLY <1>1, <1>3, <2>3, <2>4, <2>6, <2>7 DEF Parting
  <2>9. QED
    BY <1>1, <2>1, <2>8, Leaves
<1>6. CASE \A fd \in Fd : conn[fd] # c
  <2>1. Of(c)' = Of(c)
    BY <1>6
  <2>2. c \notin Range(conn)
    BY <1>4, <1>6 DEF Range
  <2>3. CASE c \in Range(backlog)
    <3>1. ended[c] = ""
      <4>1. PICK i \in 1 .. Len(backlog) : backlog[i] = c
        BY ONLY <1>4, <2>3 DEF Range
      <4>2. ended[c] # "" => \A j \in 1 .. Len(backlog) : backlog[j] # c
        BY DEF Inv, OnePlaceEach
      <4>3. QED
        BY ONLY <4>1, <4>2
    <3>2. Fresh(c)
      BY <1>1, <1>6, <3>1 DEF Account
    <3>3. ended'[c] \notin {"", "finished"}
      BY <1>2, <2>3
    <3>4. QED
      BY <1>1, <1>3, <2>1, <3>2, <3>3, RefusedUnheard
  <2>4. CASE c \notin Range(backlog)
    <3>1. ended'[c] = ended[c]
      BY <1>2, <2>2, <2>4
    <3>2. Untouched(c)
      BY <1>3, <1>6, <2>1, <3>1 DEF Untouched
    <3>3. QED
      BY <1>1, <3>2, Elsewhere
  <2>5. QED
    BY <2>3, <2>4
<1>7. QED
  BY <1>5, <1>6

LEMMA SigPipeBooks ==
  ASSUME NEW e, Inv, Books, SigPipe(e)
  PROVE  Books'
<1> DEFINE fd == e.fd
<1>1. /\ e \in batch /\ e.filter # "listen" /\ conn[fd] # Nobody
      /\ ProcessEnds("killed")
      /\ peer' = peer /\ sent' = sent /\ got' = got /\ inbox' = inbox /\ outbox' = outbox
      /\ executed' = executed \o Executing(fd) \/ executed' = executed
  BY DEF SigPipe, peerVars
<1>2. fd \in Fd
  BY <1>1 DEF Inv, Shape, Event
<1> HIDE DEF fd
<1>3. PICK c \in Client : conn[fd] = c
  BY <1>1, <1>2, AtADescriptor
<1>4. Typed(c) /\ Connected(c, fd)
  BY <1>1, <1>2, <1>3, AtADescriptor
<1>5. Domains
  BY DEF Books
<1>6. CASE executed' = executed \o Executing(fd)
  <2> DEFINE x == Executing(fd)
  <2>1. x \in Seq(Units(c) \cap Whole) /\ Begins(x, Answers(inbox[c]))
    BY <1>2, <1>4, <1>3, WhatIsExecuted
  <2>2. executed' = executed \o x
    BY <1>6
  <2> HIDE DEF x
  <2>3. executed \in Seq(Whole)
    BY <1>5 DEF Domains
  <2>4. /\ executed' \in Seq(Whole)
        /\ Of(c)' = Of(c) \o x
        /\ \A d \in Client : d # c => Of(d)' = Of(d)
        /\ Range(executed) \subseteq Range(executed')
    BY ONLY <2>1, <2>2, <2>3, OfGrows
  <2>5. Domains'
    BY <1>1, <1>5, <2>4 DEF Domains
  <2>6. \A d \in Client : \/ Of(d)' = Of(d)
                          \/ \E f \in Fd : /\ conn[f] = d
                                           /\ \E q \in Seq(Units(d) \cap Whole) :
                                                Of(d)' = Of(d) \o q /\ Begins(q, Answers(inbox[d]))
    <3> SUFFICES ASSUME NEW d \in Client, Of(d)' # Of(d)
                 PROVE  \E f \in Fd : /\ conn[f] = d
                                      /\ \E q \in Seq(Units(d) \cap Whole) :
                                           Of(d)' = Of(d) \o q /\ Begins(q, Answers(inbox[d]))
      OBVIOUS
    <3>1. d = c
      BY <2>4
    <3>2. QED
      BY ONLY <1>2, <1>3, <2>1, <2>4, <3>1
  <2>7. QED
    BY <1>1, <2>4, <2>5, <2>6, ProcessEndsBooks
<1>7. CASE executed' = executed
  <2>1. Domains' /\ Range(executed) \subseteq Range(executed')
    BY <1>1, <1>5, <1>7 DEF Domains
  <2>2. \A d \in Client : Of(d)' = Of(d)
    BY <1>7 DEF Of
  <2>3. QED
    BY <1>1, <2>1, <2>2, ProcessEndsBooks
<1>8. QED
  BY <1>1, <1>6, <1>7

-----------------------------------------------------------------------------
(* Replies *)

LEMMA ThoseBegin ==
  ASSUME NEW s \in Seq(Unit), NEW t, Begins(s, t), NEW K
  PROVE  Begins(Those(s, K), Those(t, K))
<1>1. PICK r \in Seq(Unit) : t = s \o r
  BY DEF Begins
<1>2. Distributes(s, r, K)
  BY Distributive
<1>3. Those(r, K) \in Seq(Unit)
  BY ThoseFrom
<1>4. QED
  BY ONLY <1>1, <1>2, <1>3 DEF Begins, Distributes

Moves(g, b, n, l) == (g \o b) \o (n \o l) = (g \o (b \o n)) \o l

LEMMA Moving == \A g, b, n, l \in Seq(Unit) : Moves(g, b, n, l)
<1> SUFFICES ASSUME NEW g \in Seq(Unit), NEW b \in Seq(Unit), NEW n \in Seq(Unit), NEW l \in Seq(Unit)
             PROVE  (g \o b) \o (n \o l) = (g \o (b \o n)) \o l
  BY DEF Moves
<1> DEFINE a == g \o b
<1>1. a \in Seq(Unit)
  BY ConcatProperties
<1>2. Assoc(g, b, n)
  BY Associative
<1> HIDE DEF a
<1>3. Assoc(a, n, l)
  BY <1>1, Associative
<1>4. a \o (n \o l) = (a \o n) \o l
  BY ONLY <1>3 DEF Assoc
<1>5. a \o n = g \o (b \o n)
  BY ONLY <1>2 DEF Assoc, a
<1>6. QED
  BY ONLY <1>4, <1>5 DEF a

LEMMA WhatWasAsked ==
  ASSUME NEW c \in Client, NEW fd \in Fd, Typed(c), Connected(c, fd)
  PROVE  /\ Answers(inbox[c]) \in Seq(Unit) /\ output[fd] \in Seq(Unit)
         /\ got[c] \in Seq(Unit) /\ outbox[c] \in Seq(Unit)
         /\ got[c] \o outbox[c] \in Seq(Unit)
         /\ Of(c) = (got[c] \o outbox[c]) \o output[fd]
         /\ Answers(sent[c]) = Of(c) \o Answers(inbox[c])
<1>1. PICK p \in Seq(Units(c) \cap Plain) : /\ sent[c] = p \o inbox[c] /\ ~Malformed(p)
                                             /\ Answers(p) = Of(c)
  BY DEF Connected
<1>2. /\ p \in Seq(Unit) /\ inbox[c] \in Seq(Unit) /\ output[fd] \in Seq(Unit)
      /\ got[c] \in Seq(Unit) /\ outbox[c] \in Seq(Unit)
  BY InUnit DEF Typed, Connected
<1>3. Answers(p \o inbox[c]) = Answers(p) \o Answers(inbox[c])
  BY ONLY <1>1, <1>2, AnswersConcat
<1>4. Answers(sent[c]) = Of(c) \o Answers(inbox[c])
  BY ONLY <1>1, <1>3
<1>5. Answers(inbox[c]) \in Seq(Unit)
  BY ONLY <1>2, AnswersType
<1>6. got[c] \o outbox[c] \in Seq(Unit)
  BY ONLY <1>2, ConcatProperties
<1>7. Of(c) = (got[c] \o outbox[c]) \o output[fd]
  BY DEF Connected
<1>8. QED
  BY ONLY <1>2, <1>4, <1>5, <1>6, <1>7

LEMMA WhatIsOwed ==
  ASSUME NEW c \in Client, NEW fd \in Fd, conn[fd] = c, Typed(c), Connected(c, fd)
  PROVE  /\ Owed(fd) \in Seq(Units(c))
         /\ ~Refuses(fd) => /\ Owed(fd) \in Seq(Units(c) \cap Plain)
                            /\ Owed(fd) = output[fd] \o Answers(inbox[c])
                            /\ Executing(fd) = Answers(inbox[c])
         /\ \E w \in Seq(Unit) : /\ \A i \in 1 .. Len(w) : w[i] \notin Whole
                                 /\ Begins(Executing(fd) \o w, Answers(inbox[c]))
                                 /\ Those(Owed(fd), Plain) = (output[fd] \o Executing(fd)) \o w
<1> DEFINE r == Received(fd)
           a == Answers(r)
           x == Requests(r)
           o == output[fd]
<1>1. /\ a = Answers(inbox[c]) /\ a \in Seq(Units(c) \cap Plain) /\ x \in Seq(Units(c) \cap Whole)
      /\ ~Malformed(r) => a = x
      /\ \E w \in Seq(Unit) : (\A i \in 1 .. Len(w) : w[i] \notin Whole) /\ a = x \o w
  BY WhatIsReceived
<1>2. o \in Seq(Units(c) \cap Plain)
  BY DEF Connected
<1>3. Overflows(fd) => Owed(fd) = o \o <<TooLarge(c)>> /\ Executing(fd) = << >>
  BY DEF Owed, Executing
<1>4. ~Overflows(fd) => Owed(fd) = o \o a /\ Executing(fd) = x
  BY DEF Owed, Executing
<1>5. Refuses(fd) <=> Overflows(fd) \/ Malformed(r)
  BY DEF Refuses
<1> HIDE DEF a, x, o, r
<1>6. a \in Seq(Unit) /\ x \in Seq(Unit) /\ o \in Seq(Unit) /\ o \in Seq(Units(c)) /\ o \in Seq(Plain)
  BY <1>1, <1>2, InUnit
<1>7. o \o a \in Seq(Units(c) \cap Plain)
  BY ONLY <1>1, <1>2, ConcatProperties
<1>8. o \o a \in Seq(Units(c)) /\ o \o a \in Seq(Plain)
  <2> DEFINE q == o \o a
  <2>1. q \in Seq(Units(c) \cap Plain)
    BY <1>7
  <2> HIDE DEF q
  <2>2. q \in Seq(Units(c)) /\ q \in Seq(Plain)
    BY <2>1, InUnit
  <2>3. QED
    BY ONLY <2>2 DEF q
<1>9. CASE Overflows(fd)
  <2> DEFINE l == <<TooLarge(c)>>
  <2>1. /\ TooLarge(c) \in Units(c) /\ TooLarge(c) \notin Plain
        /\ l \in Seq({TooLarge(c)}) /\ l \in Seq(Units(c))
    <3>1. TooLarge(c) \in Units(c) /\ TooLarge(c) \notin Plain
      BY EventLoopAssumption DEF TooLarge, Units, Plain
    <3>2. QED
      BY <3>1
  <2> HIDE DEF l
  <2>2. o \o l \in Seq(Units(c)) /\ l \in Seq(Unit)
    BY <1>6, <2>1, InUnit, ConcatProperties
  <2>3. Those(o \o l, Plain) = o
    <3>1. Distributes(o, l, Plain)
      BY ONLY <1>6, <2>2, Distributive
    <3>2. Those(o, Plain) = o
      BY ONLY <1>6, ThoseAll
    <3>3. Those(l, Plain) = << >>
      <4>1. {TooLarge(c)} \cap Plain = {}
        BY <2>1
      <4>2. QED
        BY ONLY <2>1, <4>1, ThoseNone
    <3>4. o \o << >> = o
      BY ONLY <1>6, ConcatEmptySeq
    <3>5. QED
      BY ONLY <3>1, <3>2, <3>3, <3>4 DEF Distributes
  <2>4. /\ << >> \in Seq(Unit) /\ 1 .. Len(<< >>) = {} /\ << >> \o << >> = << >>
        /\ (o \o << >>) \o << >> = o
    <3>1. << >> \in Seq(Unit) /\ Len(<< >>) = 0
      BY EmptySeq
    <3>2. << >> \o << >> = << >> /\ o \o << >> = o
      BY ONLY <1>6, <3>1, ConcatEmptySeq
    <3>3. QED
      BY ONLY <3>1, <3>2
  <2>5. Begins(<< >> \o << >>, a)
    BY ONLY <1>6, <2>4, BeginsItself
  <2>6. Refuses(fd) /\ Owed(fd) = o \o l /\ Executing(fd) = << >>
    BY <1>3, <1>5, <1>9 DEF l
  <2>7. /\ \A i \in 1 .. Len(<< >>) : << >>[i] \notin Whole
        /\ Begins(Executing(fd) \o << >>, Answers(inbox[c]))
        /\ Those(Owed(fd), Plain) = (o \o Executing(fd)) \o << >>
    BY ONLY <1>1, <2>3, <2>4, <2>5, <2>6
  <2>8. QED
    BY ONLY <2>2, <2>4, <2>6, <2>7 DEF o
<1>10. CASE ~Overflows(fd)
  <2>1. PICK w \in Seq(Unit) : (\A i \in 1 .. Len(w) : w[i] \notin Whole) /\ a = x \o w
    BY <1>1
  <2>2. Owed(fd) = o \o a /\ Executing(fd) = x
    BY <1>4, <1>10
  <2>3. Those(o \o a, Plain) = o \o a
    <3> DEFINE q == o \o a
    <3>1. q \in Seq(Plain)
      BY <1>8
    <3> HIDE DEF q
    <3>2. Those(q, Plain) = q
      BY ONLY <3>1, ThoseAll
    <3>3. QED
      BY ONLY <3>2 DEF q
  <2>4. Assoc(o, x, w)
    BY <1>6, Associative
  <2>5. Those(Owed(fd), Plain) = (o \o Executing(fd)) \o w
    BY ONLY <2>1, <2>2, <2>3, <2>4 DEF Assoc
  <2>6. Begins(Executing(fd) \o w, Answers(inbox[c]))
    BY ONLY <1>1, <1>6, <2>1, <2>2, BeginsItself
  <2>7. ~Refuses(fd) => /\ Owed(fd) \in Seq(Units(c) \cap Plain)
                        /\ Owed(fd) = o \o Answers(inbox[c])
                        /\ Executing(fd) = Answers(inbox[c])
    BY ONLY <1>1, <1>5, <1>7, <2>2
  <2>8. Owed(fd) \in Seq(Units(c))
    BY ONLY <1>8, <2>2
  <2>9. \E v \in Seq(Unit) : /\ \A i \in 1 .. Len(v) : v[i] \notin Whole
                             /\ Begins(Executing(fd) \o v, Answers(inbox[c]))
                             /\ Those(Owed(fd), Plain) = (o \o Executing(fd)) \o v
    BY ONLY <2>1, <2>5, <2>6, w \in Seq(Unit)
  <2>10. QED
    BY ONLY <2>7, <2>8, <2>9 DEF o
<1>11. QED
  BY <1>9, <1>10

\* What try_send does: some of what is owed goes to the socket.
LEMMA Delivers ==
  ASSUME NEW c \in Client, Books, NEW X, X \subseteq Units(c), NEW owed \in Seq(X), Deliver(c, owed)
  PROVE  /\ SentNow(c, owed) \in Seq(X) /\ Unsent(c, owed) \in Seq(X)
         /\ owed = SentNow(c, owed) \o Unsent(c, owed)
         /\ Begins(SentNow(c, owed), owed)
         /\ outbox'[c] = outbox[c] \o SentNow(c, owed)
         /\ Len(outbox'[c]) <= SendRoom
         /\ DOMAIN outbox' = Client /\ \A d \in Client : d # c => outbox'[d] = outbox[d]
<1> DEFINE y == SentNow(c, owed)
           l == Unsent(c, owed)
<1>1. /\ outbox[c] \in Seq(Units(c)) /\ Len(outbox[c]) <= SendRoom /\ DOMAIN outbox = Client
      /\ Len(outbox[c]) \in Nat
  BY LenProperties DEF Books, Domains, Account, Typed
<1>2. /\ y \in Seq(X) /\ l \in Seq(X) /\ Len(outbox[c]) + Len(y) <= SendRoom
      /\ owed = y \o l
  BY <1>1, SomeSent
<1>3. /\ outbox'[c] = outbox[c] \o y
      /\ DOMAIN outbox' = Client /\ \A d \in Client : d # c => outbox'[d] = outbox[d]
  BY <1>1 DEF Deliver
<1> HIDE DEF y, l
<1>4. Seq(X) \subseteq Seq(Unit) /\ Seq(X) \subseteq Seq(Units(c))
  BY InUnit, SeqMonotonic
<1>5. Begins(y, owed)
  BY <1>2, <1>4 DEF Begins
<1>6. Len(outbox[c] \o y) = Len(outbox[c]) + Len(y)
  BY <1>1, <1>2, <1>4, ConcatProperties
<1>7. Len(outbox'[c]) <= SendRoom
  BY <1>2, <1>3, <1>6
<1>8. QED
  BY ONLY <1>2, <1>3, <1>5, <1>7 DEF y, l

LEMMA ReadRefusesBooks ==
  ASSUME NEW e, Inv, Books, ReadRefuses(e)
  PROVE  Books'
<1> DEFINE fd == e.fd
<1>1. /\ Handled(e) /\ e.filter # "listen" /\ conn[fd] # Nobody
      /\ inbox' = [inbox EXCEPT ![conn[fd]] = << >>]
      /\ executed' = executed \o Executing(fd)
      /\ peer' = peer /\ sent' = sent /\ got' = got
      /\ Deliver(conn[fd], Owed(fd)) /\ CloseClient(fd, "refused")
  BY DEF ReadRefuses, Receive, peerVars
<1>2. fd \in Fd
  BY <1>1, HandledShrinks
<1> HIDE DEF fd
<1>3. PICK c \in Client : conn[fd] = c
  BY <1>1, <1>2, AtADescriptor
<1>4. Typed(c) /\ Connected(c, fd) /\ DOMAIN inbox = Client
  BY <1>1, <1>2, <1>3, AtADescriptor
<1> DEFINE owed == Owed(fd)
           x == Executing(fd)
           y == SentNow(c, owed)
<1>5. PICK w \in Seq(Unit) : /\ owed \in Seq(Units(c))
                             /\ \A i \in 1 .. Len(w) : w[i] \notin Whole
                             /\ Begins(x \o w, Answers(inbox[c]))
                             /\ Those(owed, Plain) = (output[fd] \o x) \o w
  BY <1>2, <1>3, <1>4, WhatIsOwed
<1>6. x \in Seq(Units(c) \cap Whole)
  BY <1>2, <1>3, <1>4, WhatIsExecuted
<1>7. Deliver(c, owed) /\ executed' = executed \o x
  BY <1>1, <1>3
<1> HIDE DEF owed, x
<1>8. /\ y \in Seq(Units(c)) /\ Begins(y, owed)
      /\ outbox'[c] = outbox[c] \o y /\ Len(outbox'[c]) <= SendRoom
      /\ DOMAIN outbox' = Client /\ \A d \in Client : d # c => outbox'[d] = outbox[d]
  BY <1>5, <1>7, Delivers
<1> HIDE DEF y
<1>9. Begins(Those(y, Plain), (output[fd] \o x) \o w)
  <2>1. y \in Seq(Unit)
    BY <1>8, InUnit
  <2>2. Begins(Those(y, Plain), Those(owed, Plain))
    BY ONLY <1>8, <2>1, ThoseBegin
  <2>3. QED
    BY ONLY <1>5, <2>2
<1>10. AtKernel(c, x, y)
  BY <1>1, <1>3, <1>4, <1>7, <1>8 DEF AtKernel
<1>11. \E why \in {"refused"} : CloseClient(fd, why)
  BY <1>1
<1>12. PICK why \in {"refused"} : CloseClient(fd, why)
  BY <1>11
<1>13. why # "" /\ why # "finished"
  OBVIOUS
<1>14. QED
  BY ONLY Inv, Books, c \in Client, <1>2, <1>3, <1>5, <1>6, <1>8, <1>9, <1>10, <1>12, <1>13, ClosesOne

\* The connection stays.
LEMMA StaysOne ==
  ASSUME Inv, Books, NEW c \in Client, NEW fd \in Fd, conn[fd] = c, conn' = conn, ended' = ended,
         NEW x \in Seq(Units(c) \cap Whole), NEW y, AtKernel(c, x, y), AtLoop(c, fd),
         Typed(c)', Connected(c, fd)'
  PROVE  Books'
<1>1. /\ \A d \in Client : d # c => Account(d)'
      /\ Domains'
  BY TheOthers
<1>2. ended'[c] = "" /\ \A f \in Fd : conn'[f] = c => f = fd
  BY EventLoopAssumption DEF Inv, OnePlaceEach
<1>3. Account(c)'
  BY ONLY Typed(c)', Connected(c, fd)', conn[fd] = c, conn' = conn, fd \in Fd, <1>2 DEF Account
<1>4. QED
  BY ONLY <1>1, <1>3 DEF Books

StaysOwed(g, b, o, B, y, l) == ((g \o b) \o o) \o B = (g \o (b \o y)) \o l

LEMMA StillOwed ==
  ASSUME NEW g \in Seq(Unit), NEW b \in Seq(Unit), NEW o \in Seq(Unit), NEW B \in Seq(Unit),
         NEW y \in Seq(Unit), NEW l \in Seq(Unit), o \o B = y \o l
  PROVE  StaysOwed(g, b, o, B, y, l)
<1> DEFINE a == g \o b
<1>1. a \in Seq(Unit)
  BY ConcatProperties
<1>2. Moves(g, b, y, l)
  BY Moving
<1> HIDE DEF a
<1>3. Assoc(a, o, B)
  BY <1>1, Associative
<1>4. (a \o o) \o B = a \o (o \o B)
  BY ONLY <1>3 DEF Assoc
<1>5. a \o (y \o l) = (g \o (b \o y)) \o l
  BY ONLY <1>2 DEF Moves, a
<1>6. (a \o o) \o B = (g \o (b \o y)) \o l
  BY ONLY <1>4, <1>5, o \o B = y \o l
<1>7. QED
  BY ONLY <1>6 DEF a, StaysOwed

\* A read that is not refused.
LEMMA WhatIsServed ==
  ASSUME Inv, Books, NEW c \in Client, NEW fd \in Fd, conn[fd] = c, ~Refuses(fd),
         Deliver(c, Owed(fd))
  PROVE  /\ Executing(fd) \in Seq(Units(c) \cap Whole) /\ Executing(fd) = Answers(inbox[c])
         /\ SentNow(c, Owed(fd)) \in Seq(Units(c) \cap Plain)
         /\ Unsent(c, Owed(fd)) \in Seq(Units(c) \cap Plain)
         /\ outbox'[c] = outbox[c] \o SentNow(c, Owed(fd))
         /\ Len(outbox'[c]) <= SendRoom
         /\ DOMAIN outbox' = Client /\ \A d \in Client : d # c => outbox'[d] = outbox[d]
         /\ Answers(sent[c]) = Of(c) \o Executing(fd)
         /\ Answers(sent[c]) = (got[c] \o outbox'[c]) \o Unsent(c, Owed(fd))
<1>1. Typed(c) /\ Connected(c, fd)
  BY DEF Books, Account
<1> DEFINE owed == Owed(fd)
           x == Executing(fd)
           y == SentNow(c, owed)
           l == Unsent(c, owed)
           B == Answers(inbox[c])
           o == output[fd]
<1>2. owed \in Seq(Units(c) \cap Plain) /\ owed = o \o B /\ x = B
  BY <1>1, WhatIsOwed
<1>3. x \in Seq(Units(c) \cap Whole)
  BY <1>1, WhatIsExecuted
<1>4. /\ B \in Seq(Unit) /\ o \in Seq(Unit) /\ got[c] \in Seq(Unit) /\ outbox[c] \in Seq(Unit)
      /\ Of(c) = (got[c] \o outbox[c]) \o o
      /\ Answers(sent[c]) = Of(c) \o B
  BY <1>1, WhatWasAsked
<1>5. Deliver(c, owed) /\ Units(c) \cap Plain \subseteq Units(c)
  OBVIOUS
<1> HIDE DEF owed, x, B, o
<1>6. /\ y \in Seq(Units(c) \cap Plain) /\ l \in Seq(Units(c) \cap Plain) /\ owed = y \o l
      /\ outbox'[c] = outbox[c] \o y /\ Len(outbox'[c]) <= SendRoom
      /\ DOMAIN outbox' = Client /\ \A d \in Client : d # c => outbox'[d] = outbox[d]
  BY <1>2, <1>5, Delivers
<1> HIDE DEF y, l
<1>7. y \in Seq(Unit) /\ l \in Seq(Unit)
  BY <1>6, InUnit
<1>8. o \o B = y \o l
  BY ONLY <1>2, <1>6
<1>9. StaysOwed(got[c], outbox[c], o, B, y, l)
  BY ONLY <1>4, <1>7, <1>8, StillOwed
<1>10. Answers(sent[c]) = (got[c] \o outbox'[c]) \o l
  BY ONLY <1>4, <1>6, <1>9 DEF StaysOwed
<1>11. Answers(sent[c]) = Of(c) \o x
  BY ONLY <1>2, <1>4
<1>12. x = Answers(inbox[c])
  BY <1>2 DEF B
<1>13. QED
  BY ONLY <1>3, <1>6, <1>10, <1>11, <1>12 DEF owed, x, y, l

LEMMA ReadServesBooks ==
  ASSUME NEW e, Inv, Books, ReadServes(e)
  PROVE  Books'
<1> DEFINE fd == e.fd
           left == Unsent(conn[fd], Owed(fd))
           finished == peer[conn[fd]] \in {"half", "closed"}
<1>1. /\ Handled(e) /\ e.filter # "listen" /\ conn[fd] # Nobody /\ ~Refuses(fd)
      /\ inbox' = [inbox EXCEPT ![conn[fd]] = << >>]
      /\ executed' = executed \o Executing(fd)
      /\ peer' = peer /\ sent' = sent /\ got' = got
      /\ Deliver(conn[fd], Owed(fd))
  BY DEF ReadServes, Receive, peerVars
<1>2. \/ left = << >> /\ CloseClient(fd, "finished")
      \/ /\ input' = [input EXCEPT ![fd] = Unparsed(Received(fd))]
         /\ output' = [output EXCEPT ![fd] = left]
         /\ closing' = IF finished THEN closing \cup {fd} ELSE closing
         /\ conn' = conn /\ ended' = ended
  BY DEF ReadServes, CloseNow
<1>3. fd \in Fd
  BY <1>1, HandledShrinks
<1> HIDE DEF fd
<1>4. PICK c \in Client : conn[fd] = c
  BY <1>1, <1>3, AtADescriptor
<1>5. Typed(c) /\ Connected(c, fd) /\ DOMAIN inbox = Client
  BY <1>1, <1>3, <1>4, AtADescriptor
<1> DEFINE x == Executing(fd)
           y == SentNow(c, Owed(fd))
           l == Unsent(c, Owed(fd))
<1>6. /\ x \in Seq(Units(c) \cap Whole) /\ x = Answers(inbox[c])
      /\ y \in Seq(Units(c) \cap Plain) /\ l \in Seq(Units(c) \cap Plain)
      /\ outbox'[c] = outbox[c] \o y /\ Len(outbox'[c]) <= SendRoom
      /\ DOMAIN outbox' = Client /\ \A d \in Client : d # c => outbox'[d] = outbox[d]
      /\ Answers(sent[c]) = Of(c) \o x
      /\ Answers(sent[c]) = (got[c] \o outbox'[c]) \o l
  BY <1>1, <1>3, <1>4, WhatIsServed
<1>7. executed' = executed \o x /\ left = l
  BY <1>1, <1>4
<1>8. \E w \in Seq(Unit) : /\ \A i \in 1 .. Len(w) : w[i] \notin Whole
                           /\ Begins(x \o w, Answers(inbox[c]))
                           /\ Those(Owed(fd), Plain) = (output[fd] \o x) \o w
  BY <1>3, <1>4, <1>5, WhatIsOwed
<1>9. Owed(fd) \in Seq(Units(c)) /\ Deliver(c, Owed(fd)) /\ Units(c) \subseteq Units(c)
  BY <1>1, <1>3, <1>4, <1>5, WhatIsOwed
<1>10. Begins(y, Owed(fd))
  BY <1>9, Delivers
<1> HIDE DEF x, y, l, left
<1>11. AtKernel(c, x, y)
  BY <1>1, <1>4, <1>5, <1>6, <1>7 DEF AtKernel
<1>12. got[c] \in Seq(Plain) /\ outbox[c] \in Seq(Plain) /\ y \in Seq(Plain) /\ y \in Seq(Units(c)) /\ y \in Seq(Unit)
  BY <1>5, <1>6, InUnit DEF Connected
<1>13. outbox[c] \o y \in Seq(Plain)
  BY ONLY <1>12, ConcatProperties
<1>14. CASE left = << >> /\ CloseClient(fd, "finished")
  <2>1. got[c] \o outbox'[c] = Answers(sent[c])
    <3>1. got[c] \o (outbox[c] \o y) \in Seq(Plain)
      BY ONLY <1>12, <1>13, ConcatProperties
    <3>2. (got[c] \o (outbox[c] \o y)) \o << >> = got[c] \o (outbox[c] \o y)
      BY ONLY <3>1, ConcatEmptySeq
    <3>3. QED
      BY ONLY <1>6, <1>7, <1>14, <3>2
  <2>2. PICK w \in Seq(Unit) : /\ \A i \in 1 .. Len(w) : w[i] \notin Whole
                               /\ Begins(x \o w, Answers(inbox[c]))
                               /\ Those(Owed(fd), Plain) = (output[fd] \o x) \o w
    BY <1>8
  <2>3. Begins(Those(y, Plain), (output[fd] \o x) \o w)
    <3>1. Begins(Those(y, Plain), Those(Owed(fd), Plain))
      BY ONLY <1>10, <1>12, ThoseBegin
    <3>2. QED
      BY ONLY <2>2, <3>1
  <2>4. \E why \in {"finished"} : CloseClient(fd, why)
    BY <1>14
  <2>5. PICK why \in {"finished"} : CloseClient(fd, why)
    BY <2>4
  <2>6. why # ""
    OBVIOUS
  <2>7. QED
    BY ONLY Inv, Books, c \in Client, <1>3, <1>4, <1>6, <1>11, <1>12, <2>1, <2>2, <2>3, <2>5, <2>6, ClosesOne
<1>15. CASE /\ input' = [input EXCEPT ![fd] = Unparsed(Received(fd))]
            /\ output' = [output EXCEPT ![fd] = left]
            /\ closing' = IF finished THEN closing \cup {fd} ELSE closing
            /\ conn' = conn /\ ended' = ended
  <2>1. DOMAIN input = Fd /\ DOMAIN output = Fd
    BY DEF Inv, Shape
  <2>2. AtLoop(c, fd)
    BY <1>4, <1>15, <2>1 DEF AtLoop
  <2>3. Of(c)' = Of(c) \o x
    BY <1>3, <1>4, <1>6, <1>11, <2>2, TheOthers
  <2>4. input'[fd] \in Seq(Units(c) \cap Part)
    <3>1. Received(fd) \in Seq(Units(c) \cap Plain) /\ ~Malformed(Received(fd))
      BY <1>1, <1>3, <1>4, <1>5, WhatIsReceived DEF Refuses
    <3>2. Unparsed(Received(fd)) \in Seq((Units(c) \cap Plain) \cap Part)
      BY <3>1, OnlyPartsStay
    <3>3. (Units(c) \cap Plain) \cap Part = Units(c) \cap Part
      BY UnitsAreUnit
    <3>4. input'[fd] = Unparsed(Received(fd))
      BY <1>3, <1>15, <2>1
    <3>5. QED
      BY <3>2, <3>3, <3>4
  <2>5. output'[fd] = l /\ inbox'[c] = << >> /\ got'[c] = got[c] /\ sent'[c] = sent[c]
    BY <1>1, <1>3, <1>4, <1>5, <1>7, <1>15, <2>1
  <2>6. \E p \in Seq(Units(c) \cap Plain) : /\ sent'[c] = p \o inbox'[c] /\ ~Malformed(p)
                                            /\ Answers(p) = Of(c)'
    <3>1. sent[c] \in Seq(Units(c) \cap Plain)
      BY <1>5 DEF Typed
    <3>2. sent[c] = sent[c] \o << >>
      BY ONLY <3>1, ConcatEmptySeq
    <3>3. ~Malformed(sent[c])
      <4>1. PICK p \in Seq(Units(c) \cap Plain) : sent[c] = p \o inbox[c] /\ ~Malformed(p)
        BY <1>5 DEF Connected
      <4>2. ~Malformed(inbox[c])
        BY <1>1, <1>3, <1>4, <1>5, WhatIsReceived DEF Refuses
      <4>3. p \in Seq(Unit) /\ inbox[c] \in Seq(Unit)
        BY <1>5, InUnit DEF Typed
      <4>4. QED
        BY <4>1, <4>2, <4>3, MalformedConcat
    <3>4. Answers(sent[c]) = Of(c)'
      BY ONLY <1>6, <2>3
    <3>5. QED
      BY ONLY <2>5, <3>1, <3>2, <3>3, <3>4
  <2>7. Of(c)' = (got'[c] \o outbox'[c]) \o output'[fd]
    BY ONLY <1>6, <2>3, <2>5
  <2>8. fd \in closing' => inbox'[c] = << >> /\ peer'[c] \in {"half", "closed", "reset"}
    BY <1>1, <1>4, <1>5, <1>15, <2>5 DEF Connected
  <2>9. got'[c] \in Seq(Plain) /\ outbox'[c] \in Seq(Plain) /\ output'[fd] \in Seq(Units(c) \cap Plain)
    BY ONLY <1>6, <1>12, <1>13, <2>5
  <2>10. Connected(c, fd)'
    BY ONLY <2>4, <2>6, <2>7, <2>8, <2>9 DEF Connected
  <2>11. Typed(c)'
    <3>1. outbox[c] \in Seq(Units(c)) /\ got[c] \in Seq(Units(c)) /\ sent[c] \in Seq(Units(c) \cap Plain)
      BY <1>5 DEF Typed
    <3>2. outbox[c] \o y \in Seq(Units(c))
      BY ONLY <1>12, <3>1, ConcatProperties
    <3>3. << >> \in Seq(Units(c) \cap Plain)
      BY EmptySeq
    <3>4. QED
      BY ONLY <1>6, <2>5, <3>1, <3>2, <3>3 DEF Typed
  <2>12. conn' = conn /\ ended' = ended
    BY <1>15
  <2>13. QED
    BY ONLY Inv, Books, c \in Client, <1>3, <1>4, <1>6, <1>11, <2>2, <2>10, <2>11, <2>12, StaysOne
<1>16. QED
  BY <1>2, <1>14, <1>15

LEMMA WhatIsWritten ==
  ASSUME Inv, Books, NEW c \in Client, NEW fd \in Fd, conn[fd] = c, Deliver(c, output[fd])
  PROVE  /\ SentNow(c, output[fd]) \in Seq(Units(c) \cap Plain)
         /\ Unsent(c, output[fd]) \in Seq(Units(c) \cap Plain)
         /\ outbox'[c] = outbox[c] \o SentNow(c, output[fd])
         /\ Len(outbox'[c]) <= SendRoom
         /\ DOMAIN outbox' = Client /\ \A d \in Client : d # c => outbox'[d] = outbox[d]
         /\ Of(c) = (got[c] \o outbox'[c]) \o Unsent(c, output[fd])
         /\ Begins(Those(SentNow(c, output[fd]), Plain), (output[fd] \o << >>) \o << >>)
<1> DEFINE o == output[fd]
           y == SentNow(c, o)
           l == Unsent(c, o)
<1>1. Typed(c) /\ Connected(c, fd)
  BY DEF Books, Account
<1>2. o \in Seq(Units(c) \cap Plain) /\ Deliver(c, o) /\ Units(c) \cap Plain \subseteq Units(c)
  BY <1>1 DEF Connected
<1>3. /\ o \in Seq(Unit) /\ got[c] \in Seq(Unit) /\ outbox[c] \in Seq(Unit)
      /\ Of(c) = (got[c] \o outbox[c]) \o o
  BY <1>1, WhatWasAsked
<1> HIDE DEF o
<1>4. /\ y \in Seq(Units(c) \cap Plain) /\ l \in Seq(Units(c) \cap Plain) /\ o = y \o l
      /\ Begins(y, o)
      /\ outbox'[c] = outbox[c] \o y /\ Len(outbox'[c]) <= SendRoom
      /\ DOMAIN outbox' = Client /\ \A d \in Client : d # c => outbox'[d] = outbox[d]
  BY SMTT(30), <1>2, Delivers
<1> HIDE DEF y, l
<1>5. y \in Seq(Unit) /\ l \in Seq(Unit) /\ y \in Seq(Plain)
  BY <1>4, InUnit
<1>6. << >> \in Seq(Unit) /\ o \o << >> = o
  BY ONLY <1>3, ConcatEmptySeq, EmptySeq
<1>7. Moves(got[c], outbox[c], y, l)
  BY ONLY <1>3, <1>5, Moving
<1>8. Of(c) = (got[c] \o outbox'[c]) \o l
  BY ONLY <1>3, <1>4, <1>7 DEF Moves
<1>9. Begins(Those(y, Plain), (o \o << >>) \o << >>)
  <2>1. Those(y, Plain) = y
    BY ONLY <1>5, ThoseAll
  <2>2. QED
    BY ONLY <1>4, <1>6, <2>1
<1>10. QED
  BY ONLY <1>4, <1>8, <1>9 DEF o, y, l

LEMMA WriteSendsBooks ==
  ASSUME NEW e, Inv, Books, WriteSends(e)
  PROVE  Books'
<1> DEFINE fd == e.fd
           left == Unsent(conn[fd], output[fd])
<1>1. /\ Handled(e) /\ e.filter # "listen" /\ conn[fd] # Nobody
      /\ inbox' = inbox /\ executed' = executed
      /\ peer' = peer /\ sent' = sent /\ got' = got
      /\ Deliver(conn[fd], output[fd])
  BY DEF WriteSends, peerVars
<1>2. \/ left = << >> /\ fd \in closing /\ CloseClient(fd, "finished")
      \/ /\ output' = [output EXCEPT ![fd] = left]
         /\ input' = input /\ closing' = closing /\ conn' = conn /\ ended' = ended
  BY DEF WriteSends, CloseNow
<1>3. fd \in Fd
  BY <1>1, HandledShrinks
<1> HIDE DEF fd
<1>4. PICK c \in Client : conn[fd] = c
  BY <1>1, <1>3, AtADescriptor
<1>5. Typed(c) /\ Connected(c, fd) /\ DOMAIN inbox = Client
  BY <1>1, <1>3, <1>4, AtADescriptor
<1> DEFINE y == SentNow(c, output[fd])
           l == Unsent(c, output[fd])
<1>6. /\ y \in Seq(Units(c) \cap Plain) /\ l \in Seq(Units(c) \cap Plain)
      /\ outbox'[c] = outbox[c] \o y /\ Len(outbox'[c]) <= SendRoom
      /\ DOMAIN outbox' = Client /\ \A d \in Client : d # c => outbox'[d] = outbox[d]
      /\ Of(c) = (got[c] \o outbox'[c]) \o l
      /\ Begins(Those(y, Plain), (output[fd] \o << >>) \o << >>)
  BY <1>1, <1>3, <1>4, WhatIsWritten
<1>7. << >> \in Seq(Units(c) \cap Whole) /\ executed \o << >> = executed
  BY NothingExecuted
<1>8. left = l
  BY <1>4
<1> HIDE DEF y, l, left
<1>9. AtKernel(c, << >>, y)
  BY <1>1, <1>4, <1>5, <1>6, <1>7 DEF AtKernel
<1>10. got[c] \in Seq(Plain) /\ outbox[c] \in Seq(Plain) /\ y \in Seq(Plain) /\ y \in Seq(Units(c)) /\ y \in Seq(Unit)
  BY <1>5, <1>6, InUnit DEF Connected
<1>11. outbox[c] \o y \in Seq(Plain)
  BY ONLY <1>10, ConcatProperties
<1>12. CASE left = << >> /\ fd \in closing /\ CloseClient(fd, "finished")
  <2>1. Answers(inbox[c]) = << >>
    BY <1>5, <1>12, NothingParsed DEF Connected
  <2>2. got[c] \o outbox'[c] = Answers(sent[c])
    <3>1. Answers(sent[c]) = Of(c) \o << >>
      BY ONLY <1>5, <2>1, c \in Client, fd \in Fd, <1>3, WhatWasAsked
    <3>2. got[c] \o (outbox[c] \o y) \in Seq(Plain)
      BY ONLY <1>10, <1>11, ConcatProperties
    <3>3. (got[c] \o (outbox[c] \o y)) \o << >> = got[c] \o (outbox[c] \o y)
      BY ONLY <3>2, ConcatEmptySeq
    <3>4. QED
      BY ONLY <1>6, <1>8, <1>12, <3>1, <3>3
  <2>3. << >> \in Seq(Unit) /\ << >> \o << >> = << >> /\ 1 .. Len(<< >>) = {}
    BY ONLY ConcatEmptySeq, EmptySeq
  <2>4. Begins(<< >> \o << >>, Answers(inbox[c]))
    BY ONLY <2>1, <2>3, BeginsItself
  <2>5. \A i \in 1 .. Len(<< >>) : << >>[i] \notin Whole
    BY ONLY <2>3
  <2>6. \E why \in {"finished"} : CloseClient(fd, why)
    BY <1>12
  <2>7. PICK why \in {"finished"} : CloseClient(fd, why)
    BY <2>6
  <2>8. why # ""
    OBVIOUS
  <2>9. QED
    BY ONLY Inv, Books, c \in Client, <1>3, <1>4, <1>6, <1>7, <1>9, <1>10, <2>2, <2>3, <2>4, <2>5, <2>7, <2>8, ClosesOne
<1>13. CASE /\ output' = [output EXCEPT ![fd] = left]
            /\ input' = input /\ closing' = closing /\ conn' = conn /\ ended' = ended
  <2>1. DOMAIN output = Fd
    BY DEF Inv, Shape
  <2>2. AtLoop(c, fd)
    BY <1>4, <1>13, <2>1 DEF AtLoop
  <2>3. Of(c)' = Of(c)
    BY <1>1 DEF Of
  <2>4. /\ input'[fd] = input[fd] /\ output'[fd] = l /\ inbox'[c] = inbox[c]
        /\ got'[c] = got[c] /\ sent'[c] = sent[c] /\ peer'[c] = peer[c]
    BY <1>1, <1>3, <1>8, <1>13, <2>1
  <2>5. /\ input'[fd] \in Seq(Units(c) \cap Part)
        /\ \E p \in Seq(Units(c) \cap Plain) : /\ sent'[c] = p \o inbox'[c] /\ ~Malformed(p)
                                               /\ Answers(p) = Of(c)'
    BY ONLY <1>5, <2>3, <2>4 DEF Connected
  <2>6. Of(c)' = (got'[c] \o outbox'[c]) \o output'[fd]
    BY ONLY <1>6, <2>3, <2>4
  <2>7. fd \in closing' => inbox'[c] = << >> /\ peer'[c] \in {"half", "closed", "reset"}
    BY ONLY <1>5, <1>13, <2>4 DEF Connected
  <2>8. got'[c] \in Seq(Plain) /\ outbox'[c] \in Seq(Plain) /\ output'[fd] \in Seq(Units(c) \cap Plain)
    BY ONLY <1>6, <1>10, <1>11, <2>4
  <2>9. Connected(c, fd)'
    BY ONLY <2>5, <2>6, <2>7, <2>8 DEF Connected
  <2>10. Typed(c)'
    <3>1. /\ outbox[c] \in Seq(Units(c)) /\ got[c] \in Seq(Units(c))
          /\ sent[c] \in Seq(Units(c) \cap Plain) /\ inbox[c] \in Seq(Units(c) \cap Plain)
      BY <1>5 DEF Typed
    <3>2. outbox[c] \o y \in Seq(Units(c))
      BY ONLY <1>10, <3>1, ConcatProperties
    <3>3. QED
      BY ONLY <1>6, <2>4, <3>1, <3>2 DEF Typed
  <2>11. conn' = conn /\ ended' = ended
    BY <1>13
  <2>12. QED
    BY ONLY Inv, Books, c \in Client, <1>3, <1>4, <1>7, <1>9, <2>2, <2>9, <2>10, <2>11, StaysOne
<1>14. QED
  BY <1>2, <1>12, <1>13

-----------------------------------------------------------------------------
(* The other steps *)

LEMMA NobodyTouched ==
  ASSUME Books, Domains', \A c \in Client : Untouched(c)
  PROVE  Books'
<1>1. \A c \in Client : Account(c)'
  BY Elsewhere DEF Books
<1>2. QED
  BY <1>1 DEF Books

\* A step that touches no connection and no buffer.
LEMMA QuietBooks ==
  ASSUME Books, UNCHANGED <<sent, got, inbox, outbox, executed, loopVars>>,
         \A c \in Client : peer[c] \in {"half", "closed", "reset"}
                           => peer'[c] \in {"half", "closed", "reset"}
  PROVE  Books'
<1>1. /\ sent' = sent /\ got' = got /\ inbox' = inbox /\ outbox' = outbox /\ executed' = executed
      /\ conn' = conn /\ input' = input /\ output' = output /\ closing' = closing /\ ended' = ended
  BY DEF loopVars
<1>2. Domains'
  BY <1>1 DEF Books, Domains
<1>3. ASSUME NEW c \in Client
      PROVE  Untouched(c)
  <2>1. Of(c)' = Of(c)
    BY <1>1 DEF Of
  <2>2. QED
    BY <1>1, <2>1 DEF Untouched
<1>4. QED
  BY <1>2, <1>3, NobodyTouched

LEMMA StaleEventBooks ==
  ASSUME NEW e, Inv, Books, StaleEvent(e)
  PROVE  Books'
<1> DEFINE fd == e.fd
<1>1. /\ Handled(e) /\ e.filter # "listen" /\ conn[fd] = Nobody /\ CloseClient(fd, "")
      /\ peer' = peer /\ sent' = sent /\ got' = got /\ inbox' = inbox /\ outbox' = outbox
      /\ executed' = executed
  BY DEF StaleEvent, peerVars
<1>2. fd \in Fd
  BY <1>1, HandledShrinks
<1> HIDE DEF fd
<1>3. Domains'
  BY <1>1 DEF Books, Domains
<1>4. /\ \A f \in Fd : f # fd => conn'[f] = conn[f] /\ input'[f] = input[f] /\ output'[f] = output[f]
      /\ conn'[fd] = Nobody /\ closing' = closing \ {fd}
      /\ \A c \in Client : c # Nobody => ended'[c] = ended[c]
  BY <1>1, <1>2 DEF CloseClient, Inv, Shape
<1>5. ASSUME NEW c \in Client
      PROVE  Untouched(c)
  <2>1. Of(c)' = Of(c) /\ c # Nobody
    BY <1>1, EventLoopAssumption DEF Of
  <2>2. QED
    BY <1>1, <1>2, <1>4, <2>1 DEF Untouched
<1>6. QED
  BY <1>3, <1>5, NobodyTouched

LEMMA EndsBooks ==
  ASSUME Inv, Books, ShutDown \/ WaitFails
  PROVE  Books'
<1>1. /\ ProcessEnds("stopped")
      /\ peer' = peer /\ sent' = sent /\ got' = got /\ inbox' = inbox /\ outbox' = outbox
      /\ executed' = executed
  BY DEF ShutDown, WaitFails, peerVars
<1>2. Domains' /\ Range(executed) \subseteq Range(executed')
  BY <1>1 DEF Books, Domains
<1>3. \A c \in Client : Of(c)' = Of(c)
  BY <1>1 DEF Of
<1>4. QED
  BY <1>1, <1>2, <1>3, ProcessEndsBooks

\* A descriptor is given to a client that has only sent.
LEMMA AcceptClientsBooks ==
  ASSUME NEW e, Inv, Books, AcceptClients(e)
  PROVE  Books'
<1> DEFINE free == {fd \in Fd : conn[fd] = Nobody}
           Accepted(n, new, kept, at) ==
        /\ conn' = [fd \in Fd |-> IF fd \in new THEN backlog[at[fd]] ELSE conn[fd]]
        /\ input' = [fd \in Fd |-> IF fd \in new THEN << >> ELSE input[fd]]
        /\ output' = [fd \in Fd |-> IF fd \in new THEN << >> ELSE output[fd]]
        /\ ended' = [c \in Client |->
                       IF \E i \in (1 .. n) \ kept : backlog[i] = c THEN "refused" ELSE ended[c]]
<1> HIDE DEF Accepted
<1>1. \E n \in 0 .. Len(backlog), new \in SUBSET free :
        \E kept \in SUBSET (1 .. n) : \E at \in Bijection(new, kept) : Accepted(n, new, kept, at)
  BY DEF AcceptClients, Accepted
<1>2. PICK n \in 0 .. Len(backlog), new \in SUBSET free :
         \E kept \in SUBSET (1 .. n) : \E at \in Bijection(new, kept) : Accepted(n, new, kept, at)
  BY <1>1
<1>3. PICK kept \in SUBSET (1 .. n) : \E at \in Bijection(new, kept) : Accepted(n, new, kept, at)
  BY <1>2
<1>4. PICK at \in Bijection(new, kept) : Accepted(n, new, kept, at)
  BY <1>3
<1>5. /\ peer' = peer /\ sent' = sent /\ got' = got /\ inbox' = inbox /\ outbox' = outbox
      /\ executed' = executed /\ closing' = closing
  BY DEF AcceptClients, peerVars
<1>6. \A f \in Fd : /\ conn'[f] = IF f \in new THEN backlog[at[f]] ELSE conn[f]
                    /\ input'[f] = IF f \in new THEN << >> ELSE input[f]
                    /\ output'[f] = IF f \in new THEN << >> ELSE output[f]
  BY <1>4 DEF Accepted
<1>7. /\ Len(backlog) \in Nat /\ n \in Nat /\ n <= Len(backlog)
      /\ \A f \in new : at[f] \in 1 .. n
  <2>1. at \in [new -> kept]
    BY DEF Bijection, Injection
  <2>2. \A f \in new : at[f] \in kept
    BY ONLY <2>1
  <2>3. \A f \in new : at[f] \in 1 .. n
    BY ONLY <2>2, kept \in SUBSET (1 .. n)
  <2>4. Len(backlog) \in Nat
    BY LenProperties DEF Inv, Shape
  <2>5. n \in Nat /\ n <= Len(backlog)
    BY ONLY <2>4, n \in 0 .. Len(backlog)
  <2>6. QED
    BY ONLY <2>3, <2>4, <2>5
<1>8. \A f \in new : conn[f] = Nobody /\ \E i \in 1 .. Len(backlog) : conn'[f] = backlog[i]
  BY <1>6, <1>7
<1>9. \A c \in Client : ended'[c] # ended[c] =>
        ended'[c] = "refused" /\ \E i \in 1 .. Len(backlog) : backlog[i] = c
  BY <1>4, <1>7 DEF Accepted
<1>10. OnePlaceEach /\ OnePlaceEach'
  BY AcceptClientsInv DEF Inv
<1>11. Domains'
  BY <1>5 DEF Books, Domains
<1> SUFFICES ASSUME NEW c \in Client
             PROVE  Account(c)'
  BY <1>11 DEF Books
<1>12. Account(c) /\ c # Nobody /\ Of(c)' = Of(c)
  BY <1>5, EventLoopAssumption DEF Books, Of
<1>13. (\E i \in 1 .. Len(backlog) : backlog[i] = c) => Fresh(c)
  <2>1. ASSUME NEW i \in 1 .. Len(backlog), backlog[i] = c
        PROVE  ended[c] = "" /\ \A f \in Fd : conn[f] # c
    <3>1. ended[c] = ""
      BY ONLY <1>10, <2>1, c \in Client DEF OnePlaceEach
    <3>2. \A f \in Fd : conn[f] # c
      BY ONLY <1>10, <2>1 DEF OnePlaceEach
    <3>3. QED
      BY ONLY <3>1, <3>2
  <2>2. QED
    BY <1>12, <2>1 DEF Account
<1>14. CASE \E f \in new : conn'[f] = c
  <2>1. PICK f \in new : conn'[f] = c
    BY <1>14
  <2>2. f \in Fd /\ conn[f] = Nobody /\ Fresh(c)
    BY <1>8, <1>13, <2>1
  <2>3. ended'[c] = "" /\ \A g \in Fd : conn'[g] = c => g = f
    BY <1>10, <1>12, <2>1, <2>2 DEF OnePlaceEach
  <2>4. input'[f] = << >> /\ output'[f] = << >> /\ f \notin closing'
    BY <1>5, <1>6, <2>1, <2>2 DEF Inv, NothingLeftBehind
  <2>5. Typed(c) /\ Typed(c)'
    BY <1>5, <1>12 DEF Account, Typed
  <2>6. Connected(c, f)'
    <3>1. /\ got'[c] = << >> /\ outbox'[c] = << >> /\ Of(c)' = << >>
          /\ inbox'[c] = sent'[c]
      BY <1>5, <1>12, <2>2 DEF Fresh
    <3>2. \A X : << >> \in Seq(X)
      BY EmptySeq
    <3>3. << >> \o << >> = << >>
      BY ConcatEmptySeq, EmptySeq
    <3>4. \E p \in Seq(Units(c) \cap Plain) : /\ sent'[c] = p \o inbox'[c] /\ ~Malformed(p)
                                              /\ Answers(p) = Of(c)'
      <4>1. sent'[c] \in Seq(Units(c) \cap Plain)
        BY <2>5 DEF Typed
      <4>2. sent'[c] = << >> \o sent'[c]
        BY ONLY <4>1, ConcatEmptySeq
      <4>3. ~Malformed(<< >>) /\ Answers(<< >>) = << >>
        BY MalformedEmpty, NothingParsed
      <4>4. QED
        BY ONLY <3>1, <3>2, <4>2, <4>3
    <3>5. Of(c)' = (got'[c] \o outbox'[c]) \o output'[f]
      BY ONLY <2>4, <3>1, <3>3
    <3>6. QED
      BY ONLY <2>4, <3>1, <3>2, <3>4, <3>5 DEF Connected
  <2>7. QED
    BY ONLY <2>1, <2>2, <2>3, <2>5, <2>6 DEF Account
<1>15. CASE ~\E f \in new : conn'[f] = c
  <2>1. CASE ended'[c] # ended[c]
    <3>1. Fresh(c) /\ ended'[c] = "refused"
      BY <1>9, <1>13, <2>1
    <3>2. \A f \in Fd : conn'[f] # c
      BY <1>10, <3>1 DEF OnePlaceEach
    <3>3. QED
      BY <1>5, <1>12, <3>1, <3>2, RefusedUnheard
  <2>2. CASE ended'[c] = ended[c]
    <3>1. \A f \in Fd : conn'[f] = c <=> conn[f] = c
      BY <1>6, <1>8, <1>12, <1>15
    <3>2. \A f \in Fd : conn[f] = c => input'[f] = input[f] /\ output'[f] = output[f]
      BY <1>6, <1>8, <1>12
    <3>3. Untouched(c)
      BY <1>5, <1>12, <2>2, <3>1, <3>2 DEF Untouched
    <3>4. QED
      BY <1>12, <3>3, Elsewhere
  <2>3. QED
    BY <2>1, <2>2
<1>16. QED
  BY <1>14, <1>15

\* One client sends or reads: nothing of the others changes.
LEMMA OneActs ==
  ASSUME Books, NEW c \in Client,
         UNCHANGED <<peer, executed, loopVars>>,
         \A d \in Client : d # c => /\ sent'[d] = sent[d] /\ got'[d] = got[d]
                                    /\ inbox'[d] = inbox[d] /\ outbox'[d] = outbox[d],
         DOMAIN sent' = Client, DOMAIN got' = Client, DOMAIN inbox' = Client, DOMAIN outbox' = Client,
         Account(c)'
  PROVE  Books'
<1>1. /\ peer' = peer /\ executed' = executed
      /\ conn' = conn /\ input' = input /\ output' = output /\ closing' = closing /\ ended' = ended
  BY DEF loopVars
<1>2. Domains'
  BY <1>1 DEF Books, Domains
<1>3. ASSUME NEW d \in Client, d # c
      PROVE  Account(d)'
  <2>1. Of(d)' = Of(d)
    BY <1>1 DEF Of
  <2>2. Untouched(d)
    BY <1>1, <1>3, <2>1 DEF Untouched
  <2>3. QED
    BY <2>2, Elsewhere DEF Books
<1>4. QED
  BY <1>2, <1>3 DEF Books

LEMMA SendBooks ==
  ASSUME NEW c \in Client, NEW kind \in Kind, Inv, Books, Send(c, kind)
  PROVE  Books'
<1> DEFINE u == [from |-> c, n |-> Len(sent[c]) + 1, kind |-> kind]
<1>1. /\ peer[c] = "open" /\ ended[c] = "" /\ Len(sent[c]) < MaxSent
      /\ sent' = [sent EXCEPT ![c] = Append(@, u)]
      /\ inbox' = [inbox EXCEPT ![c] = Append(@, u)]
      /\ UNCHANGED <<peer, got, outbox, executed, loopVars>>
  BY DEF Send
<1>2. Domains /\ Account(c) /\ Typed(c)
  BY DEF Books, Account
<1>3. /\ DOMAIN sent = Client /\ DOMAIN inbox = Client /\ DOMAIN got = Client /\ DOMAIN outbox = Client
      /\ sent[c] \in Seq(Units(c) \cap Plain) /\ inbox[c] \in Seq(Units(c) \cap Plain)
  BY <1>2 DEF Domains, Typed
<1>4. u \in Units(c) \cap Plain
  <2>1. Len(sent[c]) \in Nat
    BY <1>3, LenProperties
  <2>2. kind \in {"part", "end", "bad"} /\ MaxSent \in Nat
    BY EventLoopAssumption
  <2>3. u \in Units(c)
    <3>1. Len(sent[c]) + 1 \in 0 .. MaxSent
      <4>1. Len(sent[c]) < MaxSent
        BY <1>1
      <4>2. QED
        BY ONLY <2>1, <2>2, <4>1
    <3>2. kind \in {"part", "end", "bad", "large"}
      BY ONLY <2>2
    <3> DEFINE n == Len(sent[c]) + 1
    <3> HIDE DEF n
    <3>3. [from |-> c, n |-> n, kind |-> kind] \in Units(c)
      BY ONLY <3>1, <3>2 DEF Units, n
    <3>4. QED
      BY ONLY <3>3 DEF n, u
  <2>4. u \in Unit
    BY <2>3, UnitsAreUnit
  <2>5. u.kind = kind
    OBVIOUS
  <2>6. QED
    BY <2>2, <2>3, <2>4, <2>5 DEF Plain
<1> HIDE DEF u
<1>5. /\ sent'[c] = Append(sent[c], u) /\ inbox'[c] = Append(inbox[c], u)
      /\ got'[c] = got[c] /\ outbox'[c] = outbox[c]
      /\ \A d \in Client : d # c => /\ sent'[d] = sent[d] /\ got'[d] = got[d]
                                    /\ inbox'[d] = inbox[d] /\ outbox'[d] = outbox[d]
      /\ DOMAIN sent' = Client /\ DOMAIN got' = Client /\ DOMAIN inbox' = Client /\ DOMAIN outbox' = Client
  BY <1>1, <1>3
<1>6. /\ peer' = peer /\ executed' = executed
      /\ conn' = conn /\ input' = input /\ output' = output /\ closing' = closing /\ ended' = ended
  BY <1>1 DEF loopVars
<1>7. Typed(c)'
  <2>1. Append(sent[c], u) \in Seq(Units(c) \cap Plain) /\ Append(inbox[c], u) \in Seq(Units(c) \cap Plain)
    BY ONLY <1>3, <1>4, AppendProperties
  <2>2. QED
    BY ONLY <1>2, <1>5, <2>1 DEF Typed
<1>8. Of(c)' = Of(c)
  BY <1>6 DEF Of
<1>9. Fresh(c) => Fresh(c)'
  <2>1. SUFFICES ASSUME Fresh(c)
                 PROVE  Fresh(c)'
    OBVIOUS
  <2>2. QED
    BY ONLY Fresh(c), <1>5, <1>8 DEF Fresh
<1>10. ASSUME NEW fd \in Fd, conn[fd] = c
       PROVE  Connected(c, fd)'
  <2>1. Connected(c, fd)
    BY <1>2, <1>10 DEF Account
  <2>2. PICK p \in Seq(Units(c) \cap Plain) : /\ sent[c] = p \o inbox[c] /\ ~Malformed(p)
                                               /\ Answers(p) = Of(c)
    BY <2>1 DEF Connected
  <2>3. Append(p \o inbox[c], u) = p \o Append(inbox[c], u)
    <3>1. \A s, t \in Seq(Unit), x \in Unit : s \o Append(t, x) = Append(s \o t, x)
      BY AppendConcat
    <3>2. p \in Seq(Unit) /\ inbox[c] \in Seq(Unit) /\ u \in Unit
      BY <1>3, <1>4, InUnit DEF Plain
    <3>3. QED
      BY ONLY <3>1, <3>2
  <2>4. sent'[c] = p \o inbox'[c]
    BY ONLY <1>5, <2>2, <2>3
  <2>5. fd \notin closing'
    BY <1>1, <1>6, <2>1 DEF Connected
  <2>6. /\ input'[fd] = input[fd] /\ output'[fd] = output[fd]
        /\ got'[c] = got[c] /\ outbox'[c] = outbox[c]
    BY ONLY <1>5, <1>6
  <2>7. \E q \in Seq(Units(c) \cap Plain) : /\ sent'[c] = q \o inbox'[c] /\ ~Malformed(q)
                                            /\ Answers(q) = Of(c)'
    BY ONLY <1>8, <2>2, <2>4, p \in Seq(Units(c) \cap Plain)
  <2>8. QED
    BY ONLY <1>8, <2>1, <2>5, <2>6, <2>7 DEF Connected
<1>11. Account(c)'
  BY ONLY <1>1, <1>2, <1>6, <1>7, <1>9, <1>10 DEF Account
<1>12. QED
  BY ONLY Books, c \in Client, <1>1, <1>5, <1>11, OneActs

Reads(g, b) == Append(g, Head(b)) \o Tail(b) = g \o b

LEMMA ReadsInOrder ==
  ASSUME NEW g \in Seq(Unit), NEW b \in Seq(Unit), b # << >>
  PROVE  Reads(g, b)
<1> DEFINE h == <<Head(b)>>
           t == Tail(b)
<1>1. Head(b) \in Unit /\ t \in Seq(Unit)
  BY HeadTailProperties
<1>2. h \in Seq(Unit) /\ h \o t = b
  <2>1. h \in Seq(Unit)
    BY <1>1
  <2>2. h \o t = b
    OBVIOUS
  <2>3. QED
    BY <2>1, <2>2
<1>3. Append(g, Head(b)) = g \o h
  BY <1>1, AppendIsConcat
<1> HIDE DEF h, t
<1>4. Assoc(g, h, t)
  BY <1>1, <1>2, Associative
<1>5. Append(g, Head(b)) \o t = g \o b
  BY ONLY <1>2, <1>3, <1>4 DEF Assoc
<1>6. QED
  BY ONLY <1>5 DEF Reads, t

LEMMA ReadReplyBooks ==
  ASSUME NEW c \in Client, Inv, Books, ReadReply(c)
  PROVE  Books'
<1>1. /\ outbox[c] # << >>
      /\ got' = [got EXCEPT ![c] = Append(@, Head(outbox[c]))]
      /\ outbox' = [outbox EXCEPT ![c] = Tail(@)]
      /\ UNCHANGED <<peer, sent, inbox, executed, loopVars>>
  BY DEF ReadReply
<1>2. Domains /\ Account(c) /\ Typed(c)
  BY DEF Books, Account
<1>3. /\ DOMAIN sent = Client /\ DOMAIN inbox = Client /\ DOMAIN got = Client /\ DOMAIN outbox = Client
      /\ got[c] \in Seq(Units(c)) /\ outbox[c] \in Seq(Units(c)) /\ Len(outbox[c]) <= SendRoom
      /\ got[c] \in Seq(Unit) /\ outbox[c] \in Seq(Unit)
  BY <1>2, InUnit DEF Domains, Typed
<1>4. /\ got'[c] = Append(got[c], Head(outbox[c])) /\ outbox'[c] = Tail(outbox[c])
      /\ sent'[c] = sent[c] /\ inbox'[c] = inbox[c]
      /\ \A d \in Client : d # c => /\ sent'[d] = sent[d] /\ got'[d] = got[d]
                                    /\ inbox'[d] = inbox[d] /\ outbox'[d] = outbox[d]
      /\ DOMAIN sent' = Client /\ DOMAIN got' = Client /\ DOMAIN inbox' = Client /\ DOMAIN outbox' = Client
  BY <1>1, <1>3
<1>5. /\ peer' = peer /\ executed' = executed
      /\ conn' = conn /\ input' = input /\ output' = output /\ closing' = closing /\ ended' = ended
  BY <1>1 DEF loopVars
<1>6. \A X : got[c] \in Seq(X) /\ outbox[c] \in Seq(X) => got'[c] \in Seq(X) /\ outbox'[c] \in Seq(X)
  <2>1. ASSUME NEW X, got[c] \in Seq(X), outbox[c] \in Seq(X)
        PROVE  Append(got[c], Head(outbox[c])) \in Seq(X) /\ Tail(outbox[c]) \in Seq(X)
    <3>1. Head(outbox[c]) \in X /\ Tail(outbox[c]) \in Seq(X)
      BY ONLY <1>1, <2>1, HeadTailProperties
    <3>2. QED
      BY ONLY <2>1, <3>1, AppendProperties
  <2>2. QED
    BY ONLY <1>4, <2>1
<1>7. got'[c] \o outbox'[c] = got[c] \o outbox[c]
  <2>1. Reads(got[c], outbox[c])
    BY ONLY <1>1, <1>3, ReadsInOrder
  <2>2. QED
    BY ONLY <1>4, <2>1 DEF Reads
<1>8. Typed(c)'
  <2>1. Len(outbox'[c]) <= SendRoom
    <3>1. Len(Tail(outbox[c])) = Len(outbox[c]) - 1 /\ Len(outbox[c]) \in Nat
      BY ONLY <1>1, <1>3, HeadTailProperties, LenProperties
    <3>2. SendRoom \in Int
      BY EventLoopAssumption
    <3>3. QED
      BY ONLY <1>3, <1>4, <3>1, <3>2
  <2>2. got'[c] \in Seq(Units(c)) /\ outbox'[c] \in Seq(Units(c))
    BY ONLY <1>3, <1>6
  <2>3. QED
    BY ONLY <1>2, <1>4, <2>1, <2>2 DEF Typed
<1>9. Of(c)' = Of(c) /\ Replies(c)' = Replies(c)
  BY <1>5, <1>7 DEF Of, Replies
<1>10. ~Fresh(c)
  BY <1>1 DEF Fresh
<1>11. ASSUME NEW fd \in Fd, conn[fd] = c
       PROVE  Connected(c, fd)'
  <2>1. Connected(c, fd)
    BY <1>2, <1>11 DEF Account
  <2>2. \E p \in Seq(Units(c) \cap Plain) : /\ sent'[c] = p \o inbox'[c] /\ ~Malformed(p)
                                            /\ Answers(p) = Of(c)'
    BY ONLY <1>4, <1>9, <2>1 DEF Connected
  <2>3. got'[c] \in Seq(Plain) /\ outbox'[c] \in Seq(Plain)
    BY ONLY <1>6, <2>1 DEF Connected
  <2>4. Of(c)' = (got'[c] \o outbox'[c]) \o output'[fd]
    BY ONLY <1>5, <1>7, <1>9, <2>1 DEF Connected
  <2>5. QED
    BY ONLY <1>4, <1>5, <2>1, <2>2, <2>3, <2>4 DEF Connected
<1>12. Gone(c) => Gone(c)'
  BY ONLY <1>4, <1>5, <1>7, <1>9 DEF Gone
<1>13. Account(c)'
  BY ONLY <1>2, <1>5, <1>8, <1>10, <1>11, <1>12 DEF Account
<1>14. QED
  BY ONLY Books, c \in Client, <1>1, <1>4, <1>13, OneActs

-----------------------------------------------------------------------------
(* Every step *)

LEMMA PeerGoesBooks ==
  ASSUME NEW c \in Client, NEW from, NEW to, to \in {"half", "closed", "reset"},
         Inv, Books, PeerGoes(c, from, to)
  PROVE  Books'
<1>1. /\ peer' = [peer EXCEPT ![c] = to]
      /\ UNCHANGED <<sent, got, inbox, outbox, executed, loopVars>>
  BY DEF PeerGoes
<1>2. \A d \in Client : peer[d] \in {"half", "closed", "reset"} => peer'[d] \in {"half", "closed", "reset"}
  BY <1>1 DEF Inv, Shape
<1>3. QED
  BY <1>1, <1>2, QuietBooks

LEMMA ConnectBooks ==
  ASSUME NEW c \in Client, Inv, Books, Connect(c)
  PROVE  Books'
<1>1. /\ peer[c] = "idle" /\ peer' = [peer EXCEPT ![c] = "open"]
      /\ UNCHANGED <<sent, got, inbox, outbox, executed, loopVars>>
  BY DEF Connect
<1>2. \A d \in Client : peer[d] \in {"half", "closed", "reset"} => peer'[d] \in {"half", "closed", "reset"}
  BY <1>1 DEF Inv, Shape
<1>3. QED
  BY <1>1, <1>2, QuietBooks

LEMMA NextBooks == Inv /\ Books /\ [Next]_vars => Books'
<1> SUFFICES ASSUME Inv, Books, [Next]_vars
             PROVE  Books'
  OBVIOUS
<1>1. CASE UNCHANGED vars \/ Signal \/ StartUp \/ CheckRunning \/ Sleep \/ Wake
  <2>1. peer' = peer /\ UNCHANGED <<sent, got, inbox, outbox, executed, loopVars>>
    BY <1>1 DEF vars, peerVars, Signal, StartUp, CheckRunning, Sleep, Wake
  <2>2. QED
    BY <2>1, QuietBooks
<1>2. CASE ShutDown \/ WaitFails
  BY <1>2, EndsBooks
<1>3. ASSUME NEW e, HandleEvent(e)
      PROVE  Books'
  BY <1>3, AcceptClientsBooks, StaleEventBooks, ReadFailsBooks, ReadServesBooks, ReadRefusesBooks,
     WriteSendsBooks, SendFailsBooks, SigPipeBooks DEF HandleEvent
<1>4. ASSUME NEW c \in Client, ClientStep(c)
      PROVE  Books'
  <2>1. CASE HalfClose(c) \/ Close(c) \/ ResetArrives(c)
    BY <2>1, PeerGoesBooks DEF HalfClose, Close, ResetArrives
  <2>2. QED
    BY <1>4, <2>1, ConnectBooks, ReadReplyBooks, SendBooks DEF ClientStep
<1>5. QED
  BY <1>1, <1>2, <1>3, <1>4 DEF Next, LoopStep

LEMMA BooksAreKept == Spec => [](Inv /\ Books)
<1>1. Init => Inv /\ Books
  BY InitInv, InitBooks
<1>2. (Inv /\ Books) /\ [Next]_vars => (Inv /\ Books)'
  BY NextInv, NextBooks
<1>3. QED
  BY <1>1, <1>2, PTL DEF Spec

\* Closing only what is empty is enough: a client that has finished sending,
\* and is closed for it, has been sent every answer, at whichever handler its
\* last reply went out.
THEOREM FinishedInFull == Spec => []FinishedClientsLoseNothing
<1>1. Inv /\ Books => FinishedClientsLoseNothing
  BY DEF Books, Account, Gone, FinishedClientsLoseNothing
<1>2. QED
  BY <1>1, BooksAreKept, PTL

-----------------------------------------------------------------------------
(* The types *)

Control == /\ peer \in [Client -> {"idle", "open", "half", "closed", "reset"}]
           /\ pc \in ControlPoint /\ running \in BOOLEAN
           /\ batch # {} <=> pc = "handle"

LEMMA EventsAreFinite == IsFiniteSet(Event)
<1>1. IsFiniteSet(Fd)
  BY FS_Interval, EventLoopAssumption DEF Fd
<1>2. ASSUME NEW filter
      PROVE  IsFiniteSet({[filter |-> filter, fd |-> x] : x \in Fd})
  <2> DEFINE T == {[filter |-> filter, fd |-> x] : x \in Fd}
             f == [x \in Fd |-> [filter |-> filter, fd |-> x]]
  <2>1. f \in Surjection(Fd, T)
    BY DEF Surjection
  <2> HIDE DEF f, T
  <2>2. IsFiniteSet(T)
    BY <1>1, <2>1, FS_Surjection
  <2>3. QED
    BY <2>2 DEF T
<1>3. Event \subseteq ({[filter |-> "read", fd |-> x] : x \in Fd}
                       \cup {[filter |-> "write", fd |-> x] : x \in Fd})
                      \cup {[filter |-> "listen", fd |-> 0]}
  BY DEF Event
<1> DEFINE R == {[filter |-> "read", fd |-> x] : x \in Fd}
           W == {[filter |-> "write", fd |-> x] : x \in Fd}
           L == {[filter |-> "listen", fd |-> 0]}
<1>4. IsFiniteSet(R) /\ IsFiniteSet(W) /\ IsFiniteSet(L)
  <2>1. IsFiniteSet(R)
    BY ONLY <1>2
  <2>2. IsFiniteSet(W)
    BY ONLY <1>2
  <2>3. IsFiniteSet(L)
    BY ONLY FS_Singleton
  <2>4. QED
    BY ONLY <2>1, <2>2, <2>3
<1> HIDE DEF R, W, L
<1>5. IsFiniteSet((R \cup W) \cup L)
  BY <1>4, FS_Union
<1>6. Event \subseteq (R \cup W) \cup L
  BY <1>3 DEF R, W, L
<1>7. QED
  BY <1>5, <1>6, FS_Subset

\* kevent() does not return with an empty batch.
LEMMA WakesForSomething ==
  ASSUME Wake
  PROVE  batch' # {}
<1>1. IsFiniteSet(Ready) /\ Ready # {}
  <2>1. Ready \in SUBSET Event
    BY DEF Ready
  <2>2. QED
    BY <2>1, EventsAreFinite, FS_Subset DEF Wake
<1>2. Cardinality(Ready) \in Nat /\ Cardinality(Ready) # 0
  BY <1>1, FS_CardinalityType, FS_EmptySet
<1> DEFINE n == Cardinality(Ready)
<1>3. Cardinality(batch') = Min({MaxBatch, n})
  BY DEF Wake, kSubset
<1>4. n \in Nat \ {0} /\ MaxBatch \in Nat \ {0}
  BY <1>2, EventLoopAssumption
<1> HIDE DEF n
<1>5. Min({MaxBatch, n}) \in {MaxBatch, n}
  <2>1. \E x \in {MaxBatch, n} : \A y \in {MaxBatch, n} : x <= y
    BY <1>4
  <2>2. QED
    BY <2>1 DEF Min
<1>6. Cardinality(batch') # 0
  BY <1>3, <1>4, <1>5
<1>7. QED
  BY <1>6, FS_EmptySet

LEMMA NextControl == Inv /\ Control /\ [Next]_vars => Control'
<1> SUFFICES ASSUME Inv, Control, [Next]_vars
             PROVE  Control'
  OBVIOUS
<1> USE DEF Control, ControlPoint
<1>1. CASE UNCHANGED vars \/ Signal \/ StartUp \/ CheckRunning \/ Sleep
  BY <1>1 DEF vars, peerVars, Signal, StartUp, CheckRunning, Sleep
<1>2. CASE Wake
  BY <1>2, WakesForSomething DEF Wake, peerVars
<1>3. CASE ShutDown \/ WaitFails
  BY <1>3 DEF ShutDown, WaitFails, ProcessEnds, peerVars
<1>4. ASSUME NEW e, HandleEvent(e)
      PROVE  Control'
  <2>1. CASE SigPipe(e)
    BY <2>1 DEF SigPipe, ProcessEnds, peerVars
  <2>2. CASE ~SigPipe(e)
    <3>1. Handled(e) /\ peer' = peer /\ running' = running
      BY <1>4, <2>2 DEF HandleEvent, AcceptClients, StaleEvent, ReadFails, ReadServes, ReadRefuses,
                        WriteSends, SendFails, Receive, peerVars
    <3>2. QED
      BY <3>1 DEF Handled
  <2>3. QED
    BY <2>1, <2>2
<1>5. ASSUME NEW c \in Client, ClientStep(c)
      PROVE  Control'
  BY <1>5 DEF ClientStep, Connect, ReadReply, Send, HalfClose, Close, ResetArrives, PeerGoes
<1>6. QED
  BY <1>1, <1>2, <1>3, <1>4, <1>5 DEF Next, LoopStep

\* The whole type invariant; with it, that the process is handling events while,
\* and only while, some of a batch are left.
THEOREM LoopTypeOK == Spec => []TypeOK
<1>1. Init => Control
  BY DEF Init, Control, ControlPoint
<1>2. ASSUME Inv, Books, Control
      PROVE  TypeOK
  <2>1. \A c \in Client : /\ {sent[c], got[c], inbox[c], outbox[c]} \subseteq Seq(Units(c))
                          /\ Len(outbox[c]) <= SendRoom
    BY <1>2, InUnit DEF Books, Account, Typed
  <2>2. Range(backlog) \subseteq Client /\ conn \in [Fd -> Client \cup {Nobody}] /\ batch \subseteq Event
    <3>1. backlog \in Seq(Client)
      BY <1>2 DEF Inv, Shape
    <3>2. QED
      BY <1>2, <3>1, RangeOfSeq DEF Inv, Shape
  <2>3. Range(executed) \subseteq UNION {Units(c) : c \in Client}
    <3>1. executed \in Seq(Whole)
      BY <1>2 DEF Books, Domains
    <3>2. Range(executed) \subseteq Whole
      BY <3>1, RangeOfSeq
    <3>3. \A u \in Whole : u.from \in Client /\ u \in Units(u.from)
      BY DEF Whole, Unit, Units
    <3>4. QED
      BY <3>2, <3>3
  <2>4. QED
    BY ONLY <1>2, <2>1, <2>2, <2>3 DEF TypeOK, Control
<1>3. Inv /\ Control /\ [Next]_vars => Control'
  BY NextControl
<1>4. Spec => []Control
  BY <1>1, <1>3, BooksAreKept, PTL DEF Spec
<1>5. QED
  BY <1>2, <1>4, BooksAreKept, PTL

-----------------------------------------------------------------------------
(* The loop is a Service *)

LEMMA NoSizeErrorThose ==
  ASSUME NEW s \in Seq(Unit)
  PROVE  NoSizeError(s) = Those(s, Plain)
<1>1. Len(s) \in Nat /\ DOMAIN s = 1 .. Len(s) /\ \A i \in 1 .. Len(s) : s[i] \in Unit
  BY LenProperties, ElementOfSeq
<1> DEFINE I == {i \in DOMAIN s : s[i].kind # "large"}
           J == {i \in DOMAIN s : s[i] \in Plain}
<1>2. \A i \in 1 .. Len(s) : i \in I <=> i \in J
  BY <1>1 DEF Plain
<1>3. NoSizeError(s) = At(s, I) /\ Those(s, Plain) = At(s, J)
  BY DEF NoSizeError, Those
<1> HIDE DEF I, J
<1>4. At(s, I) = At(s, J)
  BY <1>1, <1>2, AtSame
<1>5. QED
  BY <1>3, <1>4

LEMMA RequestsOf ==
  ASSUME NEW c \in Client, executed \in Seq(Whole)
  PROVE  At(executed, {i \in DOMAIN executed : executed[i].from = c}) = Of(c)
<1>1. /\ Len(executed) \in Nat /\ DOMAIN executed = 1 .. Len(executed)
      /\ \A i \in 1 .. Len(executed) : executed[i] \in Unit
  BY LenProperties, ElementOfSeq DEF Whole
<1> DEFINE I == {i \in DOMAIN executed : executed[i].from = c}
           J == {i \in DOMAIN executed : executed[i] \in Units(c)}
<1>2. \A u \in Unit : u.from = c <=> u \in Units(c)
  BY DEF Unit, Units
<1>3. \A i \in 1 .. Len(executed) : i \in I <=> i \in J
  BY <1>1, <1>2
<1>4. Of(c) = At(executed, J)
  BY DEF Of, Those
<1> HIDE DEF I, J
<1>5. At(executed, I) = At(executed, J)
  BY <1>1, <1>3, AtSame
<1>6. QED
  BY <1>4, <1>5 DEF I

\* What a client was sent begins what it asked for, and no request is answered
\* that was not executed.
LEMMA RepliesAreDue ==
  ASSUME Inv, Books, NEW c \in Client
  PROVE  /\ Begins(Replies(c), Answers(sent[c])) /\ Replies(c) \in Seq(Unit)
         /\ \A i \in 1 .. Len(Replies(c)) : Replies(c)[i] \in Whole => Replies(c)[i] \in Range(executed)
<1>1. Account(c) /\ Typed(c) /\ executed \in Seq(Whole)
  BY DEF Books, Domains, Account
<1>2. got[c] \in Seq(Unit) /\ outbox[c] \in Seq(Unit) /\ sent[c] \in Seq(Unit)
  BY <1>1, InUnit DEF Typed
<1>3. got[c] \o outbox[c] \in Seq(Unit) /\ Answers(sent[c]) \in Seq(Unit)
  BY ONLY <1>2, ConcatProperties, AnswersType
<1>4. Replies(c) \in Seq(Unit)
  BY ONLY <1>3, ThoseFrom DEF Replies
<1>5. CASE ended[c] # ""
  BY <1>1, <1>4, <1>5 DEF Account, Gone
<1>6. CASE \E fd \in Fd : conn[fd] = c
  <2>1. PICK fd \in Fd : conn[fd] = c
    BY <1>6
  <2>2. Connected(c, fd)
    BY <1>1, <2>1 DEF Account
  <2>3. Replies(c) = got[c] \o outbox[c]
    <3>1. got[c] \in Seq(Plain) /\ outbox[c] \in Seq(Plain)
      BY <2>2 DEF Connected
    <3>2. got[c] \o outbox[c] \in Seq(Plain)
      BY ONLY <3>1, ConcatProperties
    <3>3. QED
      BY ONLY <3>2, ThoseAll DEF Replies
  <2>4. /\ Answers(inbox[c]) \in Seq(Unit) /\ output[fd] \in Seq(Unit)
        /\ Of(c) = (got[c] \o outbox[c]) \o output[fd]
        /\ Answers(sent[c]) = Of(c) \o Answers(inbox[c])
    BY <1>1, <2>2, WhatWasAsked
  <2>5. Begins(Replies(c), Of(c)) /\ Begins(Of(c), Answers(sent[c]))
    BY ONLY <2>3, <2>4 DEF Begins
  <2>6. Of(c) \in Seq(Unit)
    <3>1. Of(c) \in Seq(Whole)
      BY ONLY <1>1, ThoseFrom DEF Of
    <3>2. QED
      BY <3>1, InUnit
  <2>7. Begins(Replies(c), Answers(sent[c]))
    BY ONLY <1>4, <2>5, <2>6, BeginsTrans
  <2>8. \A i \in 1 .. Len(Replies(c)) : Replies(c)[i] \in Range(executed)
    <3>1. PICK r \in Seq(Unit) : Of(c) = Replies(c) \o r
      BY <2>5 DEF Begins
    <3>2. \A i \in 1 .. Len(Replies(c)) : i \in 1 .. Len(Of(c)) /\ Of(c)[i] = Replies(c)[i]
      BY ONLY <1>4, <3>1, r \in Seq(Unit), ConcatProperties, LenProperties
    <3>3. \A i \in 1 .. Len(Of(c)) : \E k \in 1 .. Len(executed) : Of(c)[i] = executed[k]
      BY ONLY <1>1, ThoseFrom DEF Of
    <3>4. DOMAIN executed = 1 .. Len(executed)
      BY ONLY <1>1, LenProperties
    <3>5. QED
      BY ONLY <3>2, <3>3, <3>4 DEF Range
  <2>9. QED
    BY ONLY <1>4, <2>7, <2>8
<1>7. CASE ended[c] = "" /\ \A fd \in Fd : conn[fd] # c
  <2>1. got[c] = << >> /\ outbox[c] = << >>
    BY <1>1, <1>7 DEF Account, Fresh
  <2>2. Replies(c) = << >> /\ Len(<< >>) = 0
    <3>1. << >> \o << >> = << >>
      BY ConcatEmptySeq, EmptySeq
    <3>2. Those(<< >>, Plain) = << >>
      BY ThoseEmpty
    <3>3. QED
      BY <2>1, <3>1, <3>2, EmptySeq DEF Replies
  <2>3. Begins(Replies(c), Answers(sent[c]))
    BY ONLY <1>3, <2>2, BeginsItself
  <2>4. QED
    BY ONLY <1>4, <2>2, <2>3
<1>8. QED
  BY <1>5, <1>6, <1>7

LEMMA InTheMiddle ==
  ASSUME NEW s \in Seq(Unit), NEW x \in Seq(Unit), NEW q \in Seq(Unit), NEW t, t = s \o (x \o q)
  PROVE  /\ SubSeq(t, Len(s) + 1, Len(s) + Len(x)) = x
         /\ Len(s) + Len(x) \in Int /\ Len(s) + Len(x) <= Len(t)
<1> DEFINE r == x \o q
           n == Len(s)
           m == Len(x)
<1>1. /\ n \in Nat /\ m \in Nat /\ Len(q) \in Nat
      /\ r \in Seq(Unit) /\ Len(r) = m + Len(q)
      /\ \A i \in 1 .. m : r[i] = x[i]
  BY LenProperties, ConcatProperties
<1> HIDE DEF r
<1>2. t = s \o r
  BY DEF r
<1>3. /\ t \in Seq(Unit) /\ Len(t) = n + Len(r)
      /\ \A i \in 1 .. Len(r) : t[n + i] = r[i]
  <2>1. /\ s \o r \in Seq(Unit) /\ Len(s \o r) = Len(s) + Len(r)
        /\ \A i \in 1 .. Len(s) + Len(r) : (s \o r)[i] = IF i <= Len(s) THEN s[i] ELSE r[i - Len(s)]
    BY <1>1, ConcatProperties
  <2>2. /\ t \in Seq(Unit) /\ Len(t) = n + Len(r)
        /\ \A i \in 1 .. n + Len(r) : t[i] = IF i <= n THEN s[i] ELSE r[i - n]
    BY ONLY <1>2, <2>1 DEF n
  <2>3. Len(r) \in Nat /\ n \in Nat
    BY ONLY <1>1
  <2> HIDE DEF n
  <2>4. ASSUME NEW i \in 1 .. Len(r)
        PROVE  t[n + i] = r[i]
    <3>1. n + i \in 1 .. n + Len(r) /\ ~(n + i <= n) /\ (n + i) - n = i
      BY ONLY <2>3, i \in 1 .. Len(r)
    <3>2. QED
      BY ONLY <2>2, <3>1
  <2>5. QED
    BY ONLY <2>2, <2>4
<1> HIDE DEF n, m
<1>4. n + 1 \in Int /\ n + m \in Int /\ n + m <= Len(t)
  BY ONLY <1>1, <1>3
<1>5. \A i \in n + 1 .. n + m : t[i] \in Unit
  <2>1. \A i \in n + 1 .. n + m : i \in 1 .. Len(t)
    BY ONLY <1>1, <1>3
  <2>2. QED
    BY ONLY <1>3, <2>1, ElementOfSeq
<1> DEFINE u == SubSeq(t, n + 1, n + m)
<1>6. /\ u \in Seq(Unit) /\ Len(u) = m
      /\ \A i \in 1 .. m : u[i] = t[n + i]
  <2>1. /\ u \in Seq(Unit)
        /\ Len(u) = IF n + 1 <= n + m THEN (n + m) - (n + 1) + 1 ELSE 0
        /\ \A i \in 1 .. (n + m) - (n + 1) + 1 : u[i] = t[(n + 1) + i - 1]
    BY ONLY <1>4, <1>5, SubSeqProperties
  <2> HIDE DEF u
  <2>2. QED
    BY ONLY <1>1, <2>1
<1> HIDE DEF u
<1>7. \A i \in 1 .. m : u[i] = x[i]
  BY ONLY <1>1, <1>3, <1>6
<1>8. u = x
  BY ONLY <1>6, <1>7, x \in Seq(Unit), SeqEqual DEF m
<1>9. QED
  BY ONLY <1>4, <1>8 DEF u, n, m

\* In terms of the Service.
asked == [c \in Client |-> Answers(sent[c])]
answered == [c \in Client |-> NoSizeError(got[c])]

LEMMA SameAt == \A s, I : Promise!At(s, I) = At(s, I)
BY DEF At, Promise!At

LEMMA NothingNew ==
  ASSUME UNCHANGED <<sent, got, executed>>
  PROVE  UNCHANGED Promise!vars
<1>1. asked' = asked /\ answered' = answered /\ executed' = executed
  BY DEF asked, answered
<1>2. QED
  BY <1>1 DEF Promise!vars, asked, answered

LEMMA SendAsks ==
  ASSUME NEW c \in Client, NEW kind \in Kind, Books, Send(c, kind)
  PROVE  Promise!Ask(c) \/ UNCHANGED Promise!vars
<1> DEFINE n == Len(sent[c]) + 1
           u == [from |-> c, n |-> n, kind |-> kind]
<1>1. /\ sent' = [sent EXCEPT ![c] = Append(@, u)] /\ Len(sent[c]) < MaxSent
      /\ got' = got /\ executed' = executed
  BY DEF Send
<1>2. /\ DOMAIN sent = Client /\ sent[c] \in Seq(Units(c) \cap Plain)
  BY DEF Books, Domains, Account, Typed
<1>3. Len(sent[c]) \in Nat /\ kind \in {"part", "end", "bad"} /\ MaxSent \in Nat
  BY <1>2, LenProperties, EventLoopAssumption
<1>4. Len(sent[c]) < MaxSent
  BY <1>1
<1>5. n \in 1 .. MaxSent /\ n \in 0 .. MaxSent
  BY ONLY <1>3, <1>4
<1> HIDE DEF n
<1>6. u \in Unit /\ u.kind = kind
  BY <1>3, <1>5 DEF Unit
<1> HIDE DEF u
<1>7. sent[c] \in Seq(Unit) /\ sent'[c] = Append(sent[c], u)
  BY <1>1, <1>2, InUnit
<1>8. Answers(sent'[c]) = IF Malformed(sent[c]) \/ kind = "part" THEN Answers(sent[c])
                                                               ELSE Append(Answers(sent[c]), u)
  BY <1>6, <1>7, AnswersAppend
<1>9. \A d \in Client : d # c => sent'[d] = sent[d]
  BY <1>1, <1>2
<1>10. answered' = answered
  BY <1>1 DEF answered
<1>11. CASE Malformed(sent[c]) \/ kind = "part"
  <2>1. \A d \in Client : Answers(sent'[d]) = Answers(sent[d])
    BY ONLY <1>8, <1>9, <1>11
  <2>2. asked' = asked
    BY <2>1 DEF asked
  <2>3. QED
    BY ONLY <1>1, <1>10, <2>2 DEF Promise!vars, asked, answered
<1>12. CASE ~(Malformed(sent[c]) \/ kind = "part")
  <2>1. asked' = [asked EXCEPT ![c] = Append(@, u)]
    <3>1. \A d \in Client : asked'[d] = IF d = c THEN Append(asked[c], u) ELSE asked[d]
      BY <1>8, <1>9, <1>12 DEF asked
    <3>2. asked' = [d \in Client |-> asked'[d]] /\ DOMAIN asked = Client
      BY DEF asked
    <3>3. QED
      BY ONLY <3>1, <3>2
  <2>2. kind \in {"end", "bad"}
    BY ONLY <1>3, <1>12
  <2>3. \A i \in DOMAIN asked[c] : asked[c][i].kind # "bad"
    <3> DEFINE a == Answers(sent[c])
               I == {i \in Parsed(sent[c]) : sent[c][i].kind # "part"}
    <3>1. asked[c] = a /\ a = At(sent[c], I)
      BY DEF asked, Answers
    <3> HIDE DEF I
    <3>2. /\ a \in Seq(Unit)
          /\ \A j \in 1 .. Len(a) : \E i \in 1 .. Len(sent[c]) : a[j] = sent[c][i]
      BY <1>7, <3>1, AtFrom
    <3>3. \A i \in 1 .. Len(sent[c]) : sent[c][i].kind # "bad"
      <4>1. DOMAIN sent[c] = 1 .. Len(sent[c])
        BY <1>7, LenProperties
      <4>2. QED
        BY <1>12, <4>1 DEF Malformed, Bad
    <3>4. DOMAIN a = 1 .. Len(a)
      BY <3>2, LenProperties
    <3> HIDE DEF a
    <3>5. QED
      BY ONLY <3>1, <3>2, <3>3, <3>4
  <2>4. Promise!Ask(c)
    <3>1. asked' = [asked EXCEPT ![c] = Append(@, [from |-> c, n |-> n, kind |-> kind])]
      BY <2>1 DEF u
    <3>2. \E m \in 1 .. MaxSent, k \in {"end", "bad"} :
            asked' = [asked EXCEPT ![c] = Append(@, [from |-> c, n |-> m, kind |-> k])]
      BY ONLY <1>5, <2>2, <3>1
    <3>3. executed' = executed
      BY <1>1
    <3>4. QED
      BY ONLY <1>10, <2>3, <3>2, <3>3 DEF Promise!Ask, asked, answered
  <2>5. QED
    BY <2>4
<1>13. QED
  BY <1>11, <1>12

\* A sequence one longer than another that begins a third goes on as it does.
LEMMA GoesOn ==
  ASSUME NEW s \in Seq(Unit), NEW u \in Unit, NEW r \in Seq(Unit), NEW t, NEW w,
         w = Append(s, u) \o r, Begins(w, t)
  PROVE  Len(s) + 1 <= Len(t) /\ t[Len(s) + 1] = u /\ Len(s) + 1 \in 1 .. Len(t)
<1> DEFINE a == Append(s, u)
           n == Len(s) + 1
<1>1. /\ a \in Seq(Unit) /\ Len(a) = n /\ a[n] = u /\ n \in Nat /\ n # 0
  OBVIOUS
<1> HIDE DEF a, n
<1>2. Begins(a \o r, t)
  BY DEF a
<1>3. Begins(a, t)
  BY ONLY <1>1, <1>2, r \in Seq(Unit), BeginsLonger
<1>4. PICK q \in Seq(Unit) : t = a \o q
  BY <1>3 DEF Begins
<1>5. /\ Len(a \o q) = Len(a) + Len(q) /\ Len(q) \in Nat
      /\ \A i \in 1 .. Len(a) + Len(q) : (a \o q)[i] = IF i <= Len(a) THEN a[i] ELSE q[i - Len(a)]
  BY ONLY <1>1, q \in Seq(Unit), ConcatProperties, LenProperties
<1>6. n \in 1 .. Len(a) + Len(q) /\ n <= Len(a)
  BY ONLY <1>1, <1>5
<1>7. t[n] = u /\ n <= Len(t) /\ n \in 1 .. Len(t)
  BY ONLY <1>1, <1>4, <1>5, <1>6
<1>8. QED
  BY ONLY <1>7 DEF n

LEMMA ReadReplyDelivers ==
  ASSUME NEW c \in Client, Inv, Books, ReadReply(c)
  PROVE  Promise!Deliver(c) \/ UNCHANGED Promise!vars
<1> DEFINE g == got[c]
           h == Head(outbox[c])
           N == NoSizeError(g)
<1>1. /\ outbox[c] # << >>
      /\ got' = [got EXCEPT ![c] = Append(@, h)] /\ outbox' = [outbox EXCEPT ![c] = Tail(@)]
      /\ sent' = sent /\ executed' = executed
  BY DEF ReadReply, loopVars
<1>2. /\ DOMAIN got = Client /\ DOMAIN outbox = Client /\ executed \in Seq(Whole)
      /\ g \in Seq(Unit) /\ outbox[c] \in Seq(Unit)
  BY InUnit DEF Books, Domains, Account, Typed
<1>3. h \in Unit /\ Tail(outbox[c]) \in Seq(Unit)
  BY ONLY <1>1, <1>2, HeadTailProperties
<1>4. /\ got'[c] = Append(g, h) /\ outbox'[c] = Tail(outbox[c])
      /\ \A d \in Client : d # c => got'[d] = got[d]
  BY <1>1, <1>2
<1> HIDE DEF g, h
<1>5. Append(g, h) \in Seq(Unit)
  BY ONLY <1>2, <1>3, AppendProperties
<1>6. N = Those(g, Plain) /\ NoSizeError(got'[c]) = Those(Append(g, h), Plain) /\ N \in Seq(Unit)
  <2>1. NoSizeError(got'[c]) = NoSizeError(Append(g, h))
    BY <1>4
  <2>2. NoSizeError(g) = Those(g, Plain) /\ NoSizeError(Append(g, h)) = Those(Append(g, h), Plain)
    BY ONLY <1>2, <1>5, NoSizeErrorThose
  <2>3. Those(g, Plain) \in Seq(Unit)
    BY ONLY <1>2, ThoseFrom
  <2>4. QED
    BY ONLY <2>1, <2>2, <2>3 DEF N
<1>7. Those(Append(g, h), Plain) = IF h \in Plain THEN Append(Those(g, Plain), h) ELSE Those(g, Plain)
  BY ONLY <1>2, <1>3, ThoseAppend
<1>8. answered[c] = N /\ answered'[c] = NoSizeError(got'[c])
  BY DEF answered, N, g
<1>9. \A d \in Client : d # c => answered'[d] = answered[d]
  BY <1>4 DEF answered
<1>10. asked' = asked
  BY <1>1 DEF asked
<1> HIDE DEF N
<1>11. answered = [d \in Client |-> answered[d]] /\ answered' = [d \in Client |-> answered'[d]]
  BY DEF answered
<1>12. CASE h \notin Plain
  <2>1. answered' = answered
    <3>1. \A d \in Client : answered'[d] = answered[d]
      BY ONLY <1>6, <1>7, <1>8, <1>9, <1>12
    <3>2. QED
      BY ONLY <1>11, <3>1
  <2>2. QED
    BY ONLY <1>1, <1>10, <2>1 DEF Promise!vars, asked, answered
<1>13. CASE h \in Plain
  <2>1. NoSizeError(got'[c]) = Append(N, h)
    BY ONLY <1>6, <1>7, <1>13
  <2>2. answered' = [answered EXCEPT ![c] = Append(@, h)]
    <3>1. \A d \in Client : answered'[d] = IF d = c THEN Append(answered[c], h) ELSE answered[d]
      BY ONLY <1>8, <1>9, <2>1
    <3>2. QED
      BY ONLY <1>11, <3>1
  <2> DEFINE r == Those(Tail(outbox[c]), Plain)
  <2>3. r \in Seq(Unit)
    BY ONLY <1>3, ThoseFrom
  <2>4. Replies(c) = Append(N, h) \o r
    <3>1. Reads(g, outbox[c])
      BY ONLY <1>1, <1>2, ReadsInOrder
    <3>2. Replies(c) = Those(Append(g, h) \o Tail(outbox[c]), Plain)
      BY ONLY <3>1 DEF Reads, Replies, g, h
    <3>3. Distributes(Append(g, h), Tail(outbox[c]), Plain)
      BY ONLY <1>3, <1>5, Distributive
    <3>4. Those(Append(g, h), Plain) = Append(N, h)
      BY ONLY <1>6, <1>7, <1>13
    <3>5. QED
      BY ONLY <3>2, <3>3, <3>4 DEF Distributes
  <2>5. /\ Begins(Replies(c), Answers(sent[c])) /\ Replies(c) \in Seq(Unit)
        /\ \A i \in 1 .. Len(Replies(c)) : Replies(c)[i] \in Whole => Replies(c)[i] \in Range(executed)
    BY RepliesAreDue
  <2> HIDE DEF r
  <2>6. /\ Len(N) + 1 <= Len(Answers(sent[c])) /\ Answers(sent[c])[Len(N) + 1] = h
    BY ONLY <1>3, <1>6, <2>3, <2>4, <2>5, GoesOn
  <2>7. h.kind = "end" => h \in Range(executed)
    <3>1. Begins(Replies(c), Replies(c))
      BY ONLY <2>5, BeginsItself
    <3>2. Len(N) + 1 \in 1 .. Len(Replies(c)) /\ Replies(c)[Len(N) + 1] = h
      BY ONLY <1>3, <1>6, <2>3, <2>4, <3>1, GoesOn
    <3>3. h.kind = "end" => h \in Whole
      BY ONLY <1>3 DEF Whole
    <3>4. QED
      BY ONLY <2>5, <3>2, <3>3
  <2>8. asked[c] = Answers(sent[c])
    BY DEF asked
  <2>9. Promise!Deliver(c)
    <3> DEFINE i == Len(answered[c]) + 1
    <3>1. i <= Len(asked[c]) /\ asked[c][i] = h
      BY ONLY <1>8, <2>6, <2>8
    <3>2. answered' = [answered EXCEPT ![c] = Append(@, asked[c][i])]
      BY ONLY <2>2, <3>1
    <3>3. asked[c][i].kind = "end" => asked[c][i] \in Promise!Range(executed)
      BY ONLY <2>7, <3>1 DEF Range, Promise!Range
    <3>4. executed' = executed
      BY <1>1
    <3> HIDE DEF i
    <3>5. QED
      BY ONLY <1>10, <3>1, <3>2, <3>3, <3>4 DEF Promise!Deliver, asked, answered, i
  <2>10. QED
    BY <2>9
<1>14. QED
  BY <1>12, <1>13

\* A handler that executes requests executes the next ones its client asked for.
LEMMA HandlerExecutes ==
  ASSUME Inv, Books, NEW c \in Client, NEW fd \in Fd, conn[fd] = c,
         sent' = sent, got' = got, executed' = executed \o Executing(fd)
  PROVE  Promise!Execute(c) \/ UNCHANGED Promise!vars
<1> DEFINE x == Executing(fd)
<1>1. Typed(c) /\ Connected(c, fd) /\ executed \in Seq(Whole)
  BY DEF Books, Domains, Account
<1>2. x \in Seq(Units(c) \cap Whole) /\ Begins(x, Answers(inbox[c]))
  BY <1>1, WhatIsExecuted
<1>3. executed' = executed \o x
  OBVIOUS
<1> HIDE DEF x
<1>4. x \in Seq(Unit) /\ x \in Seq(Whole)
  BY <1>2, InUnit
<1>5. asked' = asked /\ answered' = answered
  BY DEF asked, answered
<1>6. CASE x = << >>
  <2>1. executed \o << >> = executed
    BY <1>1, ConcatEmptySeq
  <2>2. executed' = executed
    BY ONLY <1>3, <1>6, <2>1
  <2>3. QED
    BY ONLY <1>5, <2>2 DEF Promise!vars, asked, answered
<1>7. CASE x # << >>
  <2> DEFINE A == Of(c)
             t == Answers(sent[c])
  <2>1. t = A \o Answers(inbox[c])
    BY <1>1, WhatWasAsked
  <2>2. PICK q \in Seq(Unit) : Answers(inbox[c]) = x \o q
    BY <1>2 DEF Begins
  <2>3. A \in Seq(Unit)
    <3>1. A \in Seq(Whole)
      BY ONLY <1>1, ThoseFrom DEF Of
    <3>2. QED
      BY <3>1, InUnit
  <2>4. t = A \o (x \o q)
    BY ONLY <2>1, <2>2
  <2> HIDE DEF A, t
  <2>5. /\ SubSeq(t, Len(A) + 1, Len(A) + Len(x)) = x
        /\ Len(A) + Len(x) \in Int /\ Len(A) + Len(x) <= Len(t)
    BY ONLY <1>4, <2>3, <2>4, q \in Seq(Unit), InTheMiddle
  <2>6. Len(A) + Len(x) \in Len(A) + 1 .. Len(t)
    <3>1. Len(x) \in Nat /\ Len(x) # 0 /\ Len(A) \in Nat
      BY ONLY <1>4, <1>7, <2>3, LenProperties, EmptySeq
    <3>2. Len(t) \in Nat
      <4>1. x \o q \in Seq(Unit)
        BY ONLY <1>4, q \in Seq(Unit), ConcatProperties
      <4>2. t \in Seq(Unit)
        BY ONLY <2>3, <2>4, <4>1, ConcatProperties
      <4>3. QED
        BY ONLY <4>2, LenProperties
    <3>3. QED
      BY ONLY <2>5, <3>1, <3>2
  <2>7. \A i \in DOMAIN executed' : executed'[i].kind = "end"
    <3>1. executed' \in Seq(Whole)
      BY ONLY <1>1, <1>3, <1>4, ConcatProperties
    <3>2. QED
      BY ONLY <3>1, ElementOfSeq, LenProperties DEF Whole
  <2>8. asked[c] = t
    BY DEF asked, t
  <2>9. At(executed, {i \in DOMAIN executed : executed[i].from = c}) = A
    BY <1>1, RequestsOf DEF A
  <2>10. Promise!Execute(c)
    <3> DEFINE done == Len(Promise!At(executed, {i \in DOMAIN executed : executed[i].from = c}))
    <3>1. done = Len(A)
      BY ONLY <2>9, SameAt
    <3>2. \E n \in done + 1 .. Len(asked[c]) : executed' = executed \o SubSeq(asked[c], done + 1, n)
      BY ONLY <1>3, <2>5, <2>6, <2>8, <3>1
    <3>3. QED
      BY ONLY <1>5, <2>7, <3>2 DEF Promise!Execute, asked, answered
  <2>11. QED
    BY <2>10
<1>8. QED
  BY <1>6, <1>7

LEMMA HandleEventServes ==
  ASSUME NEW e, Inv, Books, HandleEvent(e)
  PROVE  [Promise!Next]_(Promise!vars)
<1>1. CASE AcceptClients(e) \/ StaleEvent(e) \/ ReadFails(e) \/ WriteSends(e)
  <2>1. UNCHANGED <<sent, got, executed>>
    BY <1>1 DEF AcceptClients, StaleEvent, ReadFails, WriteSends, peerVars
  <2>2. QED
    BY <2>1, NothingNew
<1>2. CASE ReadServes(e) \/ ReadRefuses(e) \/ SendFails(e) \/ SigPipe(e)
  <2>1. /\ e \in batch /\ e.filter # "listen" /\ conn[e.fd] # Nobody
        /\ sent' = sent /\ got' = got
        /\ executed' = executed \o Executing(e.fd) \/ executed' = executed
    BY <1>2 DEF ReadServes, ReadRefuses, SendFails, SigPipe, Receive, Handled, peerVars
  <2>2. e.fd \in Fd
    BY <2>1 DEF Inv, Shape, Event
  <2>3. PICK c \in Client : conn[e.fd] = c
    BY <2>1, <2>2, AtADescriptor
  <2>4. CASE executed' = executed \o Executing(e.fd)
    <3>1. Promise!Execute(c) \/ UNCHANGED Promise!vars
      BY <2>1, <2>2, <2>3, <2>4, HandlerExecutes
    <3>2. QED
      BY <3>1 DEF Promise!Next
  <2>5. CASE executed' = executed
    BY <2>1, <2>5, NothingNew
  <2>6. QED
    BY <2>1, <2>4, <2>5
<1>3. QED
  BY <1>1, <1>2 DEF HandleEvent

LEMMA ClientStepServes ==
  ASSUME NEW c \in Client, Inv, Books, ClientStep(c)
  PROVE  [Promise!Next]_(Promise!vars)
<1>1. CASE Connect(c) \/ HalfClose(c) \/ Close(c) \/ ResetArrives(c)
  <2>1. UNCHANGED <<sent, got, executed>>
    BY <1>1 DEF Connect, HalfClose, Close, ResetArrives, PeerGoes
  <2>2. QED
    BY <2>1, NothingNew
<1>2. CASE ReadReply(c)
  <2>1. Promise!Deliver(c) \/ UNCHANGED Promise!vars
    BY <1>2, ReadReplyDelivers
  <2>2. QED
    BY <2>1 DEF Promise!Next
<1>3. ASSUME NEW kind \in Kind, Send(c, kind)
      PROVE  [Promise!Next]_(Promise!vars)
  <2>1. Promise!Ask(c) \/ UNCHANGED Promise!vars
    BY <1>3, SendAsks
  <2>2. QED
    BY <2>1 DEF Promise!Next
<1>4. QED
  BY <1>1, <1>2, <1>3 DEF ClientStep

LEMMA NextServes ==
  ASSUME Inv, Books, [Next]_vars
  PROVE  [Promise!Next]_(Promise!vars)
<1>1. CASE UNCHANGED vars \/ Signal \/ StartUp \/ CheckRunning \/ ShutDown \/ Sleep \/ Wake \/ WaitFails
  <2>1. UNCHANGED <<sent, got, executed>>
    BY <1>1 DEF vars, peerVars, Signal, StartUp, CheckRunning, ShutDown, Sleep, Wake, WaitFails
  <2>2. QED
    BY <2>1, NothingNew
<1>2. QED
  BY <1>1, HandleEventServes, ClientStepServes DEF Next, LoopStep

LEMMA InitServes == Init => Promise!Init
<1> SUFFICES ASSUME Init
             PROVE  Promise!Init
  OBVIOUS
<1>1. \A c \in Client : sent[c] = << >> /\ got[c] = << >>
  BY DEF Init
<1>2. \A c \in Client : Answers(sent[c]) = << >> /\ NoSizeError(got[c]) = << >>
  <2>1. NoSizeError(<< >>) = << >>
    BY AtEmpty DEF NoSizeError
  <2>2. QED
    BY <1>1, <2>1, NothingParsed
<1>3. asked = [c \in Client |-> << >>] /\ answered = [c \in Client |-> << >>]
  BY <1>2 DEF asked, answered
<1>4. executed = << >>
  BY DEF Init
<1>5. QED
  BY ONLY <1>3, <1>4 DEF Promise!Init, asked, answered

\* Whatever is interleaved, cut short by a full socket, refused, closed or
\* killed: requests are executed one at a time, at most once and in the order
\* their client sent them, and every client is answered in that order, once for
\* each request, after it was executed.
THEOREM LoopImplementsService == Spec => ImplementsService
<1>1. Init => Promise!Init
  BY InitServes
<1>2. (Inv /\ Books) /\ [Next]_vars => [Promise!Next]_(Promise!vars)
  BY NextServes
<1>3. QED
  BY <1>1, <1>2, BooksAreKept, PTL DEF Spec, ImplementsService, Promise!Spec
=============================================================================
