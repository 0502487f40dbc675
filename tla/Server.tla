------------------------------- MODULE Server -------------------------------
(***************************************************************************)
(* The event loop, the keyspace and the log together, across crashes.  A   *)
(* READ event is taken apart here: the requests of one client are executed *)
(* one after the other, each appending to the log as it changes the Store, *)
(* their replies are queued, and sent only when none is left to execute;   *)
(* what the socket does not take is sent on later events.  The process     *)
(* may go between any two of these steps, and the replies queued with it.  *)
(*                                                                         *)
(* Requests are any commands (Serve chooses), and a reply is known by the  *)
(* number of changes the Store it was computed from was made of.           *)
(***************************************************************************)
EXTENDS Recovery

CONSTANTS Client,     \* connected, or connecting again after a crash
          Nobody,     \* whose event is handled between two events
          MaxWaiting  \* bound: requests and replies in the buffers of one client

ASSUME ServerAssumption == Nobody \notin Client /\ MaxWaiting \in Nat

VARIABLES waiting,   \* how many requests each client has in its input buffer
          handling,  \* the client whose READ event is being handled
          output,    \* the replies queued for each client
          told,      \* ghost: the most changes any client has been told of
          failed     \* ghost: has an append ever failed?

bufferVars == <<waiting, handling, output, told, failed>>
serverVars == <<vars, bufferVars>>

ServerInit == /\ RecoveryInit
              /\ waiting = [c \in Client |-> 0]
              /\ handling = Nobody
              /\ output = [c \in Client |-> << >>]
              /\ told = 0 /\ failed = FALSE

Arrive(c) == /\ phase = "serving"
             /\ waiting[c] + Len(output[c]) < MaxWaiting
             /\ waiting' = [waiting EXCEPT ![c] = @ + 1]
             /\ UNCHANGED <<vars, handling, output, told, failed>>

\* A batch is handled one event at a time.
ReadEvent(c) == /\ phase = "serving" /\ handling = Nobody
                /\ waiting[c] > 0
                /\ handling' = c
                /\ UNCHANGED <<vars, waiting, output, told, failed>>

\* One round of the parse loop: execute, append, flush, queue the reply.
Execute(c) == /\ handling = c /\ waiting[c] > 0
              /\ Serve
              /\ waiting' = [waiting EXCEPT ![c] = @ - 1]
              /\ output' = [output EXCEPT ![c] = Append(@, Len(made'))]
              /\ failed' = (failed \/ bad')
              /\ UNCHANGED <<handling, told>>

\* Of the replies queued, the socket takes the first n; the last of these knows
\* of the most changes.
TrySend(c, n) ==
  /\ told' = IF n = 0 \/ output[c][n] <= told THEN told ELSE output[c][n]
  /\ output' = [output EXCEPT ![c] = SubSeq(@, n + 1, Len(@))]
  /\ UNCHANGED <<vars, waiting, failed>>

ReadEventEnds(c) == /\ handling = c /\ waiting[c] = 0
                    /\ handling' = Nobody
                    /\ \E n \in 0 .. Len(output[c]) : TrySend(c, n)

WriteEvent(c) == /\ phase = "serving" /\ handling = Nobody
                 /\ \E n \in 1 .. Len(output[c]) : TrySend(c, n)
                 /\ UNCHANGED handling

\* The process goes, and its buffers: between two events on a signal, anywhere
\* in a crash.
Crash == /\ Stop \/ StopMidAppend
         /\ waiting' = [c \in Client |-> 0]
         /\ handling' = Nobody
         /\ output' = [c \in Client |-> << >>]
         /\ UNCHANGED <<told, failed>>

Restart == /\ StartReplay \/ ReplayRecord \/ FinishReplay \/ RefuseLog \/ FixLog
           /\ UNCHANGED bufferVars

ServerNext == \/ \E c \in Client : \/ Arrive(c) \/ ReadEvent(c) \/ Execute(c)
                                   \/ ReadEventEnds(c) \/ WriteEvent(c)
              \/ Crash \/ Restart
              \/ TimePasses /\ UNCHANGED bufferVars

ServerSpec == ServerInit /\ [][ServerNext]_serverVars

-----------------------------------------------------------------------------
(* Properties *)

\* Until an append fails, nothing a client was told is ever taken back: whatever
\* reply it has had, to a write of its own or a read that saw another's, the
\* changes it rests on are in the file, whenever the process goes and however
\* often.
ToldIsLogged == failed \/ told <= Len(log)
=============================================================================
