------------------------------- MODULE Service -------------------------------
(***************************************************************************)
(* What the event loop promises its clients, with none of the machinery:   *)
(* requests are executed one at a time, each at most once and in the order *)
(* its client sent them, and each client is answered in that order, once   *)
(* for each request, after it was executed.  A stream the parser rejects   *)
(* is answered with one error, and nothing after it is looked at.          *)
(***************************************************************************)
EXTENDS Selection, SequencesExt

CONSTANTS Client, MaxSent

VARIABLES asked,    \* what each client has sent that calls for an answer
          history,  \* the requests executed, in order
          got       \* the answers each client has read

vars == <<asked, history, got>>

Init == /\ asked = [c \in Client |-> << >>]
        /\ history = << >>
        /\ got = [c \in Client |-> << >>]

Ask(c) == /\ \A i \in DOMAIN asked[c] : asked[c][i].kind # "bad"
          /\ \E n \in 1 .. MaxSent, kind \in {"end", "bad"} :
               asked' = [asked EXCEPT ![c] = Append(@, [from |-> c, n |-> n, kind |-> kind])]
          /\ UNCHANGED <<history, got>>

\* Some requests of one client: the next ones it has asked for.
Execute(c) == LET Of(h) == At(h, {i \in DOMAIN h : h[i].from = c})
                  done == Len(Of(history))
              IN  /\ \E n \in done + 1 .. Len(asked[c]) :
                       history' = history \o SubSeq(asked[c], done + 1, n)
                  /\ \A i \in DOMAIN history' : history'[i].kind = "end"
                  /\ UNCHANGED <<asked, got>>

Deliver(c) == LET i == Len(got[c]) + 1
              IN  /\ i <= Len(asked[c])
                  /\ asked[c][i].kind = "end" => asked[c][i] \in Range(history)
                  /\ got' = [got EXCEPT ![c] = Append(@, asked[c][i])]
                  /\ UNCHANGED <<asked, history>>

\* Most of what the loop does shows in none of this.
Unseen == UNCHANGED vars

Next == Unseen \/ \E c \in Client : Ask(c) \/ Execute(c) \/ Deliver(c)

Spec == Init /\ [][Next]_vars
=============================================================================
