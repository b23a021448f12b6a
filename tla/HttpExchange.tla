----------------------------- MODULE HttpExchange -----------------------------
(***************************************************************************)
(* What the bridge promises a request, with threads, queues, registry and  *)
(* the socket left out.  A request is opened once.  While it is open, the  *)
(* operations its Python handler asks for are taken up one at a time, in   *)
(* the order they were asked for, and each one taken up becomes part of    *)
(* the response.  It is closed once: "ended" only if the response holds an *)
(* end, "timeout" at any time.  After that nothing more is taken up: at    *)
(* most the one operation already in hand still reaches the response.      *)
(***************************************************************************)
EXTENDS Naturals, Sequences

CONSTANTS Id, Op

VARIABLES
  status,      \* per request: "new", "open", "ended" or "timeout"
  hand,        \* the operation taken up and not yet part of a response
  response,    \* per request, the operations its response is made of
  asked        \* per request, the operations Python has asked for

vars == <<status, hand, response, asked>>

Init ==
  /\ status = [i \in Id |-> "new"]
  /\ hand = <<>>
  /\ response = [i \in Id |-> <<>>]
  /\ asked = [i \in Id |-> <<>>]

Ended(i) == \E k \in 1..Len(response[i]) : response[i][k].kind = "end"

Open(i) ==
  /\ status[i] = "new"
  /\ status' = [status EXCEPT ![i] = "open"]
  /\ UNCHANGED <<hand, response, asked>>

Ask(i) ==
  /\ status[i] /= "new"
  /\ \E op \in Op : op.id = i /\ asked' = [asked EXCEPT ![i] = Append(@, op)]
  /\ UNCHANGED <<status, hand, response>>

\* The next operation in the order asked.
TakeUp(i) ==
  /\ hand = <<>>
  /\ status[i] = "open"
  /\ Len(response[i]) < Len(asked[i])
  /\ hand' = <<asked[i][Len(response[i]) + 1]>>
  /\ UNCHANGED <<status, response, asked>>

Put(i) ==
  /\ hand /= <<>>
  /\ hand[1].id = i
  /\ response' = [response EXCEPT ![i] = Append(@, hand[1])]
  /\ hand' = <<>>
  /\ UNCHANGED <<status, asked>>

CloseEnded(i) ==
  /\ status[i] = "open"
  /\ Ended(i)
  /\ status' = [status EXCEPT ![i] = "ended"]
  /\ UNCHANGED <<hand, response, asked>>

CloseTimeout(i) ==
  /\ status[i] = "open"
  /\ status' = [status EXCEPT ![i] = "timeout"]
  /\ UNCHANGED <<hand, response, asked>>

Next == \E i \in Id :
  \/ Open(i) \/ Ask(i) \/ TakeUp(i) \/ Put(i)
  \/ CloseEnded(i) \/ CloseTimeout(i)

Spec == Init /\ [][Next]_vars

=============================================================================
