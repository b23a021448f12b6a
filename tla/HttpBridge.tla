------------------------------- MODULE HttpBridge -------------------------------
(***************************************************************************)
(* The bridge between a native HTTP server (Rust, src/lib.rs) and the      *)
(* Python program that registered its handlers.                            *)
(*                                                                         *)
(* A native handler runs synchronously on a worker thread: it draws a      *)
(* stream id, enters (stream, tx) in the process-wide registry             *)
(* HTTP1_STREAMS, sends "http1_on" to Python over the Unix socket and      *)
(* blocks on rx for at most 90 seconds.  Python runs one task per          *)
(* "http1_on"; its stream proxy sends one message per operation back.  The *)
(* socket's READ TASK looks the id up, applies the operation to the stream *)
(* and, for "http1_end", sends on tx to wake the handler.  The bridges of  *)
(* HTTP/2, HTTP/3 and (as far as the registry goes) WebTransport are the   *)
(* same code under other names.                                            *)
(*                                                                         *)
(* Every operation but "end" (a header, a code, a body, a file) runs the   *)
(* same handler text, so they are one kind here.  The framing of the       *)
(* socket is modelled in UdsChannel; here it is one queue per direction.   *)
(***************************************************************************)
EXTENDS Naturals, Sequences

CONSTANTS
  Worker,      \* the runtime's worker threads, on which handlers block
  MaxStream,   \* bound: how many stream ids are drawn
  MaxOps,      \* bound: how many operations one Python handler issues
  OpsOf        \* and how many of them that of each stream does

ASSUME BridgeAssumption ==
  /\ MaxStream \in Nat
  /\ MaxOps \in Nat
  /\ OpsOf \in [1..MaxStream -> 0..MaxOps]

VARIABLES
  nextId,      \* HTTP1_STREAM_ID
  streams,     \* the ids that are keys of HTTP1_STREAMS
  pc,          \* where each worker is in the handler closure
  cur,         \* the worker's stream_id
  woken,       \* the ids whose channel (tx, rx) holds a 1
  link,        \* the Unix socket: "connecting", "open" or "closed"
  toPy,        \* messages on their way to Python
  toRust,      \* messages on their way to the READ TASK
  held,        \* what the READ TASK holds between its lookup, apply and signal
  running,     \* the ids whose Python handler task has not finished
  issued,      \* per id, the operations Python has issued so far
  applied,     \* per id, the operations that reached the native stream
  outcome      \* per id, how its handler's wait ended

vars == <<nextId, streams, pc, cur, woken, link, toPy, toRust, held,
          running, issued, applied, outcome>>
rustVars == <<nextId, streams, pc, cur, woken, outcome>>
readerVars == <<held, applied>>
pyVars == <<running, issued>>

Id == 1..MaxStream
Kind == {"op", "end"}
Op == [id : Id, n : 1..MaxOps, kind : Kind]
DownMsg == [topic : {"http1_on", "http1_logger"}, id : Id]
Idle == [at |-> "idle"]
InHand == [at : {"apply", "signal"}, op : Op]

Waiting == {"insert", "send", "wait", "remove"}   \* inside the handler closure

-----------------------------------------------------------------------------
Init ==
  /\ nextId = 1
  /\ streams = {}
  /\ pc = [w \in Worker |-> "idle"]
  /\ cur = [w \in Worker |-> 0]
  /\ woken = {}
  /\ link = "connecting"
  /\ toPy = <<>>
  /\ toRust = <<>>
  /\ held = Idle
  /\ running = {}
  /\ issued = [i \in Id |-> <<>>]
  /\ applied = [i \in Id |-> <<>>]
  /\ outcome = [i \in Id |-> "none"]

\* UnixDomainSocket::send: with no entry in UDS_STREAMS yet, or with a peer
\* that has gone, the frame is dropped and the caller is not told.
SendDown(m) == toPy' = IF link = "open" THEN Append(toPy, m) ELSE toPy

-----------------------------------------------------------------------------
(* The native handler, one worker thread. *)

\* Mutation of Alloc: Python is told before the stream is in the registry.
AllocSendsFirst(w) ==
  /\ pc[w] = "idle"
  /\ nextId <= MaxStream
  /\ cur' = [cur EXCEPT ![w] = nextId]
  /\ nextId' = nextId + 1
  /\ pc' = [pc EXCEPT ![w] = "insert"]
  /\ SendDown([topic |-> "http1_on", id |-> nextId])
  /\ UNCHANGED <<streams, woken, link, toRust, outcome, readerVars, pyVars>>

\* Mutation of Alloc: the id is the counter after its increment.
AllocAfterIncrement(w) ==
  /\ pc[w] = "idle"
  /\ nextId <= MaxStream
  /\ cur' = [cur EXCEPT ![w] = nextId + 1]
  /\ nextId' = nextId + 1
  /\ pc' = [pc EXCEPT ![w] = "insert"]
  /\ UNCHANGED <<streams, woken, link, toPy, toRust, outcome, readerVars, pyVars>>

Alloc(w) ==
  /\ pc[w] = "idle"
  /\ nextId <= MaxStream
  /\ cur' = [cur EXCEPT ![w] = nextId]
  /\ nextId' = nextId + 1
  /\ pc' = [pc EXCEPT ![w] = "insert"]
  /\ UNCHANGED <<streams, woken, link, toPy, toRust, outcome, readerVars, pyVars>>

Insert(w) ==
  /\ pc[w] = "insert"
  /\ streams' = streams \cup {cur[w]}
  /\ pc' = [pc EXCEPT ![w] = "send"]
  /\ UNCHANGED <<nextId, cur, woken, link, toPy, toRust, outcome, readerVars, pyVars>>

SendOn(w) ==
  /\ pc[w] = "send"
  /\ SendDown([topic |-> "http1_on", id |-> cur[w]])
  /\ pc' = [pc EXCEPT ![w] = "wait"]
  /\ UNCHANGED <<nextId, streams, cur, woken, link, toRust, outcome, readerVars, pyVars>>

\* recv_timeout returned the 1 that uds_http1_end sent.
Wake(w) ==
  /\ pc[w] = "wait"
  /\ cur[w] \in woken
  /\ outcome' = [outcome EXCEPT ![cur[w]] = "ended"]
  /\ pc' = [pc EXCEPT ![w] = "remove"]
  /\ UNCHANGED <<nextId, streams, cur, woken, link, toPy, toRust, readerVars, pyVars>>

\* Mutation of Timeout: return without removing the entry.
TimeoutLeaks(w) ==
  /\ pc[w] = "wait"
  /\ cur[w] \notin woken
  /\ SendDown([topic |-> "http1_logger", id |-> cur[w]])
  /\ outcome' = [outcome EXCEPT ![cur[w]] = "timeout"]
  /\ pc' = [pc EXCEPT ![w] = "idle"]
  /\ UNCHANGED <<nextId, streams, cur, woken, link, toRust, readerVars, pyVars>>

\* Mutation of Timeout: go on waiting for a value.
TimeoutContinues(w) == pc[w] = "wait" /\ cur[w] \notin woken /\ UNCHANGED vars

\* 90 seconds went by with nothing in the channel: log and give up.
Timeout(w) ==
  /\ pc[w] = "wait"
  /\ cur[w] \notin woken
  /\ SendDown([topic |-> "http1_logger", id |-> cur[w]])
  /\ outcome' = [outcome EXCEPT ![cur[w]] = "timeout"]
  /\ pc' = [pc EXCEPT ![w] = "remove"]
  /\ UNCHANGED <<nextId, streams, cur, woken, link, toRust, readerVars, pyVars>>

\* The registry entry goes, the closure returns and rx is dropped with it.
Remove(w) ==
  /\ pc[w] = "remove"
  /\ streams' = streams \ {cur[w]}
  /\ pc' = [pc EXCEPT ![w] = "idle"]
  /\ UNCHANGED <<nextId, cur, woken, link, toPy, toRust, outcome, readerVars, pyVars>>

Handler(w) ==
  Alloc(w) \/ Insert(w) \/ SendOn(w) \/ Wake(w) \/ Timeout(w) \/ Remove(w)

-----------------------------------------------------------------------------
(* The socket's READ TASK: lookup under the registry lock, then apply under *)
(* the stream's lock, then (for an end) the send on tx.                     *)

\* Mutation of Lookup: the message is not taken off, so it is handled again.
LookupKeepsMessage ==
  /\ held = Idle
  /\ toRust /= <<>>
  /\ Head(toRust).id \in streams
  /\ held' = [at |-> "apply", op |-> Head(toRust)]
  /\ UNCHANGED <<toPy, toRust, link, applied, rustVars, pyVars>>

\* Mutation of Lookup: an end is signalled without ending the stream.
LookupSignalsOnly ==
  /\ held = Idle
  /\ toRust /= <<>>
  /\ Head(toRust).id \in streams
  /\ held' = [at |-> IF Head(toRust).kind = "end" THEN "signal" ELSE "apply",
              op |-> Head(toRust)]
  /\ toRust' = Tail(toRust)
  /\ UNCHANGED <<toPy, link, applied, rustVars, pyVars>>

\* Mutation of Lookup: a stream kept from an earlier lookup is used.
LookupStale ==
  /\ held = Idle
  /\ toRust /= <<>>
  /\ held' = [at |-> "apply", op |-> Head(toRust)]
  /\ toRust' = Tail(toRust)
  /\ UNCHANGED <<toPy, link, applied, rustVars, pyVars>>

Lookup ==
  /\ held = Idle
  /\ toRust /= <<>>
  /\ toRust' = Tail(toRust)
  /\ IF Head(toRust).id \in streams
       THEN /\ held' = [at |-> "apply", op |-> Head(toRust)]
            /\ UNCHANGED toPy
       ELSE /\ SendDown([topic |-> "http1_logger", id |-> Head(toRust).id])
            /\ UNCHANGED held
  /\ UNCHANGED <<link, applied, rustVars, pyVars>>

Apply ==
  /\ held.at = "apply"
  /\ applied' = [applied EXCEPT ![held.op.id] = Append(@, held.op)]
  /\ held' = IF held.op.kind = "end" THEN [at |-> "signal", op |-> held.op] ELSE Idle
  /\ UNCHANGED <<link, toPy, toRust, rustVars, pyVars>>

\* Mutation of Signal: the handler is not woken.
SignalLost ==
  /\ held.at = "signal"
  /\ held' = Idle
  /\ UNCHANGED <<nextId, streams, pc, cur, woken, outcome, link, toPy, toRust, applied, pyVars>>

\* tx.send(1); the error of a receiver that has gone is ignored.
Signal ==
  /\ held.at = "signal"
  /\ woken' = woken \cup {held.op.id}
  /\ held' = Idle
  /\ UNCHANGED <<nextId, streams, pc, cur, outcome, link, toPy, toRust, applied, pyVars>>

Reader == Lookup \/ Apply \/ Signal

-----------------------------------------------------------------------------
(* The Python side. *)

\* UnixDomainSocket.acceptor: create_task(handler_adapter(...)) for a request,
\* a log line for a logger message.
Dispatch ==
  /\ toPy /= <<>>
  /\ toPy' = Tail(toPy)
  /\ running' = IF Head(toPy).topic = "http1_on"
                  THEN running \cup {Head(toPy).id} ELSE running
  /\ UNCHANGED <<link, toRust, issued, rustVars, readerVars>>

\* The user's handler awaits one method of its Http1Stream.
Issue(i, k) ==
  /\ i \in running
  /\ link = "open"
  /\ Len(issued[i]) < OpsOf[i]
  /\ LET op == [id |-> i, n |-> Len(issued[i]) + 1, kind |-> k]
     IN  /\ issued' = [issued EXCEPT ![i] = Append(@, op)]
         /\ toRust' = Append(toRust, op)
  /\ UNCHANGED <<link, toPy, running, rustVars, readerVars>>

\* The user's handler returns, or raises: it may never have called end.
Finish(i) ==
  /\ i \in running
  /\ running' = running \ {i}
  /\ UNCHANGED <<link, toPy, toRust, issued, rustVars, readerVars>>

Python == Dispatch \/ \E i \in Id : Finish(i) \/ \E k \in Kind : Issue(i, k)

-----------------------------------------------------------------------------
(* The connection. *)

\* acceptor: the native side enters its sender in UDS_STREAMS.  Python's
\* open_unix_connection may have returned, and http1_start run, before it.
Accept ==
  /\ link = "connecting"
  /\ link' = "open"
  /\ UNCHANGED <<toPy, toRust, rustVars, readerVars, pyVars>>

\* UnixDomainSocket.stop on the Python side: what is on its way to Python is
\* lost, what Python had written is still read.
Close ==
  /\ link = "open"
  /\ link' = "closed"
  /\ toPy' = <<>>
  /\ UNCHANGED <<toRust, rustVars, readerVars, pyVars>>

Next ==
  \/ \E w \in Worker : Handler(w)
  \/ Reader
  \/ Python
  \/ Accept
  \/ Close

Spec == Init /\ [][Next]_vars

-----------------------------------------------------------------------------
(* Properties. *)

TypeOK ==
  /\ nextId \in 1..(MaxStream + 1)
  /\ streams \subseteq Id
  /\ pc \in [Worker -> Waiting \cup {"idle"}]
  /\ cur \in [Worker -> Id \cup {0}]
  /\ woken \subseteq Id
  /\ link \in {"connecting", "open", "closed"}
  /\ toPy \in Seq(DownMsg)
  /\ toRust \in Seq(Op)
  /\ held \in InHand \cup {Idle}
  /\ running \subseteq Id
  /\ issued \in [Id -> Seq(Op)]
  /\ applied \in [Id -> Seq(Op)]
  /\ outcome \in [Id -> {"none", "ended", "timeout"}]

Registered == {"send", "wait", "remove"}

\* HTTP1_STREAMS holds the streams of the handlers that are between insert and
\* remove, no other and none missing, and no two handlers share an id: an entry
\* never outlives its request, and no request loses or steals another's entry.
RegistryIsLive ==
  /\ streams = {cur[w] : w \in {v \in Worker : pc[v] \in Registered}}
  /\ \A v, w \in Worker :
       pc[v] /= "idle" /\ pc[w] /= "idle" /\ cur[v] = cur[w] => v = w

\* Python never knows of a stream before the registry does: an id on its way to
\* Python, or handled there, is registered or its handler has already given up.
RegisteredBeforeSent ==
  \A i \in Id :
    \/ i \in running
    \/ \E k \in 1..Len(toPy) : toPy[k] = [topic |-> "http1_on", id |-> i]
    => i \in streams \/ outcome[i] /= "none"

\* What reached the native stream is a prefix of what the Python handler did,
\* in its order: nothing is skipped, repeated, reordered or taken from another
\* request, whatever the interleaving of handlers, tasks and timeouts.
AppliedInOrder ==
  \A i \in Id :
    /\ Len(applied[i]) <= Len(issued[i])
    /\ \A k \in 1..Len(applied[i]) : applied[i][k] = issued[i][k]

\* A handler that was woken, and did not time out, finds the end of its response
\* in the stream: uds_http1_end ends the stream before it signals.
WokenHasEnded ==
  \A i \in Id :
    outcome[i] = "ended" => \E k \in 1..Len(applied[i]) : applied[i][k].kind = "end"

\* "No stream found" is only ever answered to a request whose handler has
\* stopped waiting: an operation of a live request is never refused.
RefusedOnlyWhenOver ==
  [][ \A i \in Id :
        /\ toRust /= <<>> /\ toRust' = Tail(toRust)
        /\ Head(toRust).id = i /\ held' = held
        => outcome[i] /= "none" ]_vars

\* No wake-up is lost: once Python has ended a request its handler stops
\* waiting, even if the timer never fires.
EndWakes ==
  \A i \in Id :
    (\E k \in 1..Len(issued[i]) : issued[i][k].kind = "end") ~> outcome[i] /= "none"

-----------------------------------------------------------------------------
(* Fairness.  A runnable thread is scheduled: tokio's workers and the READ  *)
(* TASK are OS threads or run on them.  Nothing is assumed of the Python    *)
(* program, and of the 90-second timer only where a property says so.       *)

LiveSpec ==
  /\ Spec
  /\ \A w \in Worker : /\ WF_vars(Insert(w)) /\ WF_vars(SendOn(w))
                       /\ WF_vars(Wake(w)) /\ WF_vars(Remove(w))
  /\ WF_vars(Reader)

TimerFairness == \A w \in Worker : WF_vars(Wake(w) \/ Timeout(w))

\* Every handler gives its worker thread back, whatever Python and the socket
\* do, if the 90-second timer fires when nothing else ends the wait.
HandlerReturns == TimerFairness => \A w \in Worker : pc[w] /= "idle" ~> pc[w] = "idle"

-----------------------------------------------------------------------------
(* The bridge implements the request/response exchange of HttpExchange.     *)

HandedOver == IF held = Idle \/ held.at = "signal" THEN <<>> ELSE <<held.op>>

Status == [i \in Id |->
  IF i \in streams THEN "open" ELSE IF outcome[i] = "none" THEN "new" ELSE outcome[i]]

Exchange == INSTANCE HttpExchange WITH
  status <- Status, hand <- HandedOver, response <- applied, asked <- issued

ExchangeSpec == Exchange!Spec

=============================================================================
