----------------------------- MODULE Http1Response -----------------------------
(***************************************************************************)
(* One response of src/tcp1/http1.rs, from the call of the handler to the  *)
(* last byte written: Http1Stream, the channel of 32 events between it and *)
(* the CONNECTION TASK, and that task's write loop.                        *)
(*                                                                         *)
(* The handler runs on the connection's own thread and returns when the    *)
(* bridge wakes it or times out (HttpBridge); until then nobody receives   *)
(* from the channel.  The operations are applied by the READ TASK of the   *)
(* bridge, which pushes their events with try_send: an event that finds    *)
(* the channel full is dropped, and nobody is told.  One operation may     *)
(* have been looked up before the handler returned and be applied after.   *)
(*                                                                         *)
(* A user's "_connect" handler, when there is one, runs first, on the same *)
(* stream.                                                                 *)
(***************************************************************************)
EXTENDS Naturals, Sequences, SequencesExt

CONSTANTS
  Op,          \* the operations Python handlers choose from
  MaxOps,      \* bound: how many of them are applied
  Cap,         \* the channel's capacity, 32 in the code
  UserConnect  \* whether the user has registered "_connect": the cases there are

ASSUME ResponseAssumption ==
  /\ Op \subseteq [kind : {"push", "file", "missing", "code", "end"}, size : Nat, attach : BOOLEAN]
  /\ MaxOps \in Nat /\ Cap \in Nat \ {0}
  /\ UserConnect \subseteq BOOLEAN

VARIABLES
  onConnect,   \* the handler "_connect" is the user's
  stream,      \* the fields of Http1Stream
  emit,        \* events of the operation being applied, not yet sent
  chan,        \* the channel's contents
  out,         \* the events written to the socket
  at,          \* "connect", "handler", "drain", "writing", "flushing", "done",
               \* "failed", "timeout", "exited"
  woken,       \* the running handler has been sent its wake-up
  late,        \* an operation was applied after the handler returned
  applied,     \* how many operations were applied
  promised     \* the events of the operations applied before the handler returned

vars == <<onConnect, stream, emit, chan, out, at, woken, late, applied, promised>>

New == [headersSent |-> FALSE, file |-> FALSE, attach |-> FALSE, known |-> TRUE]

Init ==
  /\ onConnect \in UserConnect
  /\ stream = New
  /\ emit = <<>> /\ chan = <<>> /\ out = <<>>
  /\ at = IF onConnect THEN "connect" ELSE "handler"
  /\ woken = FALSE /\ late = FALSE
  /\ applied = 0
  /\ promised = <<>>

-----------------------------------------------------------------------------
(* Http1Stream. *)

HeadEvent(op) == [kind |-> "head", size |-> op.size, n |-> applied + 1]
DataEvent(k) == [kind |-> "data", size |-> k, n |-> applied + 1]
FlushEvent == [kind |-> "flush", size |-> 0, n |-> applied + 1]

\* push_bytes, push_json and push_file end the process when they are called
\* with the other attachment flag after the head, or for a body after a file;
\* send does for a file that is not there, get_headers for a status code it does
\* not know.
Misuse(op) ==
  \/ op.kind = "missing"
  \/ op.kind \in {"push", "file"} /\ stream.headersSent /\ stream.attach /= op.attach
  \/ op.kind = "push" /\ stream.file
  \/ op.kind \in {"push", "file"} /\ ~stream.headersSent /\ ~stream.known

\* Mutation of Fields: a push does not note that the head is sent.
FieldsForgetHead(op) ==
  CASE op.kind \in {"push", "file"} -> [stream EXCEPT !.attach = op.attach]
    [] op.kind = "code" -> [stream EXCEPT !.known = op.size < 600]
    [] op.kind = "end" -> New

\* The stream after an operation.
Fields(op) ==
  CASE op.kind \in {"push", "file"} ->
         [stream EXCEPT !.headersSent = TRUE, !.attach = op.attach,
                        !.file = @ \/ op.kind = "file"]
    [] op.kind = "code" -> [stream EXCEPT !.known = op.size < 600]
    [] op.kind = "end" -> New

\* Mutation of HeadEvents: the length of a file is not known yet.
HeadWithoutLength(op) ==
  IF stream.headersSent THEN <<>> ELSE <<[HeadEvent(op) EXCEPT !.size = 0]>>

\* The head goes out with the first push, with the length of that push.
HeadEvents(op) == IF stream.headersSent THEN <<>> ELSE <<HeadEvent(op)>>

\* send: a body is one chunk, a file one per block.
Events(op) ==
  CASE op.kind = "push" -> HeadEvents(op) \o <<DataEvent(op.size)>>
    [] op.kind = "file" -> HeadEvents(op) \o [b \in 1..op.size |-> DataEvent(1)]
    [] op.kind = "code" -> <<>>
    [] op.kind = "end" -> <<FlushEvent>>

-----------------------------------------------------------------------------
(* The READ TASK of the bridge. *)

Registered == at \in {"connect", "handler"}
Returned == at \in {"drain", "writing", "flushing", "done", "failed", "timeout"}

\* The channel has its receiver.
Open == at \in {"connect", "handler", "drain", "writing", "flushing"}

\* An operation on the stream, looked up while the handler is registered.
Apply(op) ==
  /\ emit = <<>>
  /\ applied < MaxOps
  /\ Registered \/ (Returned /\ ~late)
  /\ late' = Returned
  /\ applied' = applied + 1
  /\ IF Misuse(op)
       THEN at' = "exited" /\ UNCHANGED <<stream, emit, promised>>
       ELSE /\ stream' = Fields(op)
            /\ emit' = Events(op)
            /\ promised' = IF Registered THEN promised \o Events(op) ELSE promised
            /\ UNCHANGED at
  /\ UNCHANGED <<onConnect, chan, out, woken>>

\* Mutation of TrySend: the channel takes one event less.
TrySendOneLess ==
  /\ emit /= <<>>
  /\ emit' = Tail(emit)
  /\ chan' = IF Open /\ Len(chan) < Cap - 1
               THEN Append(chan, Head(emit)) ELSE chan
  /\ woken' = (woken \/ (Registered /\ Head(emit).kind = "flush"))
  /\ UNCHANGED <<onConnect, stream, out, at, late, applied, promised>>

\* cb_send: try_send, its error ignored; after an end the handler is woken.
TrySend ==
  /\ emit /= <<>>
  /\ emit' = Tail(emit)
  /\ chan' = IF Open /\ Len(chan) < Cap
               THEN Append(chan, Head(emit)) ELSE chan
  /\ woken' = (woken \/ (Registered /\ Head(emit).kind = "flush"))
  /\ UNCHANGED <<onConnect, stream, out, at, late, applied, promised>>

-----------------------------------------------------------------------------
(* The CONNECTION TASK. *)

\* The handler returns, woken or after 90 seconds; after "_connect" comes the
\* handler of the request.
Return ==
  /\ Registered
  /\ at' = IF at = "connect" THEN "handler" ELSE "drain"
  /\ woken' = (woken /\ at = "handler")
  /\ UNCHANGED <<onConnect, stream, emit, chan, out, late, applied, promised>>

\* One event is received and given to write_all, or to flush for the end: both
\* wait until the client has taken what the socket holds, without a timeout.
Write ==
  /\ at = "drain" /\ chan /= <<>>
  /\ chan' = Tail(chan)
  /\ IF Head(chan).kind = "flush"
       THEN at' = "flushing" /\ UNCHANGED out
       ELSE at' = "writing" /\ out' = Append(out, Head(chan))
  /\ UNCHANGED <<onConnect, stream, emit, woken, late, applied, promised>>

\* The client has taken it; the first flush ends the loop.
Written ==
  /\ at \in {"writing", "flushing"}
  /\ at' = IF at = "flushing" THEN "done" ELSE "drain"
  /\ UNCHANGED <<onConnect, stream, emit, chan, out, woken, late, applied, promised>>

\* The client is gone.
WriteFails ==
  /\ at \in {"writing", "flushing"}
  /\ at' = "failed"
  /\ UNCHANGED <<onConnect, stream, emit, chan, out, woken, late, applied, promised>>

\* Mutation of WriteTimeout: wait on.
WriteTimeoutNever == at = "drain" /\ chan = <<>> /\ UNCHANGED vars

\* keep_alive seconds with nothing in the channel; it is never closed, since
\* the stream holds a sender.  This timeout is for the channel alone.
WriteTimeout ==
  /\ at = "drain" /\ chan = <<>>
  /\ at' = "timeout"
  /\ UNCHANGED <<onConnect, stream, emit, chan, out, woken, late, applied, promised>>

Next ==
  \/ \E op \in Op : Apply(op)
  \/ TrySend
  \/ Return
  \/ Write \/ Written \/ WriteFails \/ WriteTimeout

Spec == Init /\ [][Next]_vars

\* The thread of the connection goes on: the wait for the handler ends, and
\* the write loop receives or has its timeout.  Nothing here is the client's.
FairSpec == Spec /\ WF_vars(Return) /\ WF_vars(Write \/ WriteTimeout)

-----------------------------------------------------------------------------
(* Properties. *)

IsFlush(e) == e.kind = "flush"

\* The client gets one head, and first: whatever the handlers do and when, no
\* second head and no body byte before the head is written, if the channel held
\* what they pushed.  (headers_sent in Http1Stream::send and reset.)
OneHeadFirst ==
  Len(promised) <= Cap => \A k \in 1..Len(out) : out[k].kind = "head" <=> k = 1

\* A response that its handler has ended, and that the channel holds with its
\* head and its end, is delivered: when the write loop is over without an error,
\* all that was pushed up to the end is written, whatever is applied after it.
\* (A "_connect" of the user shares the stream: its end is the end of both.)
EndedIsDelivered ==
  LET end == SelectInSeq(promised, IsFlush)
  IN  ~onConnect /\ at \in {"done", "timeout"} /\ end \in 1..Cap /\ woken
        => at = "done" /\ out = SubSeq(promised, 1, end - 1)

\* The bytes of the body, which is all that follows the head.
BodyLength(q) ==
  LET upto[k \in 0..Len(q)] == IF k <= 1 THEN 0 ELSE upto[k - 1] + q[k].size
  IN  upto[Len(q)]

\* What the head says is what follows it, if the handler pushes once and the
\* channel holds it.  (Content-Length in Http1Stream::send.)
LengthIsBody ==
  LET once == \A j, k \in 1..Len(out) : out[j].n = out[k].n
  IN  at = "done" /\ woken /\ out /= <<>> /\ once /\ Len(promised) <= Cap
        => out[1].size = BodyLength(out)

\* The client takes what it is sent, or goes away.
ClientTakes == WF_vars(Written \/ WriteFails)

\* With a client that takes what it is sent or goes away, the task of the
\* connection comes back to its read loop or ends, whatever the handler sends and
\* whether or not it ends its response.  (A client that does neither holds it:
\* write_all has no timeout.)
Finishes == ClientTakes => <>(at \in {"done", "failed", "timeout", "exited"})

=============================================================================
