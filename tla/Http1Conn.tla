------------------------------ MODULE Http1Conn ------------------------------
(***************************************************************************)
(* The CONNECTION TASK of acceptor in src/tcp1/http1.rs: it reads blocks   *)
(* into the parser of Http1Req, runs the handler of each request and       *)
(* writes its response, answers 409 to a request that is refused, and      *)
(* closes the connection on a read error, a timeout, a write error or an   *)
(* invalid request.  The first request runs the handler "_connect", the    *)
(* end of the connection the handler "_disconnect".  A panic of the parser *)
(* ends the task where it is.                                              *)
(*                                                                         *)
(* What happens between the call of a handler and the last byte of its     *)
(* response is Http1Response; here it succeeds or fails.                   *)
(***************************************************************************)
EXTENDS Http1Req

CONSTANTS
  MaxSent,     \* bound: how many requests the client sends
  BlockSize    \* block_size_kb * 1024, in tokens

ASSUME ConnAssumption == MaxSent \in Nat /\ BlockSize \in Nat \ {0}

VARIABLES
  sent,        \* the requests sent, in order
  wire,        \* the bytes sent and not yet read
  req,         \* the parser
  at,          \* "read", "parse", "respond", "refuse", "closed" or "panicked"
  lastCtx,     \* last_ctx.is_some()
  dispatched,  \* the requests handlers were called for
  answers,     \* what was answered, and by whom
  calls,       \* how often "_connect" and "_disconnect" were called
  broken       \* history: the requests a read left at a line break before a boundary of theirs

vars == <<sent, wire, req, at, lastCtx, dispatched, answers, calls, broken>>
clientVars == <<sent, wire>>

Message == [n : 1..MaxSent, shape : Shape]

Init ==
  /\ sent = <<>>
  /\ wire = <<>>
  /\ req = Empty
  /\ at = "read"
  /\ lastCtx = FALSE
  /\ dispatched = <<>>
  /\ answers = <<>>
  /\ calls = [connect |-> 0, disconnect |-> 0]
  /\ broken = {}

ClientSend(s) ==
  /\ Len(sent) < MaxSent
  /\ LET m == [n |-> Len(sent) + 1, shape |-> s]
     IN  /\ sent' = Append(sent, m)
         /\ wire' = wire \o Bytes(m)
  /\ UNCHANGED <<req, at, lastCtx, dispatched, answers, calls, broken>>

\* disconnect(): for a client that "_connect" was called for; then return.
Disconnect ==
  /\ calls' = IF lastCtx THEN [calls EXCEPT !.disconnect = @ + 1] ELSE calls
  /\ at' = "closed"

LeavesBroken(t) ==
  /\ t.kind = "body" /\ BodyType[t.msg.shape] = "multipart"
  /\ t.pos \in Cut[t.msg.shape].broken

Read(len) ==
  /\ at = "read"
  /\ len \in 1..BlockSize /\ len <= Len(wire)
  /\ req' = Add(req, Take(wire, len))
  /\ wire' = Drop(wire, len)
  /\ at' = "parse"
  /\ broken' = broken \cup (IF LeavesBroken(wire[len]) THEN {wire[len].msg} ELSE {})
  /\ UNCHANGED <<sent, lastCtx, dispatched, answers, calls>>

\* The end of the stream, a read error, or keep_alive seconds without a byte.
ReadEnds ==
  /\ at = "read"
  /\ Disconnect
  /\ UNCHANGED <<clientVars, req, lastCtx, dispatched, answers, broken>>

\* Mutation of Again: one request per read.
AgainOnce(r) == "read"

\* After a turn the inner loop goes round again unless the buffer is empty.
Again(r) == IF r.buff = <<>> THEN "read" ELSE "parse"

\* What the handler sees: get_path and get_ctx.
Seen(r) == [msg |-> r.msg, body |-> r.body]

\* Mutation of ParseRequest: "_connect" runs for every request.
ParseRequestReconnects(luck) ==
  /\ at = "parse"
  /\ LET r == ReadBlock(req, luck)
     IN  /\ r.tag = "some"
         /\ dispatched' = Append(dispatched, Seen(r.req))
         /\ req' = Reset(r.req)
  /\ calls' = [calls EXCEPT !.connect = @ + 1]
  /\ lastCtx' = TRUE
  /\ at' = "respond"
  /\ UNCHANGED <<clientVars, answers, broken>>

\* read_block has a request: its fields are copied, the parser is reset, and
\* the handler of its path (or of "_") is called.
ParseRequest(luck) ==
  /\ at = "parse"
  /\ LET r == ReadBlock(req, luck)
     IN  /\ r.tag = "some"
         /\ dispatched' = Append(dispatched, Seen(r.req))
         /\ req' = Reset(r.req)
  /\ calls' = IF lastCtx THEN calls ELSE [calls EXCEPT !.connect = @ + 1]
  /\ lastCtx' = TRUE
  /\ at' = "respond"
  /\ UNCHANGED <<clientVars, answers, broken>>

ParseMore(luck) ==
  /\ at = "parse"
  /\ LET r == ReadBlock(req, luck) IN r.tag = "none" /\ req' = r.req
  /\ at' = "read"
  /\ UNCHANGED <<clientVars, lastCtx, dispatched, answers, calls, broken>>

ParseInvalid(luck) ==
  /\ at = "parse"
  /\ LET r == ReadBlock(req, luck) IN r.tag = "invalid" /\ req' = r.req
  /\ Disconnect
  /\ UNCHANGED <<clientVars, lastCtx, dispatched, answers, broken>>

\* Any other error: the 409 response is built; the parser is not reset.
ParseRefused(luck) ==
  /\ at = "parse"
  /\ LET r == ReadBlock(req, luck) IN r.tag = "refused" /\ req' = r.req
  /\ at' = "refuse"
  /\ UNCHANGED <<clientVars, lastCtx, dispatched, answers, calls, broken>>

\* A panic: the task is gone, and its streams and its last_ctx with it.
ParsePanics(luck) ==
  /\ at = "parse"
  /\ ReadBlock(req, luck).tag = "panics"
  /\ at' = "panicked"
  /\ UNCHANGED <<clientVars, req, lastCtx, dispatched, answers, calls, broken>>

Parse ==
  \E luck \in Luck :
    \/ ParseRequest(luck) \/ ParseMore(luck) \/ ParseInvalid(luck)
    \/ ParseRefused(luck) \/ ParsePanics(luck)

\* The handler has returned and the write loop has written its response.
Respond ==
  /\ at = "respond"
  /\ answers' = Append(answers, [msg |-> dispatched[Len(dispatched)].msg, by |-> "handler"])
  /\ at' = Again(req)
  /\ UNCHANGED <<clientVars, req, lastCtx, dispatched, calls, broken>>

\* The write loop failed, or timed out on a response without an end.
RespondFails ==
  /\ at = "respond"
  /\ Disconnect
  /\ UNCHANGED <<clientVars, req, lastCtx, dispatched, answers, broken>>

\* The ERROR WRITE TASK.
Refuse ==
  /\ at = "refuse"
  /\ answers' = Append(answers, [msg |-> req.msg, by |-> "409"])
  /\ Len(answers) <= MaxSent     \* bound: an endless row of answers
  /\ at' = Again(req)
  /\ UNCHANGED <<clientVars, req, lastCtx, dispatched, calls, broken>>

RefuseFails ==
  /\ at = "refuse"
  /\ Disconnect
  /\ UNCHANGED <<clientVars, req, lastCtx, dispatched, answers, broken>>

Next ==
  \/ \E s \in Shape : ClientSend(s)
  \/ \E len \in 1..BlockSize : Read(len)
  \/ ReadEnds
  \/ Parse
  \/ Respond \/ RespondFails
  \/ Refuse \/ RefuseFails

Spec == Init /\ [][Next]_vars

-----------------------------------------------------------------------------
(* Properties. *)

\* Types whose body the server reads.
HasReader(m) == BodyType[m.shape] \in {"json", "form", "multipart"}

\* The body its handler should see.
Expected(m) == IF HasReader(m) /\ BodyLen[m.shape] > 0 THEN <<m>> ELSE <<>>

\* No request has been refused so far.
Clean == at /= "refuse" /\ \A k \in 1..Len(answers) : answers[k].by = "handler"

\* However the bytes are cut into reads, and however many requests a read
\* brings, the handlers are called for the requests sent: in order, none
\* skipped, none twice, until the first request that is refused; each with the
\* body that came with it, or, when a read ended at the line break before a
\* boundary of a multipart body, without all of it.
DispatchedIsPrefix ==
  Clean =>
    /\ Len(dispatched) <= Len(sent)
    /\ \A k \in 1..Len(dispatched) :
         /\ dispatched[k].msg = <<sent[k]>>
         /\ \/ dispatched[k].body = Expected(sent[k])
            \/ sent[k] \in broken /\ dispatched[k].body = <<>>

\* "_connect" runs once, before the first handler, "_disconnect" once and for
\* the same connections, whichever of the eight ways out the task takes; only a
\* panic of the parser takes a client away without "_disconnect".
ConnectPairsWithDisconnect ==
  /\ calls.connect = (IF dispatched = <<>> THEN 0 ELSE 1)
  /\ calls.disconnect = (IF at = "closed" THEN calls.connect ELSE 0)

\* A request the server refuses is not handled all the same.
RefusedIsNotHandled ==
  \A j \in 1..Len(answers), k \in 1..Len(dispatched) :
    answers[j].by = "409" => answers[j].msg /= dispatched[k].msg

\* The reader of a multipart body waits: all that is buffered, the requests
\* behind the body too, ends like a boundary begins.
HeldBack(r) ==
  /\ r.stage = 4 /\ BodyType[r.msg[1].shape] = "multipart"
  /\ r.buff /= <<>> /\ EndsLikeBoundary(r.buff)

\* No request is forgotten in the buffer, whatever came with it in one read:
\* when the connection waits for bytes and there are none, all are answered,
\* unless the last of those bytes look like the beginning of a boundary to the
\* reader of a multipart body.
NothingForgotten ==
  at = "read" /\ wire = <<>> /\ Clean => Len(answers) = Len(sent) \/ HeldBack(req)

=============================================================================
