-------------------------------- MODULE MuxConn --------------------------------
(***************************************************************************)
(* A connection of src/tcp1/http2.rs or src/tcp2/http3.rs: the ACCEPT TASK *)
(* of acceptor, which takes the requests of the connection one after the   *)
(* other, the WRITE TASK it spawns for each of them, and the response      *)
(* stream between a handler and its WRITE TASK, a channel of 32 events.    *)
(*                                                                         *)
(* The two files differ in what drives the connection.  The h2 crate reads *)
(* and writes the socket only while somebody polls conn.accept(): while    *)
(* the task waits for a body or for a handler, no frame comes in or goes   *)
(* out, and as no capacity is ever released a client can send no more than *)
(* a window of a body.  The QUIC of http3 runs on its own, but there a     *)
(* WRITE TASK waits until the client has room for what it writes.          *)
(*                                                                         *)
(* A handler is the bridge's (HttpBridge): it returns when it is woken by  *)
(* the end of its response or after 90 seconds, and one operation may have *)
(* been looked up before it returned and be applied after.                 *)
(***************************************************************************)
EXTENDS MuxReq, Sequences, SequencesExt

CONSTANTS
  NoShape,     \* the shape of no request
  Proto,       \* the protocols: "h2", "h3" or both
  MaxReqs,     \* bound: how many requests the client makes
  Later,       \* bound: the shapes of those behind the first
  Window,      \* the frames of one body that h2 takes without a release
  Op,          \* the operations Python handlers choose from
  OpsOf,       \* bound: per request, how many of them may have been applied in all
               \* when one is applied to its response, and that one
  Blocks,      \* how many blocks a file has
  Cap          \* the capacity of a response's channel, 32 in the code

ASSUME MuxAssumption ==
  /\ NoShape \notin Shape
  /\ Proto \subseteq {"h2", "h3"}
  /\ {MaxReqs, Window, Blocks, Cap} \subseteq Nat /\ Cap >= 3
  /\ OpsOf \in [1..MaxReqs -> Nat]
  /\ Op \subseteq [kind : {"push", "file", "code", "end"}, attach : BOOLEAN]

Id == 1..MaxReqs

VARIABLES
  proto,
  at,          \* the ACCEPT TASK: "accept", "body", "result", "handler",
               \* "closed"; "exited" when the process has
  cur,         \* how many requests were accepted: the last is being handled
  shape,       \* its shape, until it is handed on
  sent,        \* its body, as far as the client has sent it
  got,         \* what of that came with the head
  req,         \* its parser
  res,         \* what the task will go by: the tag of a read_block
  stream,      \* per request, the fields of Http2Stream
  woken,       \* the running handler has been sent its wake-up
  held,        \* the request whose stream the READ TASK of the bridge holds, or 0
  emit,        \* what an operation pushes and has not sent yet
  ops,         \* how many operations were applied
  promised,    \* per request, the events up to the first end
  chan,        \* per request, the channel's contents
  writer,      \* per request, its WRITE TASK: "none", "run", "done", "panicked"
  out,         \* per request, what its WRITE TASK gave to the library
  flushed,     \* per request, how much of that the client has got
  gone         \* the requests whose stream the client has reset

bodyVars == <<shape, sent, got, req, res>>
taskVars == <<at, cur, bodyVars>>
opVars == <<stream, woken, held, emit, ops, promised>>
writeVars == <<chan, writer, out, flushed, gone>>
vars == <<proto, taskVars, opVars, writeVars>>

NewStream == [headersSent |-> FALSE, body |-> FALSE, file |-> FALSE,
              attach |-> FALSE, valid |-> TRUE]
NoEmit == [id |-> 0, events |-> <<>>]

\* A body of which n frames were sent.  The client's side of its stream is "open"
\* until the client ends it, with END_STREAM, or has "cut" it off.
Part(n, side) == [frames |-> n, side |-> side]

Emit(r, events) == IF events = <<>> THEN NoEmit ELSE [id |-> r, events |-> events]

Init ==
  /\ proto \in Proto
  /\ at = "accept" /\ cur = 0
  /\ shape = NoShape /\ req = NewReq(NoShape) /\ res = "none"
  /\ sent = Part(0, "open") /\ got = Part(0, "open")
  /\ woken = FALSE /\ held = 0 /\ emit = NoEmit /\ ops = 0
  /\ stream = [r \in Id |-> NewStream]
  /\ promised = [r \in Id |-> <<>>]
  /\ chan = [r \in Id |-> <<>>] /\ writer = [r \in Id |-> "none"]
  /\ out = [r \in Id |-> <<>>] /\ flushed = [r \in Id |-> 0] /\ gone = {}

\* What was read for a request is dropped: req.reset(), or the next iteration.
Forget ==
  /\ shape' = NoShape /\ req' = NewReq(NoShape) /\ res' = "none"
  /\ sent' = Part(0, "open") /\ got' = Part(0, "open")

\* The connection is dropped, with all that was not sent.
Over(how) ==
  /\ at' = how /\ cur' = 0
  /\ Forget
  /\ woken' = FALSE /\ held' = 0 /\ emit' = NoEmit /\ ops' = 0
  /\ stream' = [r \in Id |-> NewStream]
  /\ promised' = [r \in Id |-> <<>>]
  /\ chan' = [r \in Id |-> <<>>] /\ writer' = [r \in Id |-> "none"]
  /\ out' = [r \in Id |-> <<>>] /\ flushed' = [r \in Id |-> 0] /\ gone' = {}
  /\ UNCHANGED proto

Live == at \notin {"closed", "exited"}

-----------------------------------------------------------------------------
(* The ACCEPT TASK: a request and its body. *)

\* h2 sees to it that a body has the length that was announced.
Honest(s) == Length[s] \in {0, Chunks[s]}
Allowed(s) == IF proto = "h2" /\ Length[s] \in 1..Chunks[s] THEN Length[s] ELSE Chunks[s]

\* The frames of a body that the client may have sent.
Room(s) == IF proto = "h2" /\ Window < Allowed(s) THEN Window ELSE Allowed(s)

\* What may have been sent of a body: it is not ended before its last frame, and
\* a body of another length is cut off by h2 itself.
Ends(s, n) == n = Chunks[s] /\ (proto = "h2" => Honest(s))
Sendable(s) ==
  {p \in [frames : 0..Room(s), side : {"open", "ended", "cut"}] :
     p.side = "ended" => Ends(s, p.frames)}

\* What may have come with the head; http3 asks for each frame.
WithHead(s) == IF proto = "h2" THEN Sendable(s) ELSE {Part(0, "open")}

\* A request and the part of its body that came with it: its WRITE TASK is
\* spawned, its head is parsed.
Accept(s, part) ==
  LET r == ReadBlock(NewReq(s))
  IN  /\ at = "accept" /\ cur < MaxReqs /\ (cur > 0 => s \in Later)
      /\ r.tag /= "panics"
      /\ cur' = cur + 1 /\ shape' = s /\ sent' = part /\ got' = part
      /\ req' = r.req /\ res' = r.tag
      /\ writer' = [writer EXCEPT ![cur + 1] = "run"]
      /\ gone' = IF part.side = "cut" THEN gone \cup {cur + 1} ELSE gone
      /\ at' = "body"
      /\ UNCHANGED <<proto, opVars, chan, out, flushed>>

\* A panic of the parser is the end of the task, and of the connection.
AcceptPanics(s) ==
  /\ at = "accept" /\ cur < MaxReqs /\ (cur > 0 => s \in Later)
  /\ ReadBlock(NewReq(s)).tag = "panics"
  /\ Over("closed")

\* The client has left, or keep_alive seconds went by without a request.
AcceptEnds ==
  /\ at = "accept"
  /\ Over("closed")

\* The client goes on with the body: a frame, its end, or a reset.
SendData ==
  /\ at = "body" /\ sent.side = "open"
  /\ \/ sent.frames < Room(shape) /\ sent' = Part(sent.frames + 1, "open")
     \/ Ends(shape, sent.frames) /\ sent' = Part(sent.frames, "ended")
     \/ sent' = Part(sent.frames, "cut")
  /\ UNCHANGED <<proto, at, cur, shape, got, req, res, opVars, writeVars>>

\* The part of the body the task can be given: h2 has read what there was when the
\* head was accepted, and nobody polls it for more.
Given == IF proto = "h2" THEN got ELSE sent

\* Mutation of ReadData: the result of the head stays.
ReadDataKeeps ==
  LET r == ReadBlock(AddChunk(req))
  IN  /\ at = "body" /\ req.frames < Given.frames
      /\ r.tag /= "panics"
      /\ req' = r.req /\ UNCHANGED res
      /\ at' = IF r.tag \in {"some", "invalid"} THEN "result" ELSE "body"
      /\ UNCHANGED <<proto, cur, shape, sent, got, opVars, writeVars>>

\* A frame is parsed.  Only a complete request changes what the task goes by:
\* invalid data ends the loop, another error does not even do that.
ReadData ==
  LET r == ReadBlock(AddChunk(req))
  IN  /\ at = "body" /\ req.frames < Given.frames
      /\ r.tag /= "panics"
      /\ req' = r.req
      /\ res' = IF r.tag = "some" THEN "some" ELSE res
      /\ at' = IF r.tag \in {"some", "invalid"} THEN "result" ELSE "body"
      /\ UNCHANGED <<proto, cur, shape, sent, got, opVars, writeVars>>

ReadPanics ==
  /\ at = "body" /\ req.frames < Given.frames
  /\ ReadBlock(AddChunk(req)).tag = "panics"
  /\ Over("closed")

\* There is no more to come: the client has ended the body.
BodyEnds ==
  /\ at = "body" /\ req.frames = Given.frames /\ Given.side = "ended"
  /\ at' = "result"
  /\ UNCHANGED <<proto, cur, bodyVars, opVars, writeVars>>

\* The client, or h2, has cut the body off; frames of it may be lost.
BodyCut ==
  /\ at = "body" /\ Given.side = "cut"
  /\ at' = "result"
  /\ UNCHANGED <<proto, cur, bodyVars, opVars, writeVars>>

-----------------------------------------------------------------------------
(* Http2Stream and Http3Stream, and the operations Python sends. *)

Event(kind) == [kind |-> kind]

\* The head goes out with the first push.  Not every code is a status.
HeadEvents(s) ==
  IF s.headersSent THEN <<>>
  ELSE IF s.valid THEN <<Event("head")>> ELSE <<Event("badhead")>>

\* What set_code, push_json and end push for a 404 or a 409.
Refusal == <<Event("head"), Event("data"), Event("close")>>

\* What an operation pushes: a body in one chunk, a file in one per block.
Events(s, op) ==
  CASE op.kind = "push" -> HeadEvents(s) \o <<Event("data")>>
    [] op.kind = "file" -> HeadEvents(s) \o [i \in 1..Blocks |-> Event("data")]
    [] op.kind = "code" -> <<>>
    [] op.kind = "end" -> <<Event("close")>>

Fields(s, op) ==
  CASE op.kind = "push" -> [s EXCEPT !.headersSent = TRUE, !.attach = op.attach, !.body = TRUE]
    [] op.kind = "file" -> [s EXCEPT !.headersSent = TRUE, !.attach = op.attach, !.file = TRUE]
    [] op.kind = "code" -> [s EXCEPT !.valid = FALSE]
    [] op.kind = "end" -> NewStream

\* What cannot be pushed after what was pushed before.
Misuse(s, op) ==
  \/ op.kind \in {"push", "file"} /\ s.headersSent /\ s.attach /= op.attach
  \/ op.kind = "push" /\ s.file
  \/ op.kind = "file" /\ s.body

\* The stream that the READ TASK of the bridge finds: that of the running handler,
\* or one it looked up before that handler returned.  It applies one operation
\* after the other.
Target == IF held > 0 THEN held ELSE cur
Operating == /\ at = "handler" \/ (Live /\ held > 0)
             /\ emit = NoEmit /\ ops < OpsOf[Target]

\* An operation of a handler that has not ended its response is a promise.
Apply(op) ==
  /\ Operating /\ ~Misuse(stream[Target], op)
  /\ LET events == Events(stream[Target], op)
     IN  /\ emit' = Emit(Target, events)
         /\ promised' = IF held = 0 /\ ~woken
                          THEN [promised EXCEPT ![cur] = @ \o events] ELSE promised
  /\ stream' = [stream EXCEPT ![Target] = Fields(@, op)]
  /\ held' = 0 /\ ops' = ops + 1
  /\ UNCHANGED <<proto, taskVars, woken, writeVars>>

\* process::exit(1).
Exit(op) ==
  /\ Operating /\ Misuse(stream[Target], op)
  /\ Over("exited")

\* Mutation of Sent: no room for the last event.
SentOneLess(r, e) ==
  IF writer[r] = "run" /\ Len(chan[r]) + 1 < Cap THEN [chan EXCEPT ![r] = Append(@, e)]
                                                 ELSE chan

\* cb_builder and cb_send: try_send, its error ignored.
Sent(r, e) ==
  IF writer[r] = "run" /\ Len(chan[r]) < Cap THEN [chan EXCEPT ![r] = Append(@, e)]
                                             ELSE chan

\* An event leaves the operation.  The end of a response wakes its handler.
TrySend ==
  /\ Live /\ emit.events /= <<>>
  /\ LET e == Head(emit.events)
         r == emit.id
     IN  /\ chan' = Sent(r, e)
         /\ emit' = Emit(r, Tail(emit.events))
         /\ woken' = (woken \/ (at = "handler" /\ r = cur /\ e.kind = "close"))
  /\ UNCHANGED <<proto, taskVars, stream, held, ops, promised, writer, out, flushed, gone>>

-----------------------------------------------------------------------------
(* The ACCEPT TASK: what becomes of the request. *)

Through(to) == at' = to /\ Forget /\ UNCHANGED <<proto, cur>>

\* The handler of its path is called.
Dispatch ==
  /\ at = "result" /\ res = "some" /\ Fault[shape] /= "path"
  /\ Through("handler")
  /\ UNCHANGED <<opVars, writeVars>>

\* No handler has this path: 404, or the request was refused: 409.
Refuse ==
  /\ at = "result"
  /\ res = "refused" \/ (res = "some" /\ Fault[shape] = "path")
  /\ Through("accept")
  /\ chan' = [chan EXCEPT ![cur] = Refusal]
  /\ promised' = [promised EXCEPT ![cur] = Refusal]
  /\ UNCHANGED <<stream, woken, held, emit, ops, writer, out, flushed, gone>>

\* There is no complete request: it is dropped without an answer.
Drop ==
  /\ at = "result" /\ res = "none"
  /\ Through("accept")
  /\ UNCHANGED <<opVars, writeVars>>

\* Invalid data in a head ends the connection, also for the responses before.
Break ==
  /\ at = "result" /\ res = "invalid"
  /\ Over("closed")

\* Mutation of Return: without a timeout.
ReturnWoken ==
  /\ at = "handler" /\ emit.id /= cur /\ woken
  /\ Through("accept") /\ woken' = FALSE
  /\ stream' = [stream EXCEPT ![cur] = NewStream]
  /\ held' \in IF held = 0 /\ emit = NoEmit THEN {0, cur} ELSE {held}
  /\ UNCHANGED <<emit, ops, promised, writeVars>>

\* The handler returns, woken or after 90 seconds, and the stream is reset; it
\* has to wait for an operation that is at it.  One more operation may have been
\* looked up before the stream was removed.
Return ==
  /\ at = "handler" /\ emit.id /= cur
  /\ Through("accept") /\ woken' = FALSE
  /\ stream' = [stream EXCEPT ![cur] = NewStream]
  /\ held' \in IF held = 0 /\ emit = NoEmit THEN {0, cur} ELSE {held}
  /\ UNCHANGED <<emit, ops, promised, writeVars>>

-----------------------------------------------------------------------------
(* The WRITE TASK of request r. *)

HasHead(r) == Contains(out[r], Event("head"))
Finished(r) == Contains(out[r], Event("close"))

\* It is through with request r: what is left in the channel is dropped.
Stops(r, as) ==
  /\ writer' = [writer EXCEPT ![r] = as]
  /\ chan' = [chan EXCEPT ![r] = <<>>]

Received(r) == chan' = [chan EXCEPT ![r] = Tail(@)] /\ UNCHANGED writer

\* from_u16(code).unwrap(), or in http3 body(()).unwrap().
WriteBadHead(r) ==
  /\ Head(chan[r]).kind = "badhead"
  /\ Stops(r, "panicked") /\ UNCHANGED out

\* What the library takes of what it is given.
Taken(r, e) == IF r \in gone THEN out ELSE [out EXCEPT ![r] = Append(@, e)]

\* h2 unwraps the result of send_response: a second one is an error, and so is
\* one on a stream that was reset.
WriteHead(r) ==
  /\ Head(chan[r]).kind = "head"
  /\ IF proto = "h2" /\ (HasHead(r) \/ r \in gone) THEN Stops(r, "panicked") /\ UNCHANGED out
     ELSE /\ Received(r)
          /\ out' = IF Finished(r) THEN out ELSE Taken(r, Head(chan[r]))

\* Mutation of WriteChunk2: the task ends with any chunk.
WriteChunk2Breaks(r) ==
  LET e == Head(chan[r])
  IN  /\ proto = "h2" /\ e.kind \in {"data", "close"}
      /\ IF HasHead(r) THEN Stops(r, "done") ELSE Received(r)
      /\ out' = IF HasHead(r) THEN Taken(r, e) ELSE out

\* h2: chunks before the head are dropped, the last one ends the task.
WriteChunk2(r) ==
  LET e == Head(chan[r])
  IN  /\ proto = "h2" /\ e.kind \in {"data", "close"}
      /\ IF HasHead(r) /\ e.kind = "close" THEN Stops(r, "done") ELSE Received(r)
      /\ out' = IF HasHead(r) THEN Taken(r, e) ELSE out

\* http3: the task goes on after finish, but nothing can be sent any more.
WriteChunk3(r) ==
  LET e == Head(chan[r])
  IN  /\ proto = "h3" /\ e.kind \in {"data", "close"}
      /\ Received(r)
      /\ out' = IF Finished(r) THEN out ELSE Taken(r, e)

\* In http3 an await of the last write may last until the client has taken it;
\* while the library has room for more, it does not.
Write(r) ==
  /\ Live /\ writer[r] = "run" /\ chan[r] /= <<>>
  /\ WriteBadHead(r) \/ WriteHead(r) \/ WriteChunk2(r) \/ WriteChunk3(r)
  /\ UNCHANGED <<proto, taskVars, opVars, flushed, gone>>

\* The WRITE TASK waits for nobody.
Free(r) == proto = "h2" \/ flushed[r] = Len(out[r]) \/ r \in gone

\* The library sends what it was given, and the client takes it.  h2 does so while
\* it is polled, by conn.accept() alone.
Polled == at = "accept" \/ (Live /\ proto = "h3")
Flush(r) ==
  /\ Polled /\ r \notin gone
  /\ flushed' = [flushed EXCEPT ![r] = Len(out[r])] /\ flushed' /= flushed
  /\ UNCHANGED <<proto, taskVars, opVars, chan, writer, out, gone>>

\* The client resets the stream of request r, of which it has not got all, and what
\* it has got counts no more.
Abandon(r) ==
  /\ Polled /\ r <= cur /\ r \notin gone
  /\ Finished(r) => flushed[r] < Len(out[r])
  /\ gone' = gone \cup {r} /\ flushed' = [flushed EXCEPT ![r] = 0]
  /\ UNCHANGED <<proto, taskVars, opVars, chan, writer, out>>

-----------------------------------------------------------------------------
\* The steps of the ACCEPT TASK that need neither the client nor a timeout of
\* keep_alive.
Handle == \/ ReadData \/ ReadPanics \/ BodyEnds \/ BodyCut
          \/ Dispatch \/ Refuse \/ Drop \/ Break \/ Return

Next ==
  \/ \E s \in Shape : \E part \in WithHead(s) : Accept(s, part)
  \/ \E s \in Shape : AcceptPanics(s)
  \/ Handle \/ AcceptEnds \/ SendData
  \/ TrySend
  \/ \E op \in Op : Apply(op) \/ Exit(op)
  \/ \E r \in Id : Write(r) \/ Flush(r) \/ Abandon(r)

Spec == Init /\ [][Next]_vars

\* The server's tasks are run.  A client may do nothing: neither send or end a
\* body, nor take what it is sent, nor leave; nor need a Python handler do anything.
FairSpec ==
  /\ Spec
  /\ WF_vars(Handle) /\ WF_vars(TrySend)
  /\ \A r \in Id : WF_vars(Free(r) /\ Write(r))

-----------------------------------------------------------------------------
(* What is promised. *)

\* The response begins with a head, was ended in time, and the channel can hold
\* it.  (An end without a head is ignored by the WRITE TASK of h2.)
Ended(r) ==
  /\ promised[r] /= <<>>
  /\ Head(promised[r]) = Event("head") /\ Last(promised[r]) = Event("close")
  /\ Len(promised[r]) <= Cap

\* A response that was ended and fits the channel goes out as it was pushed,
\* with one head at its front, whatever is applied to its stream after that.
\* (StreamEvent::Builder in the WRITE TASK, headers_sent in Http2Stream::send.)
OneHeadFirst ==
  \A r \in Id : Ended(r) =>
    /\ IsPrefix(out[r], promised[r])
    /\ \A i \in 2..Len(out[r]) : out[r][i] /= Event("head")

\* The bodies this server parses, and those of the length that was announced.
IsParsed(s) == BodyType[s] \in {"json", "form", "multipart"}
Announced(s) == IsParsed(s) /\ Length[s] = Chunks[s]

\* A request whose body this server parses and has the length that was announced
\* is handed to its handler only when every frame of the body was parsed; but for
\* a multipart body that has a frame which was counted and not taken.
\* (res = Ok(Some(1)) in the body loop, content_length and skip in the parser.)
DispatchedWhole ==
  [][at = "result" /\ at' = "handler" /\ Announced(shape)
       /\ Cut[shape].char = {} /\ Fault[shape] /= "disk" =>
       req.frames = Chunks[shape]]_vars

\* Nothing is wrong with what is parsed of it, and no frame ends where a part is
\* refused for what did not come with it.
Sound(s) ==
  IsParsed(s) =>
    /\ Announced(s) /\ Fault[s] \notin {"utf8", "body", "disk", "unclosed"}
    /\ Cut[s].bare = {} /\ Cut[s].char = {}

\* A sound request whose body was not cut off is never left without an answer on
\* a connection that goes on.  (Ok(None) after the body loop.)
SoundIsAnswered ==
  [][at = "result" /\ at' = "accept" /\ promised' = promised /\ Sound(shape) =>
       Given.side = "cut"]_vars

\* The task waits for the body in h2, where what came after the head was accepted
\* is never given to it.
Unpolled == /\ proto = "h2" /\ at = "body"
            /\ req.frames = got.frames /\ got.side = "open"

\* The client of an http3 connection ends every body, or cuts it off.
ClientEnds == []<>(at /= "body" \/ sent.side /= "open" \/ proto = "h2")

\* The task always comes back to accept the next request of the connection, unless
\* h2 does not poll for the body of the last.
ComesBack == ClientEnds => []<>(at \in {"accept", "closed", "exited"} \/ Unpolled)

\* The client takes what it is sent.
ClientTakes == \A r \in Id : WF_vars(Flush(r))

\* A response that has a head and an end and fits the channel gets to a client that
\* takes what it is sent, unless the client resets its stream, or the connection
\* ends or is not polled before.
EndedIsDelivered ==
  ClientTakes =>
    \A r \in Id :
      Ended(r) ~> flushed[r] = Len(promised[r]) \/ r \in gone \/ ~Live \/ Unpolled

\* Every request whose body the client has sent to the end is read to the end:
\* the README's "Large file upload and download support."
UploadsArrive == at = "body" /\ sent.side = "ended" ~> at /= "body"

=============================================================================
