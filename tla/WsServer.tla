------------------------------- MODULE WsServer -------------------------------
(***************************************************************************)
(* The WebSocket server of src/tcp1/ws.rs with its bridge to Python        *)
(* (ws_create and ws_on of src/lib.rs).                                    *)
(*                                                                         *)
(* A connection has a CONNECTION TASK, which takes a slot of the rate      *)
(* limit during the handshake and gives it back at its end, and, once it   *)
(* is open, a READ TASK that runs the handlers, a WRITE TASK that empties  *)
(* a channel onto the socket, and a PING TASK.  The connection ends with   *)
(* the first of READ TASK and WRITE TASK; the other one is detached, not   *)
(* stopped.                                                                *)
(*                                                                         *)
(* A bridged handler does not wait for Python: it enters the connection's  *)
(* stream in WS_STREAMS and sends "ws_on".  Python answers by the address  *)
(* of the client, at any later time, through the one stream its connection *)
(* has.                                                                    *)
(*                                                                         *)
(* A client sends one frame per WebSocket message.  Message n of a client  *)
(* has the topic n.                                                        *)
(***************************************************************************)
EXTENDS Naturals, Sequences, FiniteSets

CONSTANTS
  Client,      \* connections, each with an address of its own
  Ip,          \* per connection, the IP address it comes from
  RateLimit,   \* rate_limit
  Cap,         \* capacity of a connection's channel, 64 in the code
  MaxSent,     \* bound, per connection: how many messages the client sends
  UserConnect  \* TRUE: Python has registered "_connect"

ASSUME WsAssumption ==
  /\ IsFiniteSet(Client)
  /\ Ip \in [Client -> STRING]
  /\ RateLimit \in Nat \ {0} /\ Cap \in Nat \ {0}
  /\ MaxSent \in [Client -> Nat]
  /\ UserConnect \in BOOLEAN

VARIABLES
  phase,       \* "new", "counted", "open", "over"; "refused", "failed", "lost"
  slots,       \* rate_limit_map
  wire,        \* what the client has sent and the READ TASK has not read
  sent,        \* how many messages the client has sent
  reader,      \* the READ TASK: "none", "run", "ended"
  writer,      \* the WRITE TASK
  pinger,      \* the PING TASK
  lastArgs,    \* the message last_args is from, or 0
  topic,       \* the topic of the connection's stream
  chan,        \* the channel's contents
  told,        \* the connections "_disconnect" has been called for
  streams,     \* the addresses in WS_STREAMS
  tasks,       \* "ws_on" messages sent to Python and not answered
  toRust       \* "ws_push" and "ws_close" messages on their way back

connVars == <<phase, slots, sent, told>>
taskVars == <<wire, reader, writer, pinger, lastArgs, topic>>
bridgeVars == <<tasks, toRust>>
vars == <<connVars, taskVars, chan, streams, bridgeVars>>

Init ==
  /\ phase = [c \in Client |-> "new"]
  /\ slots = <<>>
  /\ wire = [c \in Client |-> <<>>] /\ sent = [c \in Client |-> 0]
  /\ reader = [c \in Client |-> "none"] /\ writer = [c \in Client |-> "none"]
  /\ pinger = [c \in Client |-> "none"]
  /\ lastArgs = [c \in Client |-> 0] /\ topic = [c \in Client |-> 0]
  /\ chan = [c \in Client |-> <<>>]
  /\ told = {} /\ streams = {}
  /\ tasks = {} /\ toRust = <<>>

-----------------------------------------------------------------------------
(* The handshake. *)

\* http::HeaderMap yields its names in lower case.
Header(c) == [name |-> "x-forwarded-for", value |-> Ip[c]]

\* read_headers and get_ip.
GetIp(c) ==
  IF Header(c).name \in {"X-Forwarded-For", "X-Real-IP", "CF-Connecting-IP", "CF-Connecting-IPv6"}
    THEN Header(c).value ELSE "_"

Entry(ip) == IF ip \in DOMAIN slots THEN slots[ip] ELSE 0
WithEntry(ip, n) ==
  [i \in (DOMAIN slots \ {ip}) \cup (IF n = 0 THEN {} ELSE {ip}) |-> IF i = ip THEN n ELSE slots[i]]

\* The callback of the handshake: 429, or a slot.
Admit(c, limit) ==
  /\ phase[c] = "new"
  /\ IF Entry(GetIp(c)) >= limit
       THEN phase' = [phase EXCEPT ![c] = "refused"] /\ UNCHANGED slots
       ELSE /\ phase' = [phase EXCEPT ![c] = "counted"]
            /\ slots' = WithEntry(GetIp(c), Entry(GetIp(c)) + 1)
  /\ UNCHANGED <<sent, told, taskVars, chan, streams, bridgeVars>>

\* Mutation of Check: one connection more than the limit.
CheckLate(c) == Admit(c, RateLimit + 1)

Check(c) == Admit(c, RateLimit)

\* A handshake error or timeout: a slot taken by then is not given back.
HandshakeFails(c) ==
  /\ phase[c] \in {"new", "counted"}
  /\ phase' = [phase EXCEPT ![c] = IF phase[c] = "new" THEN "failed" ELSE "lost"]
  /\ UNCHANGED <<slots, sent, told, taskVars, chan, streams, bridgeVars>>

\* The handler of ws_on: it enters the stream and tells Python.
Bridged(c, n) ==
  /\ streams' = streams \cup {c}
  /\ tasks' = tasks \cup {[client |-> c, n |-> n]}
  /\ UNCHANGED toRust

\* The handshake is done: "_connect" is called, the tasks start.
Open(c) ==
  /\ phase[c] = "counted"
  /\ phase' = [phase EXCEPT ![c] = "open"]
  /\ reader' = [reader EXCEPT ![c] = "run"]
  /\ writer' = [writer EXCEPT ![c] = "run"]
  /\ pinger' = [pinger EXCEPT ![c] = "run"]
  /\ IF UserConnect THEN Bridged(c, 0) ELSE UNCHANGED <<streams, bridgeVars>>
  /\ UNCHANGED <<slots, sent, told, wire, lastArgs, topic, chan>>

-----------------------------------------------------------------------------
(* The client. *)

Sends(c, kind) ==
  /\ phase[c] = "open"
  /\ \A k \in 1..Len(wire[c]) : wire[c][k].kind /= "close"
  /\ wire' = [wire EXCEPT ![c] = Append(@, [kind |-> kind, n |-> sent'[c]])]
  /\ UNCHANGED <<phase, slots, told, reader, writer, pinger, lastArgs, topic,
                 chan, streams, bridgeVars>>

\* A frame, for a topic with a handler or without, or one that is no message.
ClientSend(c, kind) ==
  /\ sent[c] < MaxSent[c]
  /\ sent' = [sent EXCEPT ![c] = @ + 1]
  /\ Sends(c, kind)

ClientClose(c) == UNCHANGED sent /\ Sends(c, "close")

-----------------------------------------------------------------------------
(* The READ TASK. *)

\* cb_send: try_send, its error ignored.
TrySend(c, msgs) ==
  chan' = [chan EXCEPT ![c] = IF writer[c] = "ended" THEN @
                              ELSE SubSeq(@ \o msgs, 1, IF Len(@ \o msgs) < Cap
                                                          THEN Len(@ \o msgs) ELSE Cap)]

\* tx.send().await: waits for room, unless the receiver is gone.
CanSend(c) == writer[c] = "ended" \/ Len(chan[c]) < Cap

\* push, push_bytes, push_json: under the topic the stream has.
Data(c, n) == [kind |-> "data", n |-> n, topic |-> topic'[c]]
Close == [kind |-> "close", n |-> 0, topic |-> 0]

Takes(c, kind) ==
  /\ reader[c] = "run" /\ wire[c] /= <<>>
  /\ Head(wire[c]).kind = kind
  /\ wire' = [wire EXCEPT ![c] = Tail(@)]

\* Mutation of Handles: the topic of the first message stays.
HandlesKeepsTopic(c, n) ==
  /\ topic' = [topic EXCEPT ![c] = IF @ = 0 THEN n ELSE @]
  /\ lastArgs' = [lastArgs EXCEPT ![c] = n]

\* A message: set_topic, last_args, and the call of a handler.
Handles(c, n) ==
  /\ topic' = [topic EXCEPT ![c] = n]
  /\ lastArgs' = [lastArgs EXCEPT ![c] = n]

ReadFrame(c) ==
  /\ Takes(c, "frame")
  /\ Handles(c, Head(wire[c]).n)
  /\ Bridged(c, Head(wire[c]).n)
  /\ UNCHANGED <<connVars, reader, writer, pinger, chan>>

\* The handler "_", for a topic that has none, answers and closes.
ReadUnknown(c) ==
  /\ Takes(c, "unknown")
  /\ Handles(c, Head(wire[c]).n)
  /\ TrySend(c, <<Data(c, Head(wire[c]).n), Close>>)
  /\ UNCHANGED <<connVars, reader, writer, pinger, streams, bridgeVars>>

\* read_block fails, or the stream is over.
ReadEnds(c) ==
  /\ reader[c] = "run"
  /\ Takes(c, "bad") \/ (wire[c] = <<>> /\ UNCHANGED wire)
  /\ reader' = [reader EXCEPT ![c] = "ended"]
  /\ UNCHANGED <<connVars, writer, pinger, lastArgs, topic, chan, streams, bridgeVars>>

ReadClose(c) ==
  /\ Takes(c, "close")
  /\ CanSend(c)
  /\ TrySend(c, <<Close>>)
  /\ reader' = [reader EXCEPT ![c] = "ended"]
  /\ UNCHANGED <<connVars, writer, pinger, lastArgs, topic, streams, bridgeVars>>

Reads(c) == ReadFrame(c) \/ ReadUnknown(c) \/ ReadEnds(c) \/ ReadClose(c)

-----------------------------------------------------------------------------
(* The WRITE TASK and the PING TASK. *)

\* The next message is written, or fails to be: both go on with the next.
Write(c) ==
  /\ writer[c] = "run" /\ chan[c] /= <<>>
  /\ chan' = [chan EXCEPT ![c] = Tail(@)]
  /\ UNCHANGED <<connVars, taskVars, streams, bridgeVars>>

\* send_timeout seconds for one message: the task ends, its channel with it.
WriteTimeout(c) ==
  /\ writer[c] = "run" /\ chan[c] /= <<>>
  /\ writer' = [writer EXCEPT ![c] = "ended"]
  /\ chan' = [chan EXCEPT ![c] = <<>>]
  /\ UNCHANGED <<connVars, wire, reader, pinger, lastArgs, topic, streams, bridgeVars>>

\* The last sender is gone: the connection's, the READ TASK's stream, and the
\* clone in WS_STREAMS.
WriterDone(c) ==
  /\ writer[c] = "run" /\ chan[c] = <<>>
  /\ phase[c] = "over" /\ reader[c] = "ended" /\ c \notin streams
  /\ writer' = [writer EXCEPT ![c] = "ended"]
  /\ UNCHANGED <<connVars, wire, reader, pinger, lastArgs, topic, chan, streams, bridgeVars>>

Ping(c) ==
  /\ pinger[c] = "run"
  /\ CanSend(c)
  /\ TrySend(c, <<[kind |-> "ping", n |-> 0, topic |-> 0]>>)
  /\ UNCHANGED <<connVars, taskVars, streams, bridgeVars>>

\* No pong for ping_timeout seconds: the PING TASK ends, and nothing else does.
PingGivesUp(c) ==
  /\ pinger[c] = "run"
  /\ pinger' = [pinger EXCEPT ![c] = "ended"]
  /\ UNCHANGED <<connVars, wire, reader, writer, lastArgs, topic, chan, streams, bridgeVars>>

-----------------------------------------------------------------------------
(* The end of a connection. *)

\* disconnect(): "_disconnect" runs only for a client that has sent a message.
Disconnect(c) == told' = IF lastArgs[c] = 0 THEN told ELSE told \cup {c}

\* The handler "_disconnect", ws_create's or the one ws_on puts in its place:
\* the client's stream leaves WS_STREAMS.
Unregister(c) == streams' = IF c \in told' THEN streams \ {c} ELSE streams

\* The slot is given back, and disconnect() called.
End(c) ==
  /\ phase[c] = "open"
  /\ phase' = [phase EXCEPT ![c] = "over"]
  /\ pinger' = [pinger EXCEPT ![c] = "ended"]
  /\ slots' = WithEntry(GetIp(c), Entry(GetIp(c)) - 1)
  /\ Disconnect(c)
  /\ UNCHANGED <<sent, wire, reader, writer, lastArgs, topic, chan, bridgeVars>>

\* Mutation of Finish: the tasks are not waited for.
FinishAtOnce(c) ==
  /\ End(c)
  /\ Unregister(c)

\* Mutation of Finish: the connection's stream stays in the registry.
FinishKeepsStream(c) ==
  /\ reader[c] = "ended" \/ writer[c] = "ended"
  /\ End(c) /\ UNCHANGED streams

\* Mutation of Finish: join! for select!, so both tasks are waited for.
FinishJoins(c) ==
  /\ reader[c] = "ended" /\ writer[c] = "ended"
  /\ End(c)
  /\ Unregister(c)

\* select! over the READ TASK and the WRITE TASK.
Finish(c) ==
  /\ reader[c] = "ended" \/ writer[c] = "ended"
  /\ End(c)
  /\ Unregister(c)

-----------------------------------------------------------------------------
(* The bridge. *)

\* A Python handler, a task of its own per message, answers whenever it likes
\* and may close the connection.
PyAnswer(t, closes) ==
  /\ t \in tasks
  /\ tasks' = tasks \ {t}
  /\ toRust' = toRust \o <<[client |-> t.client, n |-> t.n, kind |-> "push"]>>
               \o (IF closes THEN <<[client |-> t.client, n |-> t.n, kind |-> "close"]>> ELSE <<>>)
  /\ UNCHANGED <<connVars, taskVars, chan, streams>>

\* uds_ws_push, uds_ws_close: to the stream of that address, if there is one.
Apply ==
  /\ toRust /= <<>>
  /\ toRust' = Tail(toRust)
  /\ UNCHANGED topic
  /\ LET op == Head(toRust)
     IN  IF op.client \in streams
           THEN TrySend(op.client, IF op.kind = "push" THEN <<Data(op.client, op.n)>> ELSE <<Close>>)
           ELSE UNCHANGED chan
  /\ UNCHANGED <<connVars, wire, reader, writer, pinger, lastArgs, streams, tasks>>

Next ==
  \/ \E c \in Client :
       \/ Check(c) \/ HandshakeFails(c) \/ Open(c)
       \/ ClientClose(c) \/ \E kind \in {"frame", "unknown", "bad"} : ClientSend(c, kind)
       \/ Reads(c)
       \/ Write(c) \/ WriteTimeout(c) \/ WriterDone(c)
       \/ Ping(c) \/ PingGivesUp(c)
       \/ Finish(c)
  \/ Apply
  \/ \E t \in tasks, closes \in BOOLEAN : PyAnswer(t, closes)

Spec == Init /\ [][Next]_vars

\* The tasks of a connection are scheduled: reads return what is there, and a
\* write succeeds, fails or times out.  The channel serves those who wait for
\* room in their order, so ReadClose is not overtaken by pings for ever.
FairSpec ==
  /\ Spec
  /\ \A c \in Client : /\ WF_vars(Reads(c)) /\ SF_vars(ReadClose(c))
                       /\ WF_vars(Write(c) \/ WriteTimeout(c))
                       /\ WF_vars(Finish(c))

-----------------------------------------------------------------------------
(* Properties. *)

\* The connections a key of rate_limit_map has counted and not given back.
Holders(ip) == {c \in Client : GetIp(c) = ip /\ phase[c] \in {"counted", "open", "lost"}}

\* The map counts the connections between handshake and end, and those whose
\* handshake failed after the check, once each: no end gives back a slot that
\* was not its own, and no more than rate_limit connections hold one.
SlotsAreHeld ==
  \A ip \in {GetIp(c) : c \in Client} :
    Entry(ip) = Cardinality(Holders(ip)) /\ Entry(ip) <= RateLimit

\* No handler is called for a client after its "_disconnect", unless the write
\* timeout ended the connection: the READ TASK is not stopped then.
NoHandlerAfterDisconnect ==
  [][ \A c \in told : topic'[c] /= topic[c] => writer[c] = "ended" ]_vars

\* WS_STREAMS holds no stream of a connection that is over, unless the write
\* timeout ended it (its READ TASK goes on) or "_disconnect" never ran because
\* the client had sent no message.
StreamsAreLive ==
  \A c \in streams :
    phase[c] = "open" \/ writer[c] = "ended" \/ (UserConnect /\ lastArgs[c] = 0)

\* An answer is sent under the topic of the message it answers, or of a later
\* one of that client, never of an earlier one or of none.
TopicIsNotOlder ==
  \A c \in Client : \A k \in 1..Len(chan[c]) : chan[c][k].topic >= chan[c][k].n

\* A client that closes is let go: however full the channel and however slow
\* the socket, the connection ends and gives its slot back.
ClosedIsOver ==
  \A c \in Client :
    (\E k \in 1..Len(wire[c]) : wire[c][k].kind = "close") ~> phase[c] = "over"

\* README.md:171, "the maximum number of connections allowed from a single IP
\* address": a client is refused only if rate_limit connections come from its own.
RefusedByOwnAddress ==
  [][ \A c \in Client :
        phase[c] = "new" /\ phase'[c] = "refused"
          => Cardinality({d \in Client : Ip[d] = Ip[c] /\ phase[d] \in {"counted", "open"}})
               >= RateLimit ]_vars

=============================================================================
