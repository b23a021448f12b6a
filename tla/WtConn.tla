-------------------------------- MODULE WtConn --------------------------------
(***************************************************************************)
(* A connection of the WebTransport server of src/tcp2/wt.rs, with the     *)
(* bridge of its handlers to Python (wt_create and wt_on of src/lib.rs).   *)
(*                                                                         *)
(* The READ TASK reads blocks, parses them and runs the handlers; a        *)
(* bridged handler blocks it until Python closes the stream or 90 seconds  *)
(* have passed.  The WRITE TASK empties a channel onto the QUIC stream and *)
(* closes the connection when it ends.  The PONG TASK sends pongs as long  *)
(* as the client has pinged in the last ping_timeout seconds.              *)
(*                                                                         *)
(* Message n of the client has the topic n, so a stream's id and the topic *)
(* of its message are the same number.  A read returns whole messages and  *)
(* may end with a part of one; how the parser goes through the bytes of a  *)
(* frame is in UdsReq.  A cut right behind the meta leaves nothing in the  *)
(* buffer, and is as if the meta had not come yet.                         *)
(***************************************************************************)
EXTENDS Naturals, Sequences

CONSTANTS
  Cap,         \* capacity of the channel, 32 in the code
  MaxSent,     \* bound: how many messages the client sends
  MaxOps       \* bound: how many operations a Python handler issues

ASSUME WtAssumption == Cap \in Nat \ {0} /\ MaxSent \in Nat /\ MaxOps \in Nat

VARIABLES
  link,        \* "new", "open", "closed", "failed"
  sent,        \* what each message of the client is, in order
  got,         \* how many of them the reads have returned in whole
  done,        \* how many of those the parser has left behind
  part,        \* the buffer ends with the beginning of message got + 1
  astray,      \* the parser still has the lengths of a message it threw away
  at,          \* the READ TASK: "none", "read", "parse", "spin", "handler", "ended"
  topic,       \* the topic of the connection's stream
  handled,     \* history: the messages given to a handler or to none, in order
  streams,     \* the ids in WT_STREAMS
  woken,       \* the ids whose channel holds the 1 of uds_wt_close
  left,        \* per message, how many operations its Python handler may issue
  toRust,      \* operations on their way to the native side
  held,        \* what the socket's READ TASK has looked up and not applied
  raced,       \* history: ids whose handler returned while one was held
  chan,        \* the channel's contents
  writer,      \* the WRITE TASK: "none", "run", "finishing", "ended"
  ponger,      \* the PONG TASK
  fresh        \* the last ping is no older than ping_timeout

parserVars == <<got, done, part, astray>>
readVars == <<parserVars, at, topic, handled, streams>>
bridgeVars == <<woken, left, toRust, held, raced>>
writeVars == <<link, chan, writer>>
pongVars == <<ponger, fresh>>
vars == <<readVars, sent, bridgeVars, writeVars, pongVars>>

N == 1..MaxSent

\* For a topic with a handler, the same with bytes behind the JSON, or for a topic
\* without; a ping; one whose meta is wrong or promises more than max_message_size; one
\* whose JSON is none; and one without topic or payload.
Kinds == {"call", "bytes", "unknown", "ping", "meta", "json", "shape"}
Idle == [n |-> 0, kind |-> "idle"]

Init ==
  /\ link = "new"
  /\ sent = <<>> /\ got = 0 /\ done = 0 /\ part = FALSE /\ astray = FALSE /\ at = "none"
  /\ topic = 0 /\ handled = <<>> /\ streams = {}
  /\ woken = {} /\ left = [n \in N |-> 0] /\ toRust = <<>> /\ held = Idle /\ raced = {}
  /\ chan = <<>> /\ writer = "none" /\ ponger = "none" /\ fresh = TRUE

-----------------------------------------------------------------------------
(* The session and the client. *)

Open ==
  /\ link = "new"
  /\ link' = "open" /\ at' = "read" /\ writer' = "run" /\ ponger' = "run"
  /\ UNCHANGED <<parserVars, topic, handled, streams, sent, bridgeVars, chan, fresh>>

\* The session, its acceptance (each within handshake_timeout) or accept_bi fails.
OpenFails ==
  /\ link = "new"
  /\ link' = "failed"
  /\ UNCHANGED <<readVars, sent, bridgeVars, chan, writer, pongVars>>

ClientSend(kind) ==
  /\ link = "open" /\ Len(sent) < MaxSent
  /\ sent' = Append(sent, kind)
  /\ UNCHANGED <<readVars, bridgeVars, writeVars, pongVars>>

-----------------------------------------------------------------------------
(* The READ TASK. *)

\* A read returns the messages up to k, and perhaps the first bytes of another.
Read(k, more) ==
  /\ at = "read" /\ link = "open"
  /\ k > got \/ more
  /\ more => k < Len(sent)
  /\ got' = k /\ part' = more
  /\ at' = "parse"
  /\ UNCHANGED <<done, astray, topic, handled, streams, sent, bridgeVars, writeVars, pongVars>>

\* The client has finished or reset its stream, or the connection is gone.
ReadEnds ==
  /\ at = "read"
  /\ at' = "ended"
  /\ UNCHANGED <<parserVars, topic, handled, streams, sent, bridgeVars, writeVars, pongVars>>

\* Mutation of Again: one message per read.
AgainOnce(parsed) == "read"

\* The inner loop goes round again unless the buffer is empty.
Again(parsed) == IF parsed = got /\ ~part THEN "read" ELSE "parse"

\* read_block is at the next message, and has all of it.
Parses(kind) == at = "parse" /\ ~astray /\ done < got /\ sent[done + 1] = kind

\* A message whose topic has a handler: wt_on enters the stream, tells Python
\* and waits.
ParseCall ==
  /\ Parses("call") \/ Parses("bytes")
  /\ done' = done + 1
  /\ topic' = done'
  /\ handled' = Append(handled, topic')
  /\ streams' = streams \cup {topic'}
  /\ left' = [left EXCEPT ![topic'] = MaxOps]
  /\ at' = "handler"
  /\ UNCHANGED <<got, part, astray, sent, woken, toRust, held, raced, writeVars, pongVars>>

\* A topic without a handler: there is no "_" here, nothing is answered.
ParseUnknown ==
  /\ Parses("unknown")
  /\ done' = done + 1
  /\ topic' = done'
  /\ handled' = Append(handled, topic')
  /\ at' = Again(done')
  /\ UNCHANGED <<got, part, astray, streams, sent, bridgeVars, writeVars, pongVars>>

\* A ping: the time is stored and the loop continued without a reset, so the
\* next read_block finds the same complete message.
ParsePing ==
  /\ Parses("ping")
  /\ fresh' = TRUE
  /\ UNCHANGED <<readVars, sent, bridgeVars, writeVars, ponger>>

\* The buffer is cleared, whatever is in it behind the message, and the task reads on.
Clear ==
  /\ done' = got /\ part' = FALSE
  /\ at' = "read"
  /\ UNCHANGED <<got, topic, handled, streams, bridgeVars, writeVars, pongVars>>

\* InvalidData: the lengths of the next meta will replace those of this one.  What is
\* left of a message whose beginning was cleared may look like anything.
ParseBadMeta ==
  /\ Parses("meta")
  /\ Clear
  /\ \E kind \in Kinds : sent' = IF part THEN [sent EXCEPT ![got + 1] = kind] ELSE sent
  /\ UNCHANGED astray

\* InvalidInput, which is ignored: has_meta stays, and the next bytes are taken for the
\* JSON.  So are the bytes of a message that a read has cut behind its JSON, which leaves
\* the buffer when it has been parsed.
ParseBadJson ==
  /\ \/ Parses("json")
     \/ at = "parse" /\ ~astray /\ done = got /\ part /\ sent[got + 1] = "bytes"
  /\ Clear
  /\ astray' = TRUE
  /\ UNCHANGED sent

\* The beginning of the next message, meta and all, is no JSON either.
ParseAstray ==
  /\ at = "parse" /\ astray
  /\ Clear
  /\ UNCHANGED <<astray, sent>>

\* read_block wants more bytes and nothing reads, or it returns the same error time
\* and again: the loop goes round for ever.
Spin ==
  /\ at = "parse"
  /\ \/ astray
     \/ done = got /\ part
     \/ Parses("shape")
  /\ at' = "spin"
  /\ UNCHANGED <<parserVars, topic, handled, streams, sent, bridgeVars, writeVars, pongVars>>

\* What the handler does when it is woken or has waited long enough.
HandlerReturns ==
  /\ raced' = IF held.n = topic THEN raced \cup {topic} ELSE raced
  /\ at' = Again(done)
  /\ UNCHANGED <<parserVars, topic, handled, sent, woken, left, toRust, held, writeVars, pongVars>>

\* recv_timeout returned the 1: the entry goes and the handler returns.
HandlerWoken ==
  /\ at = "handler" /\ topic \in woken
  /\ streams' = streams \ {topic}
  /\ HandlerReturns

\* Mutation of HandlerTimeout: the entry stays.
HandlerTimeoutLeaks ==
  /\ at = "handler" /\ topic \notin woken
  /\ UNCHANGED streams
  /\ HandlerReturns

\* 90 seconds without it: log, then the same.
HandlerTimeout ==
  /\ at = "handler" /\ topic \notin woken
  /\ streams' = streams \ {topic}
  /\ HandlerReturns

Reads ==
  \/ \E k \in got..Len(sent), more \in BOOLEAN : Read(k, more)
  \/ ReadEnds
  \/ ParseCall \/ ParseUnknown \/ ParsePing
  \/ ParseBadMeta \/ ParseBadJson \/ ParseAstray \/ Spin
  \/ HandlerWoken \/ HandlerTimeout

-----------------------------------------------------------------------------
(* The bridge. *)

\* Python's handler of message n pushes, or closes.
PyIssue(n, kind) ==
  /\ left[n] > 0
  /\ left' = [left EXCEPT ![n] = @ - 1]
  /\ toRust' = Append(toRust, [n |-> n, kind |-> kind])
  /\ UNCHANGED <<readVars, sent, woken, held, raced, writeVars, pongVars>>

\* The stream is cloned out of WT_STREAMS under its lock; an operation for an id
\* that is not there is logged and dropped.
Lookup ==
  /\ held = Idle /\ toRust /= <<>>
  /\ toRust' = Tail(toRust)
  /\ held' = IF Head(toRust).n \in streams THEN Head(toRust) ELSE Idle
  /\ UNCHANGED <<readVars, sent, woken, left, raced, writeVars, pongVars>>

\* cb_send: try_send, its error ignored.  The WRITE TASK has the receiver to its end.
TrySend(msg) ==
  chan' = IF writer \in {"run", "finishing"} /\ Len(chan) < Cap THEN Append(chan, msg) ELSE chan

\* push, push_bytes, push_json: under the topic the stream has; close: an "x".
Answer(op) == [kind |-> op.kind, n |-> op.n, topic |-> topic]

\* The operation is applied after the lock was given up: a push under the topic
\* the connection's stream has by now, a close as an "x", with a 1 for its handler.
Apply ==
  /\ held /= Idle
  /\ held' = Idle
  /\ TrySend(Answer(held))
  /\ woken' = IF held.kind = "close" THEN woken \cup {held.n} ELSE woken
  /\ UNCHANGED <<readVars, sent, left, toRust, raced, link, writer, pongVars>>

-----------------------------------------------------------------------------
(* The WRITE TASK and the PONG TASK. *)

\* The loop is left, and the stream finished: an await without a timeout.
Finish ==
  /\ writer = "run" /\ writer' = "finishing"
  /\ UNCHANGED <<link, chan, readVars, sent, bridgeVars, pongVars>>

\* The client has acknowledged all there was, has stopped its stream, or is gone.
\* The connection is closed.
Finished ==
  /\ writer = "finishing"
  /\ writer' = "ended" /\ link' = "closed" /\ chan' = <<>>
  /\ UNCHANGED <<readVars, sent, bridgeVars, pongVars>>

\* Mutation of Write: "x" is skipped like a message without a body.
WriteGoesOn ==
  /\ writer = "run" /\ chan /= <<>>
  /\ chan' = Tail(chan)
  /\ UNCHANGED <<link, writer, readVars, sent, bridgeVars, pongVars>>

\* A message is written, within send_timeout; "x" ends the loop.
Write ==
  /\ writer = "run" /\ chan /= <<>>
  /\ chan' = Tail(chan)
  /\ writer' = IF Head(chan).kind = "close" THEN "finishing" ELSE "run"
  /\ UNCHANGED <<link, readVars, sent, bridgeVars, pongVars>>

\* A write fails, or takes longer than send_timeout.
WriteFails ==
  /\ chan /= <<>> /\ Head(chan).kind /= "close"
  /\ Finish

\* The senders are gone: the PONG TASK's, the READ TASK's, and the clones of the
\* stream in WT_STREAMS and in the hand of the socket's READ TASK.
WriterDone ==
  /\ chan = <<>>
  /\ ponger = "ended" /\ at = "ended" /\ streams = {} /\ held = Idle
  /\ Finish

\* Every five seconds, if there has been a ping: a pong.
Pong ==
  /\ ponger = "run" /\ fresh
  /\ writer = "ended" \/ Len(chan) < Cap
  /\ TrySend([kind |-> "pong", n |-> 0, topic |-> 0])
  /\ UNCHANGED <<readVars, sent, bridgeVars, link, writer, pongVars>>

\* There has been none: the task ends.  select! ends with it, and detaches the
\* other two; nothing is closed.
PongEnds ==
  /\ ponger = "run" /\ ~fresh
  /\ ponger' = "ended"
  /\ UNCHANGED <<readVars, sent, bridgeVars, writeVars, fresh>>

\* ping_timeout seconds go by.
Age ==
  /\ fresh /\ ponger = "run"
  /\ fresh' = FALSE
  /\ UNCHANGED <<readVars, sent, bridgeVars, writeVars, ponger>>

Next ==
  \/ Open \/ OpenFails
  \/ \E kind \in Kinds : ClientSend(kind)
  \/ Reads
  \/ \E n \in N, kind \in {"data", "close"} : PyIssue(n, kind)
  \/ Lookup \/ Apply
  \/ Write \/ WriteFails \/ WriterDone \/ Finished
  \/ Pong \/ PongEnds \/ Age

Spec == Init /\ [][Next]_vars

\* The WRITE TASK is run while it has something to write, and the write succeeds,
\* fails or times out.  Nothing else has to happen, and no client has to do anything.
FairSpec ==
  /\ Spec
  /\ WF_vars(Write \/ WriteFails)

-----------------------------------------------------------------------------
(* Properties. *)

\* An answer goes out under the topic of the message it answers, although all
\* answers of a connection share one stream and Python may answer late: only if
\* the handler returned between the lookup and the use of its stream (it timed
\* out, or Python pushed after its close) may one go out under a later topic.
AnswersOwnTopic ==
  \A k \in 1..Len(chan) :
    chan[k].kind = "data" => chan[k].topic = chan[k].n \/ chan[k].n \in raced

\* No message up to n is malformed, is a ping, or has bytes a read may cut.
Good(n) == \A m \in 1..n : sent[m] \in {"call", "unknown"}

\* The messages are handled one at a time, each at most once and in their order,
\* whatever of them an error throws away; and a READ TASK that waits for more with
\* nothing on its way has handled all that came before the first it may trip over.
HandledInOrder ==
  /\ \A j, k \in 1..Len(handled) : j < k => handled[j] < handled[k]
  /\ at = "read" /\ got = Len(sent) =>
       \A n \in 1..Len(sent) : Good(n) => \E k \in 1..Len(handled) : handled[k] = n

Closing == \E k \in 1..Len(chan) : chan[k].kind = "close"

\* A close that found room in the channel ends the WRITE TASK's loop, whatever is in
\* the channel before it and however slow the client is; and it closes the connection
\* if the client acknowledges what was written, or goes away.
CloseIsHeard ==
  /\ Closing ~> writer /= "run"
  /\ WF_vars(Finished) => (Closing ~> link = "closed")

=============================================================================
