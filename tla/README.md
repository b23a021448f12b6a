# arnelify-server: specification, model checking and proofs

This directory holds a TLA+ development of arnelify-server: a multi-protocol server
written in Rust (`src/src/`) with a Python package on top of it
(`src/arnelify_server/`). The native side accepts connections and parses requests; the
handlers are written in Python and are called over a Unix domain socket. The interesting
part of the program is everything between those two: incremental parsers, channels of
limited capacity, handlers that block a thread until another process answers, registries
that map ids to live streams, and tasks that outlive the connection they belong to.

Line numbers below are those of the sources in this repository.

## 1. Inventory

| Component | State it keeps | Operations |
|---|---|---|
| **Bridge** HTTP/1 to Python: `http1_*` in `src/src/lib.rs` 60-720, `src/arnelify_server/tcp1/http1/main.py` | `HTTP1_STREAMS` (id to stream and `tx`), `HTTP1_STREAM_ID`, `HTTP1_UDS_MAP`; on the Python side the map of handlers | a handler: draw an id, register, send `http1_on`, block on `rx` (90 s), remove; per operation of Python: look up, use, for `end` also signal |
| **Unix socket** `src/src/ipc/uds.rs`, `src/arnelify_server/ipc/uds.py` | a parser per direction, `UDS_STREAMS` | `send`, `read_block`, dispatch by topic, `start`, `stop` |
| **HTTP/1 connection** `src/src/tcp1/http1.rs` | the parser `Http1Req`, `last_ctx`, the connection's stream | `read_block`, dispatch, 409, `_connect`, `_disconnect`, keep-alive timeout |
| **HTTP/1 multipart reader** same file, `read_multipart` | position in the body, current part, counters against four limits, `skip` | one call per read |
| **HTTP/1 response** same file, `Http1Stream` and the write loop | `headers_sent`, file and attachment flags, a channel of 32 events | `push_*`, `set_*`, `end`, the write loop and its timeout |
| **WebSocket server** `src/src/tcp1/ws.rs`, `ws_*` in `lib.rs` | `rate_limit_map`, per connection a channel of 64 and three tasks, `WS_STREAMS` | handshake, READ / WRITE / PING task, `disconnect` |
| **WebTransport server** `src/src/tcp2/wt.rs`, `wt_*` in `lib.rs` | per connection a parser, a channel of 32, three tasks, `WT_STREAMS` | session set-up, READ / WRITE / PONG task |
| **HTTP/2, HTTP/3 servers** `tcp1/http2.rs`, `tcp2/http3.rs` | per connection the task that accepts requests; per request a parser, a stream, a channel of 32 events and a WRITE TASK | accept, body loop, dispatch, 404 and 409, `push_*`, `end`, the write loop |
| **HTTP/2, HTTP/3 bridges** in `lib.rs` | as the HTTP/1 bridge | the text of `http1_*` under other names |
| **Life cycle** `*_create`, `*_start_ipc`, `*_start`, `*_stop`, `*_destroy`, `uds.rs`, `uds.py`, the Python classes | the maps of servers and sockets, `UDS_STREAMS`, one shared socket path, a thread per listener | check, remove, bind, connect, accept; port, announce, log; stop; destroy; `process::exit` |

How they interact: a connection calls a handler **synchronously** on its own worker
thread. The handler is a closure of `lib.rs` that sends a frame to Python and blocks.
Python runs one asyncio task per frame and sends one frame back per operation. The
socket's READ TASK on the native side applies that operation to the stream of the
connection, which pushes events into a bounded channel with `try_send`, whose error is
ignored. The connection drains that channel only after its handler has returned
(HTTP/1), or with a task of its own (HTTP/2, HTTP/3, WebSocket, WebTransport).

What is hard about it:

* *interleaving*: handlers, READ TASK and Python tasks share the registry; a stream is
  cloned out under a lock and used after the lock is given up;
* *timeouts racing answers*: 90 s for a handler, the write, ping and handshake timeouts;
* *ordering*: register before telling, end before signalling, head before body;
* *bytes cut anywhere*: four incremental parsers that keep state over reads and have to
  reset it exactly; some cuts make them lose data or panic;
* *panics* of a parser, which end a task with none of what it does at its end;
* *bounded channels* whose overflow is silent;
* *tasks that are detached, not stopped*, by `select!`;
* *who drives what*: the h2 crate reads and writes only while `accept` is polled, by a
  task that also waits for bodies and runs handlers; `start_ipc` blocks the thread all
  Python objects share;
* *shared names*: five classes in any number of processes use one socket path;
* *partial failure*: a handshake that fails after its slot was taken, a socket that is
  gone, one frame that does not parse;
* *waiting for the client*: `write_all`, `flush`, `finish`, the `send_data` of HTTP/3
  and the `recv_data` of both protocols wait for the peer without a timeout.

The correctness properties of each part are in section 3; the hazards they aim at, one
by one with their lines, are in `PROJECT.json`.

## 2. Modules

| Module | Models | Notes |
|---|---|---|
| `HttpExchange` | the promise the bridge makes to one request | abstract specification, no threads, no queues |
| `HttpBridge` | the HTTP/1 bridge, and with it those of HTTP/2 and HTTP/3 | implements `HttpExchange` (`ExchangeSpec`) |
| `HttpBridgeProofs` | theorems about `HttpBridge` | section 5 |
| `UdsReq` | the parser of frames, in its Rust, Python and WebTransport variants | pure operators |
| `UdsChannel` | one direction of the socket around `UdsReq` | used three times, by `owner` |
| `UdsProofs` | theorems about `UdsChannel` and `UdsReq` | section 5 |
| `Http1Req` | the parser of HTTP/1 requests | pure operators |
| `Http1Conn` | the connection task around `Http1Req` | |
| `Http1ConnProofs` | theorems about `Http1Conn` and `Http1Req` | section 5 |
| `Http1Multipart` | `read_multipart` | every byte is a token |
| `Http1Response` | `Http1Stream`, its channel and the write loop | |
| `Http1BodyProofs` | theorems about `Http1Response` and `Http1Multipart` | section 5 |
| `MuxReq` | the parser of HTTP/2 and HTTP/3 requests | pure operators |
| `MuxConn` | a connection of either, its WRITE TASKs and response streams | extends `MuxReq`; `proto` says which |
| `MuxProofs` | theorems about `MuxConn` and `MuxReq` | section 5 |
| `Lifecycle` | creation, start, stop and end of the servers of a machine | |
| `LifecycleProofs` | theorems about `Lifecycle` | section 5 |
| `WsServer` | WebSocket connections, the rate limit and their bridge | |
| `WsProofs` | theorems about `WsServer` | section 5 |
| `WtConn` | a WebTransport connection and its bridge | |
| `WtProofs` | theorems about `WtConn` | section 5 |
| `MC*` | instances for TLC | values of the constants |

`PROJECT.json` (`map`) names the source lines of every definition. Definitions whose
comment begins with "Mutation of" model nothing: each is a plausible bug, to be put in
the place of the definition it names, under which the property it is paired with in
`PROJECT.json` fails.

### HttpBridge

A worker's program counter (`pc`) follows the closure of `http1_on` (`lib.rs` 622-693):
`Alloc` draws the id (`fetch_add`), `Insert` takes the registry's lock, `SendOn` writes
the frame, `Wake` or `Timeout` ends `recv_timeout`, `Remove` takes the entry out. The
READ TASK's three steps are `Lookup` (under the lock of the registry), `Apply` (under
that of the stream) and `Signal`; `held` is what it carries from one to the next. All
operations but `http1_end` run the same handler text and are one kind. Each direction of
the socket is a queue: what happens to the bytes is in `UdsChannel`. `Accept` can come
late, since Python's `open_unix_connection` may return before the native acceptor has
entered its sender; `Close` is Python's `stop`. Frames sent before the first or after
the second are dropped without an error (`SendDown`).

`issued`, `applied` and `outcome` are history: what Python did, what reached the stream,
how the wait ended. No action tests them except `Issue`, which numbers operations and
stops at the bound `MaxOps`.

`HttpExchange` is what is left when threads, queues and registry are taken away: a
request is opened once, operations are taken up one at a time in the order asked, it is
closed once, as "ended" only with an end in its response, and after that at most the one
operation already in hand still gets in. The refinement mapping reads `status` off the
registry and the outcome, and `hand` off the READ TASK.

### UdsReq and UdsChannel

A byte is a token that knows which part of which message it is. The three parsers are
one algorithm with differences that matter: Rust clears the buffer on a meta it cannot
read, Python keeps it; on `Ok(None)` Python reads on while Rust goes round its loop
unless the buffer is empty; on an error `uds.rs` exits the process, Python logs and goes
on, `wt.rs` goes on with what it has left in its buffer. A message without a topic or a
payload (`Bare`) is an error that clears the buffer in Python and keeps it in Rust,
where `wt.rs` then goes round for ever; `wt.rs` alone has a limit on the two lengths
(`MessageMax`).

`cut` is history: a client has sent what is refused, or a read has ended in a place from
which the parser cannot go on (`Unlucky`): anywhere inside a frame for Rust but right
after its colon, inside the json text or the binary part of a frame with a binary part
for Python. After such a read the Rust receiver goes round its loop for ever, or exits;
the Python one can hand out message 1 with bytes of message 2 as its binary part. The
properties excuse exactly those behaviours and no others; both parsers must be right for
coalesced frames and all other cuts. The frames on the Unix socket are those the two
programs send (`UnixDomainSocket::send`, `UnixDomainSocket.push`), which always have a
topic and a payload; only a client of `wt.rs` sends what is refused.

### Http1Req, Http1Conn

Each of the four parts of a head (method, path, protocol, headers) is one token, and
comes whole; a body is one token per byte. A shape of request has a body type, a length
and a fault (`Faults`): keys of the query that are refused or clash, a cookie without a
name, a chunked body, one that is too large, keys of the body that clash, a body that is
no text or does not parse. The parser's errors keep their two classes, since the
connection closes on `InvalidData` and answers 409 to anything else, and each keeps what
it leaves in the buffer and in the fields, which is what the next call starts from. The
third outcome is a panic: `set_keys` on keys that clash or are empty, `set_cookie` on a
cookie without a name, `bs - 2` on half a line break.

For a multipart body a shape says which of its bytes a read may end after with
consequences (`Cut`): what looks like the beginning of a boundary (`held`), the first
byte of the line break before a boundary (`torn`) or both (`broken`), and a part of a
character (`char`). `EndsLikeBoundary` looks at the last byte of the whole buffer, as
the code does (`http1.rs` 582), which may be a byte of a later request. A read at a line
break loses the part (`lost`) or panics.

`Http1Conn` is the task: the inner loop parses as long as the buffer is not empty
(`Again`), and the ways out go through `Disconnect`, all but `ParsePanics`: the task is
gone then, and `_disconnect` is never called. `broken` is history: the requests whose
body a read left at a line break. Two exceptions are in the properties, where the code
makes them: `DispatchedIsPrefix` allows a request in `broken` to reach its handler
without all of its body, and `NothingForgotten` allows requests to wait while the buffer
ends like a boundary begins (`HeldBack`).

`Clean` (no request refused so far) restricts two properties: the parser is not reset
after a 409, so afterwards a request that was refused can reach its handler. That is
finding 1, and the run `http1_conn_refused` shows it. Behind a 409 a body can also be
read from bytes that are not its own; what such a text holds is left open (`Luck`).

### Http1Multipart

The reader is modelled byte by byte because its hard part is a boundary that is cut by a
read. `Round` is what is done about the first boundary in the buffer and `Parts` the
loop of rounds, a recursive function of their number: a round that is followed by
another has taken something off the buffer, so there are no more than it has bytes.
`EndPart` is the end of a part with its unsigned subtraction, `Data` what is stored
before the end is known. What a byte is, the forms and the boundary are constants;
`MultipartAssumption` says that no data has the boundary in it, which is what a client
has to see to when it chooses one. The header of a part is one byte, which says whether
it is a file and what `set_keys` makes of its name: an array, an object (another part
has a name below it, and the value has nowhere to go) or a panic. A field of white space
is not stored (`trim().is_empty()`). Characters may have two bytes (`Lead`, `Trail`), so
that a read can cut one: the field is refused then (`"garbled"`), with its bytes counted
and left in the buffer. A disk that takes no more than `DiskSpace` bytes is refused
likewise (`"unwritten"`), and there `skip` is not even set.

With `CleanReads` no read ends at the line break before a boundary. Without it TLC finds
that the end of a part is lost (its line break is taken for data, and the part is never
stored) or that the subtraction underflows; `Http1Conn` has both as `broken` and `torn`,
they are recorded as a hazard, and the run checks everything else.

### Http1Response

One response from the call of the handler to the last byte. `Apply` is an operation on
the stream (the head goes out with the first push), `TrySend` its events, one at a time;
an operation that is not allowed, or a file that is missing, ends the process. `Return`
is the handler's return, after which at most one operation that was looked up before is
still applied (`late`; `HttpBridge` has it as `held`, and `AppliedInOrder` and the
refinement bound it to one). `applied` and `promised` are history: what was applied at
all, and the events of what was applied before the handler returned. `onConnect` never
changes: it says whether the user has a `_connect` handler, which runs on the same
stream first. An event is received by `Write` and done with by `Written` or
`WriteFails`, which are the client's: `write_all` and `flush` have no timeout.
`WriteTimeout` is the one of `recv` and can be met only with an empty channel.

### MuxReq, MuxConn

`http2.rs` and `http3.rs` have one parser under two names; it is that of `http1.rs` with
three checks fewer, one per request, and its head is written out by the server itself
and added whole. So a request is a shape with a number of DATA frames, none of them
empty, and what matters is which call of `read_block` says what: `res` is the result the
task goes by, first that of the head, replaced by a frame's only when it says that the
request is complete. `Length` is the Content-Length a shape announces, counted in
frames, and 0 when it has none: the header is optional in both protocols, a form without
it is complete with its first frame, and a json text or a multipart body without it is
refused or invalid. h2 itself cuts off a body that is not of the length announced
(`Allowed`, `Honest`); HTTP/3 does not. `Cut` says which frames of a multipart body end
where it matters: in what looks like a boundary (`held`), in the line break before one
(`torn`, `bare`) or in a character (`char`). A panic of the parser ends the task and
with it the connection (`AcceptPanics`, `ReadPanics`).

The task of a connection is `at`: it accepts (`Accept`), takes frames (`ReadData`), and
then dispatches, refuses, drops or breaks. It leaves its loop over the frames when the
parser is done, when the client ends its side of the stream (`BodyEnds`), or when the
stream is cut off (`BodyCut`): `side` tells the three states of a body apart, and a
client that leaves it open keeps the task. A handler blocks it (`at = "handler"`), and
its response is made of the events that operations push (`Apply`, `TrySend`) and the
request's WRITE TASK takes (`Write`). An operation looked up before its handler returned
may be applied after (`held`).

What drives the connection is where the files differ. In `http3.rs` the QUIC library
runs by itself; there a WRITE TASK waits while the client has no room for what it sends
(`Free`), and the task also waits in `resolve_request` for the head of a stream that a
client has opened, which is no state of its own here but part of `"accept"`. The h2
crate moves frames only while somebody polls `conn.accept()`: of a body the task is
given (`Given`) what had come with the head, and `Flush`, which hands the client what
the WRITE TASKs wrote, is enabled only while the task accepts. `Room` is the window that
is never enlarged, as nothing calls `release_capacity`. A client may reset the stream of
a request (`Abandon`, `gone`): what is written to it then goes nowhere, and a head ends
the WRITE TASK of h2 with a panic. Those operators are marked external: they model the
library from how this code uses it.

`promised` is history. `Unpolled` is the state finding 3 is about.

### Lifecycle

A server is a Python object (`py`), a Unix listener (`ipc`) and a network listener
(`native`), each with a thread of its own but for the objects, which share the asyncio
thread of their process (`main`: who blocks it in `start_ipc`). `uds.start` is three
steps, `CheckPath`, `RemoveFile` and `Bind`, as the file system is shared with other
processes; a process that may not write to the directory (`Barred`) can fail at the last
two. `Connect` reaches whatever socket the path names at that moment, with a backlog
until it is accepted; `entry` is that server's element of `UDS_STREAMS` and `opened`
whether the map exists, on which `Send` depends: without a map a message is lost, with a
map and no element the process exits.

`StartNative` spawns a thread, which gets its port later (`starting`, `Announce`) or
ends the process (`PortInUse`): another server of the machine has the port, a thread of
an earlier start still has it (`Held`), or another program does (`Foreign`). A stop is
`notify_waiters`, which reaches only a loop that waits: the Unix listener's unless it
has just accepted (`"turning"`), the network listener's unless it is accepting a client,
and never a thread that has no port yet. A loop that was told leaves later (`LeaveIpc`,
`LeavePort`), its port is taken until then, and it may accept once more before that, or,
as `select!` prefers no branch, go on as if it had not been told. `Destroy` is
`__del__`, after a stop or without one. `again` is history: the servers that were
started again after a stop. `exit` is how a process ended and by whose doing.

### WsServer

A connection's life is `phase`; the READ, WRITE and PING task are a variable each.
`Check` is the callback of the handshake, with check and increment under one lock;
`Finish` is the `select!` and what follows, in which one of the tasks is still running.
`WS_STREAMS` is keyed by the address of the client, and Python's answers find the stream
by it at any later time. `told` is history: the connections `_disconnect` was called
for. A message is one frame.

### WtConn

The handler blocks the READ TASK, in the way of `HttpBridge`, and all answers of a
connection share its stream and so its `topic`. `raced` is history: the messages whose
handler returned while the socket's READ TASK had an operation of theirs in hand. A
client sends whatever it likes (`Kinds`): calls, with a binary part or without, topics
nobody handles, pings, and messages with a meta, a json text or a content that is
refused. A read returns whole messages and perhaps part of one. Of what was returned
(`got`) the parser has left `done` behind it: it handled them, or an error cleared the
buffer and they are lost (`Clear`). A json text that is refused leaves the lengths of
its message set, and the next bytes are taken for its json text (`astray`). `Spin` is
the inner loop that goes round for ever: with a part of a message in the buffer, as
`UdsChannel` shows byte by byte, or with an `Invalid message.` that is never taken off
it.

The WRITE TASK leaves its loop at an `"x"`, after a write that failed, or when all
senders are gone; then it is `"finishing"`: it awaits `finish()`, which the client ends
by acknowledging what it was sent, or by going away (`Finished`), and only then is the
connection closed.

## 3. Runs

Deadlock checking is off in all of them: a server without clients, a closed connection
and a bounded client that has sent everything do stop.

| Run | Instance | Shows |
|---|---|---|
| `bridge` | 2 workers, 2 ids, 1 and 2 operations | `RegistryIsLive`, `RegisteredBeforeSent`, `AppliedInOrder`, `WokenHasEnded`, `RefusedOnlyWhenOver`, the refinement of `HttpExchange`, `EndWakes`, `HandlerReturns` |
| `uds` | 3 messages of 5 shapes, blocks of up to 9 tokens, all three owners | `DispatchedIsPrefix`, `NeverGivesUp`, `WholeFramesArrive` |
| `http1_conn` | 3 requests of 15 shapes, blocks of up to 15 tokens | `DispatchedIsPrefix`, `ConnectPairsWithDisconnect`, `NothingForgotten` |
| `http1_conn_refused` | 2 requests, of which one has a refused file | finding 1 |
| `http1_response` | every sequence of 4 operations, with files of 2 and of 4 blocks and a missing one, channel of 4 | `OneHeadFirst`, `EndedIsDelivered`, `LengthIsBody`, `Finishes` |
| `http1_multipart` | 126 forms of up to 3 parts, reads of up to 40 bytes | `FormIsWhole`, `SkipIsRest`, `FormIsRead` |
| `mux` | both protocols, 2 requests, the first of 23 shapes, bodies of up to 3 frames, window of 2, 3 operations, channel of 3 | `OneHeadFirst`, `DispatchedWhole`, `SoundIsAnswered`, `ComesBack`, `EndedIsDelivered` |
| `mux_upload` | uploads of 3 frames that fit the window, for one property | finding 3 |
| `ws` | 2 clients from 2 addresses, one slot, channel of 2, 2 messages | `SlotsAreHeld`, `StreamsAreLive`, `TopicIsNotOlder`, `NoHandlerAfterDisconnect`, `ClosedIsOver` |
| `ws_limit` | the same with a user's `_connect` | finding 2 |
| `wt` | 2 messages of 7 kinds, 2 operations each, channel of 2 | `AnswersOwnTopic`, `HandledInOrder`, `CloseIsHeard` |
| `lifecycle` | HTTP/1 and WebTransport in one process, HTTP/3 on the same UDP port in another, 2 starts | `CrossedBetweenProcesses`, `ExitsAreRaces`, `DestroyedIsSilent`, `StartReturns` |

Why the bounds are enough for what is asked:

* *Bridge.* Two workers and two ids give two requests at once and one worker that takes
  a second request after its first timed out, which is the case where a stale id could
  become another request's. Two operations are what order and "an operation after the
  end" need, and one of the requests has them (`OpsOf`); the other has the one it needs
  for an end. The proofs remove these bounds.
* *Unix socket.* Three messages let a read hold the rest of one frame, a whole one, and
  the start of a third; a block of 9 holds more than one frame of any shape; a binary
  part of 3 is longer than a json text of 2, so one can be taken for the other.
  `MetaMax` 3 makes the limit on a missing colon reachable, and one shape is larger than
  `MessageMax`.
* *HTTP/1 connection.* The same argument: the block holds a request with a multipart
  body and one without a body, and three of the latter, so `NothingForgotten` is about
  whole requests that wait in the buffer. With a block no longer than a head a
  connection that parses only once per read would pass unnoticed. A request whose body
  ends in a dash, and is no form, can stand behind one whose multipart body is whole.
* *Multipart.* Limits of 4 bytes a file, 5 of all files, 4 of all fields, 1 file and 2
  parts, and a disk of 3 bytes are each met and exceeded by some form; `-` begins a
  boundary and occurs in data; a field is empty, white space, or has a character of two
  bytes; names are in each other's way or make `set_keys` panic.
* *Response.* Four operations are a push, a file, an end and one thing after it. A
  channel of 4 holds head, two blocks and end, and not head and four blocks: the
  properties are about responses that fit, and those that do not are there to show that
  they harm nobody else.
* *HTTP/2 and HTTP/3.* The second request is the one that an unfinished body or a late
  operation of the first could disturb. The shape of the first is forgotten when it is
  handed on, so that only what waits for a body matters of the second: it is a form of
  two frames (`Later`). A body of 3 frames does not fit the window of 2, a body of 2
  does, and either can come with its head, later, or in part. Three operations are a
  push or a file, an end, and one too late; the second response gets an operation if the
  first got none (`OpsOf`). Three pushes and an end do not fit the channel of 3.
* *Life cycle.* Two servers of one process and one of another are every pair that can
  meet on the path, two of them meet on a port, and one process may be denied the
  directory; two starts are two at once or one twice. The proofs remove both bounds.
* *WebSocket.* One slot and two clients contend for it; a channel of 2 is filled by
  pings alone. Only the first client sends; the second is there for the slot. With a
  user's `_connect` and two messages the instance has some ten million states, so `ws`
  sets `UserConnect` to FALSE, and the exception `StreamsAreLive` makes for `_connect`
  is stated and not exercised there.
* *WebTransport.* Two messages are enough for an answer to the first under the topic of
  the second, and for a good message behind or before a malformed one; three messages do
  not add an interaction between them.

### Fairness

* `HttpBridge!LiveSpec`: the steps of a handler that need nothing but a CPU (`Insert`,
  `SendOn`, `Wake`, `Remove`) and the READ TASK are weakly fair, since they run on OS
  threads. Nothing is assumed of Python. The 90-second timer (`TimerFairness`) is
  assumed only by `HandlerReturns`; `EndWakes` holds without.
* `Http1Response!FairSpec`: the handler returns (that is `HandlerReturns`), and the
  write loop receives or has its timeout. What it has received goes out when the client
  takes it: `Written` is not fair, and `Finishes` has what it needs of the client as a
  hypothesis, `ClientTakes`.
* `MuxConn!FairSpec`: the tasks of the server are run; a WRITE TASK of HTTP/3 only while
  the client has room (`Free`). `Handle` includes `Return`, which the 90-second timer of
  the bridge makes fair. A client need not send or end a body, take a response, or
  leave. `ComesBack` is about a client that ends or cuts off every body of an HTTP/3
  connection (`ClientEnds`), `EndedIsDelivered` about one that takes what it is sent
  (`ClientTakes`).
* `Lifecycle!FairSpec`: the threads run, and a start that has begun goes on. Nobody has
  to start, stop or destroy a server.
* `WsServer!FairSpec`: reads return what there is, a write succeeds, fails or times out,
  `select!` sees the end of a task. `ReadClose` is *strongly* fair: it waits for room in
  a channel into which pings go, too, and the tokio channel serves those who wait in
  their order, so it is not overtaken for ever.
* `WtConn!FairSpec`: the WRITE TASK writes what is in its channel, and a write succeeds,
  fails or times out. `finish()` has no timeout: that a close ends the loop holds in any
  case, that it closes the connection is promised by `CloseIsHeard` if the client
  acknowledges or leaves, `WF(Finished)`.

No specification assumes anything of a Python handler, and none of a client. The four
properties named here, `Finishes`, `ComesBack`, `EndedIsDelivered` of `MuxConn` and the
second half of `CloseIsHeard`, say in their own text what the client has to do.

## 4. Findings

Three runs show the code doing something else than its documentation says. Each checks
one property, which fails.

1. `http1_conn_refused`: a request answered 409 is dispatched to its handler as well,
   once the rest of its body has been skipped (`http1.rs` 1217; README 296).
2. `ws_limit`: a client is refused for a connection from another address: the header
   names are compared in a case they never have, so all clients share one counter
   (`ws.rs` 532; README 171).
3. `mux_upload`: frames of an HTTP/2 body that come after its head was accepted are
   never read. The task waits for them (`http2.rs` 1803) and is the one that would have
   to poll the connection (1712) for them to come in; the connection hangs until the
   client leaves, and past the keep-alive time (README 404).

Seen on the way, and part of the models, where nothing in the repository promises
otherwise or the promise is about something else:

* a response of more events than the channel of 32 loses its tail and its end, in HTTP/1
  always, as nobody receives while the handler runs;
* a WebTransport ping is never reset: the READ TASK finds it again for ever and reads
  nothing else, and the PONG TASK does not stop (`wt.rs` 596);
* the multipart reader looks for the beginning of a boundary at the end of all that is
  buffered, so that a whole form waits when a request behind it ends in a dash
  (`http1.rs` 582); a read at the line break before a boundary loses the part or makes
  `bs - 2` panic (609); one that cuts a character of a field has the form refused (815);
* `set_keys` panics on `a=1&a[b]=2` and on `[]` (425), `set_cookie` on a cookie without
  a name (309): the task is gone, and `_disconnect` is not called for its client;
* in HTTP/2 and HTTP/3 a body that is refused is either not answered at all, or its
  request is dispatched once the rest has been skipped; so is a request whose body has
  no Content-Length: a form is handed on without its fields, a multipart body is dropped
  unanswered; an `end` before any push is ignored by the WRITE TASK of HTTP/2; a code
  that is no status ends the WRITE TASK with a panic, and so does, in HTTP/2, a second
  head or a head on a stream the client has reset;
* invalid data in one head ends an HTTP/2 or HTTP/3 connection with the responses of the
  requests before it unsent;
* a client that does not read keeps the task of its HTTP/1 connection in `write_all`,
  the WRITE TASK of its HTTP/3 request in `send_data`, and its WebTransport connection
  from being closed in `finish`;
* a WebTransport message that is refused takes the messages behind it with it, or stops
  the READ TASK for ever;
* a server whose port is held, by another server, another program, or its own thread
  that missed a stop or has not left yet, exits the process (`Port already in use`); so
  does one that may not remove or create the file of the socket, and one that speaks
  before its own peer is accepted when another server of the process has had one; a
  second start of HTTP/3 in one process panics its thread (`http3.rs` 1932).

## 5. Proofs

### The bridge

`HttpBridgeProofs` proves, for every set of workers and every bound:

| Theorem | States |
|---|---|
| `TypeCorrect` | `Spec => []TypeOK` |
| `RegistrySafe` | `Spec => []RegistryIsLive` |
| `SentAfterRegistered` | `Spec => []RegisteredBeforeSent` |
| `InOrder` | `Spec => []AppliedInOrder` |
| `WokenAfterEnd` | `Spec => []WokenHasEnded` |
| `Refused` | `Spec => RefusedOnlyWhenOver` |
| `Implements` | `Spec => ExchangeSpec`, the refinement of `HttpExchange` |

They assume of the constants only that the two bounds are natural numbers and `OpsOf`
stays within them (`BridgeAssumption`); `Worker` may be any set, an infinite one too.

None of the invariants is inductive alone. The strengthening `IInv` follows an operation
on its way:

* `Ids`: a worker's id was drawn before `nextId`, is not in the registry before its
  `Insert`, and has an outcome exactly between its wait and its `Remove`. From this no
  id is ever registered twice.
* `Known`: nothing outside the handler (a message to Python, a Python task, an operation
  issued) mentions an id that was not registered.
* `Transit`: the queue holds only operations that were issued and not taken up, in
  increasing order within a stream, and *all* of them for a stream that is in the
  registry; what the READ TASK holds is the next one. This is why a dropped operation
  does no harm: it is dropped when its stream has left the registry, and then, by `Ids`,
  the stream is out for good and so is everything behind it in the queue.
* `EndSeen`: a wake-up is sent only for a stream whose end was applied.

`Invariant` is their conjunction; the first five theorems follow from it, the last two
use it for one step.

### The life cycle

`LifecycleProofs` proves, for any servers in any processes (one or many, finite or not)
and any number of starts:

| Theorem | States |
|---|---|
| `TypeCorrect` | `Spec => []TypeOK` |
| `Crossed` | `Spec => []CrossedBetweenProcesses` |
| `Races` | `Spec => []ExitsAreRaces` |
| `Destroyed` | `Spec => DestroyedIsSilent` |

They assume `LifecycleAssumption`: every server has a process and a port, and `NoServer`
is none. The strengthening rests on one mechanism, `Blocking`: a server between the
check of the path and its bind holds the main thread of its process in `start_ipc`, so
of the servers of one process at most one is there. Hence

* `PathIsRaced`: the path is not as the check or the removal left it only when a server
  of another process was started, which is what `ExitsAreRaces` says of a removal or
  bind that fails in a process that may write to the directory;
* `PathIsOwn`: an object about to connect finds its own socket under the path, or that
  of another process, from which `CrossedBetweenProcesses` follows for the backlog and,
  with it, for what is accepted;
* `OpenedFor`: `UDS_STREAMS` exists only with an element of its process, so a `send`
  exits the process only when another server's peer was accepted in it;
* `Threads` and `Unstarted`: a server that was not started again has one thread at most,
  which has no port as long as it is on its way to one, and a server that was never
  started has none. So the port that it finds taken is held by another program or by
  another server, which was given the same one and was started;
* `OwnExit`: an exit is charged to a server of that very process;
* `Silent`: a destroyed server other than WebTransport's is out of its map, whether or
  not it was stopped, so that nothing it says can end the process.

`IInv` is their conjunction; each part has a lemma with one step per action.

### WebSocket

`WsProofs` proves, for any connections, addresses, rate limit, capacity of the channel
and number of messages:

| Theorem | States |
|---|---|
| `Slots` | `Spec => []SlotsAreHeld` |
| `Streams` | `Spec => []StreamsAreLive` |
| `Topics` | `Spec => []TopicIsNotOlder` |
| `Handlers` | `Spec => NoHandlerAfterDisconnect` |

They assume `WsAssumption`; that `Client` is finite is needed for the count of an
address alone. `SlotsAreHeld` is inductive with the types. The others need

* `ReaderIsHeld`: a READ TASK that runs belongs to an open connection or to one whose
  WRITE TASK has ended, because `select!` waits for the first of the two;
* `ToldAreOver` and `StreamsAreNamed`: who was told of the end is over, and a stream in
  the registry was entered by a message or by the user's `_connect`;
* `Numbers`: along the way of a message the numbers never fall. What is on the wire is
  in order and not older than the topic of the stream; what is with Python, or on its
  way back, is not newer;
* `Channels`: a channel holds only outputs whose topic is not older than their message,
  which is `TopicIsNotOlder` with the types of the outputs.

### The Unix socket

`UdsProofs` proves, for any shapes of messages with json and binary parts of any length,
any number of messages, any size of the blocks and each of the three receivers:

| Theorem | States |
|---|---|
| `TypeCorrect` | `Spec => []Typed` |
| `DispatchesInOrder` | `Spec => []DispatchedIsPrefix` |
| `GoesOn` | `Spec => []NeverGivesUp` |
| `AllArrive` | `Spec => []WholeFramesArrive` |

They assume `ReqAssumption` and `ChannelAssumption`: a json text is not empty, a block
is not, and `MetaMax` is not 0 (it is 8192). Which shapes a receiver refuses is left
open. With a limit of 0 the parser would refuse any frame of which only the meta was
read.

The argument numbers the bytes of all frames through. `Flow` says that there is a place
in that numbering, `from`, such that the buffer holds the bytes behind `from`, the
stream those behind the buffer, and `from` is where the parser's own notes put it: at
the start of the next frame, behind its colon, or behind its json text (`OnTrack`,
`Notes`). What one call of `read_block` does to such a parser is `Outcome`, proved part
by part along `ReadMeta`, `ReadJson` and `ReadBinary`. Two things make it harder than it
looks:

* after a read that cut a frame, Rust's parser may take the beginning of a json text for
  the binary part it waits for (no json text of its own is there yet, so nothing is
  dispatched), or a binary part for a json text (an error). `Astray` is the parser that
  has lost its place in the first case: it holds no meta, and what it reads up to the
  next colon is never a meta, so it dispatches nothing and ends in an error, which ends
  the process. This is why `DispatchedIsPrefix` holds for Rust whatever the reads cut;
* that nothing is left behind needs `Whole`: without a cut, and without a message that
  is refused, the buffer ends where the receiver can go on (`Fine`), and a receiver that
  reads lacks bytes of what it reads next (`Lacks`).

### The HTTP/1 connection

`Http1ConnProofs` proves, for any shapes and number of requests and any size of the
blocks:

| Theorem | States |
|---|---|
| `TypeCorrect` | `Spec => []Typed` |
| `DispatchesInOrder` | `Spec => []DispatchedIsPrefix` |
| `NoneForgotten` | `Spec => []NothingForgotten` |
| `Paired` | `Spec => []ConnectPairsWithDisconnect` |

They assume `ReqAssumption` and `ConnAssumption`, where a multipart body is not empty
and does not itself end like a boundary begins: it ends with its last boundary and a
line break. The argument is that of the Unix socket, with `Place` and `Notes` for the
parser's four stages, the body and its size. `Place` has a second case: a body of an
unknown type is not read, so the parser can be at the first byte of a body that it takes
for the head of a request, which is invalid and ends the connection. `Known` is about
the reads: where one has ended at the line break before a boundary, the request is in
`broken`, and `Notes` says that nothing else makes the parser lose a part (`lost`).
`Answered` ties the three lists together: a connection that reads has answered what it
has dispatched, and its parser lacks bytes (`Waits`): it has none, or not all of the
body, or it is held back by what looks like a boundary. `Paired` needs `Remembers`:
`last_ctx` is set exactly when a handler has been called.

### The HTTP/1 response

`Http1BodyProofs` proves, for any operations, any number of them and any capacity of the
channel:

| Theorem | States |
|---|---|
| `TypeCorrect` | `Spec => []Typed` |
| `HeadsFirst` | `Spec => []OneHeadFirst` |
| `Delivered` | `Spec => []EndedIsDelivered` |
| `LengthMatches` | `Spec => []LengthIsBody` |

What was pushed is in three places, one behind the other: received for writing, in the
channel, and with the operation being applied (`Pushed`). `Kept` says that this is what
was promised as long as the promise fits the channel. `Reaching` is about a promise that
does not fit as a whole: up to its first end it is in those places all the same, if that
much fits, since an event is dropped only when the channel is full with what came before
it. `Heading` says when `headers_sent` is set, and `Heads` that no second head comes
before the first end.

`Measured` is about the promise alone: unless it begins with an end, it begins with the
head of one operation and as many bytes, under that operation's number, as the head
says; nothing behind them has that number. What is written up to the first end is then
that head with its body if the handler pushed once. That `BodyLength` adds up to the
right number is an induction over the length of a sequence, which the prover cannot be
asked for directly: `BodyIs` takes the least place at which the sum and a function with
the same equation would differ, which `Least` finds with the well-founded order of the
finite sets.

### The multipart reader

`Http1BodyProofs` proves, for any forms and bytes, any boundary, all limits and reads of
any length:

| Theorem | States |
|---|---|
| `SkipIsWhatIsLeft` | `UploadSpec => []SkipIsRest` |
| `FormsArriveWhole` | `CleanReads => (UploadSpec => []FormIsWhole)` |
| `FormsAreReadOrRefused` | `CleanReads => (UploadSpec => []FormIsRead)` |

They assume `MultipartAssumption`: the boundary is not empty, has no line break in it
and is in no part's data. The first theorem needs no more, and holds for reads that end
anywhere. The other two are false without `CleanReads` (section 2), the one condition on
reads that the run has as well: a boundary may be cut in two, a header may come in
pieces, many parts may come at once.

`SkipIsRest` is about counting, whatever the bytes are. `Counted` says of a result that
what was counted and what is in the buffer still add up, or that what is skipped is the
rest; for the two ways to refuse a chunk and leave it in the buffer, that the buffer was
counted. Each of `EndPart`, `ReadMeta`, `AtBoundary` and `Data` keeps it, a round and
the loop of rounds do.

The other two are about what the bytes are. `Laid` says where everything stands in the
body of a form: boundaries, line breaks, headers, data. It comes from the sums of the
lengths of the parts (`Upto`, `Start`), which the body, what is stored (nothing of a
blank field) and the totals of the limits have in common; `UptoStep` is the one
induction they need. The invariant `FormRead` then has two halves:

* `Holds`: the buffer is a `Window` on the body, from what was counted up to what was
  read, and the wire the one from there to its end.
* `Progress`: what was counted ends at a boundary (`Before`) or in the data of a part
  (`Within`). In either case what is stored is what the parts up to there give, the
  totals are their totals and within the limits, and the data so far is on disk or in
  the field's buffer.

A call finds the boundaries of the form and no other: none begins in data or at its line
break (`NoEarly`, from what the client has seen to), so that `Find` on a window is the
distance to the next one (`FirstWithin`). `Settled` says that each boundary is in the
buffer or that not a byte of it is, nor of its line break. It is what a round needs, and
a round keeps it; before the first round it holds because a buffer that ends in a
boundary makes the call wait (`Cut`) and a clean read does not end at the line break
(`Clean`). A body does not end like a boundary begins (`NotCut`), so a call never waits
for more than there is. A refusal is met by an account of its reason: what is too much
of the parts so far is too much of the form (`RefusedBytes`), for a limit and for the
disk; a name that leads to no array, or to a panic, is one of the form's; and text that
is none is a whole field's, or a piece of one that a read has cut (`Breakable`).

### HTTP/2 and HTTP/3

`MuxProofs` proves, for either protocol, any shapes and number of requests, any
operations, any window and any capacity of the channels from 3 on:

| Theorem | States |
|---|---|
| `TypeCorrect` | `Spec => []Typed` |
| `HeadsFirst` | `Spec => []OneHeadFirst` |
| `HandedWhole` | `Spec => DispatchedWhole` |
| `SoundAnswered` | `Spec => SoundIsAnswered` |

They assume `MuxReqAssumption` and `MuxAssumption`: a multipart body that is not
`unclosed` has a frame and does not end like a boundary begins, and three events are
what the server's own 404 and 409 push. Content-Lengths may be missing or wrong, and
frames may end anywhere.

`Parsing` keeps the parser's account. For a body whose frames are all counted and taken
(`Counted`), what was counted and what is in the buffer is no more than the frames that
were added, and a skip covers what is missing (`Tallied`): so the parser says "complete"
only with the last frame, which is `DispatchedWhole`. For a sound body it is exact
(`Tidy`), and as long as the result is `"none"` a frame is missing (`Lacks`): the client
has not ended the body (`PartOf`), so that a loop that was left without a request was
left for a body that was cut off, which is `SoundIsAnswered`. What one call of
`read_block` does is `Reads`, proved for each reader.

`Row` is the argument of the HTTP/1 response for each of the requests at once, where the
operation being applied may belong to an earlier request than the one whose handler
runs: a response that can be promised (`Claimed`) is out as a whole (`Whole`), or is
under way (`Underway`), a beginning (`Lead`) of its promise being written and the rest
in channel and hand, or was left where it was when the client reset the stream (`Left`).
`Fresh` and `Bounds` say that nothing is about a request that has no handler yet,
`Promising` and `Pledged` what a promise can look like.

### WebTransport

`WtProofs` proves, for any capacity of the channel and any number of messages and
operations:

| Theorem | States |
|---|---|
| `OwnTopics` | `Spec => []AnswersOwnTopic` |
| `InOrder` | `Spec => []HandledInOrder` |

Both rest on the READ TASK doing one thing at a time. The registry holds a stream only
while its handler blocks the task (`OneStream`), so what is looked up is of the message
whose topic the connection's stream has (`HeldIsOwn`). Of the messages, those the parser
has left behind are a beginning of those the reads returned, these of those that were
sent (`Bounds`); what is handled is in their order and left behind (`Increasing`); a
good message that is left behind was handled unless one before it was not good (`Kept`),
since it is only behind such a one that the parser is astray (`WhyAstray`) or clears the
buffer; and a task that reads has nothing in its buffer (`ReadsWhenEmpty`).

### The limits

Only model-checked:

* all liveness (it needs fairness and ENABLED), and with it `EndedIsDelivered` of
  `MuxConn`, which is a leads-to.

Every safety invariant that a passing run checks is stated by a theorem.

## 6. What is not modelled

* The worker threads of a runtime: a blocking `recv` on a runtime of one thread stops
  it. Every task is an action that can always run.
* Errors of certificate and key files at the start, and a `start_ipc` of a server whose
  Unix socket still listens.
* Heads of HTTP/1 that come in pieces within a method, a path, a protocol or a header
  line: each of the four parts of a head is there or not.
* In a multipart body, headers that `read_meta` cannot read, and files without a file
  name.
* The flow control of h2 and the loss and recovery of QUIC, other than what decides
  which frames this code is given.
* Data: the contents of headers, cookies, queries and json, encodings, compression, the
  bytes of chunked transfer. Where a decision depends on it (a known status code, an
  empty file, a length) the decision is kept.
* Payload bytes that look like something else: a json text inside a binary part, a
  request inside a body that is not read.
* A WebSocket message whose frame is split over several messages, and the client's own
  ping frames.
* Build files, containers, certificates, examples.

## 7. What comes next

1. *An abstract response stream* that `Http1Response` and `MuxConn` both implement: a
   list of promised events, of which the client is given a beginning. The invariants
   `Reaching` and `Row` are its refinement mapping.
2. *The WebTransport receiver byte by byte*: `WtConn` has the errors of the parser, but
   reads whole messages and perhaps part of one, which `UdsChannel` justifies for each
   byte; a refinement would say so.

New runs will answer questions the present ones do not; where a module grows, its run is
extended and not doubled.
