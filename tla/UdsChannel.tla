------------------------------ MODULE UdsChannel ------------------------------
(***************************************************************************)
(* One direction of the Unix socket: the sender's WRITE TASK puts whole    *)
(* frames on the byte stream, the receiver reads blocks of it into the     *)
(* parser of UdsReq and dispatches what comes out.  The stream keeps the   *)
(* order of bytes but no boundaries: a read returns whatever part of it is *)
(* there, up to the size of the block.                                     *)
(*                                                                         *)
(* When the parser's owner is "rust" it is the READ TASK of                *)
(* src/ipc/uds.rs, when it is "python" the acceptor of                     *)
(* arnelify_server/ipc/uds.py; they differ in what they do when the parser *)
(* asks for more bytes and when it fails.  When it is "wt" the sender is a *)
(* WebTransport client and the receiver the READ TASK of src/tcp2/wt.rs,   *)
(* which reads on after an error.  (WtConn has the rest of that server.)   *)
(***************************************************************************)
EXTENDS UdsReq

CONSTANTS
  MaxSent,     \* bound: how many messages are sent
  BlockSize    \* block_size_kb * 1024, in tokens

ASSUME ChannelAssumption == MaxSent \in Nat /\ BlockSize \in Nat \ {0}

VARIABLES
  sent,        \* the messages sent, in order
  wire,        \* the bytes written and not yet read
  req,         \* the receiver's parser
  at,          \* where the receiver is: "read", "parse", "exited", "ended"
  dispatched,  \* what the receiver has handed to its handlers
  cut          \* history: a read ended where the receiver cannot go on from, or a
               \* client sent what the receiver refuses

vars == <<sent, wire, req, at, dispatched, cut>>

Message == [n : 1..MaxSent, shape : Shape]

Init ==
  /\ sent = <<>>
  /\ wire = <<>>
  /\ req \in {Empty(owner) : owner \in Owner}
  /\ at = "read"
  /\ dispatched = <<>>
  /\ cut = FALSE

\* push of the two ends always has a topic and a payload, and no limit.
Refused(s) == s \in Bare \/ JsonLen[s] + BinLen[s] > MessageMax

Send(s) ==
  /\ Len(sent) < MaxSent
  /\ Refused(s) => req.owner = "wt"
  /\ LET m == [n |-> Len(sent) + 1, shape |-> s]
     IN  /\ sent' = Append(sent, m)
         /\ wire' = wire \o Frame(m)
  /\ cut' = (cut \/ Refused(s))
  /\ UNCHANGED <<req, at, dispatched>>

\* A read whose last byte is this one ends inside a frame, in its json text or
\* its binary part; in Rust in its meta, too, in Python only if the message has
\* a binary part.
Unlucky(byte) ==
  LET shape == byte.msg.shape
      ends == \/ byte.kind = "binary" /\ byte.pos = BinLen[shape]
              \/ byte.kind = "json" /\ byte.pos = JsonLen[shape] /\ BinLen[shape] = 0
  IN  /\ ~ends /\ byte.kind /= "sep"
      /\ req.owner = "python" => byte.kind /= "meta" /\ BinLen[shape] > 0

\* reader.read(block): some part of what is there.
Read(len) ==
  /\ at = "read"
  /\ len \in 1..BlockSize /\ len <= Len(wire)
  /\ req' = Add(req, Take(wire, len))
  /\ wire' = Drop(wire, len)
  /\ cut' = (cut \/ Unlucky(wire[len]))
  /\ at' = "parse"
  /\ UNCHANGED <<sent, dispatched>>

\* Mutation of Again: one message per read.
AgainOnce(r) == "read"

\* After a call of read_block the inner loop goes round again unless the
\* buffer is empty.
Again(r) == IF r.buff = <<>> THEN "read" ELSE "parse"

\* read_block has a message: the handler of its topic is called (in Python its
\* task is created).  There is none for the empty topic of a message whose json
\* text was not complete.
ParseMessage ==
  /\ at = "parse"
  /\ LET r == ReadBlock(req)
     IN  /\ r.tag = "some"
         /\ dispatched' = IF r.req.message = <<>> THEN dispatched
                          ELSE Append(dispatched, [message |-> r.req.message[1],
                                                   binary |-> r.req.binary])
         /\ req' = Reset(r.req)
         /\ at' = Again(r.req)
  /\ UNCHANGED <<sent, wire, cut>>

\* read_block wants more bytes.  Python leaves the inner loop and reads; Rust
\* does nothing in this arm, and leaves only if the buffer is empty.
ParseMore ==
  /\ at = "parse"
  /\ LET r == ReadBlock(req)
     IN  /\ r.tag = "none"
         /\ req' = r.req
         /\ at' = IF req.owner = "python" THEN "read" ELSE Again(r.req)
  /\ UNCHANGED <<sent, wire, dispatched, cut>>

\* read_block fails.  uds.rs exits the process; wt.rs reads on with the parser as it
\* is, unless the buffer has been kept: then it goes round for ever.  Python logs and reads on with
\* the parser as it is, or, where the bytes it takes for a json text (it has a
\* meta then) are no UTF-8 and decode raises, ends the acceptor.
ParseError ==
  /\ at = "parse"
  /\ LET r == ReadBlock(req)
     IN  /\ r.tag = "error"
         /\ req' = r.req
  /\ at' \in CASE req.owner = "rust" -> {"exited"}
               [] req.owner = "wt" -> {Again(req')}
               [] OTHER -> IF req'.hasMeta THEN {"read", "ended"} ELSE {"read"}
  /\ UNCHANGED <<sent, wire, dispatched, cut>>

Parse == ParseMessage \/ ParseMore \/ ParseError

Next ==
  \/ \E s \in Shape : Send(s)
  \/ \E len \in 1..BlockSize : Read(len)
  \/ Parse

Spec == Init /\ [][Next]_vars

-----------------------------------------------------------------------------
(* Properties. *)

Intact(m) == [message |-> m, binary |-> Part("binary", m, BinLen[m.shape])]

\* The handlers see the messages that were sent: whole, in order, none twice and
\* none made of the parts of two.  In uds.rs that is so however the bytes are
\* cut up; in Python and in wt.rs, which go on after an error, the json text of
\* one message can go out with bytes of the next for its binary part once a read
\* has cut a frame, and a client's message that is refused takes others with it.
DispatchedIsPrefix ==
  req.owner = "rust" \/ ~cut
    => /\ Len(dispatched) <= Len(sent)
       /\ \A k \in 1..Len(dispatched) : dispatched[k] = Intact(sent[k])

\* As long as no read cuts a frame and no message is refused every message is
\* dispatched, the frames that come together in one read, too: a receiver that waits
\* for more has forgotten nothing.
WholeFramesArrive ==
  at = "read" /\ wire = <<>> /\ ~cut => Len(dispatched) = Len(sent)

\* As long as no read cuts a frame the receiver never gives up on a stream of
\* well-formed frames: no process exits and no acceptor ends.
NeverGivesUp == at \in {"exited", "ended"} => cut

=============================================================================
