-------------------------------- MODULE UdsReq --------------------------------
(***************************************************************************)
(* UnixDomainSocketReq of src/ipc/uds.rs and arnelify_server/ipc/uds.py:   *)
(* the incremental parser both ends of the Unix socket run on what they    *)
(* have read.  WebTransportReq of src/tcp2/wt.rs runs the same algorithm   *)
(* on what a client sends.  A frame is                                     *)
(*                                                                         *)
(*     <json length> + <binary length> : <json> <binary>                   *)
(*                                                                         *)
(* A byte is a token [kind, msg, pos]: which part of which message's frame *)
(* it belongs to and where.  The lengths are one token, ":" is the next; a *)
(* json text parses only if all its tokens are there, from one message and *)
(* in order (payload bytes are not themselves json texts), and all of them *)
(* but the last hold a ":" too.                                            *)
(***************************************************************************)
EXTENDS Naturals, Sequences

CONSTANTS
  Owner,       \* whose parsers there are: "rust", "python", "wt"
  Shape,       \* the kinds of message
  JsonLen,     \* per shape, the length of its json text
  BinLen,      \* per shape, the length of its binary part
  Bare,        \* the shapes without a topic or a payload
  MetaMax,     \* 8192 in the code: buffered bytes without a ":"
  MessageMax   \* max_message_size_kb * 1024, of wt.rs alone

ASSUME ReqAssumption ==
  /\ Owner \subseteq {"rust", "python", "wt"}
  /\ JsonLen \in [Shape -> Nat \ {0}]
  /\ BinLen \in [Shape -> Nat]
  /\ Bare \subseteq Shape
  /\ MetaMax \in Nat \ {0} /\ MessageMax \in Nat

\* A message is its place in the sender's sequence, and its shape.
Part(kind, m, len) == [p \in 1..len |-> [kind |-> kind, msg |-> m, pos |-> p]]

\* UnixDomainSocket::send: the frame of a message.
Frame(m) ==
  Part("meta", m, 1) \o Part("sep", m, 1)
  \o Part("json", m, JsonLen[m.shape]) \o Part("binary", m, BinLen[m.shape])

\* The parser's fields.  "message" stands for topic and payload.
Empty(owner) ==
  [owner |-> owner, buff |-> <<>>, hasMeta |-> FALSE, hasBody |-> FALSE,
   json |-> 0, bin |-> 0, message |-> <<>>, binary |-> <<>>]

Add(req, block) == [req EXCEPT !.buff = @ \o block]

Drop(buff, n) == SubSeq(buff, n + 1, Len(buff))
Take(buff, n) == SubSeq(buff, 1, n)

Result(tag, req) == [tag |-> tag, req |-> req]

IsJson(text) ==
  \E k \in 1..Len(text) : k = 1 /\ text = Part("json", text[1].msg, Len(text))
                          /\ Len(text) = JsonLen[text[1].msg.shape]

-----------------------------------------------------------------------------
(* read_body, in the three parts the function has. *)

IsColon(token) ==
  \/ token.kind = "sep"
  \/ token.kind = "json" /\ token.pos < JsonLen[token.msg.shape]

Colons(buff) == {k \in 1..Len(buff) : IsColon(buff[k])}

\* A meta that is none: Rust clears the buffer, Python keeps it.
BadMeta(req) ==
  Result("error", IF req.owner = "python" THEN req ELSE [req EXCEPT !.buff = <<>>])

\* The lengths promise more than a WebTransport client may send.
TooLarge(owner, shape) == owner = "wt" /\ JsonLen[shape] + BinLen[shape] > MessageMax

ReadMeta(req) ==
  LET end == CHOOSE k \in Colons(req.buff) : \A j \in Colons(req.buff) : k <= j
      meta == Take(req.buff, end - 1)
  IN  IF Colons(req.buff) = {}
        THEN IF Len(req.buff) > MetaMax
               THEN Result("error", [req EXCEPT !.buff = <<>>])
               ELSE Result("none", req)
      ELSE IF Len(meta) /= 1 \/ meta[1].kind /= "meta"
        THEN BadMeta(req)
      ELSE IF TooLarge(req.owner, meta[1].msg.shape)
        THEN Result("error", [req EXCEPT !.json = JsonLen[meta[1].msg.shape],
                                         !.bin = BinLen[meta[1].msg.shape],
                                         !.buff = <<>>])
      ELSE Result("some", [req EXCEPT !.hasMeta = TRUE,
                                      !.json = JsonLen[meta[1].msg.shape],
                                      !.bin = BinLen[meta[1].msg.shape],
                                      !.buff = Drop(@, end)])

\* Reached without a json text, too, if that is not complete yet.
ReadBinary(req) ==
  IF req.bin /= 0 /\ Len(req.buff) >= req.bin
    THEN Result("some", [req EXCEPT !.binary = Take(req.buff, req.bin),
                                    !.hasBody = TRUE,
                                    !.buff = Drop(@, req.bin)])
    ELSE Result("none", req)

\* "Invalid message.": Python clears the buffer, Rust keeps it.
BareMessage(req) ==
  Result("error", IF req.owner = "python" THEN [req EXCEPT !.buff = <<>>] ELSE req)

\* The json text goes from the buffer at once, the binary part may be missing
\* still; hasMeta and the lengths stay as they are until reset.
ReadJson(req) ==
  IF ~(req.json /= 0 /\ Len(req.buff) >= req.json) THEN ReadBinary(req)
  ELSE IF ~IsJson(Take(req.buff, req.json))
    THEN Result("error", [req EXCEPT !.buff = <<>>])
  ELSE IF req.buff[1].msg.shape \in Bare THEN BareMessage(req)
  ELSE LET read == [req EXCEPT !.message = <<req.buff[1].msg>>,
                               !.buff = Drop(@, req.json)]
       IN  IF req.bin = 0 THEN Result("some", [read EXCEPT !.hasBody = TRUE])
                          ELSE ReadBinary(read)

ReadBody(req) ==
  IF req.hasMeta THEN ReadJson(req)
  ELSE LET r == ReadMeta(req) IN IF r.tag = "some" THEN ReadJson(r.req) ELSE r

ReadBlock(req) == IF req.hasBody THEN Result("some", req) ELSE ReadBody(req)

\* Mutation of Reset: the binary part of the last message stays.
ResetKeepsBinary(req) ==
  [req EXCEPT !.hasBody = FALSE, !.hasMeta = FALSE, !.json = 0, !.bin = 0,
              !.message = <<>>]

\* Mutation of Reset: the lengths of the last message stay.
ResetKeepsMeta(req) ==
  [Empty(req.owner) EXCEPT !.buff = req.buff, !.hasMeta = req.hasMeta,
                           !.json = req.json, !.bin = req.bin]

Reset(req) == [Empty(req.owner) EXCEPT !.buff = req.buff]

=============================================================================
