------------------------------- MODULE Http1Req -------------------------------
(***************************************************************************)
(* Http1Req of src/tcp1/http1.rs: the incremental parser a connection runs *)
(* on the bytes it has read.  A request is a head of four parts, read one  *)
(* after the other, and a body of Content-Length bytes, read by the reader *)
(* of its Content-Type.  Each part of a head is one token, a body is one   *)
(* token per byte; the reader of multipart bodies has a module of its own, *)
(* Http1Multipart, for what happens between its boundaries.                *)
(*                                                                         *)
(* A parse error is "invalid" (ErrorKind::InvalidData) or "refused" (any   *)
(* other kind): the connection closes on the first and answers 409 to the  *)
(* second, so it matters which bytes each error leaves in the buffer and   *)
(* which fields of the request it leaves set.  And the parser "panics":    *)
(* set_keys on keys that clash or are empty (a=1&a[b]=2, []), set_cookie   *)
(* on a cookie without a name, read_multipart on half a line break.        *)
(***************************************************************************)
EXTENDS Naturals, Sequences

CONSTANTS
  Shape,       \* the kinds of request
  BodyType,    \* per shape: "none", "json", "form", "multipart" or "other"
  BodyLen,     \* per shape, its Content-Length
  Fault,       \* per shape, what is wrong with it, or "none"
  Cut          \* per shape, what a read leaves that ends after a byte of its body

\* What is wrong with a request: keys of its query that cannot be stored or that
\* clash, a cookie without a name, a chunked body, a body over the limit, keys of
\* its body that clash, a body that is no text, a body refused for other reasons.
Faults == {"none", "query", "querykeys", "cookie", "chunked", "large",
           "bodykeys", "utf8", "body"}

\* A read that ends after one of these bytes of a body leaves the beginning of a
\* boundary, or what looks like it ("held"); the first byte of the line break
\* before a boundary ("torn"), or all of it ("broken"); part of a character of a
\* field ("char").
Cuts == {"held", "torn", "broken", "char"}

\* A multipart body has at least the boundary that closes it, and ends in a line
\* break; the two bytes of a line break follow each other.
ASSUME ReqAssumption ==
  /\ BodyType \in [Shape -> {"none", "json", "form", "multipart", "other"}]
  /\ BodyLen \in [Shape -> Nat]
  /\ \A s \in Shape : BodyType[s] = "multipart" => BodyLen[s] > 0
  /\ Fault \in [Shape -> Faults]
  /\ Cut \in [Shape -> [Cuts -> SUBSET (Nat \ {0})]]
  /\ \A s \in Shape : BodyType[s] = "multipart" => BodyLen[s] \notin Cut[s].held
  /\ \A s \in Shape : \A p \in Cut[s].torn : p + 1 \in Cut[s].broken

Stages == <<"method", "path", "protocol", "headers">>

Body(m) == [p \in 1..BodyLen[m.shape] |-> [kind |-> "body", msg |-> m, pos |-> p]]

\* A request is its place among those the client sends, and its shape.
Bytes(m) ==
  [k \in 1..4 |-> [kind |-> Stages[k], msg |-> m, pos |-> 1]]
  \o Body(m)

\* stage counts has_method, has_path, has_protocol and has_headers; msg is the
\* request that path and content_type were read from, body the one ctx has the
\* whole body of, lost that a part of it was not stored.
Empty == [buff |-> <<>>, stage |-> 0, msg |-> <<>>, body |-> <<>>, hasBody |-> TRUE,
          length |-> 0, size |-> 0, skip |-> 0, lost |-> FALSE]

Add(req, block) == [req EXCEPT !.buff = @ \o block]

Drop(buff, n) == SubSeq(buff, n + 1, Len(buff))
Take(buff, n) == SubSeq(buff, 1, n)

Result(tag, req) == [tag |-> tag, req |-> req]
Cleared(req) == [req EXCEPT !.buff = <<>>]

-----------------------------------------------------------------------------
(* read_method, read_path, read_protocol, read_headers. *)

ReadMethod(req) ==
  Result("some", [req EXCEPT !.stage = 1, !.buff = Tail(@),
                             !.hasBody = BodyType[Head(req.buff).msg.shape] = "none"])

\* The error of set_query leaves buffer and has_path as they are.
ReadPath(req) ==
  LET m == Head(req.buff).msg
  IN  IF Fault[m.shape] = "querykeys" THEN Result("panics", req)
      ELSE IF Fault[m.shape] = "query" THEN Result("refused", req)
      ELSE Result("some", [req EXCEPT !.stage = 2, !.buff = Tail(@), !.msg = <<m>>])

ReadProtocol(req) == Result("some", [req EXCEPT !.stage = 3, !.buff = Tail(@)])

ReadHeaders(req) ==
  LET m == Head(req.buff).msg
  IN  IF Fault[m.shape] = "cookie" THEN Result("panics", req)
      ELSE IF Fault[m.shape] = "chunked" THEN Result("invalid", req)
      ELSE Result("some", [req EXCEPT !.stage = 4, !.buff = Tail(@),
                                      !.length = BodyLen[m.shape]])

\* The next part of the head.  Anything else in its place is no method (path,
\* ...) or too long to be one.
ReadStage(req) ==
  IF req.buff = <<>> THEN Result("none", req)
  ELSE IF Head(req.buff).kind /= Stages[req.stage + 1] THEN Result("invalid", Cleared(req))
  ELSE CASE req.stage = 0 -> ReadMethod(req)
         [] req.stage = 1 -> ReadPath(req)
         [] req.stage = 2 -> ReadProtocol(req)
         [] req.stage = 3 -> ReadHeaders(req)

ReadHead(req) ==
  LET Go(r) == IF r.tag = "some" /\ r.req.stage < 4 THEN ReadStage(r.req) ELSE r
  IN  Go(Go(Go(Go(Result("some", req)))))

-----------------------------------------------------------------------------
(* read_json, read_url_encoded, read_multipart. *)

\* What is wrong with the text of a json or form body.  When it is not the body
\* of the request it is read for (the parser was not reset after a 409), it can be
\* anything; luck says what.
Luck == {"none", "bodykeys", "utf8", "body"}
IsOwn(req, text) == text = Body(req.msg[1])
Verdict(req, text, luck) == IF IsOwn(req, text) THEN Fault[req.msg[1].shape] ELSE luck

\* A json text or a form is parsed once all of it is there; an empty form is
\* one, an empty json text is none.  A text that is refused is dropped; the
\* fields read so far, the length among them, stay.  The error of a field of a
\* form sets skip to the length of what it just dropped, the others to zero.
ReadWhole(req, luck) ==
  LET shape == req.msg[1].shape
      text == Take(req.buff, req.length)
      verdict == Verdict(req, text, luck)
      rest == [req EXCEPT !.buff = Drop(@, req.length), !.size = req.length]
  IN  IF Fault[shape] = "large" THEN Result("invalid", Cleared(req))
      ELSE IF Len(req.buff) < req.length THEN Result("none", req)
      ELSE IF BodyType[shape] = "form" /\ req.length = 0
        THEN Result("some", [rest EXCEPT !.hasBody = TRUE])
      ELSE IF BodyType[shape] = "form" /\ verdict = "bodykeys" THEN Result("panics", req)
      ELSE IF text /= <<>> /\ verdict \notin {"utf8", "body"}
        THEN Result("some", [rest EXCEPT !.hasBody = TRUE,
                                         !.body = IF IsOwn(req, text) THEN req.msg ELSE <<>>])
      ELSE IF BodyType[shape] = "form" /\ verdict = "body"
        THEN Result("refused", [rest EXCEPT !.skip = req.length])
      ELSE Result("refused", rest)

\* self.buff.ends_with(ending), of all that is buffered, also of what follows the
\* body.
EndsLikeBoundary(buff) ==
  LET last == buff[Len(buff)]
  IN  last.kind = "body" /\ last.pos \in Cut[last.msg.shape].held

\* A multipart body is taken off the buffer as it comes.  A part that is not
\* allowed (an empty file, one too many, one too large) is refused where it
\* ends, here after the first byte, and the rest of the body is to be skipped.
\* A character cut in two is refused too, and what was counted stays buffered.
\* Of the line break before a boundary, bs - 2 takes both bytes off the part: one
\* is too few, and without any the part is not stored.
ReadMultipart(req) ==
  LET left == req.length - req.size
      cut == Cut[req.msg[1].shape]
      fault == Fault[req.msg[1].shape]
      lost == req.lost \/ req.size \in cut.broken
  IN  IF req.buff = <<>> \/ EndsLikeBoundary(req.buff) THEN Result("none", req)
      ELSE IF fault = "bodykeys" \/ (req.size \in cut.torn /\ Len(req.buff) > 1)
        THEN Result("panics", req)
      ELSE IF fault \in {"utf8", "body"}
        THEN Result("refused", [req EXCEPT !.buff = Tail(@), !.size = @ + 1,
                                           !.skip = left - 1])
      ELSE IF Len(req.buff) < left
        THEN LET size == req.size + Len(req.buff)
             IN  IF size \in cut.char
                   THEN Result("refused", [req EXCEPT !.size = size,
                                                      !.skip = left - Len(req.buff)])
                   ELSE Result("none", [req EXCEPT !.buff = <<>>, !.size = size,
                                                   !.lost = lost])
      ELSE Result("some", [req EXCEPT !.buff = Drop(@, left), !.size = req.length,
                                      !.hasBody = TRUE, !.lost = lost,
                                      !.body = IF lost THEN <<>> ELSE <<req.buff[1].msg>>])

\* A body of a type it does not know is not read: its bytes stay.
ReadBody(req, luck) ==
  LET type == BodyType[req.msg[1].shape]
  IN  IF req.size > req.length THEN Result("invalid", req)
      ELSE IF type \in {"json", "form"} THEN ReadWhole(req, luck)
      ELSE IF type = "multipart" THEN ReadMultipart(req)
      ELSE Result("some", req)

-----------------------------------------------------------------------------
(* read_block and reset. *)

\* The rest of a refused body; when it is over there is a request to handle.
Skip(req) ==
  IF Len(req.buff) >= req.skip
    THEN Result("some", [req EXCEPT !.buff = Drop(@, req.skip), !.skip = 0])
    ELSE Result("none", [req EXCEPT !.buff = <<>>, !.skip = @ - Len(req.buff)])

ReadBlock(req, luck) ==
  IF req.skip > 0 THEN Skip(req)
  ELSE LET head == ReadHead(req)
       IN  IF head.tag /= "some" \/ head.req.hasBody THEN head ELSE ReadBody(head.req, luck)

\* Mutation of Reset: the head of the last request stays.
ResetKeepsHead(req) == [Empty EXCEPT !.buff = req.buff, !.stage = req.stage, !.msg = req.msg]

Reset(req) == [Empty EXCEPT !.buff = req.buff]

=============================================================================
