-------------------------------- MODULE MuxReq --------------------------------
(***************************************************************************)
(* Http2Req of src/tcp1/http2.rs and Http3Req of src/tcp2/http3.rs, which  *)
(* are the same text under two names: the parser of one request.  The head *)
(* is written out as text and added whole, before the first DATA frame;    *)
(* the frames of the body are added one by one, none of them empty, and    *)
(* every one is followed by a call of read_block.  There is a parser per   *)
(* request, so what it holds is the body of one request: a frame is one    *)
(* token, and buff counts the tokens that are there.                       *)
(*                                                                         *)
(* The readers of a body are those of http1.rs (Http1Req, Http1Multipart)  *)
(* but for three checks: a json text need not be an object, and neither    *)
(* Transfer-Encoding nor ".." in a path is looked at.                      *)
(***************************************************************************)
EXTENDS Naturals

CONSTANTS
  Shape,       \* the kinds of request
  BodyType,    \* per shape: "none", "json", "form", "multipart" or "other"
  Chunks,      \* per shape: how many DATA frames its body is
  Length,      \* per shape: its Content-Length in frames, 0 when it has none
  Fault,       \* per shape: "none", or what is wrong with it
  Cut          \* per shape: which of its frames end where it matters

\* A path no handler has; keys of the query that cannot be stored or that clash;
\* a cookie without a name; a Content-Length that is no number, or too large;
\* keys of the body that clash; a body that is no text, or is refused for other
\* reasons; a disk that takes no file; a multipart body without the boundary
\* that closes it or without the line break after that.
Faults == {"none", "path", "query", "querykeys", "cookie", "length", "large",
           "bodykeys", "utf8", "body", "disk", "unclosed"}

\* A frame that ends with the beginning of a boundary, or what looks like it
\* ("held"); in the middle of the line break before a boundary ("torn"), or
\* before it, all of a file having come ("bare"); in a character ("char").
Cuts == {"held", "torn", "bare", "char"}

\* A multipart body that is not unclosed ends with its closing boundary.
ASSUME MuxReqAssumption ==
  /\ BodyType \in [Shape -> {"none", "json", "form", "multipart", "other"}]
  /\ Chunks \in [Shape -> Nat] /\ Length \in [Shape -> Nat]
  /\ Fault \in [Shape -> Faults]
  /\ Cut \in [Shape -> [Cuts -> SUBSET (Nat \ {0})]]
  /\ \A s \in Shape : Fault[s] = "large" => Length[s] > 0
  /\ \A s \in Shape : BodyType[s] = "multipart" /\ Fault[s] /= "unclosed" =>
                        Chunks[s] > 0 /\ Chunks[s] \notin Cut[s].held

\* frames counts those that were added, size those the parser has counted.
NewReq(s) == [shape |-> s, hasHead |-> FALSE, hasBody |-> TRUE, frames |-> 0,
              buff |-> 0, length |-> 0, size |-> 0, skip |-> 0]

Result(tag, req) == [tag |-> tag, req |-> req]

AddChunk(req) == [req EXCEPT !.frames = @ + 1, !.buff = @ + 1]

Cleared(req) == [req EXCEPT !.buff = 0]

-----------------------------------------------------------------------------
(* The head. *)

\* A body is expected of PATCH, POST, PUT and DELETE.
ReadMethod(req) == [req EXCEPT !.hasBody = BodyType[req.shape] = "none"]

\* A query with a key that is used in two ways: set_query refuses it, and as it
\* stays in the buffer, every further call refuses it again; or set_keys panics.
ReadPath(req) ==
  CASE Fault[req.shape] = "query" -> "refused"
    [] Fault[req.shape] = "querykeys" -> "panics"
    [] OTHER -> "some"

\* read_headers with set_header for each line.  A Content-Length that is no number
\* is invalid, and the headers stay, too; without one the length is 0.
ReadHeaders(req) ==
  IF Fault[req.shape] = "cookie" THEN Result("panics", req)
  ELSE IF Fault[req.shape] = "length" THEN Result("invalid", req)
  ELSE Result("some", [req EXCEPT !.hasHead = TRUE, !.length = Length[req.shape]])

ReadHead(req) ==
  LET path == ReadPath(req)
  IN  IF path /= "some" THEN Result(path, ReadMethod(req)) ELSE ReadHeaders(ReadMethod(req))

-----------------------------------------------------------------------------
(* The body. *)

\* Mutation of ReadWhole: the last frame is not waited for.
ReadWholeEarly(req) ==
  IF req.buff + 1 < req.length THEN Result("none", req)
  ELSE Result("some", [req EXCEPT !.hasBody = TRUE, !.buff = 0])

\* read_json, read_url_encoded: nothing happens until all of it is there.  No
\* text is no json, but a form without fields.  What is refused is dropped, and a
\* field that cannot be stored sets skip to the length of that.
ReadWhole(req) ==
  LET isForm == BodyType[req.shape] = "form"
      fault == Fault[req.shape]
      rest == [req EXCEPT !.buff = @ - req.length, !.size = req.length]
      some == Result("some", [rest EXCEPT !.hasBody = TRUE])
  IN  IF fault = "large" THEN Result("invalid", Cleared(req))
      ELSE IF req.buff < req.length THEN Result("none", req)
      ELSE IF isForm /\ req.length = 0 THEN some
      ELSE IF isForm /\ fault = "bodykeys" THEN Result("panics", req)
      ELSE IF isForm /\ fault = "body"
        THEN Result("refused", [rest EXCEPT !.skip = req.length])
      ELSE IF req.length = 0 \/ fault \in {"utf8", "body"} THEN Result("refused", rest)
      ELSE some

\* self.buff.ends_with(ending).
EndsLikeBoundary(req) == req.frames \in Cut[req.shape].held

\* The boundary that closes the body is in the last frame.
Closes(req) == req.frames = Chunks[req.shape] /\ Fault[req.shape] /= "unclosed"

\* self.size and what is to be counted now, against content_length.
TooLong(req) ==
  IF Closes(req) THEN req.size + req.buff > req.length ELSE req.size + req.buff >= req.length

\* The part of a body that is not allowed is refused where it ends, here with the
\* first frame of the buffer, and skip is set to what is left of the body: a part
\* over a limit, an empty file, also one of which nothing came with its end; a
\* file that cannot be written.
RefusesPart(req) ==
  \/ Fault[req.shape] \in {"utf8", "body"} \/ (Fault[req.shape] = "disk" /\ Closes(req))
  \/ req.frames - req.buff \in Cut[req.shape].bare

\* bs - 2 takes the line break off a part of which there is only half of it.
Panics(req) ==
  Fault[req.shape] = "bodykeys" \/ req.frames - req.buff \in Cut[req.shape].torn

\* Each frame is taken off the buffer as it comes.  But what cannot be written, or
\* ends in a character, is counted and stays, and only the latter sets skip.  (A
\* part of which the whole line break came before is not stored: no matter here.)
ReadMultipart(req) ==
  LET size == req.size + req.buff
  IN  IF req.buff = 0 \/ EndsLikeBoundary(req) THEN Result("none", req)
      ELSE IF TooLong(req) THEN Result("invalid", Cleared(req))
      ELSE IF Panics(req) THEN Result("panics", req)
      ELSE IF RefusesPart(req)
        THEN Result("refused", [req EXCEPT !.buff = @ - 1, !.size = @ + 1,
                                           !.skip = req.length - (req.size + 1)])
      ELSE IF Closes(req)
        THEN Result("some", [req EXCEPT !.buff = 0, !.size = size, !.hasBody = TRUE])
      ELSE IF Fault[req.shape] = "disk" THEN Result("refused", [req EXCEPT !.size = size])
      ELSE IF req.frames \in Cut[req.shape].char
        THEN Result("refused", [req EXCEPT !.size = size, !.skip = req.length - size])
      ELSE Result("none", [req EXCEPT !.buff = 0, !.size = size])

\* A body of another type is not read at all.
ReadBody(req) ==
  IF req.size > req.length THEN Result("invalid", req)
  ELSE CASE BodyType[req.shape] \in {"json", "form"} -> ReadWhole(req)
         [] BodyType[req.shape] = "multipart" -> ReadMultipart(req)
         [] OTHER -> Result("some", req)

\* The rest of a refused body; when it is over there is a request to handle.
Skip(req) ==
  IF req.buff >= req.skip
    THEN Result("some", [req EXCEPT !.buff = @ - req.skip, !.skip = 0])
    ELSE Result("none", [req EXCEPT !.buff = 0, !.skip = @ - req.buff])

ReadBlock(req) ==
  LET head == IF req.hasHead THEN Result("some", req) ELSE ReadHead(req)
  IN  IF req.skip > 0 THEN Skip(req)
      ELSE IF head.tag /= "some" \/ head.req.hasBody THEN head
      ELSE ReadBody(head.req)

=============================================================================
