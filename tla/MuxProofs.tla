------------------------------- MODULE MuxProofs -------------------------------
(***************************************************************************)
(* Proofs about MuxConn, for either protocol, any shapes of requests, any  *)
(* number of them, and any operations on channels of any capacity.         *)
(*                                                                         *)
(* Two arguments.  The parser of a request counts what it was given: what  *)
(* it has taken and what it holds is no more than the frames that were     *)
(* added (Tallied), and exactly that as long as nothing was refused        *)
(* (Tidy).  And what was pushed to a response is spread over three places: *)
(* what its WRITE TASK wrote, its channel, and the operation being         *)
(* applied; put together they begin with what was promised (Row), so what  *)
(* is written is the beginning of it, also on a stream that the client     *)
(* has reset and that takes no more (Left).                                *)
(***************************************************************************)
EXTENDS MuxConn, SequenceTheorems, TLAPS

EventT == [kind : {"head", "badhead", "data", "close"}]
StreamT == [headersSent : BOOLEAN, body : BOOLEAN, file : BOOLEAN,
            attach : BOOLEAN, valid : BOOLEAN]
ReqT == [shape : Shape \cup {NoShape}, hasHead : BOOLEAN, hasBody : BOOLEAN,
         frames : Nat, buff : Nat, length : Nat, size : Nat, skip : Nat]
PartT == [frames : Nat, side : {"open", "ended", "cut"}]

Typed ==
  /\ proto \in {"h2", "h3"}
  /\ at \in {"accept", "body", "result", "handler", "closed", "exited"}
  /\ cur \in 0..MaxReqs /\ shape \in Shape \cup {NoShape}
  /\ sent \in PartT /\ got \in PartT
  /\ req \in ReqT /\ res \in {"none", "some", "invalid", "refused"}
  /\ stream \in [Id -> StreamT] /\ woken \in BOOLEAN /\ held \in 0..MaxReqs
  /\ emit \in [id : 0..MaxReqs, events : Seq(EventT)] /\ ops \in Nat
  /\ promised \in [Id -> Seq(EventT)] /\ chan \in [Id -> Seq(EventT)]
  /\ out \in [Id -> Seq(EventT)] /\ flushed \in [Id -> Nat]
  /\ writer \in [Id -> {"none", "run", "done", "panicked"}]
  /\ gone \in SUBSET Id

-----------------------------------------------------------------------------
(* The request. *)

\* The bodies of which every frame is counted, and taken.
Counted(s) == Announced(s) /\ Cut[s].char = {} /\ Fault[s] /= "disk"

\* What the parser r of such a body knows.
Tallied(s, r) ==
  /\ r.hasHead => r.length = Chunks[s]
  /\ r.hasHead /\ r.hasBody => r.frames = Chunks[s]
  /\ r.buff + r.size <= r.frames
  /\ r.skip > 0 => r.skip + r.frames - r.buff >= Chunks[s]

Parsed(s, r) == r.shape = s /\ (Counted(s) => Tallied(s, r))

\* Nothing is wrong so far: all that was added is there.
Tidy(s, r) ==
  /\ IsParsed(s) /\ r.hasHead /\ ~r.hasBody /\ r.skip = 0 /\ r.buff + r.size = r.frames
  /\ BodyType[s] /= "multipart" => r.size = 0

\* A part of the body is missing.
Fits(s) == BodyType[s] = "multipart" \/ Fault[s] /= "large"
Lacks(s, r) == Tidy(s, r) /\ Fits(s) /\ r.frames < Chunks[s]

\* What may come of the body of shape s.
PartOf(s, p) ==
  /\ p \in PartT /\ p.frames <= Chunks[s]
  /\ p.side = "ended" => p.frames = Chunks[s]

Parsing ==
  at \in {"body", "result"} =>
    /\ shape \in Shape
    /\ PartOf(shape, sent) /\ PartOf(shape, got)
    /\ req.frames <= Chunks[shape] /\ Parsed(shape, req)
    /\ res = "some" /\ Counted(shape) => req.frames = Chunks[shape]
    /\ res = "none" /\ Sound(shape) =>
         IF at = "body" THEN Lacks(shape, req) ELSE Given.side = "cut"

-----------------------------------------------------------------------------
(* The responses. *)

\* Which requests the parts of the state can be about.
Bounds ==
  /\ at \in {"body", "result", "handler"} => cur > 0 /\ held < cur
  /\ held <= cur /\ emit.id <= cur
  /\ at \in {"body", "result"} => emit.id < cur
  /\ emit.id = 0 <=> emit.events = <<>>
  /\ woken => at = "handler"

\* A request no handler was called for.
Fresh ==
  \A r \in Id : r > cur \/ (r = cur /\ at \in {"body", "result"}) =>
    /\ promised[r] = <<>> /\ chan[r] = <<>> /\ out[r] = <<>>
    /\ stream[r] = NewStream
    /\ r = cur => writer[r] = "run"

\* What the running handler does is a promise.
Open(r) == r = cur /\ at = "handler" /\ ~woken

NotYet(r) == promised[r] = <<>> =>
  /\ writer[r] = "run" /\ chan[r] = <<>> /\ out[r] = <<>> /\ emit.id /= r
  /\ ~stream[r].headersSent

Unclosed(r) == \A i \in 1..Len(promised[r]) : promised[r][i] /= Event("close")

Promising ==
  \A r \in Id : Open(r) =>
    /\ NotYet(r)
    /\ Unclosed(r) /\ promised[r] /= <<>> => stream[r].headersSent
    /\ ~Unclosed(r) => emit = [id |-> r, events |-> <<Event("close")>>]

\* One head and one end at most, in their places.
Pledged ==
  \A r \in Id : \A i \in 1..Len(promised[r]) :
    /\ i > 1 => promised[r][i] \in {Event("data"), Event("close")}
    /\ promised[r][i] = Event("close") => i = Len(promised[r])

Lead(p, q) == Len(p) <= Len(q) /\ \A i \in 1..Len(p) : p[i] = q[i]

Emitting(r) == IF emit.id = r THEN emit.events ELSE <<>>
Pending(r) == chan[r] \o Emitting(r)

Claimed(r) ==
  /\ promised[r] /= <<>> /\ promised[r][1] = Event("head") /\ Len(promised[r]) <= Cap
  /\ Ended(r) \/ Open(r)

Whole(r) == /\ Ended(r) /\ out[r] = promised[r]
            /\ proto = "h2" => writer[r] /= "run"

Underway(r) ==
  /\ writer[r] = "run"
  /\ Lead(out[r], promised[r]) /\ Lead(promised[r], out[r] \o Pending(r))
  /\ Ended(r) => Len(out[r]) < Len(promised[r])
  /\ Open(r) => Len(promised[r]) = Len(out[r] \o Pending(r))

\* The client has reset the stream: it is left as it was.
Left(r) == r \in gone /\ Lead(out[r], promised[r])

Row == \A r \in Id : Claimed(r) => Whole(r) \/ Underway(r) \/ Left(r)

Responses == Bounds /\ Fresh /\ Promising /\ Pledged /\ Row

IInv == Typed /\ Parsing /\ Responses

-----------------------------------------------------------------------------
(* The parser. *)

Tags == {"none", "some", "invalid", "refused", "panics"}

LEMMA FieldsOfReq ==
  ASSUME NEW r \in ReqT
  PROVE  /\ r.shape \in Shape \cup {NoShape} /\ r.hasHead \in BOOLEAN /\ r.hasBody \in BOOLEAN
         /\ r.frames \in Nat /\ r.buff \in Nat /\ r.length \in Nat /\ r.size \in Nat
         /\ r.skip \in Nat
BY Zenon DEF ReqT

LEMMA ShapeIs ==
  ASSUME NEW s \in Shape
  PROVE  /\ BodyType[s] \in {"none", "json", "form", "multipart", "other"}
         /\ Chunks[s] \in Nat /\ Length[s] \in Nat
         /\ BodyType[s] = "multipart" /\ Fault[s] /= "unclosed" =>
              Chunks[s] > 0 /\ Chunks[s] \notin Cut[s].held
         /\ s /= NoShape
BY MuxReqAssumption, MuxAssumption DEF MuxReqAssumption, MuxAssumption

LEMMA NewReqIs ==
  ASSUME NEW s \in Shape \cup {NoShape}
  PROVE  NewReq(s) \in ReqT /\ Parsed(s, NewReq(s)) /\ NewReq(s).frames = 0
<1>1. 0 \in Nat /\ TRUE \in BOOLEAN /\ FALSE \in BOOLEAN
  OBVIOUS
<1>2. NewReq(s) \in ReqT
  BY <1>1, Zenon DEF NewReq, ReqT
<1>3. Parsed(s, NewReq(s))
  BY DEF NewReq, Parsed, Tallied
<1>4. NewReq(s).frames = 0
  BY DEF NewReq
<1> QED BY <1>2, <1>3, <1>4

\* What a step of the parser leaves of r: all but four fields.
Is(a, r, b, z, k, h) ==
  /\ a \in ReqT /\ a.shape = r.shape /\ a.hasHead = r.hasHead /\ a.frames = r.frames
  /\ a.length = r.length /\ a.buff = b /\ a.size = z /\ a.skip = k /\ a.hasBody = h

LEMMA Unchanged ==
  ASSUME NEW r \in ReqT
  PROVE  Is(r, r, r.buff, r.size, r.skip, r.hasBody)
BY DEF Is

LEMMA BuffSet ==
  ASSUME NEW r \in ReqT, NEW b \in Nat
  PROVE  Is([r EXCEPT !.buff = b], r, b, r.size, r.skip, r.hasBody)
<1> DEFINE a == [r EXCEPT !.buff = b]
<1>1. a \in ReqT
  BY Zenon DEF ReqT
<1>2. /\ a.shape = r.shape /\ a.hasHead = r.hasHead /\ a.frames = r.frames
      /\ a.length = r.length /\ a.buff = b /\ a.size = r.size /\ a.skip = r.skip
      /\ a.hasBody = r.hasBody
  BY DEF ReqT
<1> HIDE DEF a
<1>3. Is(a, r, b, r.size, r.skip, r.hasBody)
  BY <1>1, <1>2 DEF Is
<1> QED BY <1>3 DEF a

LEMMA SizeSet ==
  ASSUME NEW r \in ReqT, NEW z \in Nat
  PROVE  Is([r EXCEPT !.size = z], r, r.buff, z, r.skip, r.hasBody)
<1> DEFINE a == [r EXCEPT !.size = z]
<1>1. a \in ReqT
  BY Zenon DEF ReqT
<1>2. /\ a.shape = r.shape /\ a.hasHead = r.hasHead /\ a.frames = r.frames
      /\ a.length = r.length /\ a.buff = r.buff /\ a.size = z /\ a.skip = r.skip
      /\ a.hasBody = r.hasBody
  BY DEF ReqT
<1> HIDE DEF a
<1>3. Is(a, r, r.buff, z, r.skip, r.hasBody)
  BY <1>1, <1>2 DEF Is
<1> QED BY <1>3 DEF a

LEMMA RestSet ==
  ASSUME NEW r \in ReqT, NEW b \in Nat, NEW z \in Nat
  PROVE  Is([r EXCEPT !.buff = b, !.size = z], r, b, z, r.skip, r.hasBody)
<1> DEFINE a == [r EXCEPT !.buff = b, !.size = z]
<1>1. a \in ReqT
  BY Zenon DEF ReqT
<1>2. /\ a.shape = r.shape /\ a.hasHead = r.hasHead /\ a.frames = r.frames
      /\ a.length = r.length /\ a.buff = b /\ a.size = z /\ a.skip = r.skip
      /\ a.hasBody = r.hasBody
  BY DEF ReqT
<1> HIDE DEF a
<1>3. Is(a, r, b, z, r.skip, r.hasBody)
  BY <1>1, <1>2 DEF Is
<1> QED BY <1>3 DEF a

LEMMA SkipSet ==
  ASSUME NEW r \in ReqT, NEW b \in Nat, NEW z \in Nat, NEW k \in Nat
  PROVE  /\ Is([r EXCEPT !.skip = k], r, r.buff, r.size, k, r.hasBody)
         /\ Is([r EXCEPT !.buff = b, !.skip = k], r, b, r.size, k, r.hasBody)
         /\ Is([r EXCEPT !.size = z, !.skip = k], r, r.buff, z, k, r.hasBody)
         /\ Is([r EXCEPT !.buff = b, !.size = z, !.skip = k], r, b, z, k, r.hasBody)
<1>1. Is([r EXCEPT !.skip = k], r, r.buff, r.size, k, r.hasBody)
  <2> DEFINE a == [r EXCEPT !.skip = k]
  <2>1. a \in ReqT
    BY Zenon DEF ReqT
  <2>2. /\ a.shape = r.shape /\ a.hasHead = r.hasHead /\ a.frames = r.frames
        /\ a.length = r.length /\ a.buff = r.buff /\ a.size = r.size /\ a.skip = k
        /\ a.hasBody = r.hasBody
    BY DEF ReqT
  <2> HIDE DEF a
  <2>3. Is(a, r, r.buff, r.size, k, r.hasBody)
    BY <2>1, <2>2 DEF Is
  <2> QED BY <2>3 DEF a
<1>2. Is([r EXCEPT !.buff = b, !.skip = k], r, b, r.size, k, r.hasBody)
  <2> DEFINE a == [r EXCEPT !.buff = b, !.skip = k]
  <2>1. a \in ReqT
    BY Zenon DEF ReqT
  <2>2. /\ a.shape = r.shape /\ a.hasHead = r.hasHead /\ a.frames = r.frames
        /\ a.length = r.length /\ a.buff = b /\ a.size = r.size /\ a.skip = k
        /\ a.hasBody = r.hasBody
    BY DEF ReqT
  <2> HIDE DEF a
  <2>3. Is(a, r, b, r.size, k, r.hasBody)
    BY <2>1, <2>2 DEF Is
  <2> QED BY <2>3 DEF a
<1>3. Is([r EXCEPT !.size = z, !.skip = k], r, r.buff, z, k, r.hasBody)
  <2> DEFINE a == [r EXCEPT !.size = z, !.skip = k]
  <2>1. a \in ReqT
    BY Zenon DEF ReqT
  <2>2. /\ a.shape = r.shape /\ a.hasHead = r.hasHead /\ a.frames = r.frames
        /\ a.length = r.length /\ a.buff = r.buff /\ a.size = z /\ a.skip = k
        /\ a.hasBody = r.hasBody
    BY DEF ReqT
  <2> HIDE DEF a
  <2>3. Is(a, r, r.buff, z, k, r.hasBody)
    BY <2>1, <2>2 DEF Is
  <2> QED BY <2>3 DEF a
<1>4. Is([r EXCEPT !.buff = b, !.size = z, !.skip = k], r, b, z, k, r.hasBody)
  <2> DEFINE a == [r EXCEPT !.buff = b, !.size = z, !.skip = k]
  <2>1. a \in ReqT
    BY Zenon DEF ReqT
  <2>2. /\ a.shape = r.shape /\ a.hasHead = r.hasHead /\ a.frames = r.frames
        /\ a.length = r.length /\ a.buff = b /\ a.size = z /\ a.skip = k
        /\ a.hasBody = r.hasBody
    BY DEF ReqT
  <2> HIDE DEF a
  <2>3. Is(a, r, b, z, k, r.hasBody)
    BY <2>1, <2>2 DEF Is
  <2> QED BY <2>3 DEF a
<1> QED BY <1>1, <1>2, <1>3, <1>4

LEMMA BodySet ==
  ASSUME NEW r \in ReqT, NEW b \in Nat, NEW z \in Nat
  PROVE  /\ Is([r EXCEPT !.hasBody = TRUE], r, r.buff, r.size, r.skip, TRUE)
         /\ Is([r EXCEPT !.buff = b, !.size = z, !.hasBody = TRUE], r, b, z, r.skip, TRUE)
<1>1. TRUE \in BOOLEAN
  OBVIOUS
<1>2. Is([r EXCEPT !.hasBody = TRUE], r, r.buff, r.size, r.skip, TRUE)
  <2> DEFINE a == [r EXCEPT !.hasBody = TRUE]
  <2>1. a \in ReqT
    BY <1>1, Zenon DEF ReqT
  <2>2. /\ a.shape = r.shape /\ a.hasHead = r.hasHead /\ a.frames = r.frames
        /\ a.length = r.length /\ a.buff = r.buff /\ a.size = r.size /\ a.skip = r.skip
        /\ a.hasBody = TRUE
    BY DEF ReqT
  <2> HIDE DEF a
  <2>3. Is(a, r, r.buff, r.size, r.skip, TRUE)
    BY <2>1, <2>2 DEF Is
  <2> QED BY <2>3 DEF a
<1>3. Is([r EXCEPT !.buff = b, !.size = z, !.hasBody = TRUE], r, b, z, r.skip, TRUE)
  <2> DEFINE a == [r EXCEPT !.buff = b, !.size = z, !.hasBody = TRUE]
  <2>1. a \in ReqT
    BY <1>1, Zenon DEF ReqT
  <2>2. /\ a.shape = r.shape /\ a.hasHead = r.hasHead /\ a.frames = r.frames
        /\ a.length = r.length /\ a.buff = b /\ a.size = z /\ a.skip = r.skip
        /\ a.hasBody = TRUE
    BY DEF ReqT
  <2> HIDE DEF a
  <2>3. Is(a, r, b, z, r.skip, TRUE)
    BY <2>1, <2>2 DEF Is
  <2> QED BY <2>3 DEF a
<1> QED BY <1>2, <1>3

\* The head, which is there from the start.
LEMMA HeadReads ==
  ASSUME NEW s \in Shape, NEW r \in ReqT, Parsed(s, r), ~r.hasHead, NEW h, h = ReadHead(r)
  PROVE  /\ h.req \in ReqT /\ h.tag \in {"some", "invalid", "refused", "panics"}
         /\ Parsed(s, h.req) /\ h.req.frames = r.frames /\ h.req.skip = r.skip
         /\ h.req.buff = r.buff /\ h.req.size = r.size
         /\ h.tag = "some" => /\ h.req.hasHead /\ h.req.length = Length[s]
                              /\ (h.req.hasBody <=> BodyType[s] = "none")
<1> DEFINE m == [r EXCEPT !.hasBody = BodyType[r.shape] = "none"]
           g == [m EXCEPT !.hasHead = TRUE, !.length = Length[m.shape]]
<1>1. r.shape = s
  BY DEF Parsed
<1>2. /\ m.shape = s /\ m.hasHead = r.hasHead /\ (m.hasBody <=> BodyType[s] = "none")
      /\ m.frames = r.frames /\ m.buff = r.buff /\ m.size = r.size /\ m.skip = r.skip
  BY <1>1 DEF ReqT
<1>3. m \in ReqT
  <2>1. (BodyType[r.shape] = "none") \in BOOLEAN
    OBVIOUS
  <2> QED BY <2>1, Zenon DEF ReqT
<1>4. ReadMethod(r) = m
  BY DEF ReadMethod
<1> HIDE DEF m
<1>5. /\ g.shape = s /\ g.hasHead = TRUE /\ (g.hasBody <=> BodyType[s] = "none")
      /\ g.frames = r.frames /\ g.buff = r.buff /\ g.size = r.size /\ g.skip = r.skip
      /\ g.length = Length[s]
  BY <1>2, <1>3 DEF ReqT
<1>6. g \in ReqT
  <2>1. Length[m.shape] \in Nat /\ TRUE \in BOOLEAN
    BY <1>2, ShapeIs
  <2> QED BY <1>3, <2>1, Zenon DEF ReqT
<1>7. \/ h.tag \in {"refused", "invalid", "panics"} /\ h.req = m
      \/ h.tag = "some" /\ h.req = g
  <2>1. ReadPath(r) \in {"refused", "panics", "some"}
    BY DEF ReadPath
  <2>2. h = IF ReadPath(r) /= "some" THEN Result(ReadPath(r), m) ELSE ReadHeaders(m)
    BY <1>4 DEF ReadHead
  <2>3. ReadHeaders(m) \in {Result("panics", m), Result("invalid", m), Result("some", g)}
    BY DEF ReadHeaders
  <2> HIDE DEF g
  <2> QED BY <2>1, <2>2, <2>3 DEF Result
<1> HIDE DEF g
<1>8. Parsed(s, m)
  <2>1. Counted(s) => Tallied(s, m)
    BY <1>2 DEF Parsed, Tallied
  <2> QED BY <1>2, <2>1 DEF Parsed
<1>9. Parsed(s, g)
  <2>1. ASSUME Counted(s) PROVE Tallied(s, g)
    <3>1. BodyType[s] /= "none" /\ Length[s] = Chunks[s]
      BY <2>1 DEF Counted, Announced, IsParsed
    <3>2. Tallied(s, r)
      BY <2>1 DEF Parsed
    <3> QED BY <1>5, <3>1, <3>2 DEF Tallied
  <2> QED BY <1>5, <2>1 DEF Parsed
<1> QED BY <1>2, <1>3, <1>5, <1>6, <1>7, <1>8, <1>9

\* What a reader of the body does to the parser r.
Reads(s, r, b) ==
  /\ b.req \in ReqT /\ b.tag \in Tags /\ b.req.shape = s /\ b.req.frames = r.frames
  /\ Counted(s) => Tallied(s, b.req) /\ (b.tag = "some" => r.frames = Chunks[s])
  /\ Sound(s) /\ Tidy(s, r) =>
       /\ r.frames = 0 \/ r.buff > 0 => (b.tag = "none" => Lacks(s, b.req))
       /\ r.buff > 0 /\ Fits(s) => b.tag \in {"some", "none", "panics"}

\* The readers leave the shape and the frames.
LEMMA ReadsOf ==
  ASSUME NEW s \in Shape, NEW r \in ReqT, r.shape = s, NEW b, NEW tag \in Tags, NEW a,
         b = Result(tag, a), NEW x, NEW z, NEW k, NEW h, Is(a, r, x, z, k, h),
         Counted(s) => Tallied(s, a) /\ (tag = "some" => r.frames = Chunks[s]),
         Sound(s) /\ Tidy(s, r) =>
           /\ r.frames = 0 \/ r.buff > 0 => (tag = "none" => Lacks(s, a))
           /\ r.buff > 0 /\ Fits(s) => tag \in {"some", "none", "panics"}
  PROVE  Reads(s, r, b)
<1>1. b.tag = tag /\ b.req = a
  BY DEF Result
<1>2. a \in ReqT /\ a.shape = s /\ a.frames = r.frames
  BY DEF Is
<1> QED BY <1>1, <1>2 DEF Reads

LEMMA SoundIs ==
  ASSUME NEW s \in Shape, Sound(s), IsParsed(s)
  PROVE  /\ Counted(s) /\ Length[s] = Chunks[s]
         /\ Fault[s] \notin {"utf8", "body", "disk", "unclosed"}
         /\ Cut[s].bare = {} /\ Cut[s].char = {}
BY DEF Sound, Counted, Announced

LEMMA WholeReads ==
  ASSUME NEW s \in Shape, NEW r \in ReqT, r.frames <= Chunks[s], Parsed(s, r),
         r.hasHead, ~r.hasBody, r.skip = 0, BodyType[s] \in {"json", "form"}
  PROVE  Reads(s, r, ReadWhole(r))
<1> DEFINE k == r.length
           x == r.buff
           rest == [r EXCEPT !.buff = @ - k, !.size = k]
           cleared == [r EXCEPT !.buff = 0]
           refused == [rest EXCEPT !.skip = k]
           some == [rest EXCEPT !.hasBody = TRUE]
<1>1. /\ r.shape = s /\ k \in Nat /\ x \in Nat /\ r.size \in Nat /\ r.frames \in Nat
      /\ Chunks[s] \in Nat /\ 0 \in Nat
  BY FieldsOfReq, ShapeIs DEF Parsed
<1>2. Counted(s) => k = Chunks[s] /\ x + r.size <= r.frames
  BY DEF Parsed, Tallied
<1>3. ReadWhole(r) \in {Result("invalid", cleared), Result("none", r), Result("panics", r),
                        Result("refused", refused), Result("refused", rest), Result("some", some)}
  BY DEF ReadWhole, Cleared
<1>4. /\ ReadWhole(r) = Result("invalid", cleared) => Fault[s] = "large"
      /\ ReadWhole(r) = Result("none", r) => Fault[s] /= "large" /\ x < k
      /\ ReadWhole(r) \notin {Result("none", r), Result("panics", r), Result("invalid", cleared)} => k <= x
      /\ ReadWhole(r).tag = "refused" => k = 0 \/ Fault[s] \in {"utf8", "body"}
  BY <1>1 DEF ReadWhole, Cleared, Result
<1>5. Is(cleared, r, 0, r.size, r.skip, r.hasBody)
  BY <1>1, BuffSet
<1> HIDE DEF cleared
<1>6. ASSUME k <= x
      PROVE  /\ Is(rest, r, x - k, k, r.skip, r.hasBody)
             /\ Is(some, r, x - k, k, r.skip, TRUE)
             /\ Is(refused, r, x - k, k, k, r.hasBody)
  <2>1. r.buff - k \in Nat /\ k \in Nat
    BY <1>1, <1>6
  <2>2. Is(rest, r, r.buff - k, k, r.skip, r.hasBody)
    <3> HIDE DEF k
    <3> QED BY <2>1, RestSet
  <2> HIDE DEF rest, k
  <2>3. rest \in ReqT
    BY <2>2 DEF Is
  <2>4. Is(some, rest, rest.buff, rest.size, rest.skip, TRUE)
    BY <1>1, <2>3, BodySet
  <2>5. Is(refused, rest, rest.buff, rest.size, k, rest.hasBody)
    BY <1>1, <2>1, <2>3, SkipSet
  <2> HIDE DEF some, refused
  <2> QED BY <2>2, <2>4, <2>5 DEF Is
<1> HIDE DEF rest, some, refused
<1>7. Is(r, r, r.buff, r.size, r.skip, r.hasBody)
  BY Unchanged
<1>8. Sound(s) /\ Tidy(s, r) =>
        /\ Counted(s) /\ r.size = 0 /\ x = r.frames /\ Fault[s] \notin {"utf8", "body"}
  <2>1. IsParsed(s)
    BY DEF IsParsed
  <2> QED BY <1>1, <2>1, SoundIs DEF Tidy
<1> DEFINE b == ReadWhole(r)
<1>9. CASE b = Result("invalid", cleared)
  <2>1. Counted(s) => Tallied(s, cleared)
    BY <1>1, <1>2, <1>5 DEF Is, Tallied
  <2>2. ~Fits(s)
    BY <1>4, <1>9 DEF Fits
  <2> HIDE DEF b
  <2>3. Reads(s, r, b)
    BY <1>1, <1>5, <1>9, <2>1, <2>2, ReadsOf DEF Tags
  <2> QED BY <2>3 DEF b
<1>10. CASE b = Result("none", r)
  <2>1. Counted(s) => Tallied(s, r)
    BY DEF Parsed
  <2>2. Fault[s] /= "large" /\ x < k
    BY <1>4, <1>10
  <2>3. Sound(s) /\ Tidy(s, r) => Lacks(s, r)
    BY <1>2, <1>8, <2>2 DEF Lacks, Fits
  <2> HIDE DEF b
  <2>4. Reads(s, r, b)
    BY <1>1, <1>7, <1>10, <2>1, <2>3, ReadsOf DEF Tags
  <2> QED BY <2>4 DEF b
<1>11. CASE b = Result("panics", r)
  <2>1. Counted(s) => Tallied(s, r)
    BY DEF Parsed
  <2> HIDE DEF b
  <2>2. Reads(s, r, b)
    BY <1>1, <1>7, <1>11, <2>1, ReadsOf DEF Tags
  <2> QED BY <2>2 DEF b
<1>12. CASE b \notin {Result("invalid", cleared), Result("none", r), Result("panics", r)}
  <2>1. k <= x
    BY <1>4, <1>12
  <2>2. ASSUME Counted(s) PROVE r.frames = Chunks[s] /\ x <= r.frames /\ k = Chunks[s]
    BY <1>1, <1>2, <2>1, <2>2
  <2>3. Is(rest, r, x - k, k, r.skip, r.hasBody)
    BY <1>6, <2>1
  <2>4. Is(some, r, x - k, k, r.skip, TRUE)
    BY <1>6, <2>1
  <2>5. Is(refused, r, x - k, k, k, r.hasBody)
    BY <1>6, <2>1
  <2>6. Counted(s) => Tallied(s, rest)
    <3> HIDE DEF x, k
    <3> QED BY <1>1, <2>1, <2>2, <2>3 DEF Is, Tallied, k
  <2>7. Counted(s) => Tallied(s, some)
    <3> HIDE DEF x, k
    <3> QED BY <1>1, <2>1, <2>2, <2>4 DEF Is, Tallied, k
  <2>8. Counted(s) => Tallied(s, refused)
    <3> HIDE DEF x, k
    <3> QED BY <1>1, <2>1, <2>2, <2>5 DEF Is, Tallied, k
  <2>9. CASE b = Result("some", some)
    <3> HIDE DEF b
    <3>1. Reads(s, r, b)
      BY <1>1, <2>2, <2>4, <2>7, <2>9, ReadsOf DEF Tags
    <3> QED BY <3>1 DEF b
  <2>10. ASSUME b.tag = "refused", Sound(s), Tidy(s, r) PROVE ~(r.buff > 0)
    <3>1. k = 0 /\ k = Chunks[s]
      BY <1>2, <1>4, <1>8, <2>10
    <3> QED BY <1>1, <1>8, <2>10, <3>1
  <2>11. CASE b = Result("refused", rest)
    <3>1. b.tag = "refused"
      BY <2>11 DEF Result
    <3> HIDE DEF b
    <3>2. Reads(s, r, b)
      BY <1>1, <2>3, <2>6, <2>10, <2>11, <3>1, ReadsOf DEF Tags
    <3> QED BY <3>2 DEF b
  <2>12. CASE b = Result("refused", refused)
    <3>1. b.tag = "refused"
      BY <2>12 DEF Result
    <3> HIDE DEF b
    <3>2. Reads(s, r, b)
      BY <1>1, <2>5, <2>8, <2>10, <2>12, <3>1, ReadsOf DEF Tags
    <3> QED BY <3>2 DEF b
  <2> QED BY <1>3, <1>12, <2>9, <2>11, <2>12
<1> QED BY <1>9, <1>10, <1>11, <1>12

LEMMA MultipartReads ==
  ASSUME NEW s \in Shape, NEW r \in ReqT, r.frames <= Chunks[s], Parsed(s, r),
         r.hasHead, ~r.hasBody, r.skip = 0, BodyType[s] = "multipart"
  PROVE  Reads(s, r, ReadMultipart(r))
<1> DEFINE b == ReadMultipart(r)
           k == r.length
           x == r.buff
           y == r.size
           z == y + x
           left == k - (y + 1)
           cleared == [r EXCEPT !.buff = 0]
           one == [r EXCEPT !.buff = @ - 1, !.size = @ + 1, !.skip = r.length - (r.size + 1)]
           some == [r EXCEPT !.buff = 0, !.size = z, !.hasBody = TRUE]
           stays == [r EXCEPT !.size = z]
           torn == [r EXCEPT !.size = z, !.skip = r.length - z]
           more == [r EXCEPT !.buff = 0, !.size = z]
           awaits == x = 0 \/ EndsLikeBoundary(r)
           goes == ~awaits /\ ~TooLong(r)
<1>1. /\ r.shape = s /\ k \in Nat /\ x \in Nat /\ y \in Nat /\ r.frames \in Nat
      /\ Chunks[s] \in Nat /\ 0 \in Nat /\ z \in Nat
  BY FieldsOfReq, ShapeIs DEF Parsed
<1>2. Counted(s) => k = Chunks[s] /\ x + y <= r.frames
  BY DEF Parsed, Tallied
<1>3. \/ awaits /\ b = Result("none", r)
      \/ TooLong(r) /\ b = Result("invalid", cleared)
      \/ goes /\ b = Result("panics", r)
      \/ goes /\ RefusesPart(r) /\ b = Result("refused", one)
      \/ goes /\ Closes(r) /\ b = Result("some", some)
      \/ goes /\ ~Closes(r) /\ Fault[s] = "disk" /\ b = Result("refused", stays)
      \/ goes /\ ~Closes(r) /\ r.frames \in Cut[s].char /\ b = Result("refused", torn)
      \/ goes /\ ~Closes(r) /\ b = Result("none", more)
  <2> HIDE DEF one, some, stays, torn, more
  <2>1. b = IF awaits THEN Result("none", r)
            ELSE IF TooLong(r) THEN Result("invalid", cleared)
            ELSE IF Panics(r) THEN Result("panics", r)
            ELSE IF RefusesPart(r) THEN Result("refused", one)
            ELSE IF Closes(r) THEN Result("some", some)
            ELSE IF Fault[s] = "disk" THEN Result("refused", stays)
            ELSE IF r.frames \in Cut[s].char THEN Result("refused", torn)
            ELSE Result("none", more)
    BY <1>1, Zenon DEF ReadMultipart, Cleared, one, some, stays, torn, more
  <2> HIDE DEF b, awaits
  <2> QED BY <2>1
<1>4. Closes(r) <=> r.frames = Chunks[s] /\ Fault[s] /= "unclosed"
  BY <1>1 DEF Closes
<1>5. goes => x > 0 /\ z <= k /\ (~Closes(r) => z < k)
  <2>1. goes => x > 0
    BY <1>1
  <2>2. goes => z <= k /\ (~Closes(r) => z < k)
    BY <1>1 DEF TooLong
  <2> QED BY <2>1, <2>2
<1>6. ASSUME Sound(s), Tidy(s, r)
      PROVE  /\ Counted(s) /\ r.frames = x + y /\ k = Chunks[s] /\ IsParsed(s)
             /\ Fault[s] \notin {"utf8", "body", "disk", "unclosed"}
             /\ Cut[s].bare = {} /\ Cut[s].char = {} /\ Fits(s)
             /\ Chunks[s] > 0 /\ Chunks[s] \notin Cut[s].held
             /\ ~TooLong(r) /\ ~RefusesPart(r)
  <2>1. IsParsed(s)
    BY DEF IsParsed
  <2>2. /\ Counted(s) /\ Fault[s] \notin {"utf8", "body", "disk", "unclosed"}
        /\ Cut[s].bare = {} /\ Cut[s].char = {}
    BY <1>6, <2>1, SoundIs
  <2>3. Fits(s) /\ Chunks[s] > 0 /\ Chunks[s] \notin Cut[s].held
    BY <2>2, ShapeIs DEF Fits
  <2>4. r.frames = x + y /\ k = Chunks[s]
    BY <1>1, <1>2, <1>6, <2>2 DEF Tidy
  <2>5. ~TooLong(r)
    BY <1>1, <1>4, <2>2, <2>4 DEF TooLong
  <2>6. ~RefusesPart(r)
    BY <1>1, <2>2 DEF RefusesPart
  <2> QED BY <2>1, <2>2, <2>3, <2>4, <2>5, <2>6
<1>7. Is(cleared, r, 0, y, r.skip, r.hasBody)
  BY <1>1, BuffSet
<1>8. Is(r, r, x, y, r.skip, r.hasBody)
  BY Unchanged
<1>9. ASSUME goes PROVE Is(one, r, x - 1, y + 1, left, r.hasBody)
  <2>1. x - 1 \in Nat /\ y + 1 \in Nat /\ left \in Nat
    BY <1>1, <1>5, <1>9
  <2> QED BY <2>1, SkipSet
<1>10. Is(some, r, 0, z, r.skip, TRUE)
  BY <1>1, BodySet
<1>11. Is(stays, r, x, z, r.skip, r.hasBody)
  BY <1>1, SizeSet
<1>12. ASSUME goes PROVE Is(torn, r, x, z, k - z, r.hasBody)
  <2>1. k - z \in Nat
    BY <1>1, <1>5, <1>12
  <2> QED BY <1>1, <2>1, SkipSet
<1>13. Is(more, r, 0, z, r.skip, r.hasBody)
  BY <1>1, RestSet
<1> HIDE DEF b, cleared, one, some, stays, torn, more
<1>14. CASE awaits /\ b = Result("none", r)
  <2>1. Counted(s) => Tallied(s, r)
    BY DEF Parsed
  <2>2. ASSUME Sound(s), Tidy(s, r), r.frames = 0 \/ r.buff > 0 PROVE Lacks(s, r)
    <3>1. CASE r.frames = 0
      BY <1>6, <2>2, <3>1 DEF Lacks
    <3>2. CASE r.buff > 0
      <4>1. r.frames \in Cut[s].held
        BY <1>1, <1>14, <3>2 DEF EndsLikeBoundary
      <4>2. r.frames /= Chunks[s]
        BY <1>6, <2>2, <4>1
      <4> QED BY <1>1, <1>6, <2>2, <4>2 DEF Lacks
    <3> QED BY <2>2, <3>1, <3>2
  <2> HIDE DEF awaits
  <2>3. Reads(s, r, b)
    BY <1>1, <1>8, <1>14, <2>1, <2>2, ReadsOf DEF Tags
  <2> QED BY <2>3 DEF b
<1>15. CASE TooLong(r) /\ b = Result("invalid", cleared)
  <2>1. Counted(s) => Tallied(s, cleared)
    <3> HIDE DEF x, y, k
    <3> QED BY <1>1, <1>2, <1>7 DEF Is, Tallied, k
  <2>2. Reads(s, r, b)
    BY <1>1, <1>6, <1>7, <1>15, <2>1, ReadsOf DEF Tags
  <2> QED BY <2>2 DEF b
<1>16. CASE goes /\ b = Result("panics", r)
  <2>1. Counted(s) => Tallied(s, r)
    BY DEF Parsed
  <2>2. Reads(s, r, b)
    BY <1>1, <1>8, <1>16, <2>1, ReadsOf DEF Tags
  <2> QED BY <2>2 DEF b
<1>17. CASE goes /\ RefusesPart(r) /\ b = Result("refused", one)
  <2>1. Is(one, r, x - 1, y + 1, left, r.hasBody) /\ x > 0
    BY <1>5, <1>9, <1>17
  <2>2. Counted(s) => Tallied(s, one)
    <3>1. /\ one.buff = x - 1 /\ one.size = y + 1 /\ one.skip = k - (y + 1)
          /\ one.frames = r.frames /\ one.length = k /\ one.hasHead /\ ~one.hasBody
      BY <2>1 DEF Is
    <3> HIDE DEF x, y, k
    <3>2. ASSUME Counted(s)
          PROVE  /\ (x - 1) + (y + 1) <= r.frames
                 /\ (k - (y + 1)) + r.frames - (x - 1) >= Chunks[s]
      BY <1>1, <1>2, <2>1, <3>2
    <3> QED BY <1>2, <3>1, <3>2 DEF Tallied
  <2>3. Reads(s, r, b)
    BY <1>1, <1>6, <1>17, <2>1, <2>2, ReadsOf DEF Tags
  <2> QED BY <2>3 DEF b
<1>18. CASE goes /\ Closes(r) /\ b = Result("some", some)
  <2>1. Counted(s) => Tallied(s, some)
    <3>1. /\ some.buff = 0 /\ some.size = y + x /\ some.skip = 0
          /\ some.frames = r.frames /\ some.length = k
      BY <1>10 DEF Is
    <3> HIDE DEF x, y, k
    <3> QED BY <1>1, <1>2, <1>4, <1>18, <3>1 DEF Tallied
  <2>2. Reads(s, r, b)
    BY <1>1, <1>4, <1>10, <1>18, <2>1, ReadsOf DEF Tags
  <2> QED BY <2>2 DEF b
<1>19. CASE goes /\ ~Closes(r) /\ Fault[s] = "disk" /\ b = Result("refused", stays)
  <2>1. ~Counted(s) /\ ~(Sound(s) /\ Tidy(s, r))
    BY <1>6, <1>19 DEF Counted
  <2>2. Reads(s, r, b)
    BY <1>1, <1>11, <1>19, <2>1, ReadsOf DEF Tags
  <2> QED BY <2>2 DEF b
<1>20. CASE goes /\ ~Closes(r) /\ r.frames \in Cut[s].char /\ b = Result("refused", torn)
  <2>1. ~Counted(s) /\ ~(Sound(s) /\ Tidy(s, r))
    BY <1>6, <1>20 DEF Counted
  <2>2. Reads(s, r, b)
    BY <1>1, <1>12, <1>20, <2>1, ReadsOf DEF Tags
  <2> QED BY <2>2 DEF b
<1>21. CASE goes /\ ~Closes(r) /\ b = Result("none", more)
  <2>1. /\ more.buff = 0 /\ more.size = y + x /\ more.skip = 0
        /\ more.frames = r.frames /\ more.length = k /\ more.hasHead /\ ~more.hasBody
    BY <1>13 DEF Is
  <2>2. Counted(s) => Tallied(s, more)
    <3> HIDE DEF x, y, k
    <3> QED BY <1>1, <1>2, <2>1 DEF Tallied
  <2>3. ASSUME Sound(s), Tidy(s, r) PROVE Lacks(s, more)
    <3>1. r.frames < Chunks[s]
      BY <1>1, <1>4, <1>6, <1>21, <2>3
    <3>2. more.buff + more.size = more.frames
      BY <1>1, <1>6, <2>1, <2>3
    <3> QED BY <1>6, <2>1, <2>3, <3>1, <3>2 DEF Lacks, Tidy
  <2>4. Reads(s, r, b)
    BY <1>1, <1>13, <1>21, <2>2, <2>3, ReadsOf DEF Tags
  <2> QED BY <2>4 DEF b
<1>22. Reads(s, r, b)
  <2> HIDE DEF awaits, goes
  <2> QED BY <1>3, <1>14, <1>15, <1>16, <1>17, <1>18, <1>19, <1>20, <1>21 DEF b
<1> QED BY <1>22 DEF b

LEMMA SkipReads ==
  ASSUME NEW s \in Shape, NEW r \in ReqT, r.frames <= Chunks[s], Parsed(s, r), r.skip > 0
  PROVE  Reads(s, r, Skip(r))
<1> DEFINE b == Skip(r)
           x == r.buff
           k == r.skip
           y == r.size
           past == [r EXCEPT !.buff = @ - r.skip, !.skip = 0]
           in == [r EXCEPT !.buff = 0, !.skip = @ - r.buff]
<1>1. /\ r.shape = s /\ x \in Nat /\ k \in Nat /\ y \in Nat /\ r.frames \in Nat
      /\ Chunks[s] \in Nat /\ 0 \in Nat
  BY FieldsOfReq, ShapeIs DEF Parsed
<1>2. /\ ~Tidy(s, r)
      /\ Counted(s) => x + y <= r.frames /\ k + r.frames - x >= Chunks[s] /\ Tallied(s, r)
  BY DEF Tidy, Parsed, Tallied
<1>3. b = IF x >= k THEN Result("some", past) ELSE Result("none", in)
  BY Zenon DEF Skip
<1>4. CASE x >= k
  <2>1. Is(past, r, x - k, y, 0, r.hasBody)
    <3>1. x - k \in Nat
      BY <1>1, <1>4
    <3> QED BY <1>1, <3>1, SkipSet
  <2>2. b = Result("some", past)
    BY <1>3, <1>4
  <2> HIDE DEF b, past
  <2>3. /\ past.buff = x - k /\ past.size = y /\ past.skip = 0 /\ past.frames = r.frames
        /\ past.length = r.length /\ past.hasHead = r.hasHead /\ past.hasBody = r.hasBody
    BY <2>1 DEF Is
  <2>4. ASSUME Counted(s) PROVE r.frames = Chunks[s] /\ Tallied(s, past)
    <3>1. r.frames = Chunks[s] /\ (x - k) + y <= r.frames
      <4> HIDE DEF x, k, y
      <4> QED BY <1>1, <1>2, <1>4, <2>4
    <3> HIDE DEF x, k, y
    <3> QED BY <1>2, <2>3, <2>4, <3>1 DEF Tallied
  <2>5. Reads(s, r, b)
    BY <1>1, <1>2, <2>1, <2>2, <2>4, ReadsOf DEF Tags
  <2> QED BY <2>5 DEF b
<1>5. CASE ~(x >= k)
  <2>1. Is(in, r, 0, y, k - x, r.hasBody)
    <3>1. k - x \in Nat
      BY <1>1, <1>5
    <3> QED BY <1>1, <3>1, SkipSet
  <2>2. b = Result("none", in)
    BY <1>3, <1>5
  <2> HIDE DEF b, in
  <2>3. /\ in.buff = 0 /\ in.size = y /\ in.skip = k - x /\ in.frames = r.frames
        /\ in.length = r.length /\ in.hasHead = r.hasHead /\ in.hasBody = r.hasBody
    BY <2>1 DEF Is
  <2>4. ASSUME Counted(s) PROVE Tallied(s, in)
    <3>1. 0 + y <= r.frames /\ (k - x) + r.frames - 0 >= Chunks[s]
      <4> HIDE DEF x, k, y
      <4> QED BY <1>1, <1>2, <1>5, <2>4
    <3> HIDE DEF x, k, y
    <3> QED BY <1>2, <2>3, <2>4, <3>1 DEF Tallied
  <2>5. Reads(s, r, b)
    BY <1>1, <1>2, <2>1, <2>2, <2>4, ReadsOf DEF Tags
  <2> QED BY <2>5 DEF b
<1> QED BY <1>4, <1>5

LEMMA BodyReads ==
  ASSUME NEW s \in Shape, NEW r \in ReqT, r.frames <= Chunks[s], Parsed(s, r),
         r.hasHead, ~r.hasBody, r.skip = 0
  PROVE  /\ Reads(s, r, ReadBody(r))
         /\ ~IsParsed(s) => ReadBody(r).tag /= "none"
<1>1. /\ r.shape = s /\ r.buff \in Nat /\ r.size \in Nat /\ r.frames \in Nat /\ Chunks[s] \in Nat
      /\ r.length \in Nat /\ BodyType[s] \in {"none", "json", "form", "multipart", "other"}
  BY FieldsOfReq, ShapeIs DEF Parsed
<1>2. Is(r, r, r.buff, r.size, r.skip, r.hasBody)
  BY Unchanged
<1>3. Counted(s) => Tallied(s, r) /\ r.length = Chunks[s] /\ r.buff + r.size <= r.frames /\ IsParsed(s)
  BY DEF Parsed, Tallied, Counted, Announced
<1>4. CASE r.size > r.length
  <2>1. ReadBody(r) = Result("invalid", r)
    BY <1>4 DEF ReadBody
  <2>2. ~Counted(s)
    <3> DEFINE x == r.buff
               y == r.size
               n == r.frames
               k == r.length
    <3>1. /\ x \in Nat /\ y \in Nat /\ n \in Nat /\ k \in Nat /\ y > k /\ n <= Chunks[s]
          /\ Counted(s) => k = Chunks[s] /\ x + y <= n
      BY <1>1, <1>3, <1>4
    <3> HIDE DEF x, y, n, k
    <3> QED BY <1>1, <3>1
  <2>3. ~(Sound(s) /\ Tidy(s, r))
    BY <2>2, SoundIs DEF Tidy
  <2>4. Reads(s, r, ReadBody(r))
    BY <1>1, <1>2, <2>1, <2>2, <2>3, ReadsOf DEF Tags
  <2> QED BY <2>1, <2>4 DEF Result
<1>5. CASE ~(r.size > r.length) /\ BodyType[s] \in {"json", "form"}
  <2>1. ReadBody(r) = ReadWhole(r)
    BY <1>1, <1>5 DEF ReadBody
  <2> QED BY <1>5, <2>1, WholeReads DEF IsParsed
<1>6. CASE ~(r.size > r.length) /\ BodyType[s] = "multipart"
  <2>1. ReadBody(r) = ReadMultipart(r)
    BY <1>1, <1>6 DEF ReadBody
  <2> QED BY <1>6, <2>1, MultipartReads DEF IsParsed
<1>7. CASE ~(r.size > r.length) /\ BodyType[s] \in {"none", "other"}
  <2>1. ReadBody(r) = Result("some", r)
    BY <1>1, <1>7 DEF ReadBody
  <2>2. ~IsParsed(s)
    BY <1>7 DEF IsParsed
  <2>3. ~Counted(s) /\ ~Tidy(s, r)
    BY <1>3, <2>2 DEF Tidy
  <2>4. Reads(s, r, ReadBody(r))
    BY <1>1, <1>2, <2>1, <2>3, ReadsOf DEF Tags
  <2> QED BY <2>1, <2>4 DEF Result
<1> QED BY <1>1, <1>4, <1>5, <1>6, <1>7

\* read_block, with what there is of the body, or with none of it.
LEMMA BlockReads ==
  ASSUME NEW s \in Shape, NEW r \in ReqT, r.frames <= Chunks[s], Parsed(s, r),
         NEW b, b = ReadBlock(r)
  PROVE  /\ b.req \in ReqT /\ b.tag \in Tags /\ Parsed(s, b.req) /\ b.req.frames = r.frames
         /\ Counted(s) /\ b.tag = "some" => r.frames = Chunks[s]
         /\ Sound(s) /\ Tidy(s, r) /\ r.buff > 0 =>
              /\ b.tag = "none" => Lacks(s, b.req)
              /\ Fits(s) => b.tag \in {"some", "none", "panics"}
         /\ Sound(s) /\ r = NewReq(s) /\ b.tag = "none" => Lacks(s, b.req)
<1>1. /\ r.shape = s /\ r.skip \in Nat /\ r.hasHead \in BOOLEAN /\ r.hasBody \in BOOLEAN
      /\ r.frames \in Nat /\ r.buff \in Nat /\ r.size \in Nat
  BY FieldsOfReq DEF Parsed
<1>2. ASSUME Reads(s, r, b)
      PROVE  /\ b.req \in ReqT /\ b.tag \in Tags /\ Parsed(s, b.req) /\ b.req.frames = r.frames
             /\ Counted(s) /\ b.tag = "some" => r.frames = Chunks[s]
             /\ Sound(s) /\ Tidy(s, r) /\ r.buff > 0 =>
                  /\ b.tag = "none" => Lacks(s, b.req)
                  /\ Fits(s) => b.tag \in {"some", "none", "panics"}
  BY <1>2 DEF Reads, Parsed
<1>3. CASE r.skip > 0
  <2>1. b = Skip(r)
    BY <1>3 DEF ReadBlock
  <2>2. Reads(s, r, b)
    BY <1>3, <2>1, SkipReads
  <2>3. r /= NewReq(s)
    BY <1>3 DEF NewReq
  <2> QED BY <1>2, <2>2, <2>3
<1>4. CASE r.skip = 0 /\ r.hasHead
  <2>1. b = IF r.hasBody THEN Result("some", r) ELSE ReadBody(r)
    BY <1>4 DEF ReadBlock, Result
  <2>2. r /= NewReq(s)
    BY <1>4 DEF NewReq
  <2>3. CASE r.hasBody
    <3>1. b.tag = "some" /\ b.req = r
      BY <2>1, <2>3 DEF Result
    <3>2. Counted(s) => r.frames = Chunks[s]
      BY <1>4, <2>3 DEF Parsed, Tallied
    <3>3. ~Tidy(s, r)
      BY <2>3 DEF Tidy
    <3> QED BY <2>2, <3>1, <3>2, <3>3 DEF Tags
  <2>4. CASE ~r.hasBody
    <3>1. Reads(s, r, b)
      BY <1>4, <2>1, <2>4, BodyReads
    <3> QED BY <1>2, <2>2, <3>1
  <2> QED BY <2>3, <2>4
<1>5. CASE r.skip = 0 /\ ~r.hasHead
  <2> DEFINE h == ReadHead(r)
  <2>1. b = IF h.tag /= "some" \/ h.req.hasBody THEN h ELSE ReadBody(h.req)
    BY <1>5 DEF ReadBlock
  <2>2. /\ h.req \in ReqT /\ h.tag \in {"some", "invalid", "refused", "panics"}
        /\ Parsed(s, h.req) /\ h.req.frames = r.frames /\ h.req.skip = r.skip
        /\ h.req.buff = r.buff /\ h.req.size = r.size
        /\ h.tag = "some" => /\ h.req.hasHead /\ h.req.length = Length[s]
                             /\ (h.req.hasBody <=> BodyType[s] = "none")
    BY <1>5, HeadReads
  <2> HIDE DEF h
  <2>3. ~Tidy(s, r)
    BY <1>5 DEF Tidy
  <2>4. CASE h.tag /= "some"
    <3>1. b = h
      BY <2>1, <2>4
    <3> QED BY <2>2, <2>3, <2>4, <3>1 DEF Tags
  <2>5. CASE h.tag = "some" /\ h.req.hasBody
    <3>1. b = h
      BY <2>1, <2>5
    <3>2. ~Counted(s)
      BY <2>2, <2>5 DEF Counted, Announced, IsParsed
    <3> QED BY <2>2, <2>3, <2>5, <3>1, <3>2 DEF Tags
  <2>6. CASE h.tag = "some" /\ ~h.req.hasBody
    <3>1. b = ReadBody(h.req)
      BY <2>1, <2>6
    <3>2. Reads(s, h.req, b) /\ (~IsParsed(s) => b.tag /= "none")
      BY <1>5, <2>2, <2>6, <3>1, BodyReads
    <3>3. ASSUME r = NewReq(s), b.tag = "none", Sound(s) PROVE Lacks(s, b.req)
      <4>1. r.frames = 0 /\ r.buff = 0 /\ r.size = 0
        BY <3>3 DEF NewReq
      <4>2. IsParsed(s)
        BY <3>2, <3>3
      <4>3. Tidy(s, h.req)
        BY <1>5, <2>2, <2>6, <4>1, <4>2 DEF Tidy
      <4> QED BY <2>2, <3>2, <3>3, <4>1, <4>3 DEF Reads
    <3>4. Parsed(s, b.req)
      BY <3>2 DEF Reads, Parsed
    <3> QED BY <2>2, <2>3, <3>2, <3>3, <3>4 DEF Reads
  <2> QED BY <2>4, <2>5, <2>6
<1> QED BY <1>1, <1>3, <1>4, <1>5

\* One more frame.
LEMMA ChunkAdded ==
  ASSUME NEW s \in Shape, NEW r \in ReqT, r.frames < Chunks[s], Parsed(s, r),
         NEW a, a = AddChunk(r)
  PROVE  /\ a \in ReqT /\ Parsed(s, a) /\ a.buff > 0 /\ a.frames = r.frames + 1
         /\ a.frames <= Chunks[s]
         /\ Lacks(s, r) => Tidy(s, a) /\ Fits(s)
<1> DEFINE x == r.buff
           y == r.size
           k == r.skip
           n == r.frames
<1>1. /\ x \in Nat /\ y \in Nat /\ k \in Nat /\ n \in Nat /\ Chunks[s] \in Nat /\ n < Chunks[s]
      /\ r.shape = s
  BY FieldsOfReq, ShapeIs DEF Parsed
<1>2. a \in ReqT
  <2>1. r.buff + 1 \in Nat /\ r.frames + 1 \in Nat
    BY <1>1
  <2> QED BY <2>1, Zenon DEF AddChunk, ReqT
<1>3. /\ a.shape = r.shape /\ a.hasHead = r.hasHead /\ a.hasBody = r.hasBody /\ a.buff = x + 1
      /\ a.length = r.length /\ a.size = y /\ a.skip = k /\ a.frames = n + 1
  BY DEF AddChunk, ReqT
<1>4. Counted(s) => /\ x + y <= n /\ (k > 0 => k + n - x >= Chunks[s])
                    /\ (r.hasHead => r.length = Chunks[s]) /\ ~(r.hasHead /\ r.hasBody)
  BY <1>1 DEF Parsed, Tallied
<1>5. Lacks(s, r) => /\ IsParsed(s) /\ r.hasHead /\ ~r.hasBody /\ k = 0 /\ x + y = n
                     /\ (BodyType[s] /= "multipart" => y = 0) /\ Fits(s)
  BY DEF Lacks, Tidy
<1> HIDE DEF x, y, k, n
<1>6. Counted(s) => Tallied(s, a)
  <2>1. ASSUME Counted(s)
        PROVE  (x + 1) + y <= n + 1 /\ (k > 0 => k + (n + 1) - (x + 1) >= Chunks[s])
    BY <1>1, <1>4, <2>1
  <2> QED BY <1>3, <1>4, <2>1 DEF Tallied
<1>7. Lacks(s, r) => Tidy(s, a) /\ Fits(s)
  <2>1. (x + 1) + y = n + 1 <=> x + y = n
    BY <1>1
  <2> QED BY <1>3, <1>5, <2>1 DEF Tidy
<1>8. x + 1 > 0 /\ n + 1 <= Chunks[s]
  BY <1>1
<1> QED BY <1>1, <1>2, <1>3, <1>6, <1>7, <1>8 DEF Parsed, n

-----------------------------------------------------------------------------
(* Type correctness. *)

LEMMA BoundsAre == /\ MaxReqs \in Nat /\ Blocks \in Nat /\ Cap \in Nat /\ Cap >= 3
                   /\ Proto \subseteq {"h2", "h3"}
                   /\ Op \subseteq [kind : {"push", "file", "code", "end"}, attach : BOOLEAN]
BY MuxAssumption DEF MuxAssumption

LEMMA EventIs ==
  ASSUME NEW kind \in {"head", "badhead", "data", "close"}
  PROVE  Event(kind) \in EventT /\ Event(kind).kind = kind
BY DEF Event, EventT

LEMMA StreamIs == NewStream \in StreamT /\ ~NewStream.headersSent
BY DEF NewStream, StreamT

LEMMA RefusalIs ==
  /\ Refusal \in Seq(EventT) /\ Len(Refusal) = 3 /\ Refusal /= <<>>
  /\ Refusal[1] = Event("head") /\ Refusal[2] = Event("data") /\ Refusal[3] = Event("close")
<1>1. Event("head") \in EventT /\ Event("data") \in EventT /\ Event("close") \in EventT
  BY EventIs
<1> QED BY <1>1 DEF Refusal

LEMMA HeadEventsType ==
  ASSUME NEW s \in StreamT
  PROVE  HeadEvents(s) \in Seq(EventT)
<1>1. Event("head") \in EventT /\ Event("badhead") \in EventT
  BY EventIs
<1>2. <<>> \in Seq(EventT) /\ <<Event("head")>> \in Seq(EventT)
      /\ <<Event("badhead")>> \in Seq(EventT)
  BY <1>1
<1> QED BY <1>2 DEF HeadEvents

LEMMA BlocksAre == /\ [i \in 1..Blocks |-> Event("data")] \in Seq(EventT)
                   /\ Len([i \in 1..Blocks |-> Event("data")]) = Blocks
<1>1. \A i \in 1..Blocks : Event("data") \in EventT
  BY EventIs
<1> QED BY <1>1, IsASeq, BoundsAre

LEMMA OpIs ==
  ASSUME NEW op \in Op
  PROVE  op.kind \in {"push", "file", "code", "end"} /\ op.attach \in BOOLEAN
BY BoundsAre

LEMMA OperationType ==
  ASSUME NEW s \in StreamT, NEW op \in Op
  PROVE  Events(s, op) \in Seq(EventT) /\ Fields(s, op) \in StreamT
<1>1. op.kind \in {"push", "file", "code", "end"} /\ op.attach \in BOOLEAN
  BY OpIs
<1>2. Events(s, op) \in Seq(EventT)
  <2>1. <<Event("data")>> \in Seq(EventT) /\ <<Event("close")>> \in Seq(EventT)
        /\ <<>> \in Seq(EventT)
    <3>1. Event("data") \in EventT /\ Event("close") \in EventT
      BY EventIs
    <3> QED BY <3>1
  <2>2. HeadEvents(s) \o <<Event("data")>> \in Seq(EventT)
        /\ HeadEvents(s) \o [i \in 1..Blocks |-> Event("data")] \in Seq(EventT)
    BY <2>1, HeadEventsType, BlocksAre, ConcatProperties
  <2> QED BY <1>1, <2>1, <2>2 DEF Events
<1>3. Fields(s, op) \in StreamT
  <2>1. TRUE \in BOOLEAN /\ FALSE \in BOOLEAN
    OBVIOUS
  <2>2. [s EXCEPT !.headersSent = TRUE, !.attach = op.attach, !.body = TRUE] \in StreamT
    BY <1>1, <2>1, Zenon DEF StreamT
  <2>3. [s EXCEPT !.headersSent = TRUE, !.attach = op.attach, !.file = TRUE] \in StreamT
    BY <1>1, <2>1, Zenon DEF StreamT
  <2>4. [s EXCEPT !.valid = FALSE] \in StreamT
    BY <2>1, Zenon DEF StreamT
  <2> QED BY <1>1, <2>2, <2>3, <2>4, StreamIs DEF Fields
<1> QED BY <1>2, <1>3

LEMMA EmitType ==
  ASSUME NEW r \in 0..MaxReqs, NEW events \in Seq(EventT)
  PROVE  /\ Emit(r, events) \in [id : 0..MaxReqs, events : Seq(EventT)]
         /\ Emit(r, events).events = events
         /\ events /= <<>> => Emit(r, events).id = r
         /\ events = <<>> => Emit(r, events) = NoEmit
<1>1. 0 \in 0..MaxReqs /\ <<>> \in Seq(EventT)
  BY BoundsAre
<1> QED BY <1>1 DEF Emit, NoEmit

LEMMA NoEmitType == NoEmit \in [id : 0..MaxReqs, events : Seq(EventT)]
                    /\ NoEmit.id = 0 /\ NoEmit.events = <<>>
<1>1. 0 \in 0..MaxReqs /\ <<>> \in Seq(EventT)
  BY BoundsAre
<1> QED BY <1>1 DEF NoEmit

LEMMA ForgetType ==
  ASSUME Forget
  PROVE  /\ shape' \in Shape \cup {NoShape} /\ req' \in ReqT /\ res' = "none"
         /\ sent' \in PartT /\ got' \in PartT
<1>1. NoShape \in Shape \cup {NoShape}
  OBVIOUS
<1>2. NewReq(NoShape) \in ReqT
  BY NewReqIs, <1>1
<1>3. Part(0, "open") \in PartT
  BY DEF Part, PartT
<1> QED BY <1>1, <1>2, <1>3 DEF Forget

\* Once the connection is over, it is as if no request had been made.
LEMMA OverStep ==
  ASSUME Typed, NEW how \in {"closed", "exited"}, Over(how)
  PROVE  IInv'
<1>1. /\ at' = how /\ cur' = 0 /\ woken' = FALSE /\ held' = 0 /\ emit' = NoEmit /\ ops' = 0
      /\ proto' = proto
      /\ stream' = [r \in Id |-> NewStream] /\ promised' = [r \in Id |-> <<>>]
      /\ chan' = [r \in Id |-> <<>>] /\ writer' = [r \in Id |-> "none"]
      /\ out' = [r \in Id |-> <<>>] /\ flushed' = [r \in Id |-> 0] /\ gone' = {}
  BY DEF Over
<1>2. Typed'
  <2>1. Forget
    BY DEF Over
  <2>2. <<>> \in Seq(EventT) /\ 0 \in 0..MaxReqs
    BY BoundsAre
  <2>3. /\ shape' \in Shape \cup {NoShape} /\ req' \in ReqT /\ res' = "none"
        /\ sent' \in PartT /\ got' \in PartT
    BY <2>1, ForgetType
  <2>4. emit' \in [id : 0..MaxReqs, events : Seq(EventT)]
    BY <1>1, NoEmitType
  <2>5. /\ stream' \in [Id -> StreamT] /\ promised' \in [Id -> Seq(EventT)]
        /\ chan' \in [Id -> Seq(EventT)] /\ out' \in [Id -> Seq(EventT)]
        /\ flushed' \in [Id -> Nat] /\ gone' \in SUBSET Id
        /\ writer' \in [Id -> {"none", "run", "done", "panicked"}]
    BY <1>1, <2>2, StreamIs
  <2> QED BY <1>1, <2>2, <2>3, <2>4, <2>5 DEF Typed
<1>3. Parsing'
  BY <1>1 DEF Parsing
<1>4. Bounds'
  BY <1>1, NoEmitType, BoundsAre DEF Bounds
<1>5. Fresh' /\ Promising' /\ Pledged' /\ Row'
  <2>1. \A r \in Id : promised'[r] = <<>> /\ chan'[r] = <<>> /\ out'[r] = <<>>
                      /\ stream'[r] = NewStream /\ r /= 0
    BY <1>1, BoundsAre DEF Id
  <2>2. Fresh'
    BY <1>1, <2>1 DEF Fresh
  <2>3. Promising'
    BY <1>1 DEF Promising, Open
  <2>4. Pledged'
    BY <2>1 DEF Pledged
  <2>5. Row'
    BY <2>1 DEF Row, Claimed
  <2> QED BY <2>2, <2>3, <2>4, <2>5
<1> QED BY <1>2, <1>3, <1>4, <1>5 DEF IInv, Responses

LEMMA Overs ==
  ASSUME Typed, \/ AcceptEnds \/ ReadPanics \/ Break
                \/ \E s \in Shape : AcceptPanics(s)
                \/ \E op \in Op : Exit(op)
  PROVE  IInv'
BY OverStep DEF AcceptEnds, AcceptPanics, ReadPanics, Break, Exit

LEMMA PartIs ==
  ASSUME NEW n \in Nat, NEW side \in {"open", "ended", "cut"}
  PROVE  Part(n, side) \in PartT /\ Part(n, side).frames = n /\ Part(n, side).side = side
BY DEF Part, PartT

LEMMA FieldsOfPart ==
  ASSUME NEW p \in PartT
  PROVE  p.frames \in Nat /\ p.side \in {"open", "ended", "cut"}
BY DEF PartT

LEMMA RoomIs ==
  ASSUME Typed, NEW s \in Shape
  PROVE  /\ Room(s) \in Nat /\ Room(s) <= Chunks[s]
         /\ \A part \in WithHead(s) : PartOf(s, part)
<1>1. Window \in Nat /\ Chunks[s] \in Nat /\ Length[s] \in Nat
  BY ShapeIs, MuxAssumption DEF MuxAssumption
<1>2. Allowed(s) \in Nat /\ Allowed(s) <= Chunks[s]
  BY <1>1 DEF Allowed
<1>3. Room(s) \in Nat /\ Room(s) <= Chunks[s]
  BY <1>1, <1>2 DEF Room
<1>4. ASSUME NEW part \in Sendable(s) PROVE PartOf(s, part)
  <2>1. /\ part \in [frames : 0..Room(s), side : {"open", "ended", "cut"}]
        /\ part.side = "ended" => Ends(s, part.frames)
    BY DEF Sendable
  <2>2. part \in PartT /\ part.frames <= Room(s) /\ part.frames \in Nat
    BY <1>3, <2>1 DEF PartT
  <2> QED BY <1>1, <1>3, <2>1, <2>2 DEF PartOf, Ends
<1>5. PartOf(s, Part(0, "open"))
  BY <1>1, PartIs DEF PartOf
<1> QED BY <1>3, <1>4, <1>5 DEF WithHead

\* What the task can be given of a body is a part of it.
LEMMA GivenIs ==
  ASSUME Typed, Parsing, at \in {"body", "result"}
  PROVE  PartOf(shape, Given)
BY DEF Parsing, Given

LEMMA AcceptType ==
  ASSUME Typed, NEW s \in Shape, NEW part \in WithHead(s), Accept(s, part)
  PROVE  Typed' /\ Parsing'
<1> DEFINE b == ReadBlock(NewReq(s))
<1>1. /\ cur' = cur + 1 /\ shape' = s /\ sent' = part /\ got' = part
      /\ req' = b.req /\ res' = b.tag /\ at' = "body" /\ cur < MaxReqs /\ b.tag /= "panics"
      /\ writer' = [writer EXCEPT ![cur + 1] = "run"]
      /\ gone' \in {gone, gone \cup {cur + 1}}
      /\ UNCHANGED <<proto, stream, woken, held, emit, ops, promised, chan, out, flushed>>
  BY DEF Accept, opVars
<1>2. PartOf(s, part) /\ part \in PartT /\ Chunks[s] \in Nat
  BY RoomIs, ShapeIs DEF PartOf
<1>3. /\ b.req \in ReqT /\ b.tag \in Tags /\ Parsed(s, b.req) /\ b.req.frames = 0
      /\ Counted(s) /\ b.tag = "some" => 0 = Chunks[s]
      /\ Sound(s) /\ b.tag = "none" => Lacks(s, b.req)
  <2> DEFINE r == NewReq(s)
  <2>1. r \in ReqT /\ Parsed(s, r) /\ r.frames = 0 /\ r.frames <= Chunks[s]
    BY <1>2, NewReqIs
  <2>2. b = ReadBlock(r) /\ r = NewReq(s)
    OBVIOUS
  <2> HIDE DEF b, r
  <2> QED BY <2>1, <2>2, BlockReads
<1> HIDE DEF b
<1>4. Typed'
  <2>1. cur' \in 0..MaxReqs /\ cur + 1 \in Id
    BY <1>1, BoundsAre DEF Typed, Id
  <2>2. writer' \in [Id -> {"none", "run", "done", "panicked"}]
    BY <1>1 DEF Typed
  <2>3. gone' \in SUBSET Id
    BY <1>1, <2>1 DEF Typed
  <2>4. res' \in {"none", "some", "invalid", "refused"}
    BY <1>1, <1>3 DEF Tags
  <2> QED BY <1>1, <1>2, <1>3, <2>1, <2>2, <2>3, <2>4 DEF Typed
<1>5. Parsing'
  <2>1. req'.frames = 0 /\ req'.frames <= Chunks[s]
    BY <1>1, <1>2, <1>3
  <2> QED BY <1>1, <1>2, <1>3, <2>1 DEF Parsing
<1> QED BY <1>4, <1>5

LEMMA ReadDataType ==
  ASSUME Typed, Parsing, ReadData
  PROVE  Typed' /\ Parsing'
<1> DEFINE a == AddChunk(req)
           b == ReadBlock(a)
<1>1. /\ at = "body" /\ req.frames < Given.frames /\ req' = b.req /\ b.tag /= "panics"
      /\ res' = (IF b.tag = "some" THEN "some" ELSE res)
      /\ at' = (IF b.tag \in {"some", "invalid"} THEN "result" ELSE "body")
      /\ UNCHANGED <<proto, cur, shape, sent, got, opVars, writeVars>>
  BY DEF ReadData
<1>2. /\ shape \in Shape /\ req \in ReqT /\ PartOf(shape, sent) /\ PartOf(shape, got)
      /\ Parsed(shape, req)
      /\ res = "some" /\ Counted(shape) => req.frames = Chunks[shape]
      /\ res = "none" /\ Sound(shape) => Lacks(shape, req)
  BY <1>1 DEF Typed, Parsing
<1>3. req.frames < Chunks[shape]
  <2>1. PartOf(shape, Given)
    BY <1>1, GivenIs
  <2>2. Given.frames <= Chunks[shape] /\ Given.frames \in Nat
    BY <2>1, FieldsOfPart DEF PartOf
  <2>3. Chunks[shape] \in Nat /\ req.frames \in Nat
    BY <1>2, ShapeIs, FieldsOfReq
  <2> QED BY <1>1, <2>2, <2>3
<1>4. /\ a \in ReqT /\ Parsed(shape, a) /\ a.buff > 0 /\ a.frames <= Chunks[shape]
      /\ Lacks(shape, req) => Tidy(shape, a) /\ Fits(shape)
  <2>1. a = AddChunk(req)
    OBVIOUS
  <2> HIDE DEF a
  <2> QED BY <1>2, <1>3, <2>1, ChunkAdded
<1>5. /\ b.req \in ReqT /\ b.tag \in Tags /\ Parsed(shape, b.req) /\ b.req.frames = a.frames
      /\ Counted(shape) /\ b.tag = "some" => a.frames = Chunks[shape]
      /\ Sound(shape) /\ Tidy(shape, a) =>
           /\ b.tag = "none" => Lacks(shape, b.req)
           /\ Fits(shape) => b.tag \in {"some", "none", "panics"}
  <2>1. b = ReadBlock(a)
    OBVIOUS
  <2> HIDE DEF a, b
  <2> QED BY <1>2, <1>4, <2>1, BlockReads
<1> HIDE DEF a, b
<1>6. Typed'
  BY <1>1, <1>5 DEF Typed, opVars, writeVars
<1>7. Parsing'
  <2>1. res' = "some" /\ Counted(shape) => b.req.frames = Chunks[shape]
    <3>1. Counted(shape) => res /= "some"
      <4>1. Chunks[shape] \in Nat /\ req.frames \in Nat
        BY <1>2, ShapeIs, FieldsOfReq
      <4> QED BY <1>2, <1>3, <4>1
    <3> QED BY <1>1, <1>5, <3>1
  <2>2. res' = "none" /\ Sound(shape) => at' = "body" /\ Lacks(shape, b.req)
    <3>1. res' = "none" => res = "none" /\ b.tag /= "some"
      BY <1>1
    <3> QED BY <1>1, <1>2, <1>4, <1>5, <3>1
  <2> QED BY <1>1, <1>2, <1>4, <1>5, <2>1, <2>2 DEF Parsing
<1> QED BY <1>6, <1>7

\* The steps of the body that read nothing.
LEMMA BodyOnType ==
  ASSUME Typed, Parsing, SendData \/ BodyEnds \/ BodyCut
  PROVE  Typed' /\ Parsing'
<1>1. CASE SendData
  <2>1. /\ at = "body" /\ at' = "body"
        /\ \/ sent.frames < Room(shape) /\ sent' = Part(sent.frames + 1, "open")
           \/ Ends(shape, sent.frames) /\ sent' = Part(sent.frames, "ended")
           \/ sent' = Part(sent.frames, "cut")
        /\ UNCHANGED <<proto, cur, shape, got, req, res, opVars, writeVars>>
    BY <1>1 DEF SendData
  <2>2. /\ shape \in Shape /\ PartOf(shape, sent) /\ sent.frames \in Nat
        /\ sent.frames + 1 \in Nat /\ Chunks[shape] \in Nat /\ sent.frames <= Chunks[shape]
    BY <2>1, FieldsOfPart, ShapeIs DEF Typed, Parsing, PartOf
  <2>3. PartOf(shape, sent')
    <3>1. ASSUME sent.frames < Room(shape), sent' = Part(sent.frames + 1, "open")
          PROVE  PartOf(shape, sent')
      <4>1. sent.frames + 1 <= Chunks[shape]
        BY <2>2, <3>1, RoomIs
      <4>2. PartOf(shape, Part(sent.frames + 1, "open"))
        BY <2>2, <4>1, PartIs DEF PartOf
      <4> QED BY <3>1, <4>2
    <3>2. ASSUME Ends(shape, sent.frames), sent' = Part(sent.frames, "ended")
          PROVE  PartOf(shape, sent')
      <4>1. PartOf(shape, Part(sent.frames, "ended"))
        BY <2>2, <3>2, PartIs DEF PartOf, Ends
      <4> QED BY <3>2, <4>1
    <3>3. ASSUME sent' = Part(sent.frames, "cut") PROVE PartOf(shape, sent')
      <4>1. PartOf(shape, Part(sent.frames, "cut"))
        BY <2>2, PartIs DEF PartOf
      <4> QED BY <3>3, <4>1
    <3> QED BY <2>1, <3>1, <3>2, <3>3
  <2>4. Typed'
    BY <2>1, <2>3 DEF Typed, opVars, writeVars, PartOf
  <2>5. Parsing'
    BY <2>1, <2>3 DEF Parsing
  <2> QED BY <2>4, <2>5
<1>2. ASSUME BodyEnds \/ BodyCut PROVE Typed' /\ Parsing'
  <2>1. /\ at = "body" /\ at' = "result"
        /\ UNCHANGED <<proto, cur, bodyVars, opVars, writeVars>>
    BY <1>2 DEF BodyEnds, BodyCut
  <2>2. Typed'
    BY <2>1 DEF Typed, bodyVars, opVars, writeVars
  <2>3. res = "none" /\ Sound(shape) => Given.side = "cut"
    <3>1. CASE BodyEnds
      <4>1. PartOf(shape, Given)
        BY <2>1, GivenIs
      <4>2. req.frames = Chunks[shape] /\ Chunks[shape] \in Nat
        BY <2>1, <3>1, <4>1, ShapeIs DEF BodyEnds, Parsing, PartOf
      <4>3. res = "none" /\ Sound(shape) => Lacks(shape, req)
        BY <2>1 DEF Parsing
      <4> QED BY <4>2, <4>3 DEF Lacks
    <3>2. CASE BodyCut
      BY <3>2 DEF BodyCut
    <3> QED BY <1>2, <3>1, <3>2
  <2>4. Given' = Given
    BY <2>1 DEF Given, bodyVars
  <2>5. Parsing'
    BY <2>1, <2>3, <2>4 DEF Parsing, bodyVars
  <2> QED BY <2>2, <2>5
<1> QED BY <1>1, <1>2

\* The steps that leave the ACCEPT TASK as it is, or take it to another request.
LEMMA ParsingKeeps ==
  ASSUME Typed, Parsing, \/ UNCHANGED <<proto, taskVars>>
                         \/ at' \in {"accept", "handler"}
  PROVE  Parsing'
<1>1. CASE UNCHANGED <<proto, taskVars>>
  BY <1>1 DEF Parsing, taskVars, bodyVars, Given
<1>2. CASE at' \in {"accept", "handler"}
  BY <1>2 DEF Parsing
<1> QED BY <1>1, <1>2

LEMMA TargetIs ==
  ASSUME Typed, Bounds, Operating
  PROVE  Target \in Id /\ Target <= cur /\ cur \in Id
BY BoundsAre DEF Typed, Bounds, Operating, Target, Live, Id

LEMMA ApplyType ==
  ASSUME Typed, Bounds, NEW op \in Op, Apply(op)
  PROVE  Typed'
<1> DEFINE t == Target
           events == Events(stream[t], op)
<1>1. /\ emit' = Emit(t, events)
      /\ promised' = IF held = 0 /\ ~woken THEN [promised EXCEPT ![cur] = @ \o events] ELSE promised
      /\ stream' = [stream EXCEPT ![t] = Fields(@, op)]
      /\ held' = 0 /\ ops' = ops + 1
      /\ UNCHANGED <<proto, taskVars, woken, writeVars>>
  BY DEF Apply
<1>2. t \in Id /\ t \in 0..MaxReqs /\ cur \in Id
  BY TargetIs, BoundsAre DEF Apply, Id
<1> HIDE DEF t
<1>3. events \in Seq(EventT) /\ Fields(stream[t], op) \in StreamT
  BY <1>2, OperationType DEF Typed
<1> HIDE DEF events
<1>4. emit' \in [id : 0..MaxReqs, events : Seq(EventT)]
  BY <1>1, <1>2, <1>3, EmitType
<1>5. promised' \in [Id -> Seq(EventT)]
  <2>1. promised[cur] \o events \in Seq(EventT)
    BY <1>2, <1>3, ConcatProperties DEF Typed
  <2> QED BY <1>1, <1>2, <2>1 DEF Typed
<1>6. stream' \in [Id -> StreamT]
  BY <1>1, <1>2, <1>3 DEF Typed
<1>7. held' \in 0..MaxReqs /\ ops' \in Nat
  BY <1>1, BoundsAre DEF Typed
<1> QED BY <1>1, <1>4, <1>5, <1>6, <1>7 DEF Typed, taskVars, bodyVars, writeVars

LEMMA TrySendType ==
  ASSUME Typed, Bounds, TrySend
  PROVE  Typed'
<1> DEFINE e == Head(emit.events)
           r == emit.id
<1>1. /\ chan' = Sent(r, e) /\ emit' = Emit(r, Tail(emit.events)) /\ emit.events /= <<>>
      /\ woken' = (woken \/ (at = "handler" /\ r = cur /\ e.kind = "close"))
      /\ UNCHANGED <<proto, taskVars, stream, held, ops, promised, writer, out, flushed,
                     gone>>
  BY DEF TrySend
<1>2. r \in Id /\ r \in 0..MaxReqs /\ e \in EventT /\ Tail(emit.events) \in Seq(EventT)
  <2>1. emit.id \in 0..MaxReqs /\ emit.events \in Seq(EventT)
    BY DEF Typed
  <2>2. emit.id \in Id
    BY <1>1, <2>1 DEF Bounds, Id
  <2> QED BY <1>1, <2>1, <2>2
<1> HIDE DEF e, r
<1>3. emit' \in [id : 0..MaxReqs, events : Seq(EventT)]
  BY <1>1, <1>2, EmitType
<1>4. chan' \in [Id -> Seq(EventT)]
  <2>1. Append(chan[r], e) \in Seq(EventT)
    BY <1>2 DEF Typed
  <2> QED BY <1>1, <1>2, <2>1 DEF Typed, Sent
<1>5. woken' \in BOOLEAN
  BY <1>1 DEF Typed
<1> QED BY <1>1, <1>3, <1>4, <1>5 DEF Typed, taskVars, bodyVars

LEMMA WriteType ==
  ASSUME Typed, NEW r \in Id, Write(r)
  PROVE  Typed'
<1>1. chan[r] \in Seq(EventT) /\ chan[r] /= <<>>
  BY DEF Typed, Write
<1>2. Tail(chan[r]) \in Seq(EventT) /\ Head(chan[r]) \in EventT /\ <<>> \in Seq(EventT)
  BY <1>1
<1>3. Append(out[r], Head(chan[r])) \in Seq(EventT)
  BY <1>2 DEF Typed
<1>4. ASSUME NEW as \in {"done", "panicked"}, Stops(r, as)
      PROVE  /\ chan' \in [Id -> Seq(EventT)]
             /\ writer' \in [Id -> {"none", "run", "done", "panicked"}]
  BY <1>2, <1>4 DEF Typed, Stops
<1>5. ASSUME Received(r)
      PROVE  /\ chan' \in [Id -> Seq(EventT)]
             /\ writer' \in [Id -> {"none", "run", "done", "panicked"}]
  BY <1>2, <1>5 DEF Typed, Received
<1>6. Stops(r, "done") \/ Stops(r, "panicked") \/ Received(r)
  BY DEF Write, WriteBadHead, WriteHead, WriteChunk2, WriteChunk3
<1>7. out' \in [Id -> Seq(EventT)]
  <2>1. out' = out \/ out' = [out EXCEPT ![r] = Append(@, Head(chan[r]))]
    BY DEF Write, WriteBadHead, WriteHead, WriteChunk2, WriteChunk3, Taken
  <2> QED BY ZenonT(40), <1>3, <2>1 DEF Typed
<1>8. UNCHANGED <<proto, taskVars, opVars, flushed, gone>>
  BY DEF Write
<1> QED BY <1>4, <1>5, <1>6, <1>7, <1>8 DEF Typed, taskVars, bodyVars, opVars

LEMMA ThroughType ==
  ASSUME Typed, NEW to \in {"accept", "handler"}, Through(to)
  PROVE  /\ at' = to /\ cur' = cur /\ proto' = proto
         /\ shape' \in Shape \cup {NoShape} /\ req' \in ReqT /\ res' = "none"
         /\ sent' \in PartT /\ got' \in PartT
BY ForgetType DEF Through

LEMMA ThroughTypes ==
  ASSUME Typed, Bounds, Dispatch \/ Refuse \/ Drop \/ Return
  PROVE  Typed' /\ at' \in {"accept", "handler"}
<1>1. ASSUME Dispatch \/ Drop PROVE Typed' /\ at' \in {"accept", "handler"}
  <2>1. (Through("handler") \/ Through("accept")) /\ UNCHANGED <<opVars, writeVars>>
    BY <1>1 DEF Dispatch, Drop
  <2> QED BY <2>1, ThroughType DEF Typed, opVars, writeVars
<1>2. ASSUME Refuse PROVE Typed' /\ at' \in {"accept", "handler"}
  <2>1. /\ Through("accept") /\ at = "result"
        /\ chan' = [chan EXCEPT ![cur] = Refusal]
        /\ promised' = [promised EXCEPT ![cur] = Refusal]
        /\ UNCHANGED <<stream, woken, held, emit, ops, writer, out, flushed, gone>>
    BY <1>2 DEF Refuse
  <2>2. chan' \in [Id -> Seq(EventT)] /\ promised' \in [Id -> Seq(EventT)]
    BY <2>1, RefusalIs DEF Typed
  <2> QED BY <2>1, <2>2, ThroughType DEF Typed
<1>3. ASSUME Return PROVE Typed' /\ at' \in {"accept", "handler"}
  <2>1. /\ Through("accept") /\ woken' = FALSE
        /\ stream' = [stream EXCEPT ![cur] = NewStream]
        /\ held' \in {0, cur, held}
        /\ UNCHANGED <<emit, ops, promised, writeVars>>
    BY <1>3 DEF Return
  <2>2. stream' \in [Id -> StreamT]
    BY <2>1, StreamIs DEF Typed
  <2>3. held' \in 0..MaxReqs
    <3>1. cur \in 0..MaxReqs /\ held \in 0..MaxReqs /\ 0 \in 0..MaxReqs
      BY BoundsAre DEF Typed
    <3> QED BY <2>1, <3>1
  <2> QED BY <2>1, <2>2, <2>3, ThroughType DEF Typed, writeVars
<1> QED BY <1>1, <1>2, <1>3

LEMMA FlushType ==
  ASSUME Typed, NEW r \in Id, Flush(r) \/ Abandon(r)
  PROVE  Typed'
<1>1. UNCHANGED <<proto, taskVars, opVars, chan, writer, out>>
  BY DEF Flush, Abandon
<1>2. flushed' \in [Id -> Nat] /\ gone' \in SUBSET Id
  <2>1. Len(out[r]) \in Nat
    BY DEF Typed
  <2> QED BY <2>1 DEF Typed, Flush, Abandon
<1> QED BY <1>1, <1>2 DEF Typed, taskVars, bodyVars, opVars

LEMMA TypeStep ==
  ASSUME Typed, Parsing, Bounds, [Next]_vars
  PROVE  Typed' /\ Parsing'
<1>1. ASSUME \/ (\E op \in Op : Apply(op)) \/ TrySend
             \/ \E r \in Id : Write(r) \/ Flush(r) \/ Abandon(r)
      PROVE  Typed' /\ Parsing'
  <2>1. UNCHANGED <<proto, taskVars>>
    BY <1>1 DEF Apply, TrySend, Flush, Abandon, Write
  <2> QED BY <1>1, <2>1, ParsingKeeps, ApplyType, TrySendType, FlushType, WriteType
<1>2. ASSUME Dispatch \/ Refuse \/ Drop \/ Return PROVE Typed' /\ Parsing'
  BY <1>2, ThroughTypes, ParsingKeeps
<1>3. ASSUME \/ AcceptEnds \/ ReadPanics \/ Break
             \/ \E s \in Shape : AcceptPanics(s)
             \/ \E op \in Op : Exit(op)
      PROVE  Typed' /\ Parsing'
  BY <1>3, Overs DEF IInv
<1>4. ASSUME UNCHANGED vars PROVE Typed' /\ Parsing'
  <2>1. Typed'
    BY <1>4 DEF vars, Typed, taskVars, bodyVars, opVars, writeVars
  <2> QED BY <1>4, <2>1, ParsingKeeps DEF vars
<1> QED BY <1>1, <1>2, <1>3, <1>4, AcceptType, ReadDataType, BodyOnType DEF Next, Handle

-----------------------------------------------------------------------------
(* The responses. *)

LEMMA CurIs ==
  ASSUME Typed, Bounds
  PROVE  /\ cur \in Nat /\ held \in Nat /\ emit.id \in Nat /\ emit.events \in Seq(EventT)
         /\ emit.id \in 0..MaxReqs
         /\ at \in {"body", "result", "handler"} => cur \in Id
BY BoundsAre DEF Typed, Bounds, Id

\* A request that a step leaves alone, or no longer lets promise anything.
Untouched(r) ==
  /\ promised'[r] = promised[r] /\ chan'[r] = chan[r] /\ out'[r] = out[r]
  /\ writer'[r] = writer[r] /\ proto' = proto /\ gone \subseteq gone'
  /\ Emitting(r)' = Emitting(r)
  /\ Open(r)' => Open(r)

LEMMA RowStays ==
  ASSUME Row, NEW r \in Id, Untouched(r)
  PROVE  Claimed(r)' => Whole(r)' \/ Underway(r)' \/ Left(r)'
<1>1. Ended(r)' <=> Ended(r)
  BY DEF Ended, Untouched
<1>2. Claimed(r)' => Claimed(r)
  BY <1>1 DEF Claimed, Untouched
<1>3. Whole(r) => Whole(r)'
  BY <1>1 DEF Whole, Untouched
<1>4. Underway(r) => Underway(r)'
  BY <1>1 DEF Underway, Pending, Untouched, Lead
<1>5. Left(r) => Left(r)'
  BY DEF Left, Untouched, Lead
<1> QED BY <1>2, <1>3, <1>4, <1>5 DEF Row

\* The steps of the ACCEPT TASK that say nothing of a response, and those of the
\* client and the library.
LEMMA QuietStep ==
  ASSUME Typed, Responses, UNCHANGED <<proto, cur, opVars, chan, writer, out>>,
         gone \subseteq gone',
         \/ at' = at
         \/ at \in {"body", "result"} /\ at' \in {"body", "result", "accept", "handler"}
  PROVE  Responses'
<1>1. /\ at' \in {"body", "result"} => at \in {"body", "result"}
      /\ at' \in {"body", "result", "handler"} => at \in {"body", "result", "handler"}
      /\ at = "handler" => at' = "handler"
  OBVIOUS
<1>2. UNCHANGED <<proto, cur, stream, woken, held, emit, ops, promised, chan, writer, out>>
  BY DEF opVars
<1>3. Bounds'
  BY <1>1, <1>2 DEF Responses, Bounds
<1>4. Fresh'
  BY <1>1, <1>2 DEF Responses, Fresh
<1>5. Pledged'
  BY <1>2 DEF Responses, Pledged
<1>6. ASSUME NEW r \in Id, Open(r)', ~Open(r)
      PROVE  r = cur /\ at \in {"body", "result"}
  BY <1>2, <1>6 DEF Open
<1>7. ASSUME NEW r \in Id, Open(r)', ~Open(r)
      PROVE  /\ promised[r] = <<>> /\ chan[r] = <<>> /\ out[r] = <<>> /\ writer[r] = "run"
             /\ ~stream[r].headersSent /\ emit.id /= r
  BY <1>6, <1>7, StreamIs, CurIs DEF Responses, Fresh, Bounds
<1>8. Promising'
  <2> SUFFICES ASSUME NEW r \in Id, Open(r)'
               PROVE  /\ NotYet(r)'
                      /\ Unclosed(r)' /\ promised'[r] /= <<>> => stream'[r].headersSent
                      /\ ~Unclosed(r)' => emit' = [id |-> r, events |-> <<Event("close")>>]
    BY DEF Promising
  <2>1. (NotYet(r)' <=> NotYet(r)) /\ (Unclosed(r)' <=> Unclosed(r))
    BY <1>2 DEF NotYet, Unclosed
  <2>2. CASE Open(r)
    BY <1>2, <2>1, <2>2 DEF Responses, Promising
  <2>3. CASE ~Open(r)
    BY <1>2, <1>7, <2>1, <2>3 DEF NotYet, Unclosed
  <2> QED BY <2>2, <2>3
<1>9. Row'
  <2> SUFFICES ASSUME NEW r \in Id PROVE Claimed(r)' => Whole(r)' \/ Underway(r)' \/ Left(r)'
    BY DEF Row
  <2>1. CASE Open(r)' /\ ~Open(r)
    BY <1>2, <1>7, <2>1 DEF Claimed
  <2>2. CASE Open(r)' => Open(r)
    BY <1>2, <2>2, RowStays DEF Untouched, Emitting, Responses
  <2> QED BY <2>1, <2>2
<1> QED BY <1>3, <1>4, <1>5, <1>8, <1>9 DEF Responses

\* A request comes: nothing was said of it before.
LEMMA AcceptStep ==
  ASSUME Typed, Responses, NEW s \in Shape, NEW part \in WithHead(s), Accept(s, part)
  PROVE  Responses'
<1>1. /\ at = "accept" /\ cur < MaxReqs /\ cur' = cur + 1 /\ at' = "body"
      /\ writer' = [writer EXCEPT ![cur + 1] = "run"]
      /\ UNCHANGED <<proto, stream, woken, held, emit, ops, promised, chan, out>>
      /\ gone \subseteq gone'
  BY DEF Accept, opVars
<1>2. cur \in Nat /\ held \in Nat /\ emit.id \in Nat /\ cur + 1 \in Id
  BY <1>1, CurIs, BoundsAre DEF Id, Responses
<1>3. Bounds'
  BY <1>1, <1>2 DEF Responses, Bounds
<1>4. ASSUME NEW r \in Id, r >= cur'
      PROVE  promised[r] = <<>> /\ chan[r] = <<>> /\ out[r] = <<>> /\ stream[r] = NewStream
  <2>1. r > cur
    BY <1>1, <1>2, <1>4 DEF Id
  <2> QED BY <2>1 DEF Responses, Fresh
<1>5. writer'[cur + 1] = "run" /\ \A r \in Id : r /= cur + 1 => writer'[r] = writer[r]
  BY <1>1, <1>2 DEF Typed
<1>6. Fresh'
  <2>1. ASSUME NEW r \in Id, r > cur' \/ (r = cur' /\ at' \in {"body", "result"})
        PROVE  r >= cur'
    BY <1>1, <1>2, <2>1 DEF Id
  <2> QED BY <1>1, <1>4, <1>5, <2>1 DEF Fresh
<1>7. Promising' /\ Pledged'
  BY <1>1 DEF Responses, Promising, Open, Pledged
<1>8. Row'
  <2> SUFFICES ASSUME NEW r \in Id PROVE Claimed(r)' => Whole(r)' \/ Underway(r)' \/ Left(r)'
    BY DEF Row
  <2>1. CASE r = cur + 1
    BY <1>1, <1>2, <1>4, <2>1 DEF Claimed
  <2>2. CASE r /= cur + 1
    BY <1>1, <1>5, <2>2, RowStays DEF Untouched, Emitting, Open, Responses
  <2> QED BY <2>1, <2>2
<1> QED BY <1>3, <1>6, <1>7, <1>8 DEF Responses

LEMMA EmptyConcat ==
  ASSUME NEW q \in Seq(EventT)
  PROVE  <<>> \o q = q /\ q \o <<>> = q
BY ConcatEmptySeq

LEMMA RefuseStep ==
  ASSUME Typed, Responses, Refuse
  PROVE  Responses'
<1>1. /\ at = "result" /\ at' = "accept" /\ cur' = cur /\ proto' = proto
      /\ chan' = [chan EXCEPT ![cur] = Refusal] /\ promised' = [promised EXCEPT ![cur] = Refusal]
      /\ UNCHANGED <<stream, woken, held, emit, ops, writer, out, flushed, gone>>
  BY DEF Refuse, Through
<1>2. cur \in Id /\ emit.id /= cur
  BY <1>1, CurIs DEF Responses, Bounds
<1>3. /\ promised'[cur] = Refusal /\ chan'[cur] = Refusal
      /\ \A r \in Id : r /= cur => promised'[r] = promised[r] /\ chan'[r] = chan[r]
  BY <1>1, <1>2 DEF Typed
<1>4. out[cur] = <<>> /\ writer[cur] = "run"
  BY <1>1, <1>2 DEF Responses, Fresh
<1>5. Bounds'
  BY <1>1 DEF Responses, Bounds
<1>6. Fresh'
  <2>1. ASSUME NEW r \in Id, r > cur' PROVE r > cur /\ r /= cur
    BY <1>1, <1>2, <2>1 DEF Id
  <2> QED BY <1>1, <1>3, <2>1 DEF Responses, Fresh
<1>7. Promising'
  BY <1>1 DEF Promising, Open
<1>8. Pledged'
  <2> SUFFICES ASSUME NEW r \in Id, NEW i \in 1..Len(promised'[r])
               PROVE  /\ i > 1 => promised'[r][i] \in {Event("data"), Event("close")}
                      /\ promised'[r][i] = Event("close") => i = Len(promised'[r])
    BY DEF Pledged
  <2>1. CASE r /= cur
    BY <1>3, <2>1 DEF Responses, Pledged
  <2>2. CASE r = cur
    <3>1. Event("head") /= Event("close") /\ Event("data") /= Event("close")
      BY EventIs
    <3>2. promised'[r] = Refusal /\ i \in 1..3
      BY <1>3, <2>2, RefusalIs
    <3> QED BY <3>1, <3>2, RefusalIs
  <2> QED BY <2>1, <2>2
<1>9. Row'
  <2> SUFFICES ASSUME NEW r \in Id PROVE Claimed(r)' => Whole(r)' \/ Underway(r)' \/ Left(r)'
    BY DEF Row
  <2>1. CASE r /= cur
    BY <1>1, <1>3, <2>1, RowStays DEF Untouched, Emitting, Open, Responses
  <2>2. CASE r = cur
    <3>1. Emitting(r)' = <<>> /\ ~Open(r)'
      BY <1>1, <1>2, <2>2 DEF Emitting, Open
    <3>2. Pending(r)' = Refusal /\ out'[r] = <<>>
      BY <1>1, <1>3, <1>4, <2>2, <3>1, RefusalIs, EmptyConcat DEF Pending
    <3>3. out'[r] \o Pending(r)' = Refusal
      BY <3>2, RefusalIs, EmptyConcat
    <3>4. Lead(out[r], promised[r])' /\ Lead(promised[r], out[r] \o Pending(r))'
      BY <1>3, <2>2, <3>2, <3>3, RefusalIs DEF Lead
    <3>5. Len(out'[r]) < Len(promised'[r]) /\ writer'[r] = "run"
      BY <1>1, <1>3, <1>4, <2>2, <3>2, RefusalIs
    <3> QED BY <3>1, <3>4, <3>5 DEF Underway
  <2> QED BY <2>1, <2>2
<1> QED BY <1>5, <1>6, <1>7, <1>8, <1>9 DEF Responses

LEMMA ReturnStep ==
  ASSUME Typed, Responses, Return
  PROVE  Responses'
<1>1. /\ at = "handler" /\ at' = "accept" /\ cur' = cur /\ proto' = proto /\ woken' = FALSE
      /\ stream' = [stream EXCEPT ![cur] = NewStream]
      /\ held' \in {0, cur, held}
      /\ UNCHANGED <<emit, ops, promised, chan, writer, out, flushed, gone>>
  BY DEF Return, Through, writeVars
<1>2. cur \in Id /\ cur \in Nat /\ held <= cur
  BY <1>1, CurIs DEF Responses, Bounds
<1>3. Bounds'
  <2>1. held' <= cur
    BY <1>1, <1>2, CurIs DEF Responses
  <2> QED BY <1>1, <2>1 DEF Responses, Bounds
<1>4. Fresh'
  <2>1. ASSUME NEW r \in Id, r > cur' PROVE r > cur /\ stream'[r] = stream[r]
    BY <1>1, <1>2, <2>1 DEF Id, Typed
  <2> QED BY <1>1, <1>2, <2>1 DEF Responses, Fresh
<1>5. Promising' /\ Pledged'
  BY <1>1 DEF Responses, Promising, Open, Pledged
<1>6. Row'
  BY <1>1, RowStays DEF Row, Untouched, Emitting, Open, Responses
<1> QED BY <1>3, <1>4, <1>5, <1>6 DEF Responses

-----------------------------------------------------------------------------
(* Sequences of events. *)

LEMMA Concats ==
  ASSUME NEW p \in Seq(EventT), NEW q \in Seq(EventT)
  PROVE  /\ p \o q \in Seq(EventT) /\ Len(p \o q) = Len(p) + Len(q)
         /\ Len(p) \in Nat /\ Len(q) \in Nat
         /\ \A i \in 1..Len(p) : (p \o q)[i] = p[i]
         /\ \A i \in 1..Len(p \o q) : i > Len(p) => /\ i - Len(p) \in 1..Len(q)
                                                     /\ (p \o q)[i] = q[i - Len(p)]
<1>1. Len(p) \in Nat /\ Len(q) \in Nat
  OBVIOUS
<1>2. /\ p \o q \in Seq(EventT) /\ Len(p \o q) = Len(p) + Len(q)
      /\ \A i \in 1..(Len(p) + Len(q)) : (p \o q)[i] = IF i <= Len(p) THEN p[i] ELSE q[i - Len(p)]
  BY ConcatProperties
<1>3. \A i \in 1..Len(p) : i \in 1..(Len(p) + Len(q)) /\ i <= Len(p)
  BY <1>1
<1>4. \A i \in 1..(Len(p) + Len(q)) : i > Len(p) => i - Len(p) \in 1..Len(q) /\ ~(i <= Len(p))
  BY <1>1
<1> QED BY <1>1, <1>2, <1>3, <1>4

LEMMA Regroup ==
  ASSUME NEW p \in Seq(EventT), NEW q \in Seq(EventT), NEW z \in Seq(EventT)
  PROVE  p \o (q \o z) = (p \o q) \o z
BY ConcatAssociative

LEMMA LeadMore ==
  ASSUME NEW p \in Seq(EventT), NEW q \in Seq(EventT), NEW z \in Seq(EventT), Lead(p, q)
  PROVE  Lead(p, q \o z)
<1>1. /\ Len(q \o z) = Len(q) + Len(z) /\ Len(q) \in Nat /\ Len(z) \in Nat /\ Len(p) \in Nat
      /\ \A i \in 1..Len(q) : (q \o z)[i] = q[i]
  BY Concats
<1>2. Len(p) <= Len(q) /\ \A i \in 1..Len(p) : p[i] = q[i]
  BY DEF Lead
<1>3. Len(p) <= Len(q \o z) /\ \A i \in 1..Len(p) : i \in 1..Len(q)
  BY <1>1, <1>2
<1> QED BY <1>1, <1>2, <1>3 DEF Lead

LEMMA LeadWhole ==
  ASSUME NEW p \in Seq(EventT), NEW q \in Seq(EventT), Lead(p, q), Len(p) = Len(q)
  PROVE  p = q
BY SeqEqual DEF Lead

LEMMA LeadSelf ==
  ASSUME NEW p \in Seq(EventT)
  PROVE  Lead(p, p) /\ Lead(<<>>, p)
BY DEF Lead

\* What an operation pushes: a head first if there was none, and an end alone.
LEMMA EventsAre ==
  ASSUME NEW s \in StreamT, NEW op \in Op
  PROVE  /\ Events(s, op) \in Seq(EventT) /\ Fields(s, op) \in StreamT
         /\ \A i \in 1..Len(Events(s, op)) :
              /\ i > 1 \/ s.headersSent => Events(s, op)[i] \in {Event("data"), Event("close")}
              /\ Events(s, op)[i] = Event("close") => Events(s, op) = <<Event("close")>>
         /\ Events(s, op) = <<>> => Fields(s, op).headersSent = s.headersSent
         /\ \/ Events(s, op) = <<Event("close")>>
            \/ Fields(s, op).headersSent
            \/ Events(s, op) = <<>>
<1> DEFINE h == HeadEvents(s)
           blocks == [i \in 1..Blocks |-> Event("data")]
<1>1. op.kind \in {"push", "file", "code", "end"}
  BY OpIs
<1>2. /\ Event("data") \in EventT /\ Event("close") \in EventT /\ Event("head") /= Event("close")
      /\ Event("badhead") /= Event("close") /\ Event("data") /= Event("close")
  BY EventIs
<1>3. /\ h \in Seq(EventT) /\ Len(h) \in {0, 1} /\ (s.headersSent <=> h = <<>>)
      /\ (s.headersSent => Len(h) = 0)
      /\ \A i \in 1..Len(h) : i = 1 /\ h[i] /= Event("close")
  <2>1. h \in Seq(EventT)
    BY HeadEventsType
  <2> QED BY <1>2, <2>1 DEF HeadEvents
<1>4. /\ <<Event("data")>> \in Seq(EventT) /\ Len(<<Event("data")>>) = 1
      /\ \A i \in 1..1 : <<Event("data")>>[i] = Event("data")
  BY <1>2
<1>5. /\ blocks \in Seq(EventT) /\ \A i \in 1..Len(blocks) : blocks[i] = Event("data")
  BY BlocksAre
<1> HIDE DEF h, blocks
<1>6. ASSUME NEW d \in Seq(EventT), \A i \in 1..Len(d) : d[i] = Event("data"),
             Events(s, op) = h \o d
      PROVE  \A i \in 1..Len(Events(s, op)) :
               /\ i > 1 \/ s.headersSent => Events(s, op)[i] \in {Event("data"), Event("close")}
               /\ Events(s, op)[i] /= Event("close")
  <2>1. /\ Len(h) \in Nat
        /\ \A i \in 1..Len(h) : (h \o d)[i] = h[i]
        /\ \A i \in 1..Len(h \o d) : i > Len(h) => /\ i - Len(h) \in 1..Len(d)
                                                   /\ (h \o d)[i] = d[i - Len(h)]
    BY <1>3, Concats
  <2> SUFFICES ASSUME NEW i \in 1..Len(h \o d)
               PROVE  /\ i > 1 \/ s.headersSent => (h \o d)[i] = Event("data")
                      /\ (h \o d)[i] /= Event("close")
    BY <1>6
  <2>2. CASE i > Len(h)
    BY <1>2, <1>6, <2>1, <2>2
  <2>3. CASE ~(i > Len(h))
    <3>1. i \in 1..Len(h)
      BY <2>1, <2>3
    <3>2. i = 1 /\ ~s.headersSent /\ h[i] /= Event("close")
      BY <1>3, <3>1
    <3> QED BY <2>1, <3>1, <3>2
  <2> QED BY <2>2, <2>3
<1>7. CASE op.kind = "push"
  <2>1. Events(s, op) = h \o <<Event("data")>>
    BY <1>7 DEF Events, h
  <2>2. Fields(s, op).headersSent
    BY <1>7 DEF Fields, StreamT
  <2>3. Events(s, op) /= <<>>
    BY <1>3, <1>4, <2>1, Concats
  <2> QED BY <1>4, <1>6, <2>1, <2>2, <2>3, OperationType
<1>8. CASE op.kind = "file"
  <2>1. Events(s, op) = h \o blocks
    BY <1>8 DEF Events, h, blocks
  <2>2. Fields(s, op).headersSent
    BY <1>8 DEF Fields, StreamT
  <2>3. Fields(s, op).headersSent = TRUE
    BY <1>8 DEF Fields, StreamT
  <2>4. Events(s, op) = <<>> => s.headersSent
    <3>1. Len(h \o blocks) = Len(h) + Len(blocks) /\ Len(blocks) \in Nat
      BY <1>3, <1>5, Concats
    <3>2. Events(s, op) = <<>> => Len(h) = 0
      BY <1>3, <2>1, <3>1
    <3> QED BY <1>3, <3>2
  <2>5. s.headersSent \in BOOLEAN
    BY DEF StreamT
  <2> QED BY <1>5, <1>6, <2>1, <2>2, <2>3, <2>4, <2>5, OperationType
<1>9. CASE op.kind = "code"
  <2>1. Events(s, op) = <<>> /\ Fields(s, op).headersSent = s.headersSent
    BY <1>9 DEF Events, Fields, StreamT
  <2> QED BY <2>1, OperationType
<1>10. CASE op.kind = "end"
  <2>1. Events(s, op) = <<Event("close")>>
    BY <1>10 DEF Events
  <2>2. \A i \in 1..Len(Events(s, op)) : Events(s, op)[i] = Event("close")
    BY <2>1
  <2>3. Events(s, op) /= <<>>
    BY <2>1
  <2> QED BY <2>1, <2>2, <2>3, OperationType
<1> QED BY <1>1, <1>7, <1>8, <1>9, <1>10

-----------------------------------------------------------------------------
(* The steps of an operation. *)

\* When nothing is being pushed, the response of the running handler has no end.
LEMMA OpenIsUnclosed ==
  ASSUME Typed, Promising, emit = NoEmit, NEW r \in Id, Open(r)
  PROVE  /\ Unclosed(r) /\ NotYet(r) /\ ~Ended(r)
         /\ promised[r] /= <<>> => stream[r].headersSent
<1>1. emit /= [id |-> r, events |-> <<Event("close")>>]
  <2>1. emit.events = <<>>
    BY NoEmitType
  <2>2. [id |-> r, events |-> <<Event("close")>>].events /= <<>>
    OBVIOUS
  <2> QED BY <2>1, <2>2
<1>2. Unclosed(r) /\ NotYet(r)
  BY <1>1, Zenon DEF Promising
<1>3. promised[r] /= <<>> => stream[r].headersSent
  BY <1>2 DEF Promising
<1>4. ~Ended(r)
  <2>1. promised[r] \in Seq(EventT)
    BY DEF Typed
  <2>2. promised[r] /= <<>> => Len(promised[r]) \in 1..Len(promised[r])
    BY <2>1
  <2>3. promised[r] /= <<>> => promised[r][Len(promised[r])] /= Event("close")
    BY <1>2, <2>2 DEF Unclosed
  <2> QED BY <2>3 DEF Ended, Last
<1> QED BY <1>2, <1>3, <1>4

\* An operation that is not of the running handler, or comes when the handler has
\* ended its response.
LEMMA ApplyElsewhere ==
  ASSUME Typed, Responses, NEW op \in Op, Apply(op), ~(held = 0 /\ ~woken)
  PROVE  Responses'
<1> DEFINE t == Target
           events == Events(stream[t], op)
<1>1. /\ Operating /\ emit = NoEmit /\ emit' = Emit(t, events) /\ held' = 0
      /\ stream' = [stream EXCEPT ![t] = Fields(@, op)]
      /\ UNCHANGED <<proto, at, cur, woken, promised, chan, writer, out, gone>>
  BY DEF Apply, Operating, taskVars, writeVars
<1>2. t \in Id /\ t \in 0..MaxReqs /\ t <= cur /\ cur \in Id /\ cur \in Nat /\ t > 0
  BY <1>1, TargetIs, CurIs, BoundsAre DEF Id, Responses
<1>3. at \in {"body", "result", "handler"} /\ held > 0 => t < cur
  BY DEF Target, Responses, Bounds
<1>4. held = 0 => woken /\ at = "handler"
  BY <1>1, CurIs DEF Responses, Bounds, Operating
<1>5. events \in Seq(EventT)
  BY <1>2, EventsAre DEF Typed
<1> HIDE DEF t, events
<1>6. /\ emit'.events = events /\ emit'.id \in {0, t} /\ (emit'.id = 0 <=> emit'.events = <<>>)
  BY <1>1, <1>2, <1>5, EmitType, NoEmitType
<1>7. \A r \in Id : r /= t => stream'[r] = stream[r]
  BY <1>1, <1>2 DEF Typed
<1>8. \A r \in Id : Open(r) => r /= t
  BY <1>2, <1>3, <1>4, CurIs DEF Open, Responses
<1>9. Bounds'
  <2>1. at \in {"body", "result"} => emit'.id < cur
    BY <1>2, <1>3, <1>4, <1>6, CurIs DEF Responses, Bounds
  <2> QED BY <1>1, <1>2, <1>6, <2>1 DEF Responses, Bounds
<1>10. Fresh'
  <2>1. ASSUME NEW r \in Id, r > cur \/ (r = cur /\ at \in {"body", "result"})
        PROVE  r /= t
    BY <1>2, <1>3, <1>4, <2>1, CurIs DEF Id, Responses
  <2> QED BY <1>1, <1>7, <2>1 DEF Responses, Fresh
<1>11. Promising'
  <2> SUFFICES ASSUME NEW r \in Id, Open(r)'
               PROVE  /\ NotYet(r)'
                      /\ Unclosed(r)' /\ promised'[r] /= <<>> => stream'[r].headersSent
                      /\ ~Unclosed(r)' => emit' = [id |-> r, events |-> <<Event("close")>>]
    BY DEF Promising
  <2>1. Open(r) /\ r /= t
    BY <1>1, <1>8 DEF Open
  <2>2. /\ Unclosed(r) /\ NotYet(r)
        /\ promised[r] /= <<>> => stream[r].headersSent
    BY <1>1, <2>1, OpenIsUnclosed DEF Responses
  <2>3. emit'.id /= r
    BY <1>6, <2>1 DEF Id
  <2>4. NotYet(r)' /\ Unclosed(r)'
    BY <1>1, <1>7, <2>1, <2>2, <2>3 DEF NotYet, Unclosed
  <2> QED BY <1>1, <1>7, <2>1, <2>2, <2>4
<1>12. Pledged'
  BY <1>1 DEF Responses, Pledged
<1>13. Row'
  <2> SUFFICES ASSUME NEW r \in Id, Claimed(r)'
               PROVE  Whole(r)' \/ Underway(r)' \/ Left(r)'
    BY DEF Row
  <2>1. (Ended(r)' <=> Ended(r)) /\ (Open(r)' <=> Open(r))
    BY <1>1 DEF Ended, Open
  <2>2. Whole(r) \/ Underway(r) \/ Left(r)
    BY <1>1, <2>1 DEF Claimed, Responses, Row
  <2>3. CASE Whole(r)
    BY <1>1, <2>1, <2>3 DEF Whole
  <2>4. CASE Underway(r)
    <3> DEFINE p == promised[r]
               o == out[r]
               c == chan[r]
               e == Emitting(r)'
    <3>1. p \in Seq(EventT) /\ o \in Seq(EventT) /\ c \in Seq(EventT) /\ e \in Seq(EventT)
      <4>1. <<>> \in Seq(EventT)
        OBVIOUS
      <4> QED BY <1>5, <1>6, <4>1 DEF Typed, Emitting
    <3>2. Emitting(r) = <<>>
      BY <1>1, NoEmitType DEF Emitting
    <3>3. Pending(r) = c /\ Pending(r)' = c \o e
      BY <1>1, <3>1, <3>2, EmptyConcat DEF Pending
    <3>4. /\ writer[r] = "run" /\ Lead(o, p) /\ Lead(p, o \o c)
          /\ Ended(r) => Len(o) < Len(p)
          /\ Open(r) => Len(p) = Len(o \o c)
      BY <2>4, <3>3 DEF Underway
    <3>5. Open(r) => e = <<>>
      BY <1>6, <1>8 DEF Emitting
    <3> HIDE DEF p, o, c, e
    <3>6. Lead(p, o \o (c \o e)) /\ (Open(r) => Len(p) = Len(o \o (c \o e)))
      <4>1. o \o (c \o e) = (o \o c) \o e /\ o \o c \in Seq(EventT)
        BY SMTT(30), <3>1, Regroup, Concats
      <4>2. e = <<>> => o \o (c \o e) = o \o c
        BY <4>1, EmptyConcat
      <4>3. Lead(p, (o \o c) \o e)
        BY <3>1, <3>4, <4>1, LeadMore
      <4> QED BY <3>4, <3>5, <4>1, <4>2, <4>3
    <3>7. /\ promised'[r] = p /\ out'[r] = o /\ writer'[r] = writer[r] /\ Pending(r)' = c \o e
      BY <1>1, <3>3 DEF p, o
    <3> QED BY <2>1, <3>4, <3>6, <3>7 DEF Underway
  <2>5. CASE Left(r)
    BY <1>1, <2>5 DEF Left
  <2> QED BY <2>2, <2>3, <2>4, <2>5
<1> QED BY <1>9, <1>10, <1>11, <1>12, <1>13 DEF Responses

\* An operation of the running handler, which has not ended its response.
LEMMA ApplyHere ==
  ASSUME Typed, Responses, NEW op \in Op, Apply(op), held = 0, ~woken
  PROVE  Responses'
<1> DEFINE p == promised[cur]
           s == stream[cur]
           e == Events(s, op)
<1>1. /\ Operating /\ emit = NoEmit /\ emit' = Emit(cur, e) /\ held' = 0 /\ at = "handler"
      /\ stream' = [stream EXCEPT ![cur] = Fields(@, op)]
      /\ promised' = [promised EXCEPT ![cur] = @ \o e]
      /\ UNCHANGED <<proto, at, cur, woken, chan, writer, out, gone>>
  BY CurIs DEF Apply, Operating, taskVars, writeVars, Target, Responses
<1>2. cur \in Id /\ cur \in 0..MaxReqs /\ cur \in Nat /\ cur > 0
  BY <1>1, CurIs, BoundsAre DEF Id, Responses
<1>3. /\ e \in Seq(EventT) /\ Fields(s, op) \in StreamT /\ s \in StreamT
      /\ \A i \in 1..Len(e) : /\ i > 1 \/ s.headersSent => e[i] \in {Event("data"), Event("close")}
                              /\ e[i] = Event("close") => e = <<Event("close")>>
      /\ e = <<>> => Fields(s, op).headersSent = s.headersSent
      /\ e = <<Event("close")>> \/ Fields(s, op).headersSent \/ e = <<>>
  <2>1. s \in StreamT
    BY <1>2 DEF Typed
  <2> HIDE DEF s
  <2> QED BY <2>1, EventsAre
<1>4. p \in Seq(EventT)
  BY <1>2 DEF Typed
<1>5. Open(cur) /\ Unclosed(cur) /\ NotYet(cur) /\ ~Ended(cur) /\ (p /= <<>> => s.headersSent)
  <2>1. Open(cur)
    BY <1>1 DEF Open
  <2> QED BY <1>1, <1>2, <2>1, OpenIsUnclosed DEF Responses
<1>6. promised'[cur] = p \o e /\ stream'[cur] = Fields(s, op)
      /\ \A r \in Id : r /= cur => promised'[r] = promised[r] /\ stream'[r] = stream[r]
  BY <1>1, <1>2 DEF Typed
<1>7. emit'.events = e /\ emit'.id \in {0, cur} /\ (emit'.id = 0 <=> emit'.events = <<>>)
      /\ (e /= <<>> => emit' = [id |-> cur, events |-> e])
  <2>1. e /= <<>> => emit' = [id |-> cur, events |-> e]
    BY <1>1, Zenon DEF Emit
  <2> HIDE DEF e
  <2> QED BY <1>1, <1>2, <1>3, <2>1, EmitType, NoEmitType
<1>8. \A i \in 1..Len(p) : p[i] /= Event("close")
  BY <1>5 DEF Unclosed
<1>9. p /= <<>> \/ (chan[cur] = <<>> /\ out[cur] = <<>> /\ writer[cur] = "run" /\ ~s.headersSent)
  BY <1>5 DEF NotYet
<1>10. Pledged
  BY DEF Responses
<1>11. \A i \in 1..Len(p) : i > 1 => p[i] \in {Event("data"), Event("close")}
  BY <1>2, <1>10 DEF Pledged
<1> HIDE DEF e, s, p
<1>12. /\ p \o e \in Seq(EventT) /\ Len(p \o e) = Len(p) + Len(e) /\ Len(p) \in Nat /\ Len(e) \in Nat
       /\ \A i \in 1..Len(p) : (p \o e)[i] = p[i]
       /\ \A i \in 1..Len(p \o e) : i > Len(p) => /\ i - Len(p) \in 1..Len(e)
                                                  /\ (p \o e)[i] = e[i - Len(p)]
  BY <1>3, <1>4, Concats
<1>13. Bounds'
  BY <1>1, <1>2, <1>7 DEF Responses, Bounds
<1>14. Fresh'
  <2>1. ASSUME NEW r \in Id, r > cur PROVE r /= cur
    BY <1>2, <2>1 DEF Id
  <2> QED BY <1>1, <1>6, <2>1 DEF Responses, Fresh
<1>15. ASSUME NEW i \in 1..Len(p \o e), (p \o e)[i] = Event("close")
       PROVE  i = Len(p \o e) /\ e = <<Event("close")>>
  <2>1. i > Len(p)
    BY <1>8, <1>12, <1>15
  <2>2. i - Len(p) \in 1..Len(e) /\ e[i - Len(p)] = Event("close")
    BY <1>12, <1>15, <2>1
  <2>3. e = <<Event("close")>>
    BY <1>3, <2>2
  <2>4. Len(e) = 1
    BY <2>3
  <2>5. i - Len(p) = 1 /\ i \in Nat
    BY <2>2, <2>4, <1>12
  <2> QED BY <1>12, <2>3, <2>4, <2>5
<1>16. Promising'
  <2> SUFFICES ASSUME NEW r \in Id, Open(r)'
               PROVE  /\ NotYet(r)'
                      /\ Unclosed(r)' /\ promised'[r] /= <<>> => stream'[r].headersSent
                      /\ ~Unclosed(r)' => emit' = [id |-> r, events |-> <<Event("close")>>]
    BY DEF Promising
  <2>1. r = cur
    BY <1>1 DEF Open
  <2>2. NotYet(r)'
    <3>1. ASSUME promised'[cur] = <<>> PROVE p = <<>> /\ e = <<>>
      <4>1. Len(p \o e) = 0
        BY <1>6, <3>1
      <4>2. Len(p) = 0 /\ Len(e) = 0
        BY <1>12, <4>1
      <4> QED BY <1>3, <1>4, <4>2
    <3>2. e = <<>> => emit'.id = 0
      BY <1>7
    <3>3. promised'[cur] = <<>> =>
            /\ writer[cur] = "run" /\ chan[cur] = <<>> /\ out[cur] = <<>>
            /\ ~Fields(s, op).headersSent /\ emit'.id /= cur
      BY <1>2, <1>3, <1>9, <3>1, <3>2
    <3> QED BY <1>1, <1>6, <2>1, <3>3 DEF NotYet
  <2>3. ASSUME Unclosed(r)', promised'[r] /= <<>> PROVE stream'[r].headersSent
    <3>1. e /= <<Event("close")>>
      <4> SUFFICES ASSUME e = <<Event("close")>> PROVE FALSE
        OBVIOUS
      <4>1. Len(e) = 1 /\ e[1] = Event("close")
        OBVIOUS
      <4> HIDE DEF e
      <4>2. Len(p) + 1 \in 1..Len(p \o e) /\ Len(p) + 1 > Len(p)
        BY <1>12, <4>1
      <4>3. (Len(p) + 1) - Len(p) = 1
        BY <1>12
      <4>4. (p \o e)[Len(p) + 1] = Event("close")
        BY <1>12, <4>1, <4>2, <4>3
      <4> QED BY <1>6, <2>1, <2>3, <4>2, <4>4 DEF Unclosed
    <3>2. e = <<>> => p /= <<>>
      BY <1>4, <1>6, <2>1, <2>3, EmptyConcat
    <3>3. s.headersSent \/ e /= <<>>
      BY <1>5, <3>2 DEF p, s
    <3> QED BY <1>3, <1>6, <2>1, <3>1, <3>3
  <2>4. ~Unclosed(r)' => emit' = [id |-> r, events |-> <<Event("close")>>]
    <3>1. ASSUME ~Unclosed(r)' PROVE e = <<Event("close")>>
      BY <1>6, <1>15, <2>1, <3>1 DEF Unclosed
    <3>2. <<Event("close")>> /= <<>>
      OBVIOUS
    <3> QED BY <1>7, <2>1, <3>1, <3>2
  <2> QED BY <2>2, <2>3, <2>4
<1>17. Pledged'
  <2> SUFFICES ASSUME NEW r \in Id, NEW i \in 1..Len(promised'[r])
               PROVE  /\ i > 1 => promised'[r][i] \in {Event("data"), Event("close")}
                      /\ promised'[r][i] = Event("close") => i = Len(promised'[r])
    BY DEF Pledged
  <2>1. CASE r /= cur
    BY <1>6, <1>10, <2>1 DEF Pledged
  <2>2. CASE r = cur
    <3>1. i \in 1..Len(p \o e) /\ promised'[r] = p \o e
      BY <1>6, <2>2
    <3>2. ASSUME i > 1 PROVE (p \o e)[i] \in {Event("data"), Event("close")}
      <4>1. CASE i > Len(p)
        <5>1. i - Len(p) \in 1..Len(e) /\ (p \o e)[i] = e[i - Len(p)]
          BY <1>12, <3>1, <4>1
        <5>2. s.headersSent \/ i - Len(p) > 1
          <6>1. p = <<>> => Len(p) = 0
            OBVIOUS
          <6>2. i - 0 > 1
            BY <3>1, <3>2, <1>12
          <6> QED BY <1>5, <6>1, <6>2 DEF p, s
        <5> QED BY <1>3, <5>1, <5>2
      <4>2. CASE ~(i > Len(p))
        <5>1. i \in 1..Len(p)
          BY <1>12, <3>1, <4>2
        <5> QED BY <1>11, <1>12, <3>2, <5>1
      <4> QED BY <4>1, <4>2
    <3> QED BY <1>15, <3>1, <3>2
  <2> QED BY <2>1, <2>2
<1>18. Row'
  <2> SUFFICES ASSUME NEW r \in Id, Claimed(r)'
               PROVE  Whole(r)' \/ Underway(r)' \/ Left(r)'
    BY DEF Row
  <2>1. CASE r /= cur
    <3>1. Emitting(r)' = <<>> /\ Emitting(r) = <<>>
      BY <1>1, <1>7, <2>1, NoEmitType DEF Emitting, Id
    <3> QED BY <1>1, <1>6, <2>1, <3>1, RowStays DEF Untouched, Open, Responses
  <2>2. CASE r = cur
    <3> DEFINE o == out[cur]
               c == chan[cur]
    <3>1. o \in Seq(EventT) /\ c \in Seq(EventT)
      BY <1>2 DEF Typed
    <3>2. Emitting(r)' = e /\ Emitting(r) = <<>>
      BY <1>1, <1>2, <1>7, <2>2, NoEmitType DEF Emitting
    <3>3. Pending(r)' = c \o e /\ Pending(r) = c
      BY <1>1, <2>2, <3>1, <3>2, EmptyConcat DEF Pending
    <3>4. \/ writer[cur] = "run" /\ o \o c = p /\ Lead(o, p)
          \/ cur \in gone /\ Lead(o, p)
      <4>1. CASE p = <<>>
        BY <1>9, <3>1, <4>1, EmptyConcat, LeadSelf
      <4>2. CASE p /= <<>>
        <5>1. Len(p) > 0 /\ Len(p) <= Len(p \o e) /\ p[1] = (p \o e)[1]
          BY <1>4, <1>12, <4>2
        <5>2. Len(p \o e) <= Cap /\ (p \o e)[1] = Event("head")
          BY <1>6, <2>2 DEF Claimed
        <5>3. Claimed(cur)
          <6>1. Len(p) <= Cap
            BY <1>12, <5>1, <5>2, BoundsAre
          <6> QED BY <1>5, <4>2, <5>1, <5>2, <6>1 DEF Claimed, p
        <5>4. Underway(cur) \/ (cur \in gone /\ Lead(o, p))
          BY <1>2, <1>5, <5>3 DEF Responses, Row, Whole, Left, p
        <5>5. Underway(cur) =>
                writer[cur] = "run" /\ Lead(o, p) /\ Lead(p, o \o c) /\ Len(p) = Len(o \o c)
          BY <1>5, <2>2, <3>3 DEF Underway, p
        <5> HIDE DEF o, c
        <5>6. o \o c \in Seq(EventT)
          BY <3>1, Concats
        <5> QED BY <1>4, <5>4, <5>5, <5>6, LeadWhole
      <4> QED BY <4>1, <4>2
    <3>5. promised'[r] = p \o e /\ out'[r] = o /\ writer'[r] = writer[cur] /\ gone' = gone
      BY <1>1, <1>6, <2>2
    <3>6. Ended(r)' => e /= <<>>
      <4>1. p \o <<>> = p
        BY <1>4, EmptyConcat
      <4>2. e = <<>> => promised'[r] = promised[r]
        BY <2>2, <3>5, <4>1 DEF p
      <4>3. ~Ended(r)
        BY <1>5, <2>2
      <4> QED BY <4>2, <4>3 DEF Ended
    <3> HIDE DEF o, c
    <3>7. o \o c = p => o \o (c \o e) = p \o e
      <4>1. o \o (c \o e) = (o \o c) \o e
        BY <1>3, <3>1, Regroup
      <4> QED BY <4>1
    <3>8. Lead(o, p \o e) /\ Lead(p \o e, p \o e)
      BY <1>3, <1>4, <1>12, <3>1, <3>4, LeadMore, LeadSelf
    <3>9. Ended(r)' => Len(o) < Len(p \o e)
      <4>1. Len(o) <= Len(p) /\ Len(o) \in Nat
        BY <3>1, <3>4 DEF Lead
      <4>2. e /= <<>> => Len(e) > 0
        BY <1>3
      <4> QED BY <1>12, <3>6, <4>1, <4>2
    <3>10. CASE writer[cur] = "run" /\ o \o c = p
      <4>1. o \o (c \o e) = p \o e /\ writer'[r] = "run"
        BY <3>5, <3>7, <3>10
      <4>2. Underway(r)'
        BY <3>3, <3>5, <3>8, <3>9, <4>1 DEF Underway
      <4> QED BY <4>2
    <3>11. CASE cur \in gone
      BY <2>2, <3>5, <3>8, <3>11 DEF Left
    <3> QED BY <3>4, <3>10, <3>11
  <2> QED BY <2>1, <2>2
<1> QED BY <1>13, <1>14, <1>16, <1>17, <1>18 DEF Responses

LEMMA LeadLess ==
  ASSUME NEW p \in Seq(EventT), NEW q \in Seq(EventT), NEW z \in Seq(EventT), Lead(p, q \o z),
         Len(p) <= Len(q)
  PROVE  Lead(p, q)
<1>1. Len(p) \in Nat /\ Len(q) \in Nat /\ \A i \in 1..Len(q) : (q \o z)[i] = q[i]
  BY Concats
<1>2. \A i \in 1..Len(p) : i \in 1..Len(q) /\ p[i] = (q \o z)[i]
  BY <1>1 DEF Lead
<1> QED BY <1>1, <1>2 DEF Lead

\* A sequence is its first element and the rest.
LEMMA FirstAndRest ==
  ASSUME NEW q \in Seq(EventT), q /= <<>>
  PROVE  /\ Head(q) \in EventT /\ Tail(q) \in Seq(EventT) /\ q = <<Head(q)>> \o Tail(q)
         /\ <<Head(q)>> \in Seq(EventT) /\ Len(q) \in Nat /\ Len(q) > 0 /\ q[1] = Head(q)
<1>1. Head(q) \in EventT /\ Tail(q) \in Seq(EventT) /\ Len(Tail(q)) = Len(q) - 1
      /\ \A i \in 1..Len(Tail(q)) : Tail(q)[i] = q[i + 1]
  BY HeadTailProperties
<1>2. Len(q) \in Nat /\ Len(q) > 0 /\ q[1] = Head(q)
  OBVIOUS
<1> DEFINE h == <<Head(q)>>
           t == Tail(q)
<1>3. h \in Seq(EventT) /\ Len(h) = 1 /\ h[1] = q[1]
  BY <1>1, <1>2
<1> HIDE DEF h, t
<1>4. t \in Seq(EventT) /\ Len(t) = Len(q) - 1 /\ \A i \in 1..Len(t) : t[i] = q[i + 1]
  BY <1>1 DEF t
<1>5. /\ h \o t \in Seq(EventT) /\ Len(h \o t) = Len(q)
      /\ \A i \in 1..Len(h) : (h \o t)[i] = h[i]
      /\ \A i \in 1..Len(h \o t) : i > Len(h) => /\ i - Len(h) \in 1..Len(t)
                                                 /\ (h \o t)[i] = t[i - Len(h)]
  <2>1. Len(h \o t) = Len(h) + Len(t)
    BY <1>3, <1>4, Concats
  <2>2. Len(h \o t) = Len(q)
    BY <1>2, <1>3, <1>4, <2>1
  <2>3. h \o t \in Seq(EventT)
    BY <1>3, <1>4, Concats
  <2>4. \A i \in 1..Len(h) : (h \o t)[i] = h[i]
    BY <1>3, <1>4, Concats
  <2>5. \A i \in 1..Len(h \o t) : i > Len(h) => /\ i - Len(h) \in 1..Len(t)
                                                 /\ (h \o t)[i] = t[i - Len(h)]
    BY <1>3, <1>4, Concats
  <2> QED BY <2>2, <2>3, <2>4, <2>5
<1>6. ASSUME NEW i \in 1..Len(q) PROVE q[i] = (h \o t)[i]
  <2>1. CASE i = 1
    <3>1. 1 \in 1..Len(h)
      BY <1>3
    <3>2. (h \o t)[1] = h[1]
      BY <1>5, <3>1
    <3> QED BY <1>3, <2>1, <3>2
  <2>2. CASE i > 1
    <3>1. PICK j \in Nat : i = j + 1
      <4>1. i - 1 \in Nat /\ i = (i - 1) + 1
        BY <1>2, <2>2
      <4> QED BY <4>1
    <3>2. i \in 1..Len(h \o t) /\ i > Len(h) /\ i - Len(h) = j
      BY <1>3, <1>5, <2>2, <3>1
    <3>3. j \in 1..Len(t) /\ (h \o t)[i] = t[j]
      BY <1>5, <3>2
    <3>4. t[j] = q[j + 1]
      BY <1>4, <3>3
    <3> QED BY <3>1, <3>3, <3>4
  <2>3. i = 1 \/ i > 1
    BY <1>2
  <2> QED BY <2>1, <2>2, <2>3, Zenon
<1>7. q = h \o t
  BY <1>5, <1>6, SeqEqual
<1> QED BY <1>1, <1>2, <1>3, <1>7 DEF h, t

LEMMA Appended ==
  ASSUME NEW q \in Seq(EventT), NEW e \in EventT
  PROVE  Append(q, e) = q \o <<e>> /\ <<e>> \in Seq(EventT) /\ Len(<<e>>) = 1
<1>1. <<e>> \in Seq(EventT) /\ Len(<<e>>) = 1 /\ <<e>>[1] = e
  OBVIOUS
<1>2. Append(q, e) \in Seq(EventT) /\ Len(Append(q, e)) = Len(q) + 1 /\ Len(q) \in Nat
      /\ \A i \in 1..Len(Append(q, e)) : Append(q, e)[i] = IF i <= Len(q) THEN q[i] ELSE e
  OBVIOUS
<1> DEFINE z == <<e>>
           a == Append(q, e)
<1> HIDE DEF z, a
<1>3. q \o z \in Seq(EventT) /\ Len(q \o z) = Len(q) + 1
      /\ \A i \in 1..(Len(q) + 1) : (q \o z)[i] = IF i <= Len(q) THEN q[i] ELSE z[i - Len(q)]
  <2>1. z \in Seq(EventT) /\ Len(z) = 1
    BY <1>1 DEF z
  <2>2. /\ q \o z \in Seq(EventT) /\ Len(q \o z) = Len(q) + Len(z)
        /\ \A i \in 1..(Len(q) + Len(z)) :
             (q \o z)[i] = IF i <= Len(q) THEN q[i] ELSE z[i - Len(q)]
    BY <2>1, ConcatProperties
  <2> QED BY <2>1, <2>2
<1>4. a \in Seq(EventT) /\ Len(a) = Len(q) + 1
      /\ \A i \in 1..Len(a) : a[i] = IF i <= Len(q) THEN q[i] ELSE e
  BY <1>2 DEF a
<1>5. ASSUME NEW i \in 1..Len(a) PROVE a[i] = (q \o z)[i]
  <2>1. ~(i <= Len(q)) => i - Len(q) = 1
    BY <1>2, <1>4
  <2> QED BY <1>1, <1>3, <1>4, <2>1 DEF z
<1>6. a = q \o z
  BY <1>3, <1>4, <1>5, SeqEqual
<1> QED BY <1>1, <1>6 DEF a, z

LEMMA TrySendStep ==
  ASSUME Typed, Responses, TrySend
  PROVE  Responses'
<1> DEFINE E == emit.events
           e == Head(E)
           t == Tail(E)
           k == emit.id
<1>1. /\ chan' = Sent(k, e) /\ emit' = Emit(k, t) /\ E /= <<>>
      /\ woken' = (woken \/ (at = "handler" /\ k = cur /\ e.kind = "close"))
      /\ UNCHANGED <<proto, at, cur, stream, held, promised, writer, out, gone>>
  BY DEF TrySend, taskVars
<1>2. k \in Id /\ k \in 0..MaxReqs /\ k \in Nat /\ k > 0 /\ k <= cur /\ cur \in Nat
      /\ (at \in {"body", "result"} => k < cur) /\ E \in Seq(EventT)
  <2>1. k \in Nat /\ k \in 0..MaxReqs /\ cur \in Nat /\ E \in Seq(EventT)
    BY CurIs DEF Responses
  <2>2. k /= 0 /\ k <= cur /\ (at \in {"body", "result"} => k < cur)
    BY <1>1 DEF Responses, Bounds
  <2> HIDE DEF k, E
  <2> QED BY <2>1, <2>2, BoundsAre DEF Id
<1>3. /\ e \in EventT /\ t \in Seq(EventT) /\ E = <<e>> \o t /\ <<e>> \in Seq(EventT)
      /\ Len(E) > 0 /\ Len(E) \in Nat /\ E[1] = e
  <2> HIDE DEF E
  <2> QED BY <1>1, <1>2, FirstAndRest
<1>4. emit'.events = t /\ emit'.id \in {0, k} /\ (emit'.id = 0 <=> emit'.events = <<>>)
  <2> HIDE DEF t, k
  <2> QED BY <1>1, <1>2, <1>3, EmitType, NoEmitType
<1>5. /\ Sent(k, e) = IF writer[k] = "run" /\ Len(chan[k]) < Cap
                        THEN [chan EXCEPT ![k] = Append(@, e)] ELSE chan
      /\ \A r \in Id : r /= k => chan'[r] = chan[r]
  <2>1. Sent(k, e) = IF writer[k] = "run" /\ Len(chan[k]) < Cap
                        THEN [chan EXCEPT ![k] = Append(@, e)] ELSE chan
    BY Zenon DEF Sent
  <2> HIDE DEF k, e
  <2> QED BY <1>1, <2>1 DEF Typed
<1>6. ~woken' => ~woken /\ ~(at = "handler" /\ k = cur /\ e.kind = "close")
  BY <1>1
<1>7. \A r \in Id : Emitting(r) = (IF r = k THEN E ELSE <<>>)
                    /\ Emitting(r)' = (IF r = k THEN t ELSE <<>>)
  <2> SUFFICES ASSUME NEW r \in Id
               PROVE  Emitting(r) = (IF r = k THEN E ELSE <<>>)
                      /\ Emitting(r)' = (IF r = k THEN t ELSE <<>>)
    OBVIOUS
  <2>1. r /= 0
    BY DEF Id
  <2>2. emit'.id = 0 => t = <<>>
    BY <1>4
  <2> QED BY <1>2, <1>4, <2>1, <2>2 DEF Emitting
<1> HIDE DEF E, e, t, k
<1>8. Bounds'
  <2>1. Bounds
    BY DEF Responses
  <2>2. emit'.id <= cur /\ (at \in {"body", "result"} => emit'.id < cur)
    <3>1. at \in {"body", "result"} => cur > 0
      BY <2>1 DEF Bounds
    <3> QED BY <1>2, <1>4, <3>1
  <2>3. woken' => at = "handler"
    BY <1>1, <2>1 DEF Bounds
  <2> QED BY <1>1, <1>4, <2>1, <2>2, <2>3 DEF Bounds
<1>9. Fresh'
  <2>1. ASSUME NEW r \in Id, r > cur \/ (r = cur /\ at \in {"body", "result"}) PROVE r /= k
    BY <1>2, <2>1 DEF Id
  <2> QED BY <1>1, <1>5, <2>1 DEF Responses, Fresh
<1>10. Promising'
  <2> SUFFICES ASSUME NEW r \in Id, Open(r)'
               PROVE  /\ NotYet(r)'
                      /\ Unclosed(r)' /\ promised'[r] /= <<>> => stream'[r].headersSent
                      /\ ~Unclosed(r)' => emit' = [id |-> r, events |-> <<Event("close")>>]
    BY DEF Promising
  <2>1. Open(r) /\ r = cur /\ at = "handler" /\ ~(k = r /\ e.kind = "close")
    BY <1>1, <1>6 DEF Open
  <2>2. /\ NotYet(r)
        /\ Unclosed(r) /\ promised[r] /= <<>> => stream[r].headersSent
        /\ ~Unclosed(r) => emit = [id |-> r, events |-> <<Event("close")>>]
    BY <2>1 DEF Responses, Promising
  <2>3. Unclosed(r)
    <3> SUFFICES ASSUME ~Unclosed(r) PROVE FALSE
      OBVIOUS
    <3>1. emit = [id |-> r, events |-> <<Event("close")>>]
      BY <2>2
    <3>2. k = r /\ e = Event("close")
      BY <3>1 DEF k, e, E
    <3> QED BY <2>1, <3>2, EventIs
  <2>4. Unclosed(r)'
    BY <1>1, <2>3 DEF Unclosed
  <2>5. NotYet(r)'
    <3>1. promised[r] = <<>> => r /= k
      BY <2>2 DEF NotYet, k
    <3>2. r /= 0
      BY DEF Id
    <3> QED BY <1>1, <1>4, <1>5, <2>2, <3>1, <3>2 DEF NotYet
  <2> QED BY <1>1, <2>2, <2>3, <2>4, <2>5
<1>11. Pledged'
  BY <1>1 DEF Responses, Pledged
<1>12. Row'
  <2> SUFFICES ASSUME NEW r \in Id, Claimed(r)'
               PROVE  Whole(r)' \/ Underway(r)' \/ Left(r)'
    BY DEF Row
  <2>1. (Ended(r)' <=> Ended(r)) /\ (Open(r)' => Open(r))
    BY <1>1, <1>6 DEF Ended, Open
  <2>2. CASE r /= k
    BY <1>1, <1>5, <1>7, <2>1, <2>2, RowStays DEF Untouched, Responses
  <2>3. CASE r = k
    <3> DEFINE p == promised[r]
               o == out[r]
               c == chan[r]
    <3>1. p \in Seq(EventT) /\ o \in Seq(EventT) /\ c \in Seq(EventT)
      BY DEF Typed
    <3>2. Whole(r) \/ Underway(r) \/ Left(r)
      BY <1>1, <2>1 DEF Claimed, Responses, Row
    <3>3. CASE Whole(r)
      BY <1>1, <2>1, <3>3 DEF Whole
    <3>4. CASE Underway(r)
      <4>1. Pending(r) = c \o E /\ Pending(r)' = chan'[r] \o t
        BY <1>7, <2>3 DEF Pending
      <4>2. /\ writer[r] = "run" /\ Lead(o, p) /\ Lead(p, o \o (c \o E))
            /\ Ended(r) => Len(o) < Len(p)
            /\ Open(r) => Len(p) = Len(o \o (c \o E))
        BY <3>4, <4>1 DEF Underway
      <4>3. p = promised'[r] /\ o = out'[r] /\ writer'[r] = writer[r] /\ Len(p) <= Cap
        BY <1>1 DEF Claimed
      <4>4. CASE Len(c) < Cap
        <5>1. chan'[r] = c \o <<e>>
          <6>1. chan'[r] = Append(c, e)
            BY <1>1, <1>5, <2>3, <4>2, <4>4 DEF Typed
          <6> HIDE DEF c
          <6> QED BY <1>3, <3>1, <6>1, Appended
        <5> HIDE DEF c
        <5>2. Pending(r)' = c \o E
          BY <1>3, <3>1, <4>1, <5>1, Regroup
        <5> HIDE DEF p, o
        <5> QED BY <2>1, <4>2, <4>3, <5>2 DEF Underway
      <4>5. CASE ~(Len(c) < Cap)
        <5>1. chan'[r] = c
          BY <1>1, <1>5, <2>3, <4>5
        <5>2. Pending(r)' = c \o t
          BY <4>1, <5>1
        <5> HIDE DEF p, o, c
        <5>3. o \o (c \o E) = (o \o c) \o E /\ o \o (c \o t) = (o \o c) \o t
          <6>1. E \in Seq(EventT) /\ t \in Seq(EventT)
            BY <1>2, <1>3
          <6>2. o \o (c \o E) = (o \o c) \o E
            BY SMTT(30), <3>1, <6>1, Regroup
          <6>3. o \o (c \o t) = (o \o c) \o t
            BY SMTT(30), <3>1, <6>1, Regroup
          <6> QED BY <6>2, <6>3
        <5>4. /\ o \o c \in Seq(EventT) /\ Len(o \o c) = Len(o) + Len(c)
              /\ Len(o) \in Nat /\ Len(c) \in Nat /\ Len(p) \in Nat
          BY <3>1, Concats
        <5>5. Len(p) <= Len(o \o c)
          BY <4>3, <4>5, <5>4, BoundsAre
        <5>6. Lead(p, o \o c)
          BY <1>2, <3>1, <4>2, <5>3, <5>4, <5>5, LeadLess
        <5>7. Lead(p, (o \o c) \o t)
          BY <1>3, <3>1, <5>4, <5>6, LeadMore
        <5>8. ~Open(r)
          <6>1. Len((o \o c) \o E) = Len(o \o c) + Len(E)
            BY <1>2, <5>4, Concats
          <6>2. Len(o \o c) \in Nat
            BY <5>4
          <6>3. Open(r) => Len(p) = Len(o \o c) + Len(E)
            BY <4>2, <5>3, <6>1
          <6> HIDE DEF E
          <6> QED BY <1>3, <5>4, <5>5, <6>2, <6>3
        <5> QED BY <2>1, <4>2, <4>3, <5>2, <5>3, <5>7, <5>8 DEF Underway
      <4> QED BY <4>4, <4>5
    <3>5. CASE Left(r)
      BY <1>1, <3>5 DEF Left
    <3> QED BY <3>2, <3>3, <3>4, <3>5
  <2> QED BY <2>2, <2>3
<1> QED BY <1>8, <1>9, <1>10, <1>11, <1>12 DEF Responses

-----------------------------------------------------------------------------
(* The steps of a WRITE TASK. *)

\* What WRITE TASK r did with event e, the first of its channel.
Takes(r, e) ==
  /\ out' = [out EXCEPT ![r] = Append(@, e)]
  /\ \/ Received(r) /\ (e.kind /= "close" \/ proto = "h3")
     \/ Stops(r, "done") /\ e.kind = "close"

\* A task takes the event that comes next in a response that begins with a head.
LEMMA NextIsTaken ==
  ASSUME Typed, NEW r \in Id, Write(r), ~Finished(r), r \notin gone,
         \/ Head(chan[r]) = Event("head") /\ ~HasHead(r)
         \/ Head(chan[r]) \in {Event("data"), Event("close")} /\ HasHead(r)
  PROVE  Takes(r, Head(chan[r]))
<1> DEFINE e == Head(chan[r])
<1>1. /\ WriteBadHead(r) \/ WriteHead(r) \/ WriteChunk2(r) \/ WriteChunk3(r)
  BY DEF Write
<1>2. \/ e.kind = "head" /\ ~HasHead(r)
      \/ e.kind \in {"data", "close"} /\ HasHead(r)
  BY EventIs
<1>3. WriteBadHead(r) => e.kind = "badhead"
  BY DEF WriteBadHead
<1>4. WriteHead(r) => /\ e.kind = "head"
                      /\ ~HasHead(r) => Received(r) /\ out' = [out EXCEPT ![r] = Append(@, e)]
  BY DEF WriteHead, Taken
<1>5. WriteChunk2(r) =>
        /\ e.kind \in {"data", "close"}
        /\ HasHead(r) => /\ out' = [out EXCEPT ![r] = Append(@, e)]
                         /\ IF e.kind = "close" THEN Stops(r, "done") ELSE Received(r)
  BY DEF WriteChunk2, Taken
<1>6. WriteChunk3(r) => /\ e.kind \in {"data", "close"} /\ proto = "h3" /\ Received(r)
                        /\ out' = [out EXCEPT ![r] = Append(@, e)]
  BY DEF WriteChunk3, Taken
<1> HIDE DEF e
<1>7. Takes(r, e)
  BY <1>1, <1>2, <1>3, <1>4, <1>5, <1>6 DEF Takes
<1> QED BY <1>7 DEF e

\* After the end, http3 writes nothing more.
LEMMA NothingIsTaken ==
  ASSUME NEW r \in Id, Write(r), Finished(r), proto = "h3"
  PROVE  out' = out
BY DEF Write, WriteBadHead, WriteHead, WriteChunk2, WriteChunk3

\* Nor is anything that was reset written.
LEMMA GoneIsLeft ==
  ASSUME NEW r \in Id, Write(r), r \in gone
  PROVE  out' = out /\ gone' = gone /\ promised' = promised
BY DEF Write, WriteBadHead, WriteHead, WriteChunk2, WriteChunk3, Taken, opVars

\* What is taken goes from the front of the channel to the end of what is written.
LEMMA Written ==
  ASSUME Typed, NEW r \in Id, chan[r] /= <<>>, Takes(r, Head(chan[r]))
  PROVE  /\ out'[r] = out[r] \o <<Head(chan[r])>>
         /\ \/ /\ Head(chan[r]) /= Event("close") \/ proto = "h3"
               /\ writer'[r] = writer[r]
               /\ chan'[r] = Tail(chan[r])
            \/ Head(chan[r]) = Event("close") /\ writer'[r] = "done"
<1>1. chan[r] \in Seq(EventT) /\ out[r] \in Seq(EventT)
  BY DEF Typed
<1>2. Head(chan[r]) \in EventT
  BY <1>1
<1>3. out'[r] = Append(out[r], Head(chan[r]))
  BY DEF Takes, Typed
<1>4. out'[r] = out[r] \o <<Head(chan[r])>>
  BY <1>1, <1>2, <1>3, Appended
<1>5. Received(r) => writer'[r] = writer[r] /\ chan'[r] = Tail(chan[r])
  BY DEF Received, Typed
<1>6. Stops(r, "done") => writer'[r] = "done"
  BY DEF Stops, Typed
<1>7. Head(chan[r]).kind = "close" <=> Head(chan[r]) = Event("close")
  BY <1>2 DEF EventT, Event
<1> QED BY <1>4, <1>5, <1>6, <1>7 DEF Takes

\* The event that is taken is the next one that was promised.
LEMMA NextIsPromised ==
  ASSUME Typed, Pledged, NEW r \in Id, Claimed(r), Underway(r), chan[r] /= <<>>
  PROVE  /\ Len(out[r]) + 1 \in 1..Len(promised[r])
         /\ Head(chan[r]) = promised[r][Len(out[r]) + 1]
         /\ ~Finished(r)
         /\ \/ Head(chan[r]) = Event("head") /\ ~HasHead(r)
            \/ Head(chan[r]) \in {Event("data"), Event("close")} /\ HasHead(r)
<1> DEFINE p == promised[r]
           o == out[r]
           c == chan[r]
           E == Emitting(r)
           n == Len(o) + 1
<1>1. p \in Seq(EventT) /\ o \in Seq(EventT) /\ c \in Seq(EventT) /\ E \in Seq(EventT)
  <2>1. emit.events \in Seq(EventT) /\ <<>> \in Seq(EventT)
    BY DEF Typed
  <2> QED BY <2>1 DEF Typed, Emitting
<1>2. /\ writer[r] = "run" /\ Lead(o, p) /\ Lead(p, o \o (c \o E))
      /\ Ended(r) => Len(o) < Len(p)
      /\ Open(r) => Len(p) = Len(o \o (c \o E))
  BY DEF Underway, Pending
<1>3. p /= <<>> /\ p[1] = Event("head") /\ (Ended(r) \/ Open(r)) /\ c /= <<>>
  BY DEF Claimed
<1>4. /\ \A i \in 1..Len(p) : i > 1 => p[i] \in {Event("data"), Event("close")}
      /\ \A i \in 1..Len(p) : p[i] = Event("close") => i = Len(p)
  BY DEF Pledged
<1>5. Finished(r) <=> \E i \in 1..Len(o) : o[i] = Event("close")
  BY DEF Finished, Contains
<1>6. HasHead(r) <=> \E i \in 1..Len(o) : o[i] = Event("head")
  BY DEF HasHead, Contains
<1> HIDE DEF p, o, c, E
<1>7. Len(p) \in Nat /\ Len(o) \in Nat /\ Len(c) \in Nat /\ Len(E) \in Nat /\ Len(c) > 0
      /\ c[1] = Head(c)
  BY <1>1, <1>3, FirstAndRest
<1>8. c \o E \in Seq(EventT) /\ Len(c \o E) = Len(c) + Len(E) /\ (c \o E)[1] = c[1]
  <2>1. 1 \in 1..Len(c)
    BY <1>7
  <2> QED BY <1>1, <2>1, Concats
<1>9. Len(o \o (c \o E)) = Len(o) + (Len(c) + Len(E))
  BY <1>1, <1>8, Concats
<1>10. n \in 1..Len(p) /\ Len(o) < Len(p)
  BY <1>2, <1>3, <1>7, <1>9
<1>11. Head(c) = p[n]
  <2>1. n \in 1..Len(o \o (c \o E)) /\ n > Len(o) /\ n - Len(o) = 1
    BY <1>7, <1>9
  <2>2. (o \o (c \o E))[n] = (c \o E)[n - Len(o)]
    BY <1>1, <1>8, <2>1, Concats
  <2>3. p[n] = (o \o (c \o E))[n]
    BY <1>2, <1>10 DEF Lead
  <2> QED BY <1>7, <1>8, <2>1, <2>2, <2>3
<1>12. \A i \in 1..Len(o) : o[i] = p[i] /\ i \in 1..Len(p) /\ i /= Len(p)
  BY <1>2, <1>7, <1>10 DEF Lead
<1>13. ~Finished(r)
  BY <1>4, <1>5, <1>12
<1>14. \/ Head(c) = Event("head") /\ ~HasHead(r)
       \/ Head(c) \in {Event("data"), Event("close")} /\ HasHead(r)
  <2>1. CASE Len(o) = 0
    <3>1. n = 1 /\ ~HasHead(r)
      BY <1>6, <2>1
    <3> QED BY <1>3, <1>11, <3>1
  <2>2. CASE Len(o) > 0
    <3>1. n > 1 /\ 1 \in 1..Len(o)
      BY <1>7, <2>2
    <3>2. HasHead(r)
      BY <1>3, <1>6, <1>12, <3>1
    <3> QED BY <1>4, <1>10, <1>11, <3>1, <3>2
  <2> QED BY <1>7, <2>1, <2>2
<1> QED BY <1>10, <1>11, <1>13, <1>14 DEF p, o, c, n

\* A task that is under way stays so, or has written the whole response.
LEMMA WriteRow ==
  ASSUME Typed, Pledged, NEW r \in Id, Write(r), Claimed(r), Underway(r), r \notin gone
  PROVE  Whole(r)' \/ Underway(r)'
<1> DEFINE p == promised[r]
           o == out[r]
           c == chan[r]
           E == Emitting(r)
           e == Head(c)
           t == Tail(c)
<1>1. UNCHANGED <<proto, at, cur, stream, woken, held, emit, promised>> /\ c /= <<>>
  BY DEF Write, taskVars, opVars
<1>2. (Ended(r)' <=> Ended(r)) /\ (Open(r)' <=> Open(r)) /\ Emitting(r)' = E /\ promised'[r] = p
  BY <1>1 DEF Ended, Open, Emitting
<1>3. p \in Seq(EventT) /\ o \in Seq(EventT) /\ c \in Seq(EventT) /\ E \in Seq(EventT)
  <2>1. emit.events \in Seq(EventT) /\ <<>> \in Seq(EventT)
    BY DEF Typed
  <2> QED BY <2>1 DEF Typed, Emitting
<1>4. /\ writer[r] = "run" /\ Lead(o, p) /\ Lead(p, o \o (c \o E))
      /\ Open(r) => Len(p) = Len(o \o (c \o E))
  BY DEF Underway, Pending
<1>5. /\ Len(o) + 1 \in 1..Len(p) /\ e = p[Len(o) + 1] /\ Takes(r, e)
  BY <1>1, NextIsPromised, NextIsTaken
<1>6. /\ out'[r] = o \o <<e>>
      /\ \/ /\ e /= Event("close") \/ proto = "h3"
            /\ writer'[r] = writer[r]
            /\ chan'[r] = t
         \/ e = Event("close") /\ writer'[r] = "done"
  BY <1>1, <1>5, Written
<1>7. /\ p /= <<>> /\ p[1] = Event("head") /\ Len(p) <= Cap /\ (Ended(r) \/ Open(r))
      /\ \A i \in 1..Len(p) : p[i] = Event("close") => i = Len(p)
      /\ Ended(r) <=> p /= <<>> /\ Head(p) = Event("head") /\ p[Len(p)] = Event("close")
                      /\ Len(p) <= Cap
  BY DEF Claimed, Pledged, Ended, Last
<1>8. Pending(r)' = chan'[r] \o E
  BY <1>2 DEF Pending
<1>9. e \in EventT /\ t \in Seq(EventT) /\ c = <<e>> \o t /\ <<e>> \in Seq(EventT)
  <2> HIDE DEF c
  <2> QED BY <1>1, <1>3, FirstAndRest
<1> DEFINE z == <<e>>
<1>10. z \in Seq(EventT) /\ Len(z) = 1 /\ z[1] = e
  BY <1>9
<1>11. p[1] = Head(p)
  <2> HIDE DEF p
  <2> QED BY <1>3, <1>7, FirstAndRest
<1> HIDE DEF p, o, c, E, e, t
<1>12. out'[r] = o \o z /\ c = z \o t
  BY <1>6, <1>9
<1> HIDE DEF z
<1>13. /\ o \o z \in Seq(EventT) /\ Len(o \o z) = Len(o) + 1 /\ Len(o) \in Nat /\ Len(p) \in Nat
       /\ \A i \in 1..Len(o) : (o \o z)[i] = o[i]
       /\ \A i \in 1..Len(o \o z) : i > Len(o) => (o \o z)[i] = z[i - Len(o)]
  <2>1. Len(o \o z) = Len(o) + Len(z)
    BY <1>3, <1>10, Concats
  <2>2. Len(o \o z) = Len(o) + 1
    BY <1>10, <2>1
  <2> QED BY <1>3, <1>10, <2>2, Concats
<1>14. Lead(o \o z, p)
  <2>1. ASSUME NEW i \in 1..Len(o \o z) PROVE (o \o z)[i] = p[i]
    <3>1. CASE i <= Len(o)
      <4>1. i \in 1..Len(o)
        BY <1>13, <3>1
      <4> QED BY <1>4, <1>13, <4>1 DEF Lead
    <3>2. CASE ~(i <= Len(o))
      <4>1. i = Len(o) + 1 /\ i > Len(o) /\ i - Len(o) = 1
        BY <1>13, <3>2
      <4>2. (o \o z)[i] = z[i - Len(o)]
        BY <1>13, <4>1
      <4>3. z[i - Len(o)] = z[1]
        BY <4>1
      <4> QED BY <1>5, <1>10, <4>1, <4>2, <4>3
    <3> QED BY <3>1, <3>2
  <2>2. Len(o \o z) <= Len(p)
    BY <1>5, <1>13
  <2> QED BY <2>1, <2>2 DEF Lead
<1>15. CASE e = Event("close")
  <2>1. Len(o) + 1 = Len(p)
    BY <1>5, <1>7, <1>15
  <2>2. o \o z = p
    BY <1>3, <1>13, <1>14, <2>1, LeadWhole
  <2>3. Ended(r)
    BY <1>5, <1>7, <1>11, <1>15, <2>1
  <2>4. proto = "h2" => writer'[r] /= "run"
    BY <1>6, <1>15
  <2> QED BY <1>1, <1>2, <1>12, <2>2, <2>3, <2>4 DEF Whole
<1>16. CASE e /= Event("close")
  <2>1. writer'[r] = "run" /\ chan'[r] = t
    BY <1>4, <1>6, <1>16
  <2>2. (o \o z) \o (t \o E) = o \o (c \o E)
    <3>1. t \o E \in Seq(EventT)
      BY <1>3, <1>9, Concats
    <3>2. o \o (z \o (t \o E)) = (o \o z) \o (t \o E)
      BY ZenonT(40), <1>3, <1>10, <3>1, Regroup
    <3>3. z \o (t \o E) = (z \o t) \o E
      BY SMTT(30), <1>3, <1>9, <1>10, Regroup
    <3> QED BY <1>12, <3>2, <3>3
  <2>3. Ended(r) => Len(o \o z) < Len(p)
    BY <1>5, <1>7, <1>13, <1>16
  <2>4. Pending(r)' = t \o E
    BY <1>8, <2>1
  <2>5. Underway(r)'
    BY <1>2, <1>4, <1>12, <1>14, <2>1, <2>2, <2>3, <2>4 DEF Underway
  <2> QED BY <2>5
<1> QED BY <1>15, <1>16

LEMMA WriteStep ==
  ASSUME Typed, Responses, NEW k \in Id, Write(k)
  PROVE  Responses'
<1>1. /\ UNCHANGED <<proto, at, cur, stream, woken, held, emit, promised, gone>>
      /\ chan[k] /= <<>> /\ writer[k] = "run"
  BY DEF Write, taskVars, opVars
<1>2. \A r \in Id : r /= k => chan'[r] = chan[r] /\ writer'[r] = writer[r] /\ out'[r] = out[r]
  <2>1. Stops(k, "done") \/ Stops(k, "panicked") \/ Received(k)
    BY DEF Write, WriteBadHead, WriteHead, WriteChunk2, WriteChunk3
  <2>2. out' = out \/ out' = [out EXCEPT ![k] = Append(@, Head(chan[k]))]
    BY DEF Write, WriteBadHead, WriteHead, WriteChunk2, WriteChunk3, Taken
  <2> QED BY <2>1, <2>2 DEF Stops, Received, Typed
<1>3. Bounds' /\ Pledged'
  BY <1>1 DEF Responses, Bounds, Pledged
<1>4. Fresh'
  <2>1. ASSUME NEW r \in Id, r > cur \/ (r = cur /\ at \in {"body", "result"}) PROVE r /= k
    BY <1>1, <2>1 DEF Responses, Fresh
  <2> QED BY <1>1, <1>2, <2>1 DEF Responses, Fresh
<1>5. Promising'
  <2> SUFFICES ASSUME NEW r \in Id, Open(r)'
               PROVE  /\ NotYet(r)'
                      /\ Unclosed(r)' /\ promised'[r] /= <<>> => stream'[r].headersSent
                      /\ ~Unclosed(r)' => emit' = [id |-> r, events |-> <<Event("close")>>]
    BY DEF Promising
  <2>1. Open(r)
    BY <1>1 DEF Open
  <2>2. /\ NotYet(r)
        /\ Unclosed(r) /\ promised[r] /= <<>> => stream[r].headersSent
        /\ ~Unclosed(r) => emit = [id |-> r, events |-> <<Event("close")>>]
    BY <2>1 DEF Responses, Promising
  <2>3. Unclosed(r)' <=> Unclosed(r)
    BY <1>1 DEF Unclosed
  <2>4. NotYet(r)'
    <3>1. promised[r] = <<>> => r /= k
      BY <1>1, <2>2 DEF NotYet
    <3> QED BY <1>1, <1>2, <2>2, <3>1 DEF NotYet
  <2> QED BY <1>1, <2>2, <2>3, <2>4
<1>6. Row'
  <2> SUFFICES ASSUME NEW r \in Id, Claimed(r)'
               PROVE  Whole(r)' \/ Underway(r)' \/ Left(r)'
    BY DEF Row
  <2>1. CASE r /= k
    <3>1. Untouched(r)
      BY <1>1, <1>2, <2>1 DEF Untouched, Emitting, Open
    <3> QED BY <3>1, RowStays DEF Responses
  <2>2. CASE r = k
    <3>1. Claimed(r) /\ (Ended(r)' <=> Ended(r))
      BY <1>1 DEF Claimed, Ended, Open
    <3>2. CASE Underway(r)
      <4>1. CASE r \in gone
        BY <2>2, <3>2, <4>1, GoneIsLeft DEF Underway, Left
      <4> QED BY <2>2, <3>1, <3>2, <4>1, WriteRow DEF Responses
    <3>3. CASE Whole(r)
      <4>1. proto = "h3" /\ Ended(r) /\ out[r] = promised[r] /\ promised[r] \in Seq(EventT)
        BY <1>1, <2>2, <3>3 DEF Whole, Typed
      <4>2. Finished(r)
        <5>1. Len(promised[r]) \in 1..Len(promised[r])
              /\ promised[r][Len(promised[r])] = Event("close")
          BY <4>1 DEF Ended, Last
        <5> QED BY <4>1, <5>1 DEF Finished, Contains
      <4>3. out' = out
        BY <2>2, <4>1, <4>2, NothingIsTaken
      <4> QED BY <1>1, <3>1, <4>1, <4>3 DEF Whole
    <3>4. CASE Left(r)
      BY <2>2, <3>4, GoneIsLeft DEF Left
    <3> QED BY <3>1, <3>2, <3>3, <3>4 DEF Responses, Row
  <2> QED BY <2>1, <2>2
<1> QED BY <1>3, <1>4, <1>5, <1>6 DEF Responses

-----------------------------------------------------------------------------
(* The theorems. *)

LEMMA Initially == Init => IInv
<1> SUFFICES ASSUME Init PROVE IInv
  OBVIOUS
<1> USE DEF Init
<1>1. Typed
  <2>1. NewReq(NoShape) \in ReqT
    BY NewReqIs
  <2>2. emit \in [id : 0..MaxReqs, events : Seq(EventT)]
    BY NoEmitType
  <2>3. proto \in {"h2", "h3"} /\ 0 \in 0..MaxReqs /\ <<>> \in Seq(EventT)
    BY BoundsAre
  <2>4. /\ stream \in [Id -> StreamT] /\ promised \in [Id -> Seq(EventT)]
        /\ chan \in [Id -> Seq(EventT)] /\ out \in [Id -> Seq(EventT)] /\ flushed \in [Id -> Nat]
        /\ writer \in [Id -> {"none", "run", "done", "panicked"}] /\ gone \in SUBSET Id
    BY <2>3, StreamIs
  <2>5. sent \in PartT /\ got \in PartT
    BY PartIs
  <2> QED BY <2>1, <2>2, <2>3, <2>4, <2>5 DEF Typed
<1>2. Parsing
  BY DEF Parsing
<1>3. Bounds
  BY NoEmitType DEF Bounds
<1>4. \A r \in Id : promised[r] = <<>> /\ chan[r] = <<>> /\ out[r] = <<>>
                    /\ stream[r] = NewStream /\ r /= 0
  BY DEF Id
<1>5. Fresh
  BY <1>4 DEF Fresh
<1>6. Promising
  BY DEF Promising, Open
<1>7. Pledged
  BY <1>4 DEF Pledged
<1>8. Row
  BY <1>4 DEF Row, Claimed
<1> QED BY <1>1, <1>2, <1>3, <1>5, <1>6, <1>7, <1>8 DEF IInv, Responses

LEMMA Kept ==
  ASSUME IInv, [Next]_vars
  PROVE  IInv'
<1>1. Typed /\ Parsing /\ Responses /\ Bounds
  BY DEF IInv, Responses
<1>2. Typed' /\ Parsing'
  BY <1>1, TypeStep
<1>3. ASSUME \/ ReadData \/ SendData \/ BodyEnds \/ BodyCut \/ Drop \/ Dispatch
             \/ \E r \in Id : Flush(r) \/ Abandon(r)
             \/ UNCHANGED vars
      PROVE  Responses'
  <2>1. UNCHANGED <<proto, cur, opVars, chan, writer, out>> /\ gone \subseteq gone'
    BY <1>3 DEF ReadData, SendData, BodyEnds, BodyCut, Drop, Dispatch, Flush, Abandon, Through,
                vars, taskVars, writeVars
  <2>2. \/ at' = at
        \/ at \in {"body", "result"} /\ at' \in {"body", "result", "accept", "handler"}
    BY <1>3 DEF ReadData, SendData, BodyEnds, BodyCut, Drop, Dispatch, Flush, Abandon, Through,
                vars, taskVars
  <2> QED BY <1>1, <2>1, <2>2, QuietStep
<1>4. ASSUME NEW s \in Shape, NEW part \in WithHead(s), Accept(s, part) PROVE Responses'
  BY <1>1, <1>4, AcceptStep
<1>5. ASSUME Refuse \/ Return PROVE Responses'
  BY <1>1, <1>5, RefuseStep, ReturnStep
<1>6. ASSUME NEW op \in Op, Apply(op) PROVE Responses'
  <2>1. CASE held = 0 /\ ~woken
    BY <1>1, <1>6, <2>1, ApplyHere
  <2>2. CASE ~(held = 0 /\ ~woken)
    BY <1>1, <1>6, <2>2, ApplyElsewhere
  <2> QED BY <2>1, <2>2
<1>7. ASSUME TrySend PROVE Responses'
  BY <1>1, <1>7, TrySendStep
<1>8. ASSUME NEW r \in Id, Write(r) PROVE Responses'
  BY <1>1, <1>8, WriteStep
<1>9. ASSUME \/ AcceptEnds \/ ReadPanics \/ Break
             \/ \E s \in Shape : AcceptPanics(s)
             \/ \E op \in Op : Exit(op)
      PROVE  Responses'
  BY <1>1, <1>9, Overs DEF IInv
<1>10. Responses'
  BY <1>3, <1>4, <1>5, <1>6, <1>7, <1>8, <1>9 DEF Next, Handle
<1> QED BY <1>2, <1>10 DEF IInv

LEMMA Inductive == Spec => []IInv
<1>1. IInv /\ [Next]_vars => IInv'
  BY Kept
<1> QED BY Initially, <1>1, PTL DEF Spec

\* The variables of a connection keep their types: in particular a stream is
\* pushed events only, and what Http2Req and Http3Req subtract from the length of
\* a body, of the buffer and of what is to be skipped never takes them below zero,
\* whatever length was announced (the bs - 2 of a torn line break, which does, is
\* a panic of the model).
THEOREM TypeCorrect == Spec => []Typed
<1>1. IInv => Typed
  BY DEF IInv
<1> QED BY Inductive, <1>1, PTL

LEMMA LeadIsPrefix ==
  ASSUME NEW p \in Seq(EventT), NEW q \in Seq(EventT), Lead(p, q)
  PROVE  IsPrefix(p, q)
<1>1. Len(p) \in Nat /\ Len(q) \in Nat /\ Len(p) <= Len(q)
      /\ \A i \in 1..Len(p) : p[i] = q[i] /\ p[i] \in EventT
  BY DEF Lead
<1> DEFINE a == SubSeq(p, 1, Len(p))
           b == SubSeq(q, 1, Len(p))
<1>2. a = p
  BY SubSeqFull
<1>3. \A i \in 1..Len(p) : q[i] \in EventT
  BY <1>1
<1>4. /\ b \in Seq(EventT) /\ Len(b) = (IF 1 <= Len(p) THEN Len(p) - 1 + 1 ELSE 0)
      /\ \A i \in 1..(Len(p) - 1 + 1) : b[i] = q[1 + i - 1]
  BY <1>1, <1>3, SubSeqProperties
<1> HIDE DEF b
<1>5. Len(b) = Len(p) /\ \A i \in 1..Len(p) : b[i] = q[i]
  <2>1. Len(b) = Len(p)
    BY <1>1, <1>4
  <2>2. ASSUME NEW i \in 1..Len(p) PROVE b[i] = q[i]
    <3>1. 1 + i - 1 = i /\ i \in 1..(Len(p) - 1 + 1)
      BY <1>1
    <3> QED BY <1>4, <3>1
  <2> QED BY <2>1, <2>2
<1>6. b = p
  BY <1>1, <1>4, <1>5, SeqEqual
<1> QED BY <1>1, <1>2, <1>6 DEF IsPrefix, b

\* A response that was ended and fits the channel goes out as it was pushed, with
\* one head at its front, whatever is applied to its stream after that, by the
\* handlers of other requests included, and whenever its client resets the stream
\* (the WRITE TASKs of http2.rs and http3.rs, headers_sent in Http2Stream and
\* Http3Stream).
THEOREM HeadsFirst == Spec => []OneHeadFirst
<1>1. ASSUME IInv, NEW r \in Id, Ended(r)
      PROVE  /\ IsPrefix(out[r], promised[r])
             /\ \A i \in 2..Len(out[r]) : out[r][i] /= Event("head")
  <2>1. promised[r] \in Seq(EventT) /\ out[r] \in Seq(EventT)
    BY <1>1 DEF IInv, Typed
  <2>2. Claimed(r)
    BY <1>1, <2>1, FirstAndRest DEF Claimed, Ended
  <2>3. Whole(r) \/ Underway(r) \/ Left(r)
    BY <1>1, <2>2 DEF IInv, Responses, Row
  <2>4. Lead(out[r], promised[r])
    BY <2>1, <2>3, LeadSelf DEF Whole, Underway, Left
  <2>5. ASSUME NEW i \in 2..Len(out[r]) PROVE out[r][i] /= Event("head")
    <3>1. i \in 1..Len(promised[r]) /\ i > 1 /\ out[r][i] = promised[r][i]
      BY <2>1, <2>4 DEF Lead
    <3>2. promised[r][i] \in {Event("data"), Event("close")}
      BY <1>1, <3>1 DEF IInv, Responses, Pledged
    <3> QED BY <3>1, <3>2, EventIs
  <2> QED BY <2>1, <2>4, <2>5, LeadIsPrefix
<1>2. IInv => OneHeadFirst
  BY <1>1 DEF OneHeadFirst
<1> QED BY Inductive, <1>2, PTL

\* A request whose body the server parses and has the length that was announced is
\* handed to its handler only when every frame of the body was parsed, in whatever
\* frames it came and however many came with the head; but for a multipart body
\* that has a frame which was counted and not taken (res = Ok(Some(1)) in the body
\* loops of the ACCEPT TASKs, content_length and skip in the parsers).
THEOREM HandedWhole == Spec => DispatchedWhole
<1> DEFINE Handed == at = "result" /\ at' = "handler" /\ Announced(shape)
                         /\ Cut[shape].char = {} /\ Fault[shape] /= "disk"
<1>1. ASSUME IInv, [Next]_vars, Handed
      PROVE  req.frames = Chunks[shape]
  <2>1. Dispatch
    BY <1>1 DEF Next, Handle, vars, taskVars, Accept, AcceptPanics, ReadData, ReadPanics,
                BodyEnds, BodyCut, Refuse, Drop, Break, Return, AcceptEnds, SendData, TrySend,
                Flush, Abandon, Apply, Exit, Write, Over, Through
  <2>2. res = "some" /\ Parsing
    BY <1>1, <2>1 DEF Dispatch, IInv
  <2> QED BY <1>1, <2>2 DEF Parsing, Counted
<1>2. IInv /\ [Next]_vars => [Handed => req.frames = Chunks[shape]]_vars
  BY <1>1
<1> QED BY Inductive, <1>2, PTL DEF Spec, DispatchedWhole

\* A sound request, one with which nothing is wrong and of which no frame ends where
\* a part is refused for what did not come with it, is left without an answer only
\* when its body was cut off (the branches of the ACCEPT TASKs after the body loop).
THEOREM SoundAnswered == Spec => SoundIsAnswered
<1> DEFINE Unanswered == at = "result" /\ at' = "accept" /\ promised' = promised
                           /\ Sound(shape)
<1>1. ASSUME IInv, [Next]_vars, Unanswered
      PROVE  Given.side = "cut"
  <2>1. Drop \/ Refuse
    BY <1>1 DEF Next, Handle, vars, taskVars, Accept, AcceptPanics, ReadData, ReadPanics,
                BodyEnds, BodyCut, Dispatch, Break, Return, AcceptEnds, SendData, TrySend,
                Flush, Abandon, Apply, Exit, Write, Over, Through
  <2>2. ~Refuse
    <3> SUFFICES ASSUME Refuse PROVE FALSE
      OBVIOUS
    <3>1. cur \in Id /\ promised[cur] = <<>>
      BY <1>1, CurIs DEF IInv, Responses, Fresh
    <3>2. promised'[cur] = Refusal
      BY <1>1, <3>1 DEF Refuse, IInv, Typed
    <3> QED BY <1>1, <3>1, <3>2, RefusalIs
  <2>3. res = "none" /\ Parsing
    BY <1>1, <2>1, <2>2 DEF Drop, IInv
  <2> QED BY <1>1, <2>3 DEF Parsing
<1>2. IInv /\ [Next]_vars => [Unanswered => Given.side = "cut"]_vars
  BY <1>1
<1> QED BY Inductive, <1>2, PTL DEF Spec, SoundIsAnswered

=============================================================================
