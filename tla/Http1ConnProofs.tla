---------------------------- MODULE Http1ConnProofs ----------------------------
(***************************************************************************)
(* Proofs about Http1Conn, for any shapes of requests, any number of them  *)
(* and any size of the blocks.                                             *)
(*                                                                         *)
(* The bytes the client has sent are numbered from 1, through all its      *)
(* requests: the bytes of request k are those after start[k], and up to    *)
(* start[k + 1].  The parser's buffer holds the bytes from+1 to upto, the  *)
(* wire those after upto (Holds), and what the parser remembers says where *)
(* in which request it is (Place).  However the bytes are cut into reads,  *)
(* this does not change; so what is dispatched is what was sent.           *)
(***************************************************************************)
EXTENDS Http1Conn, SequenceTheorems, TLAPS

Token == [kind : {"method", "path", "protocol", "headers", "body"}, msg : Message, pos : Nat]
Req == [buff : Seq(Token), stage : 0..4, msg : Seq(Message), body : Seq(Message),
        hasBody : BOOLEAN, length : Nat, size : Nat, skip : Int, lost : BOOLEAN]
Call == [msg : Seq(Message), body : Seq(Message)]
Answer == [msg : Seq(Message), by : {"handler", "409"}]

Typed ==
  /\ sent \in Seq(Message) /\ wire \in Seq(Token) /\ req \in Req
  /\ at \in {"read", "parse", "respond", "refuse", "closed", "panicked"}
  /\ lastCtx \in BOOLEAN
  /\ dispatched \in Seq(Call) /\ answers \in Seq(Answer)
  /\ calls \in [connect : Nat, disconnect : Nat]
  /\ broken \subseteq Message

-----------------------------------------------------------------------------
(* The handlers of the connection. *)

\* last_ctx is the request "_disconnect" would be called with: there is one once
\* a handler has been called.
Remembers == lastCtx <=> dispatched /= <<>>
Responds == at = "respond" => dispatched /= <<>>

-----------------------------------------------------------------------------
(* Where the bytes are. *)

Total(m) == 4 + BodyLen[m.shape]

Byte(m, o) == IF o <= 4 THEN [kind |-> Stages[o], msg |-> m, pos |-> 1]
              ELSE [kind |-> "body", msg |-> m, pos |-> o - 4]

\* Where each of the requests all begins, and the last one ends.
Starts(all, start) ==
  /\ start \in [1..(Len(all) + 1) -> Nat]
  /\ \A k \in 1..Len(all) : start[k + 1] = start[k] + Total(all[k])
  /\ \A j, k \in 1..(Len(all) + 1) : j <= k => start[j] <= start[k]

\* q holds the bytes from+1 to from+Len(q) of the requests.
Holds(all, start, q, from) ==
  \A k \in 1..Len(all) : \A o \in 1..Total(all[k]) :
    start[k] + o - from \in 1..Len(q) => q[start[k] + o - from] = Byte(all[k], o)

\* After n requests the parser is in the next one, as far as its stage and size
\* say, or the body of the last one was of a type that is not read.
Place(all, start, from, r, n) ==
  \/ n \in 0..Len(all) /\ from = start[n + 1] + r.stage + r.size
  \/ n \in 1..Len(all) /\ r.stage = 0 /\ from = start[n] + 4 /\ BodyLen[all[n].shape] > 0

\* Of the bytes 1 to upto all reads have brought, the last one: when it is the
\* line break before a boundary of a request, that request is in B.
Known(all, start, upto, B) ==
  \A k \in 1..Len(all) : \A o \in 1..Total(all[k]) :
    start[k] + o = upto /\ LeavesBroken(Byte(all[k], o)) => all[k] \in B

\* What the parser has noted of the request it is in.
Notes(all, r, n, B) ==
  /\ r.skip = 0 /\ r.body = <<>>
  /\ r.stage < 4 => r.size = 0 /\ ~r.lost
  /\ r.stage > 0 => n < Len(all) /\ (r.hasBody <=> BodyType[all[n + 1].shape] = "none")
  /\ r.stage > 1 => r.msg = <<all[n + 1]>>
  /\ r.stage = 4 => r.length = BodyLen[all[n + 1].shape]
  /\ r.size > 0 => BodyType[all[n + 1].shape] = "multipart" /\ r.size < r.length
  /\ r.lost \/ (r.size > 0 /\ r.size \in Cut[all[n + 1].shape].broken) => all[n + 1] \in B

Reading(all, start, from, upto, r, n, B) ==
  /\ Holds(all, start, r.buff, from) /\ from + Len(r.buff) = upto
  /\ Place(all, start, from, r, n) /\ Notes(all, r, n, B)

\* It lacks bytes: it has none, or not all of the body; or those it has end like
\* a boundary begins.
Waits(r) ==
  \/ HeldBack(r)
  \/ r.stage < 4 /\ r.buff = <<>>
  \/ r.stage = 4 /\ r.size + Len(r.buff) < r.length

AllHandled == \A k \in 1..Len(answers) : answers[k].by = "handler"

\* r has read n of the requests all, and w is what is on the wire.
Flows(all, r, n, w, B) ==
  \E start \in [1..(Len(all) + 1) -> Nat], from \in Nat, upto \in Nat :
    /\ Starts(all, start)
    /\ Reading(all, start, from, upto, r, n, B) /\ Known(all, start, upto, B)
    /\ Holds(all, start, w, upto) /\ upto + Len(w) = start[Len(all) + 1]

\* As long as no request was refused.
Flow ==
  AllHandled /\ at \in {"read", "parse", "respond"} => Flows(sent, req, Len(dispatched), wire, broken)

Answered ==
  AllHandled =>
    /\ at \in {"read", "parse"} => Len(answers) = Len(dispatched)
    /\ at = "respond" => Len(answers) + 1 = Len(dispatched) /\ req.stage = 0
    /\ at = "read" => Waits(req)

\* DispatchedIsPrefix, also while the answer to a refused request is written.
Prefix ==
  AllHandled =>
    /\ Len(dispatched) <= Len(sent)
    /\ \A k \in 1..Len(dispatched) :
         /\ dispatched[k].msg = <<sent[k]>>
         /\ \/ dispatched[k].body = Expected(sent[k])
            \/ sent[k] \in broken /\ dispatched[k].body = <<>>

IInv ==
  /\ Typed
  /\ ConnectPairsWithDisconnect /\ Remembers /\ Responds
  /\ Prefix /\ Flow /\ Answered

-----------------------------------------------------------------------------
(* Type correctness. *)

\* The bytes of a request, one by one.
LEMMA BytesAre ==
  ASSUME NEW m \in Message
  PROVE  /\ Bytes(m) \in Seq(Token) /\ Len(Bytes(m)) = Total(m) /\ Total(m) \in Nat
         /\ \A o \in 1..Total(m) : Bytes(m)[o] = Byte(m, o)
<1> DEFINE head == [k \in 1..4 |-> [kind |-> Stages[k], msg |-> m, pos |-> 1]]
           len == BodyLen[m.shape]
           body == [p \in 1..len |-> [kind |-> "body", msg |-> m, pos |-> p]]
<1>1. len \in Nat
  BY ReqAssumption DEF ReqAssumption, Message
<1>2. head \in Seq(Token) /\ Len(head) = 4
  <2>1. \A k \in 1..4 : [kind |-> Stages[k], msg |-> m, pos |-> 1] \in Token
    BY DEF Stages, Token
  <2> QED BY <2>1, IsASeq
<1>3. body \in Seq(Token) /\ Len(body) = len
  <2>1. \A p \in 1..len : [kind |-> "body", msg |-> m, pos |-> p] \in Token
    BY <1>1 DEF Token
  <2> HIDE DEF len
  <2> QED BY <1>1, <2>1, IsASeq
<1>4. Bytes(m) = head \o body
  BY DEF Bytes, Body
<1>5. \A k \in 1..4 : head[k] = [kind |-> Stages[k], msg |-> m, pos |-> 1]
  OBVIOUS
<1>6. \A p \in 1..len : body[p] = [kind |-> "body", msg |-> m, pos |-> p]
  OBVIOUS
<1>7. Total(m) = 4 + len
  BY DEF Total
<1> HIDE DEF head, body, len
<1>8. /\ Bytes(m) \in Seq(Token) /\ Len(Bytes(m)) = Len(head) + Len(body)
      /\ \A o \in 1..Len(Bytes(m)) :
           Bytes(m)[o] = IF o <= Len(head) THEN head[o] ELSE body[o - Len(head)]
  <2>1. head \in Seq(Token) /\ body \in Seq(Token)
    BY <1>2, <1>3
  <2> QED BY <1>4, <2>1, ConcatProperties
<1>9. ASSUME NEW o \in 1..Total(m) PROVE Bytes(m)[o] = Byte(m, o)
  <2>1. CASE o <= 4
    <3>1. o \in 1..4 /\ o \in 1..Len(Bytes(m)) /\ o <= Len(head)
      BY <1>1, <1>2, <1>3, <1>7, <1>8, <2>1
    <3>2. Bytes(m)[o] = head[o]
      BY <1>8, <3>1
    <3> QED BY <1>5, <2>1, <3>1, <3>2 DEF Byte
  <2>2. CASE o > 4
    <3>1. /\ o - 4 \in 1..len /\ o \in 1..Len(Bytes(m))
          /\ ~(o <= Len(head)) /\ o - Len(head) = o - 4
      BY <1>1, <1>2, <1>3, <1>7, <1>8, <2>2
    <3>2. Bytes(m)[o] = body[o - 4]
      BY <1>8, <3>1
    <3> QED BY <1>6, <2>2, <3>1, <3>2 DEF Byte
  <2> QED BY <1>1, <1>7, <2>1, <2>2
<1> QED BY <1>1, <1>2, <1>3, <1>7, <1>8, <1>9

LEMMA DropSeq ==
  ASSUME NEW S, NEW q \in Seq(S), NEW k \in 0..Len(q)
  PROVE  /\ Drop(q, k) \in Seq(S) /\ Len(Drop(q, k)) = Len(q) - k
         /\ \A j \in 1..(Len(q) - k) : Drop(q, k)[j] = q[k + j]
BY SubSeqProperties DEF Drop

LEMMA TakeSeq ==
  ASSUME NEW S, NEW q \in Seq(S), NEW k \in 0..Len(q)
  PROVE  /\ Take(q, k) \in Seq(S) /\ Len(Take(q, k)) = k
         /\ \A j \in 1..k : Take(q, k)[j] = q[j]
BY SubSeqProperties DEF Take

LEMMA FieldsOfReq ==
  ASSUME NEW r \in Req
  PROVE  /\ r.buff \in Seq(Token) /\ r.stage \in 0..4
         /\ r.msg \in Seq(Message) /\ r.body \in Seq(Message)
         /\ r.hasBody \in BOOLEAN /\ r.length \in Nat /\ r.size \in Nat /\ r.skip \in Int
         /\ r.lost \in BOOLEAN
BY Zenon DEF Req

LEMMA FirstByte ==
  ASSUME NEW q \in Seq(Token), q /= <<>>
  PROVE  /\ Head(q) = q[1] /\ q[1] \in Token /\ Tail(q) \in Seq(Token)
         /\ q[1].msg \in Message /\ <<q[1].msg>> \in Seq(Message) /\ q[1].msg.shape \in Shape
<1>1. Head(q) = q[1] /\ q[1] \in Token /\ Tail(q) \in Seq(Token)
  OBVIOUS
<1>2. q[1].msg \in Message
  BY <1>1 DEF Token
<1>3. q[1].msg.shape \in Shape
  BY <1>2 DEF Message
<1> QED BY <1>1, <1>2, <1>3

LEMMA EmptyIsReq ==
  ASSUME NEW q \in Seq(Token)
  PROVE  [Empty EXCEPT !.buff = q] \in Req
<1>1. <<>> \in Seq(Message) /\ 0 \in 0..4 /\ 0 \in Nat /\ 0 \in Int /\ TRUE \in BOOLEAN /\ FALSE \in BOOLEAN
  OBVIOUS
<1> QED BY Zenon, <1>1 DEF Empty, Req

LEMMA ClearedIsReq ==
  ASSUME NEW r \in Req
  PROVE  Cleared(r) \in Req
<1>1. <<>> \in Seq(Token)
  OBVIOUS
<1> QED BY Zenon, <1>1 DEF Cleared, Req

\* A turn through one of the four parts of the head.
Turn(h) == IF h.tag = "some" /\ h.req.stage < 4 THEN ReadStage(h.req) ELSE h

LEMMA HeadIsTurns ==
  ASSUME NEW r
  PROVE  ReadHead(r) = Turn(Turn(Turn(Turn(Result("some", r)))))
BY DEF ReadHead, Turn

Tags == {"some", "none", "invalid", "refused", "panics"}

LEMMA StageType ==
  ASSUME NEW r \in Req, r.stage < 4
  PROVE  ReadStage(r).req \in Req /\ ReadStage(r).tag \in Tags
<1> USE DEF Result, Tags
<1>1. CASE r.buff = <<>>
  BY <1>1 DEF ReadStage
<1>2. CASE r.buff /= <<>> /\ Head(r.buff).kind /= Stages[r.stage + 1]
  BY <1>2, ClearedIsReq DEF ReadStage
<1>3. CASE r.buff /= <<>> /\ Head(r.buff).kind = Stages[r.stage + 1]
  <2> DEFINE m == Head(r.buff).msg
             q == Tail(r.buff)
  <2>1. /\ q \in Seq(Token) /\ <<m>> \in Seq(Message)
        /\ (BodyType[m.shape] = "none") \in BOOLEAN /\ BodyLen[m.shape] \in Nat
    BY <1>3, FirstByte, FieldsOfReq, ReqAssumption DEF ReqAssumption
  <2>2. 1 \in 0..4 /\ 2 \in 0..4 /\ 3 \in 0..4 /\ 4 \in 0..4
    OBVIOUS
  <2>3. [r EXCEPT !.stage = 1, !.buff = q, !.hasBody = BodyType[m.shape] = "none"] \in Req
    BY <2>1, <2>2, Zenon DEF Req
  <2>4. [r EXCEPT !.stage = 2, !.buff = q, !.msg = <<m>>] \in Req
    BY <2>1, <2>2, Zenon DEF Req
  <2>5. [r EXCEPT !.stage = 3, !.buff = q] \in Req
    BY <2>1, <2>2, Zenon DEF Req
  <2>6. [r EXCEPT !.stage = 4, !.buff = q, !.length = BodyLen[m.shape]] \in Req
    BY <2>1, <2>2, Zenon DEF Req
  <2>7. r.stage \in {0, 1, 2, 3}
    BY FieldsOfReq
  <2>8. ReadStage(r) = CASE r.stage = 0 -> ReadMethod(r)
                         [] r.stage = 1 -> ReadPath(r)
                         [] r.stage = 2 -> ReadProtocol(r)
                         [] r.stage = 3 -> ReadHeaders(r)
    BY <1>3 DEF ReadStage
  <2>9. ReadMethod(r).req \in Req /\ ReadMethod(r).tag \in Tags
    BY <2>3 DEF ReadMethod
  <2>10. ReadPath(r).req \in Req /\ ReadPath(r).tag \in Tags
    BY <2>4 DEF ReadPath
  <2>11. ReadProtocol(r).req \in Req /\ ReadProtocol(r).tag \in Tags
    BY <2>5 DEF ReadProtocol
  <2>12. ReadHeaders(r).req \in Req /\ ReadHeaders(r).tag \in Tags
    BY <2>6 DEF ReadHeaders
  <2> QED BY <2>7, <2>8, <2>9, <2>10, <2>11, <2>12
<1> QED BY <1>1, <1>2, <1>3

LEMMA HeadType ==
  ASSUME NEW r \in Req
  PROVE  ReadHead(r).req \in Req /\ ReadHead(r).tag \in Tags
<1> DEFINE Ok(h) == h.req \in Req /\ h.tag \in Tags
<1>1. ASSUME NEW h, Ok(h) PROVE Ok(Turn(h))
  BY <1>1, StageType DEF Turn
<1>2. Ok(Result("some", r))
  BY DEF Result, Tags
<1> HIDE DEF Ok
<1>3. Ok(ReadHead(r))
  BY <1>1, <1>2, HeadIsTurns
<1> QED BY <1>3 DEF Ok

\* The readers of the bodies.
LEMMA WholeType ==
  ASSUME NEW r \in Req, NEW luck
  PROVE  ReadWhole(r, luck).req \in Req /\ ReadWhole(r, luck).tag \in Tags
<1> USE DEF Result, Tags
<1>1. CASE Len(r.buff) < r.length \/ Fault[r.msg[1].shape] = "large"
  BY <1>1, ClearedIsReq DEF ReadWhole
<1>2. CASE ~(Len(r.buff) < r.length \/ Fault[r.msg[1].shape] = "large")
  <2> DEFINE rest == [r EXCEPT !.buff = Drop(@, r.length), !.size = r.length]
             own == IsOwn(r, Take(r.buff, r.length))
  <2>1. r.buff \in Seq(Token) /\ r.length \in 0..Len(r.buff) /\ r.length \in Nat /\ r.length \in Int
        /\ r.msg \in Seq(Message) /\ <<>> \in Seq(Message)
    BY <1>2, FieldsOfReq
  <2>2. Drop(r.buff, r.length) \in Seq(Token) /\ TRUE \in BOOLEAN
    BY <2>1, DropSeq
  <2>3. rest \in Req
    BY <2>1, <2>2, Zenon DEF Req
  <2>4. [rest EXCEPT !.hasBody = TRUE] \in Req
    BY <2>2, <2>3, Zenon DEF Req
  <2>5. [rest EXCEPT !.skip = r.length] \in Req
    BY <2>1, <2>3, Zenon DEF Req
  <2>6. [rest EXCEPT !.hasBody = TRUE, !.body = IF own THEN r.msg ELSE <<>>] \in Req
    <3>1. (IF own THEN r.msg ELSE <<>>) \in Seq(Message)
      BY <2>1
    <3> HIDE DEF own, rest
    <3> QED BY <2>2, <2>3, <3>1, Zenon DEF Req
  <2> HIDE DEF rest
  <2> QED BY <1>2, <2>3, <2>4, <2>5, <2>6 DEF ReadWhole, rest
<1> QED BY <1>1, <1>2

LEMMA MultipartType ==
  ASSUME NEW r \in Req, ~(r.size > r.length)
  PROVE  ReadMultipart(r).req \in Req /\ ReadMultipart(r).tag \in Tags
<1> USE DEF Result, Tags
<1> DEFINE left == r.length - r.size
           l == Len(r.buff)
           lost == r.lost \/ r.size \in Cut[r.msg[1].shape].broken
           held == r.buff = <<>> \/ EndsLikeBoundary(r.buff)
<1>1. /\ left \in Nat /\ left - 1 \in Int /\ r.size \in Nat /\ r.length \in Nat
      /\ r.buff \in Seq(Token) /\ l \in Nat /\ left - l \in Int
      /\ r.size + 1 \in Nat /\ r.size + l \in Nat
      /\ <<>> \in Seq(Token) /\ <<>> \in Seq(Message) /\ TRUE \in BOOLEAN /\ lost \in BOOLEAN
  BY FieldsOfReq
<1> HIDE DEF lost
<1>2. CASE held
  BY <1>2 DEF ReadMultipart
<1>3. CASE ~held
  <2>1. /\ <<r.buff[1].msg>> \in Seq(Message) /\ Tail(r.buff) \in Seq(Token)
        /\ (IF lost THEN <<>> ELSE <<r.buff[1].msg>>) \in Seq(Message)
    BY <1>1, <1>3, FirstByte
  <2> HIDE DEF left, l
  <2>2. [r EXCEPT !.buff = Tail(@), !.size = @ + 1, !.skip = left - 1] \in Req
    BY <1>1, <2>1, Zenon DEF Req
  <2>3. [r EXCEPT !.buff = <<>>, !.size = r.size + l, !.lost = lost] \in Req
    BY <1>1, Zenon DEF Req
  <2>4. [r EXCEPT !.size = r.size + l, !.skip = left - l] \in Req
    BY <1>1, Zenon DEF Req
  <2>5. ASSUME ~(l < left)
        PROVE  [r EXCEPT !.buff = Drop(@, left), !.size = r.length,
                         !.hasBody = TRUE, !.lost = lost,
                         !.body = IF lost THEN <<>> ELSE <<r.buff[1].msg>>] \in Req
    <3>1. left \in 0..Len(r.buff)
      BY <1>1, <2>5 DEF l
    <3>2. Drop(r.buff, left) \in Seq(Token)
      BY <1>1, <3>1, DropSeq
    <3> QED BY <1>1, <2>1, <3>2, Zenon DEF Req
  <2>6. CASE Fault[r.msg[1].shape] = "bodykeys" \/ (r.size \in Cut[r.msg[1].shape].torn /\ l > 1)
    BY <1>3, <2>6 DEF ReadMultipart, l
  <2>7. CASE /\ ~(Fault[r.msg[1].shape] = "bodykeys" \/ (r.size \in Cut[r.msg[1].shape].torn /\ l > 1))
             /\ Fault[r.msg[1].shape] \in {"utf8", "body"}
    BY <1>3, <2>2, <2>7 DEF ReadMultipart, l, left
  <2>8. CASE /\ ~(Fault[r.msg[1].shape] = "bodykeys" \/ (r.size \in Cut[r.msg[1].shape].torn /\ l > 1))
             /\ Fault[r.msg[1].shape] \notin {"utf8", "body"}
    BY <1>3, <2>3, <2>4, <2>5, <2>8 DEF ReadMultipart, l, left, lost
  <2> QED BY <2>6, <2>7, <2>8
<1> QED BY <1>2, <1>3

LEMMA SkipType ==
  ASSUME NEW r \in Req, r.skip > 0
  PROVE  Skip(r).req \in Req /\ Skip(r).tag \in Tags
<1>1. /\ r.skip \in Nat /\ r.buff \in Seq(Token) /\ Len(r.buff) \in Nat
      /\ r.skip - Len(r.buff) \in Int /\ 0 \in Int /\ <<>> \in Seq(Token)
  BY FieldsOfReq
<1>2. ASSUME Len(r.buff) >= r.skip
      PROVE  [r EXCEPT !.buff = Drop(@, r.skip), !.skip = 0] \in Req
  <2>1. Drop(r.buff, r.skip) \in Seq(Token)
    BY <1>1, <1>2, DropSeq
  <2> QED BY <1>1, <2>1, Zenon DEF Req
<1>3. [r EXCEPT !.buff = <<>>, !.skip = @ - Len(r.buff)] \in Req
  BY <1>1, Zenon DEF Req
<1> QED BY <1>2, <1>3 DEF Skip, Result, Tags

LEMMA BlockType ==
  ASSUME NEW r \in Req, NEW luck
  PROVE  ReadBlock(r, luck).req \in Req /\ ReadBlock(r, luck).tag \in Tags
<1>1. ASSUME NEW h \in Req PROVE ReadBody(h, luck).req \in Req /\ ReadBody(h, luck).tag \in Tags
  BY <1>1, WholeType, MultipartType DEF ReadBody, Result, Tags
<1> QED BY <1>1, HeadType, SkipType DEF ReadBlock

\* A handler is called for the request that was read.
LEMMA SeenType ==
  ASSUME NEW r \in Req
  PROVE  Seen(r) \in Call /\ Reset(r) \in Req
BY FieldsOfReq, EmptyIsReq DEF Seen, Call, Reset

LEMMA TypeStep ==
  ASSUME Typed, Responds, [Next]_vars
  PROVE  Typed'
<1> USE DEF Typed, clientVars
<1>1. ASSUME NEW s \in Shape, ClientSend(s) PROVE Typed'
  <2> DEFINE m == [n |-> Len(sent) + 1, shape |-> s]
  <2>1. m \in Message
    BY <1>1, ConnAssumption DEF ClientSend, ConnAssumption, Message
  <2>2. Bytes(m) \in Seq(Token)
    BY <2>1, BytesAre
  <2>3. sent' = Append(sent, m) /\ wire' = wire \o Bytes(m)
    BY <1>1 DEF ClientSend
  <2> HIDE DEF m
  <2>4. sent' \in Seq(Message) /\ wire' \in Seq(Token)
    BY <2>1, <2>2, <2>3
  <2> QED BY <1>1, <2>4 DEF ClientSend
<1>2. ASSUME NEW len \in 1..BlockSize, Read(len) PROVE Typed'
  <2>1. len \in 0..Len(wire)
    BY <1>2, ConnAssumption DEF Read, ConnAssumption
  <2>2. Take(wire, len) \in Seq(Token) /\ Drop(wire, len) \in Seq(Token)
    BY <2>1, DropSeq, TakeSeq
  <2>3. req.buff \o Take(wire, len) \in Seq(Token)
    BY <2>2, FieldsOfReq
  <2>4. req' \in Req
    <3>1. req' = [req EXCEPT !.buff = req.buff \o Take(wire, len)]
      BY <1>2 DEF Read, Add
    <3> QED BY <2>3, <3>1, Zenon DEF Req
  <2>5. broken' \subseteq Message
    <3>1. wire[len] \in Token
      BY <1>2 DEF Read
    <3>2. wire[len].msg \in Message
      BY <3>1 DEF Token
    <3>3. broken' = broken \cup (IF LeavesBroken(wire[len]) THEN {wire[len].msg} ELSE {})
      BY <1>2 DEF Read
    <3> HIDE DEF LeavesBroken
    <3> QED BY <3>2, <3>3
  <2> QED BY <1>2, <2>2, <2>4, <2>5 DEF Read
<1>3. ASSUME ReadEnds \/ RespondFails \/ RefuseFails PROVE Typed'
  <2>1. calls' \in [connect : Nat, disconnect : Nat]
    BY <1>3 DEF ReadEnds, RespondFails, RefuseFails, Disconnect
  <2> QED BY <1>3, <2>1 DEF ReadEnds, RespondFails, RefuseFails, Disconnect
<1>4. \A luck : ReadBlock(req, luck).req \in Req
  BY BlockType
<1>5. ASSUME NEW luck, ParseRequest(luck) PROVE Typed'
  <2>1. Seen(ReadBlock(req, luck).req) \in Call /\ req' \in Req
    BY <1>4, <1>5, SeenType DEF ParseRequest
  <2>2. dispatched' \in Seq(Call)
    BY <1>5, <2>1 DEF ParseRequest
  <2>3. calls' \in [connect : Nat, disconnect : Nat]
    BY <1>5 DEF ParseRequest
  <2> QED BY <1>5, <2>1, <2>2, <2>3 DEF ParseRequest
<1>6. ASSUME NEW luck, ParseMore(luck) PROVE Typed'
  BY <1>4, <1>6 DEF ParseMore
<1>7. ASSUME NEW luck, ParseInvalid(luck) PROVE Typed'
  <2>1. calls' \in [connect : Nat, disconnect : Nat]
    BY <1>7 DEF ParseInvalid, Disconnect
  <2> QED BY <1>4, <1>7, <2>1 DEF ParseInvalid, Disconnect
<1>8. ASSUME NEW luck, ParseRefused(luck) \/ ParsePanics(luck) PROVE Typed'
  BY <1>4, <1>8 DEF ParseRefused, ParsePanics
<1>9. CASE Respond
  <2>1. dispatched[Len(dispatched)] \in Call
    BY <1>9 DEF Respond, Responds
  <2>2. [msg |-> dispatched[Len(dispatched)].msg, by |-> "handler"] \in Answer
    BY <2>1 DEF Call, Answer
  <2>3. answers' \in Seq(Answer)
    BY <1>9, <2>2 DEF Respond
  <2> QED BY <1>9, <2>3 DEF Respond, Again
<1>10. CASE Refuse
  <2>1. [msg |-> req.msg, by |-> "409"] \in Answer
    BY FieldsOfReq DEF Answer
  <2>2. answers' \in Seq(Answer)
    BY <1>10, <2>1 DEF Refuse
  <2> QED BY <1>10, <2>2 DEF Refuse, Again
<1>11. ASSUME UNCHANGED vars PROVE Typed'
  BY <1>11 DEF vars
<1> QED BY <1>1, <1>2, <1>3, <1>5, <1>6, <1>7, <1>8, <1>9, <1>10, <1>11 DEF Next, Parse

-----------------------------------------------------------------------------
(* "_connect" and "_disconnect". *)

LEMMA PairsStep ==
  ASSUME Typed, ConnectPairsWithDisconnect, Remembers, Responds, [Next]_vars
  PROVE  ConnectPairsWithDisconnect' /\ Remembers' /\ Responds'
<1> USE DEF ConnectPairsWithDisconnect, Remembers, Responds
<1>1. ASSUME NEW luck, ParseRequest(luck)
      PROVE  ConnectPairsWithDisconnect' /\ Remembers' /\ Responds'
  <2>1. Seen(ReadBlock(req, luck).req) \in Call
    BY BlockType, SeenType DEF Typed
  <2>2. dispatched' /= <<>> /\ (lastCtx <=> dispatched /= <<>>) /\ lastCtx' = TRUE
    BY <1>1, <2>1 DEF ParseRequest, Typed
  <2>3. calls' = (IF lastCtx THEN calls ELSE [calls EXCEPT !.connect = @ + 1])
        /\ at = "parse" /\ at' = "respond"
    BY <1>1 DEF ParseRequest
  <2> QED BY <2>2, <2>3 DEF Typed
<1>3. ASSUME NEW luck, ReadEnds \/ RespondFails \/ RefuseFails \/ ParseInvalid(luck)
      PROVE  ConnectPairsWithDisconnect' /\ Remembers' /\ Responds'
  <2>1. /\ at \in {"read", "parse", "respond", "refuse"} /\ at' = "closed"
        /\ calls' = IF lastCtx THEN [calls EXCEPT !.disconnect = @ + 1] ELSE calls
        /\ UNCHANGED <<lastCtx, dispatched>>
    BY <1>3 DEF ReadEnds, RespondFails, RefuseFails, ParseInvalid, Disconnect
  <2> QED BY <2>1 DEF Typed
<1>4. ASSUME NEW luck,
             \/ \E len \in 1..BlockSize : Read(len)
             \/ ParseMore(luck) \/ ParseRefused(luck) \/ ParsePanics(luck) \/ Respond \/ Refuse
      PROVE  /\ at /= "closed" /\ at' \in {"read", "parse", "refuse", "panicked"}
             /\ UNCHANGED <<lastCtx, dispatched, calls>>
  BY <1>4 DEF Read, ParseMore, ParseRefused, ParsePanics, Respond, Refuse, Again
<1>5. ASSUME (\E s \in Shape : ClientSend(s)) \/ UNCHANGED vars
      PROVE  UNCHANGED <<at, lastCtx, dispatched, calls>>
  BY <1>5 DEF ClientSend, vars
<1> QED BY <1>1, <1>3, <1>4, <1>5 DEF Next, Parse

-----------------------------------------------------------------------------
(* The bytes of a sequence. *)

LEMMA TotalIsNat ==
  ASSUME NEW all \in Seq(Message), NEW k \in 1..Len(all)
  PROVE  all[k] \in Message /\ Total(all[k]) \in Nat /\ Total(all[k]) = 4 + BodyLen[all[k].shape]
         /\ BodyLen[all[k].shape] \in Nat /\ Total(all[k]) >= 4
<1>1. all[k] \in Message
  OBVIOUS
<1>2. all[k].shape \in Shape
  BY <1>1 DEF Message
<1>3. BodyLen[all[k].shape] \in Nat
  BY <1>2, ReqAssumption DEF ReqAssumption
<1> QED BY <1>1, <1>3 DEF Total

LEMMA HoldsDrop ==
  ASSUME NEW all \in Seq(Message), NEW start \in [1..(Len(all) + 1) -> Nat],
         NEW q \in Seq(Token), NEW from \in Nat, NEW d \in 0..Len(q), Holds(all, start, q, from)
  PROVE  /\ Holds(all, start, Drop(q, d), from + d)
         /\ (from + d) + Len(Drop(q, d)) = from + Len(q)
<1>0. (from + d) + Len(Drop(q, d)) = from + Len(q)
  <2>1. Len(Drop(q, d)) = Len(q) - d /\ Len(q) \in Nat /\ d \in Nat
    BY DropSeq
  <2> QED BY <2>1
<1> SUFFICES ASSUME NEW k \in 1..Len(all), NEW o \in 1..Total(all[k]),
                    start[k] + o - (from + d) \in 1..Len(Drop(q, d))
             PROVE  Drop(q, d)[start[k] + o - (from + d)] = Byte(all[k], o)
  BY <1>0 DEF Holds
<1> DEFINE j == start[k] + o - (from + d)
<1>1. start[k] \in Nat /\ o \in Nat /\ d \in Nat /\ Len(q) \in Nat
  BY TotalIsNat
<1>2. Len(Drop(q, d)) = Len(q) - d /\ \A i \in 1..(Len(q) - d) : Drop(q, d)[i] = q[d + i]
  BY DropSeq
<1>3. d + j = start[k] + o - from /\ d + j \in 1..Len(q)
  BY SMTT(30), <1>1, <1>2
<1>4. q[d + j] = Byte(all[k], o)
  BY <1>3 DEF Holds
<1> QED BY <1>2, <1>4

LEMMA HoldsTake ==
  ASSUME NEW all \in Seq(Message), NEW start \in [1..(Len(all) + 1) -> Nat],
         NEW q \in Seq(Token), NEW from \in Nat, NEW d \in 0..Len(q), Holds(all, start, q, from)
  PROVE  Holds(all, start, Take(q, d), from)
<1>1. Len(Take(q, d)) = d /\ \A j \in 1..d : Take(q, d)[j] = q[j]
  BY TakeSeq
<1>2. \A j \in 1..d : j \in 1..Len(q)
  OBVIOUS
<1> QED BY <1>1, <1>2 DEF Holds

LEMMA HoldsConcat ==
  ASSUME NEW all \in Seq(Message), NEW start \in [1..(Len(all) + 1) -> Nat],
         NEW p \in Seq(Token), NEW q \in Seq(Token), NEW from \in Nat,
         Holds(all, start, p, from), Holds(all, start, q, from + Len(p))
  PROVE  Holds(all, start, p \o q, from)
<1> SUFFICES ASSUME NEW k \in 1..Len(all), NEW o \in 1..Total(all[k]),
                    start[k] + o - from \in 1..Len(p \o q)
             PROVE  (p \o q)[start[k] + o - from] = Byte(all[k], o)
  BY DEF Holds
<1> DEFINE j == start[k] + o - from
<1>1. start[k] \in Nat /\ o \in Nat /\ Len(p) \in Nat /\ Len(q) \in Nat
  BY SMTT(30), TotalIsNat
<1>2. /\ Len(p \o q) = Len(p) + Len(q)
      /\ \A i \in 1..(Len(p) + Len(q)) : (p \o q)[i] = IF i <= Len(p) THEN p[i] ELSE q[i - Len(p)]
  BY ConcatProperties
<1>3. CASE j <= Len(p)
  <2>1. j \in 1..Len(p)
    BY <1>1, <1>2, <1>3
  <2>2. p[j] = Byte(all[k], o)
    BY <2>1 DEF Holds
  <2> QED BY <1>2, <1>3, <2>2
<1>4. CASE j > Len(p)
  <2>1. j - Len(p) = start[k] + o - (from + Len(p)) /\ j - Len(p) \in 1..Len(q)
    BY SMTT(30), <1>1, <1>2, <1>4
  <2>2. q[j - Len(p)] = Byte(all[k], o)
    BY <2>1 DEF Holds
  <2>3. j \in 1..(Len(p) + Len(q)) /\ ~(j <= Len(p))
    BY <1>1, <1>2, <1>4
  <2> QED BY <1>2, <2>2, <2>3
<1>5. j <= Len(p) \/ j > Len(p)
  BY <1>1
<1> QED BY <1>3, <1>4, <1>5

\* The first byte of q, if what comes before it ends inside a request.
LEMMA HoldsFirst ==
  ASSUME NEW all \in Seq(Message), NEW start \in [1..(Len(all) + 1) -> Nat],
         NEW q \in Seq(Token), q /= <<>>, NEW k \in 1..Len(all), NEW o \in Nat,
         o < Total(all[k]), NEW from, from = start[k] + o, Holds(all, start, q, from)
  PROVE  q[1] = Byte(all[k], o + 1)
<1>1. start[k] \in Nat /\ Total(all[k]) \in Nat /\ Len(q) \in Nat /\ Len(q) > 0
  BY TotalIsNat
<1>2. start[k] + (o + 1) - from = 1 /\ 1 \in 1..Len(q) /\ o + 1 \in 1..Total(all[k])
  BY <1>1
<1> QED BY <1>2 DEF Holds

\* Where there are bytes there is a request they belong to.
LEMMA RequestThere ==
  ASSUME NEW all \in Seq(Message), NEW start, Starts(all, start),
         NEW q \in Seq(Token), q /= <<>>, NEW from \in Nat,
         from + Len(q) <= start[Len(all) + 1], NEW n \in 0..Len(all), start[n + 1] <= from
  PROVE  n < Len(all)
<1>1. Len(q) \in Nat /\ Len(q) > 0 /\ Len(all) \in Nat
  OBVIOUS
<1>2. start[Len(all) + 1] \in Nat
  BY <1>1 DEF Starts
<1>3. CASE n = Len(all)
  BY <1>1, <1>2, <1>3
<1> QED BY <1>1, <1>3

-----------------------------------------------------------------------------
(* The head of a request. *)

\* The reader of the part of the head that comes next.
Part(r) == CASE r.stage = 0 -> ReadMethod(r)
             [] r.stage = 1 -> ReadPath(r)
             [] r.stage = 2 -> ReadProtocol(r)
             [] r.stage = 3 -> ReadHeaders(r)

\* What is read of the head moves on by a part, and keeps the rest.
LEMMA StageMoves ==
  ASSUME NEW r \in Req, NEW m, m = Head(r.buff).msg,
         NEW s, s = Part(r),
         r.stage \in {0, 1, 2, 3}
  PROVE  /\ s.tag /= "none"
         /\ s.tag = "some" =>
              /\ s.req.buff = Tail(r.buff) /\ s.req.stage = r.stage + 1 /\ s.req.size = r.size
              /\ s.req.skip = r.skip /\ s.req.body = r.body /\ s.req.lost = r.lost
              /\ r.stage = 0 => (s.req.hasBody <=> BodyType[m.shape] = "none")
              /\ r.stage > 0 => s.req.hasBody = r.hasBody
              /\ r.stage = 1 => s.req.msg = <<m>>
              /\ r.stage > 1 => s.req.msg = r.msg
              /\ r.stage = 3 => s.req.length = BodyLen[m.shape]
<1>0. \A tag, q : Result(tag, q).tag = tag /\ Result(tag, q).req = q
  BY DEF Result
<1>1. CASE r.stage = 0
  <2> DEFINE e == [r EXCEPT !.stage = 1, !.buff = Tail(@),
                            !.hasBody = BodyType[m.shape] = "none"]
  <2>1. /\ e.buff = Tail(r.buff) /\ e.stage = 1 /\ e.size = r.size /\ e.skip = r.skip
        /\ e.lost = r.lost /\ e.body = r.body /\ (e.hasBody <=> BodyType[m.shape] = "none")
    BY DEF Req
  <2>2. ReadMethod(r) = Result("some", e)
    BY Zenon DEF ReadMethod
  <2> HIDE DEF e
  <2>3. s = ReadMethod(r)
    BY <1>1 DEF Part
  <2>4. s.tag = "some" /\ s.req = e
    BY <1>0, <2>2, <2>3
  <2> QED BY <1>1, <2>1, <2>4
<1>2. CASE r.stage = 1
  <2> DEFINE e == [r EXCEPT !.stage = 2, !.buff = Tail(@), !.msg = <<m>>]
  <2>1. /\ e.buff = Tail(r.buff) /\ e.stage = 2 /\ e.size = r.size /\ e.skip = r.skip
        /\ e.lost = r.lost /\ e.body = r.body /\ e.hasBody = r.hasBody /\ e.msg = <<m>>
    BY DEF Req
  <2>2. ASSUME Fault[m.shape] \notin {"query", "querykeys"} PROVE ReadPath(r) = Result("some", e)
    BY <2>2, Zenon DEF ReadPath
  <2>3. ASSUME Fault[m.shape] \in {"query", "querykeys"}
        PROVE  ReadPath(r) = Result("refused", r) \/ ReadPath(r) = Result("panics", r)
    BY <2>3, Zenon DEF ReadPath
  <2> HIDE DEF e
  <2>4. s = ReadPath(r)
    BY <1>2 DEF Part
  <2>5. s.tag \in {"some", "refused", "panics"} /\ (s.tag = "some" => s.req = e)
    BY <1>0, <2>2, <2>3, <2>4
  <2> QED BY <1>2, <2>1, <2>5
<1>3. CASE r.stage = 2
  <2> DEFINE e == [r EXCEPT !.stage = 3, !.buff = Tail(@)]
  <2>1. /\ e.buff = Tail(r.buff) /\ e.stage = 3 /\ e.size = r.size /\ e.skip = r.skip
        /\ e.lost = r.lost /\ e.body = r.body /\ e.hasBody = r.hasBody /\ e.msg = r.msg
    BY DEF Req
  <2>2. ReadProtocol(r) = Result("some", e)
    BY Zenon DEF ReadProtocol
  <2> HIDE DEF e
  <2>3. s = ReadProtocol(r)
    BY <1>3 DEF Part
  <2>4. s.tag = "some" /\ s.req = e
    BY <1>0, <2>2, <2>3
  <2> QED BY <1>3, <2>1, <2>4
<1>4. CASE r.stage = 3
  <2> DEFINE e == [r EXCEPT !.stage = 4, !.buff = Tail(@), !.length = BodyLen[m.shape]]
  <2>1. /\ e.buff = Tail(r.buff) /\ e.stage = 4 /\ e.size = r.size /\ e.skip = r.skip
        /\ e.lost = r.lost /\ e.body = r.body /\ e.hasBody = r.hasBody /\ e.msg = r.msg
        /\ e.length = BodyLen[m.shape]
    BY DEF Req
  <2>2. ASSUME Fault[m.shape] \notin {"chunked", "cookie"} PROVE ReadHeaders(r) = Result("some", e)
    BY <2>2, Zenon DEF ReadHeaders
  <2>3. ASSUME Fault[m.shape] \in {"chunked", "cookie"}
        PROVE  ReadHeaders(r) = Result("invalid", r) \/ ReadHeaders(r) = Result("panics", r)
    BY <2>3, Zenon DEF ReadHeaders
  <2> HIDE DEF e
  <2>4. s = ReadHeaders(r)
    BY <1>4 DEF Part
  <2>5. s.tag \in {"some", "invalid", "panics"} /\ (s.tag = "some" => s.req = e)
    BY <1>0, <2>2, <2>3, <2>4
  <2> QED BY <1>4, <2>1, <2>5
<1> QED BY <1>1, <1>2, <1>3, <1>4

\* A stage that is read moves the parser one byte on, in the request it is in.
LEMMA StageReads ==
  ASSUME NEW B, NEW all \in Seq(Message), NEW start, Starts(all, start),
         NEW from \in Nat, NEW upto \in Nat, upto <= start[Len(all) + 1],
         NEW n \in Nat, NEW r \in Req, r.stage < 4, Reading(all, start, from, upto, r, n, B),
         NEW s, s = ReadStage(r)
  PROVE  /\ s.tag = "none" => s.req = r /\ r.buff = <<>>
         /\ s.tag = "some" => /\ s.req.stage = r.stage + 1
                              /\ Reading(all, start, from + 1, upto, s.req, n, B)
<1> USE DEF Result
<1>1. /\ r.buff \in Seq(Token) /\ r.stage \in {0, 1, 2, 3} /\ r.size = 0 /\ Len(all) \in Nat
      /\ start \in [1..(Len(all) + 1) -> Nat]
  BY FieldsOfReq DEF Starts, Reading, Notes
<1>2. CASE r.buff = <<>>
  BY <1>2 DEF ReadStage
<1>3. ASSUME r.buff /= <<>>, n \in 1..Len(all), r.stage = 0, from = start[n] + 4,
             BodyLen[all[n].shape] > 0
      PROVE  s.tag = "invalid"
  <2>1. r.buff[1] = Byte(all[n], 5)
    <3>1. 4 \in Nat /\ 4 < Total(all[n])
      BY <1>3, TotalIsNat
    <3>2. Holds(all, start, r.buff, from)
      BY DEF Reading
    <3>3. n \in 1..Len(all) /\ r.buff /= <<>> /\ from = start[n] + 4
      BY <1>3
    <3>4. r.buff \in Seq(Token) /\ start \in [1..(Len(all) + 1) -> Nat]
      BY <1>1
    <3>5. r.buff[1] = Byte(all[n], 4 + 1)
      BY ZenonT(40), <3>1, <3>2, <3>3, <3>4, HoldsFirst
    <3> QED BY <3>5
  <2>2. Head(r.buff).kind /= Stages[r.stage + 1]
    BY <1>1, <1>3, <2>1, FirstByte DEF Byte, Stages
  <2> QED BY <1>3, <2>2 DEF ReadStage
<1>4. ASSUME r.buff /= <<>>, n \in 0..Len(all), from = start[n + 1] + r.stage + r.size,
             s.tag = "some"
      PROVE  s.req.stage = r.stage + 1 /\ Reading(all, start, from + 1, upto, s.req, n, B)
  <2> DEFINE m == all[n + 1]
  <2>1. n < Len(all)
    <3>1. start[n + 1] \in Nat /\ start[n + 1] <= from
      BY SMTT(30), <1>1, <1>4
    <3>2. from + Len(r.buff) = upto
      BY DEF Reading
    <3> QED BY <1>1, <1>4, <3>1, <3>2, RequestThere
  <2>2. Head(r.buff).msg = m
    <3>1. r.buff[1] = Byte(m, r.stage + 1)
      <4>1. n + 1 \in 1..Len(all) /\ r.stage \in Nat /\ r.stage < Total(m)
        <5>1. n + 1 \in 1..Len(all)
          BY <1>1, <1>4, <2>1
        <5> QED BY <1>1, <5>1, TotalIsNat
      <4>2. Holds(all, start, r.buff, from) /\ from = start[n + 1] + r.stage
        BY SMTT(30), <1>1, <1>4 DEF Reading
      <4>3. r.buff \in Seq(Token) /\ r.buff /= <<>> /\ start \in [1..(Len(all) + 1) -> Nat]
        BY <1>1, <1>4
      <4> QED BY ZenonT(40), <4>1, <4>2, <4>3, HoldsFirst
    <3>2. Byte(m, r.stage + 1).msg = m
      BY <1>1 DEF Byte
    <3> QED BY <1>1, <1>4, <3>1, <3>2, FirstByte
  <2>3. s = Part(r)
    BY <1>4 DEF ReadStage, Cleared, Part
  <2>4. /\ s.req.buff = Tail(r.buff) /\ s.req.stage = r.stage + 1 /\ s.req.size = r.size
        /\ s.req.skip = r.skip /\ s.req.body = r.body /\ s.req.lost = r.lost
        /\ r.stage = 0 => (s.req.hasBody <=> BodyType[m.shape] = "none")
        /\ r.stage > 0 => s.req.hasBody = r.hasBody
        /\ r.stage = 1 => s.req.msg = <<m>>
        /\ r.stage > 1 => s.req.msg = r.msg
        /\ r.stage = 3 => s.req.length = BodyLen[m.shape]
    <3> HIDE DEF m
    <3>1. r.stage \in {0, 1, 2, 3} /\ s.tag = "some" /\ m = Head(r.buff).msg
      BY <1>1, <1>4, <2>2
    <3> HIDE DEF Result
    <3> QED BY <2>3, <3>1, StageMoves, SMTT(20)
  <2>5. Holds(all, start, s.req.buff, from + 1) /\ from + 1 + Len(s.req.buff) = upto
    <3>1. Tail(r.buff) = Drop(r.buff, 1) /\ 1 \in 0..Len(r.buff)
      BY <1>1, <1>4, TailIsSubSeq DEF Drop
    <3>2. Holds(all, start, r.buff, from) /\ from + Len(r.buff) = upto
      BY DEF Reading
    <3>3. /\ Holds(all, start, Drop(r.buff, 1), from + 1)
          /\ (from + 1) + Len(Drop(r.buff, 1)) = from + Len(r.buff)
      <4>1. r.buff \in Seq(Token) /\ start \in [1..(Len(all) + 1) -> Nat]
        BY <1>1
      <4> QED BY ZenonT(40), <3>1, <3>2, <4>1, HoldsDrop
    <3>4. s.req.buff = Drop(r.buff, 1)
      BY <2>4, <3>1
    <3> QED BY <3>2, <3>3, <3>4, Zenon
  <2>6. Place(all, start, from + 1, s.req, n)
    <3>1. start[n + 1] \in Nat
      BY <1>1, <1>4
    <3>2. from + 1 = start[n + 1] + s.req.stage + s.req.size
      BY SMTT(30), <1>1, <1>4, <2>4, <3>1
    <3> QED BY <1>4, <3>2 DEF Place
  <2>7. Notes(all, s.req, n, B)
    BY <1>1, <2>1, <2>4 DEF Reading, Notes
  <2> QED BY <2>4, <2>5, <2>6, <2>7 DEF Reading
<1>5. ASSUME r.buff /= <<>> PROVE s.tag /= "none"
  <2>1. CASE Head(r.buff).kind /= Stages[r.stage + 1]
    BY <1>5, <2>1 DEF ReadStage
  <2>2. CASE Head(r.buff).kind = Stages[r.stage + 1]
    <3>1. s = Part(r)
      BY ZenonT(40), <1>5, <2>2 DEF ReadStage, Part
    <3> QED BY SMTT(30), <1>1, <3>1, StageMoves
  <2> QED BY <2>1, <2>2
<1>6. Place(all, start, from, r, n)
  BY DEF Reading
<1> QED BY <1>2, <1>3, <1>4, <1>5, <1>6 DEF Place

\* The head is read as far as its bytes are there.
LEMMA HeadReads ==
  ASSUME NEW B, NEW all \in Seq(Message), NEW start, Starts(all, start),
         NEW from \in Nat, NEW upto \in Nat, upto <= start[Len(all) + 1],
         NEW n \in Nat, NEW r \in Req, Reading(all, start, from, upto, r, n, B),
         NEW h, h = ReadHead(r), h.tag \in {"some", "none"}
  PROVE  /\ \E f \in Nat : Reading(all, start, f, upto, h.req, n, B)
         /\ h.tag = "some" => h.req.stage = 4
         /\ h.tag = "none" => h.req.stage < 4 /\ h.req.buff = <<>>
<1> DEFINE Ok(t) ==
      /\ t.req \in Req /\ t.tag \in Tags
      /\ t.tag \in {"some", "none"} => \E f \in Nat : Reading(all, start, f, upto, t.req, n, B)
      /\ t.tag = "none" => t.req.stage < 4 /\ t.req.buff = <<>>
<1>1. ASSUME NEW t, Ok(t), NEW k \in 0..3, t.tag = "some" => t.req.stage >= k
      PROVE  Ok(Turn(t)) /\ (Turn(t).tag = "some" => Turn(t).req.stage >= k + 1)
  <2>1. CASE t.tag = "some" /\ t.req.stage < 4
    <3> DEFINE s == ReadStage(t.req)
    <3>1. PICK f \in Nat : Reading(all, start, f, upto, t.req, n, B)
      BY <1>1, <2>1
    <3>2. s.req \in Req /\ s.tag \in Tags
      BY <1>1, <2>1, StageType
    <3>3. /\ s.tag = "none" => s.req = t.req /\ t.req.buff = <<>>
          /\ s.tag = "some" => /\ s.req.stage = t.req.stage + 1
                               /\ Reading(all, start, f + 1, upto, s.req, n, B)
      BY <1>1, <2>1, <3>1, StageReads
    <3>4. Turn(t) = s
      BY <2>1 DEF Turn
    <3> HIDE DEF s
    <3>5. Ok(s)
      BY <2>1, <3>1, <3>2, <3>3
    <3>6. t.req.stage \in Nat
      <4>1. t.req \in Req
        BY <1>1
      <4>2. t.req.stage \in 0..4
        BY <4>1, FieldsOfReq
      <4> QED BY <4>2
    <3> QED BY SMTT(30), <1>1, <2>1, <3>3, <3>4, <3>5, <3>6
  <2>2. CASE ~(t.tag = "some" /\ t.req.stage < 4)
    <3>1. Turn(t) = t /\ t.req.stage \in 0..4
      BY <1>1, <2>2, FieldsOfReq DEF Turn
    <3> QED BY <1>1, <2>2, <3>1
  <2> QED BY <2>1, <2>2
<1>2. Ok(Result("some", r)) /\ r.stage >= 0
  BY FieldsOfReq DEF Result, Tags
<1> HIDE DEF Ok
<1>3. Ok(h) /\ (h.tag = "some" => h.req.stage >= 4)
  <2> DEFINE a == Result("some", r)
             b == Turn(a)
             c == Turn(b)
             d == Turn(c)
  <2>1. a.req.stage >= 0 /\ Ok(a)
    BY <1>2 DEF Result
  <2> HIDE DEF a
  <2>2. Ok(b) /\ (b.tag = "some" => b.req.stage >= 1)
    BY <1>1, <2>1
  <2> HIDE DEF b
  <2>3. Ok(c) /\ (c.tag = "some" => c.req.stage >= 2)
    BY <1>1, <2>2
  <2> HIDE DEF c
  <2>4. Ok(d) /\ (d.tag = "some" => d.req.stage >= 3)
    BY <1>1, <2>3
  <2>5. h = Turn(d)
    BY HeadIsTurns DEF a, b, c
  <2> HIDE DEF d
  <2> QED BY <1>1, <2>4, <2>5
<1>4. h.req \in Req
  BY <1>3 DEF Ok
<1>5. h.req.stage \in 0..4
  BY <1>4, FieldsOfReq
<1>6. h.tag = "some" => h.req.stage = 4
  BY <1>3, <1>5
<1> QED BY <1>3, <1>6 DEF Ok

-----------------------------------------------------------------------------
(* The body of a request. *)

\* Request n + 1 is read: it is the one that was sent, and the parser goes on after it.
Done(all, start, upto, r, n, B) ==
  /\ n < Len(all) /\ r.msg = <<all[n + 1]>>
  /\ r.body = Expected(all[n + 1]) \/ (all[n + 1] \in B /\ r.body = <<>>)
  /\ \E f \in Nat : Reading(all, start, f, upto, Reset(r), n + 1, B)

LEMMA ResetReads ==
  ASSUME NEW B, NEW all \in Seq(Message), NEW start, Starts(all, start), NEW upto \in Nat,
         NEW n \in Nat, n < Len(all), NEW f \in Nat, NEW r, r.buff \in Seq(Token),
         Holds(all, start, r.buff, f), f + Len(r.buff) = upto,
         f = start[n + 1] + 4 \/ f = start[n + 1] + 4 + BodyLen[all[n + 1].shape]
  PROVE  Reading(all, start, f, upto, Reset(r), n + 1, B)
<1> DEFINE e == Reset(r)
           k == n + 1
<1>1. /\ e.buff = r.buff /\ e.stage = 0 /\ e.size = 0 /\ e.skip = 0 /\ e.body = <<>>
      /\ e.length = 0 /\ ~e.lost
  BY DEF Reset, Empty
<1>2. k \in 1..Len(all) /\ k \in 0..Len(all) /\ k \in 1..(Len(all) + 1)
  OBVIOUS
<1> HIDE DEF e, k
<1>3. /\ start[k + 1] = start[k] + Total(all[k]) /\ start[k] \in Nat /\ start[k + 1] \in Nat
      /\ Total(all[k]) = 4 + BodyLen[all[k].shape] /\ BodyLen[all[k].shape] \in Nat
  <2>1. start[k + 1] = start[k] + Total(all[k]) /\ start[k] \in Nat
    BY <1>2 DEF Starts
  <2> QED BY SMTT(30), <1>2, <2>1, TotalIsNat
<1>4. f = start[k] + 4 \/ f = start[k] + 4 + BodyLen[all[k].shape]
  BY DEF k
<1>5. Place(all, start, f, e, k)
  <2>1. CASE f = start[k + 1]
    <3>1. f = start[k + 1] + e.stage + e.size
      BY <1>1, <1>3, <2>1
    <3> QED BY <1>2, <3>1 DEF Place
  <2>2. CASE f = start[k] + 4 /\ BodyLen[all[k].shape] > 0
    BY <1>1, <1>2, <2>2 DEF Place
  <2> DEFINE b == BodyLen[all[k].shape]
             a == start[k]
  <2>3. /\ b \in Nat /\ a \in Nat /\ start[k + 1] = a + (4 + b)
        /\ f = a + 4 \/ f = a + 4 + b
    BY <1>3, <1>4
  <2> HIDE DEF a, b
  <2>4. f = start[k + 1] \/ (f = a + 4 /\ b > 0)
    BY <2>3
  <2> QED BY <2>1, <2>2, <2>4 DEF a, b
<1>6. Notes(all, e, k, B)
  BY <1>1 DEF Notes
<1> QED BY <1>1, <1>5, <1>6 DEF Reading, e, k

\* What is known of a parser that has read the head of request n + 1.
HeadRead(all, start, from, upto, r, n, B) ==
  /\ n < Len(all) /\ n + 1 \in 1..Len(all) /\ all[n + 1] \in Message
  /\ r.msg = <<all[n + 1]>> /\ r.body = <<>> /\ r.skip = 0
  /\ r.length = BodyLen[all[n + 1].shape] /\ r.length \in Nat /\ r.size \in Nat
  /\ r.size > 0 => BodyType[all[n + 1].shape] = "multipart" /\ r.size < r.length
  /\ BodyType[all[n + 1].shape] = "multipart" => r.length > 0
  /\ r.lost \/ r.size \in Cut[all[n + 1].shape].broken => all[n + 1] \in B
  /\ start \in [1..(Len(all) + 1) -> Nat] /\ start[n + 1] \in Nat
  /\ from = start[n + 1] + 4 + r.size
  /\ r.buff \in Seq(Token) /\ Len(r.buff) \in Nat
  /\ Holds(all, start, r.buff, from) /\ from + Len(r.buff) = upto

LEMMA HeadIsRead ==
  ASSUME NEW B, NEW all \in Seq(Message), NEW start, Starts(all, start),
         NEW from \in Nat, NEW upto \in Nat, NEW n \in Nat, NEW r \in Req, r.stage = 4,
         Reading(all, start, from, upto, r, n, B)
  PROVE  HeadRead(all, start, from, upto, r, n, B)
<1>1. /\ r.buff \in Seq(Token) /\ r.length \in Nat /\ r.size \in Nat /\ Len(r.buff) \in Nat
  BY FieldsOfReq
<1>2. /\ n < Len(all) /\ r.msg = <<all[n + 1]>> /\ r.body = <<>> /\ r.skip = 0
      /\ r.length = BodyLen[all[n + 1].shape]
      /\ r.size > 0 => BodyType[all[n + 1].shape] = "multipart" /\ r.size < r.length
  BY DEF Reading, Notes
<1>3. n + 1 \in 1..Len(all)
  BY <1>2
<1>4. all[n + 1] \in Message /\ start \in [1..(Len(all) + 1) -> Nat] /\ start[n + 1] \in Nat
  BY SMTT(30), <1>3 DEF Starts
<1>5. from = start[n + 1] + 4 + r.size
  BY DEF Reading, Place
<1>6. Holds(all, start, r.buff, from) /\ from + Len(r.buff) = upto
  BY DEF Reading
<1>7. all[n + 1].shape \in Shape
  BY <1>4 DEF Message
<1>8. BodyType[all[n + 1].shape] = "multipart" => r.length > 0
  BY <1>2, <1>7, ReqAssumption DEF ReqAssumption
<1>9. r.lost \/ r.size \in Cut[all[n + 1].shape].broken => all[n + 1] \in B
  <2>1. Cut[all[n + 1].shape].broken \subseteq Nat \ {0}
    BY <1>7, ReqAssumption DEF ReqAssumption, Cuts
  <2>2. r.lost \/ (r.size > 0 /\ r.size \in Cut[all[n + 1].shape].broken) => all[n + 1] \in B
    BY DEF Reading, Notes
  <2> QED BY <1>1, <2>1, <2>2
<1> QED BY <1>1, <1>2, <1>3, <1>4, <1>5, <1>6, <1>8, <1>9 DEF HeadRead

\* A request without a body, or with one of a type that is not read.
LEMMA UnreadBody ==
  ASSUME NEW B, NEW all \in Seq(Message), NEW start, Starts(all, start),
         NEW from \in Nat, NEW upto \in Nat, NEW n \in Nat, NEW r \in Req, r.stage = 4,
         Reading(all, start, from, upto, r, n, B), ~HasReader(all[n + 1])
  PROVE  Done(all, start, upto, r, n, B)
<1>1. /\ n < Len(all) /\ r.msg = <<all[n + 1]>> /\ r.body = <<>>
      /\ r.size > 0 => BodyType[all[n + 1].shape] = "multipart"
      /\ r.size \in Nat /\ start[n + 1] \in Nat /\ from = start[n + 1] + 4 + r.size
      /\ r.buff \in Seq(Token) /\ Holds(all, start, r.buff, from) /\ from + Len(r.buff) = upto
  <2>1. HeadRead(all, start, from, upto, r, n, B)
    BY HeadIsRead
  <2> QED BY <2>1 DEF HeadRead
<1>2. r.size = 0
  BY SMTT(30), <1>1 DEF HasReader
<1>3. from = start[n + 1] + 4
  BY <1>1, <1>2
<1>4. Reading(all, start, from, upto, Reset(r), n + 1, B)
  BY <1>1, <1>3, ResetReads
<1> QED BY <1>1, <1>4 DEF Done, Expected

\* The first byte of a body is of the request whose head was read.
LEMMA BodyFirst ==
  ASSUME NEW B, NEW all \in Seq(Message), NEW start, NEW from \in Nat, NEW upto \in Nat, NEW n \in Nat,
         NEW r, HeadRead(all, start, from, upto, r, n, B), r.buff /= <<>>, r.size < r.length
  PROVE  r.buff[1].msg = all[n + 1]
<1> DEFINE k == n + 1
           q == r.buff
           size == r.size
           length == r.length
<1>1. /\ k \in 1..Len(all) /\ start \in [1..(Len(all) + 1) -> Nat] /\ start[k] \in Nat
      /\ from = start[k] + 4 + size /\ size \in Nat /\ length = BodyLen[all[k].shape]
      /\ q \in Seq(Token) /\ Holds(all, start, q, from) /\ q /= <<>> /\ size < length
  BY DEF HeadRead
<1> HIDE DEF k, q, size, length
<1>2. 4 + size \in Nat /\ from = start[k] + (4 + size)
  BY <1>1
<1>3. 4 + size < Total(all[k])
  <2>1. Total(all[k]) = 4 + length /\ length \in Nat
    BY <1>1, TotalIsNat
  <2> QED BY SMTT(30), <1>1, <2>1
<1>4. q[1] = Byte(all[k], 4 + size + 1)
  BY <1>1, <1>2, <1>3, HoldsFirst
<1>5. Byte(all[k], 4 + size + 1).msg = all[k]
  BY DEF Byte
<1> QED BY <1>4, <1>5 DEF k, q

\* The rest of the body is dropped, and the parser reset.
LEMMA BodyDone ==
  ASSUME NEW B, NEW all \in Seq(Message), NEW start, Starts(all, start),
         NEW from \in Nat, NEW upto \in Nat, NEW n \in Nat,
         NEW r, HeadRead(all, start, from, upto, r, n, B), r.size <= r.length,
         r.length - r.size <= Len(r.buff),
         NEW s, s.buff = Drop(r.buff, r.length - r.size), s.msg = r.msg,
         s.body = Expected(all[n + 1]) \/ (all[n + 1] \in B /\ s.body = <<>>)
  PROVE  Done(all, start, upto, s, n, B)
<1> DEFINE q == r.buff
           size == r.size
           length == r.length
           d == length - size
<1>1. /\ n < Len(all) /\ start \in [1..(Len(all) + 1) -> Nat] /\ start[n + 1] \in Nat
      /\ from = start[n + 1] + 4 + size /\ size \in Nat /\ length \in Nat
      /\ length = BodyLen[all[n + 1].shape] /\ r.msg = <<all[n + 1]>>
      /\ q \in Seq(Token) /\ Len(q) \in Nat
      /\ Holds(all, start, q, from) /\ from + Len(q) = upto
      /\ size <= length /\ length - size <= Len(q) /\ s.buff = Drop(q, d)
  BY DEF HeadRead
<1> HIDE DEF q, size, length
<1>2. d \in 0..Len(q) /\ d \in Nat /\ from + d \in Nat
      /\ from + d = start[n + 1] + 4 + length
  <2> DEFINE a == start[n + 1]
             l == Len(q)
  <2>1. /\ a \in Nat /\ from = a + 4 + size /\ size \in Nat /\ length \in Nat /\ l \in Nat
        /\ size <= length /\ length - size <= l
    BY <1>1
  <2> HIDE DEF a, l
  <2>2. d \in 0..l /\ d \in Nat
    BY <2>1
  <2>3. from + d \in Nat /\ from + d = a + 4 + length
    BY <2>1
  <2> QED BY <2>2, <2>3 DEF a, l
<1> HIDE DEF d
<1>3. Holds(all, start, Drop(q, d), from + d) /\ (from + d) + Len(Drop(q, d)) = from + Len(q)
  <2>1. /\ start \in [1..(Len(all) + 1) -> Nat] /\ q \in Seq(Token)
        /\ d \in 0..Len(q) /\ Holds(all, start, q, from)
    BY <1>1, <1>2
  <2> QED BY <2>1, HoldsDrop, Zenon
<1>4. Drop(q, d) \in Seq(Token)
  BY <1>1, <1>2, DropSeq
<1>5. /\ Holds(all, start, s.buff, from + d) /\ (from + d) + Len(s.buff) = upto
      /\ s.buff \in Seq(Token)
  BY <1>1, <1>3, <1>4
<1>6. Reading(all, start, from + d, upto, Reset(s), n + 1, B)
  BY <1>1, <1>2, <1>5, ResetReads
<1> QED BY <1>1, <1>2, <1>6 DEF Done

\* The text of a body is the body of the request whose head was read.
LEMMA OwnText ==
  ASSUME NEW B, NEW all \in Seq(Message), NEW start, Starts(all, start),
         NEW from \in Nat, NEW upto \in Nat, NEW n \in Nat, NEW r,
         HeadRead(all, start, from, upto, r, n, B), r.size = 0, r.length <= Len(r.buff)
  PROVE  IsOwn(r, Take(r.buff, r.length))
<1> DEFINE m == all[n + 1]
           q == r.buff
           w == r.length
           text == Take(q, w)
<1>1. /\ q \in Seq(Token) /\ w \in Nat /\ Len(q) \in Nat /\ w <= Len(q) /\ w = BodyLen[m.shape]
      /\ r.msg[1] = m /\ n + 1 \in 1..Len(all) /\ start[n + 1] \in Nat
      /\ from = start[n + 1] + 4 /\ Holds(all, start, q, from)
  BY SMTT(30) DEF HeadRead
<1>2. Total(m) = 4 + w
  BY <1>1, TotalIsNat
<1> HIDE DEF q, w
<1>3. text \in Seq(Token) /\ Len(text) = w /\ \A j \in 1..w : text[j] = q[j]
  <2>1. w \in 0..Len(q)
    BY <1>1
  <2> QED BY <1>1, <2>1, TakeSeq
<1>4. ASSUME NEW j \in 1..w PROVE text[j] = [kind |-> "body", msg |-> m, pos |-> j]
  <2> DEFINE a == start[n + 1]
  <2>1. 4 + j \in 1..Total(m) /\ a + (4 + j) - from = j /\ j \in 1..Len(q)
    <3> DEFINE l == Len(q)
               total == Total(m)
    <3>1. /\ a \in Nat /\ w \in Nat /\ l \in Nat /\ w <= l /\ from = a + 4 /\ total = 4 + w
          /\ j \in 1..w
      BY <1>1, <1>2
    <3> HIDE DEF a, l, total
    <3>2. 4 + j \in 1..total /\ a + (4 + j) - from = j /\ j \in 1..l
      BY <3>1
    <3> QED BY <3>2 DEF l, total
  <2>2. q[a + (4 + j) - from] = Byte(m, 4 + j)
    BY <1>1, <2>1 DEF Holds
  <2>3. Byte(m, 4 + j) = [kind |-> "body", msg |-> m, pos |-> j]
    BY DEF Byte
  <2> QED BY <1>3, <2>1, <2>2, <2>3
<1> HIDE DEF text, m
<1>5. text = [j \in 1..w |-> [kind |-> "body", msg |-> m, pos |-> j]]
  <2>1. DOMAIN text = 1..w /\ text = [j \in DOMAIN text |-> text[j]]
    BY <1>3
  <2> QED BY <1>4, <2>1
<1>6. text = Body(m)
  BY <1>1, <1>5 DEF Body, m
<1> QED BY <1>1, <1>6 DEF IsOwn, text, q, w

\* A json text or a form.
LEMMA WholeReads ==
  ASSUME NEW B, NEW all \in Seq(Message), NEW start, Starts(all, start),
         NEW from \in Nat, NEW upto \in Nat, NEW n \in Nat, NEW r \in Req, r.stage = 4,
         HeadRead(all, start, from, upto, r, n, B),
         BodyType[all[n + 1].shape] \in {"json", "form"}, NEW luck, NEW s, s = ReadWhole(r, luck)
  PROVE  /\ s.tag = "none" => s.req = r /\ Waits(r)
         /\ s.tag = "some" => Done(all, start, upto, s.req, n, B)
<1> DEFINE m == all[n + 1]
           text == Take(r.buff, r.length)
           rest == [r EXCEPT !.buff = Drop(@, r.length), !.size = r.length]
           form == [rest EXCEPT !.hasBody = TRUE]
           body == [rest EXCEPT !.hasBody = TRUE, !.body = IF IsOwn(r, text) THEN r.msg ELSE <<>>]
<1>1. /\ r.msg[1] = m /\ r.body = <<>> /\ r.size = 0 /\ r.length \in Nat /\ Len(r.buff) \in Nat
      /\ r.length = BodyLen[m.shape] /\ r.buff \in Seq(Token) /\ HasReader(m) /\ r.msg = <<m>>
  BY SMTT(30) DEF HeadRead, HasReader
<1>2. rest \in Req
  <2>1. Drop(r.buff, r.length) \in Seq(Token)
    BY <1>1, SubSeqProperties DEF Drop
  <2> QED BY <1>1, <2>1, Zenon DEF Req
<1>3. /\ form.buff = Drop(r.buff, r.length) /\ form.msg = r.msg /\ form.body = r.body
      /\ body.buff = Drop(r.buff, r.length) /\ body.msg = r.msg
      /\ body.body = IF IsOwn(r, text) THEN r.msg ELSE <<>>
  BY DEF Req
<1> HIDE DEF m, rest, form, body, text
<1>4. /\ s.tag = "none" => Len(r.buff) < r.length /\ s.req = r
      /\ s.tag = "some" => /\ ~(Len(r.buff) < r.length)
                           /\ \/ r.length = 0 /\ s.req = form
                              \/ text /= <<>> /\ s.req = body
  BY <1>1 DEF ReadWhole, Result, rest, form, body, text
<1>5. ASSUME s.tag = "none" PROVE s.req = r /\ Waits(r)
  BY <1>1, <1>4, <1>5 DEF Waits
<1>6. ASSUME s.tag = "some", r.length = 0, s.req = form PROVE Done(all, start, upto, s.req, n, B)
  <2>1. s.req.body = Expected(m)
    BY <1>1, <1>3, <1>6 DEF Expected
  <2>2. /\ r.size <= r.length /\ r.length - r.size = r.length /\ r.length <= Len(r.buff)
        /\ s.req.buff = Drop(r.buff, r.length - r.size) /\ s.req.msg = r.msg
    BY <1>1, <1>3, <1>6
  <2> QED BY <2>1, <2>2, BodyDone DEF m
<1>7. ASSUME s.tag = "some", text /= <<>>, s.req = body
      PROVE  Done(all, start, upto, s.req, n, B)
  <2>1. r.length <= Len(r.buff) /\ IsOwn(r, text)
    BY <1>1, <1>4, <1>7, OwnText DEF text
  <2>2. r.length > 0
    BY <1>1, <1>7, <2>1, TakeSeq DEF text
  <2>3. s.req.body = Expected(m)
    BY <1>1, <1>3, <1>7, <2>1, <2>2 DEF Expected
  <2>4. /\ r.size <= r.length /\ r.length - r.size = r.length
        /\ s.req.buff = Drop(r.buff, r.length - r.size) /\ s.req.msg = r.msg
    BY <1>1, <1>3, <1>7
  <2> QED BY <2>1, <2>3, <2>4, BodyDone DEF m
<1> QED BY <1>4, <1>5, <1>6, <1>7

\* A multipart body.
LEMMA MultipartReads ==
  ASSUME NEW B, NEW all \in Seq(Message), NEW start, Starts(all, start),
         NEW from \in Nat, NEW upto \in Nat, NEW n \in Nat, NEW r \in Req, r.stage = 4,
         Reading(all, start, from, upto, r, n, B), Known(all, start, upto, B),
         HeadRead(all, start, from, upto, r, n, B),
         BodyType[all[n + 1].shape] = "multipart", NEW s, s = ReadMultipart(r)
  PROVE  /\ s.tag = "none" =>
              Waits(s.req) /\ \E f \in Nat : Reading(all, start, f, upto, s.req, n, B)
         /\ s.tag = "some" => Done(all, start, upto, s.req, n, B)
<1> DEFINE m == all[n + 1]
           left == r.length - r.size
           lost == r.lost \/ r.size \in Cut[m.shape].broken
           more == [r EXCEPT !.buff = <<>>, !.size = r.size + Len(r.buff), !.lost = lost]
           body == [r EXCEPT !.buff = Drop(@, left), !.size = r.length, !.hasBody = TRUE,
                             !.lost = lost, !.body = IF lost THEN <<>> ELSE <<r.buff[1].msg>>]
           z == r.size
           w == r.length
           l == Len(r.buff)
<1>1. /\ r.buff \in Seq(Token) /\ HasReader(m) /\ w = BodyLen[m.shape] /\ r.msg[1] = m
      /\ z \in Nat /\ w \in Nat /\ l \in Nat /\ left = w - z
      /\ z > 0 => z < w
      /\ w > 0 /\ from + l = upto /\ (l = 0 <=> r.buff = <<>>)
      /\ lost => m \in B
  BY DEF HeadRead, HasReader
<1>2. /\ more.buff = <<>> /\ more.size = z + l /\ more.stage = r.stage /\ more.skip = r.skip
      /\ more.body = r.body /\ more.hasBody = r.hasBody /\ more.msg = r.msg
      /\ more.length = r.length /\ more.lost = lost
  BY DEF Req
<1>3. /\ body.buff = Drop(r.buff, left) /\ body.msg = r.msg
      /\ body.body = IF lost THEN <<>> ELSE <<r.buff[1].msg>>
  BY DEF Req
<1>4. /\ s.tag = "none" => \/ r.buff = <<>> /\ s.req = r
                           \/ r.buff /= <<>> /\ EndsLikeBoundary(r.buff) /\ s.req = r
                           \/ r.buff /= <<>> /\ l < left /\ s.req = more
      /\ s.tag = "some" => r.buff /= <<>> /\ ~(l < left) /\ s.req = body
  <2>1. r.msg[1] = m
    BY <1>1
  <2> HIDE DEF lost, m
  <2>2. r.lost \/ r.size \in Cut[r.msg[1].shape].broken <=> lost
    BY <2>1 DEF lost
  <2> QED BY <2>1, <2>2 DEF ReadMultipart, Result, lost
<1> HIDE DEF z, w, l, left, more, body, m, lost
<1>5. z < w /\ left <= w /\ left \in Nat
  BY <1>1
<1>6. ASSUME s.tag = "none", s.req = r, r.buff = <<>> \/ (r.buff /= <<>> /\ EndsLikeBoundary(r.buff))
      PROVE  Waits(s.req) /\ \E f \in Nat : Reading(all, start, f, upto, s.req, n, B)
  <2>1. CASE r.buff = <<>>
    <3>1. r.size + Len(r.buff) < r.length
      <4>1. z + l < w
        BY <1>1, <1>5, <2>1
      <4> QED BY <4>1 DEF z, l, w
    <3> QED BY <1>6, <3>1 DEF Waits
  <2>2. CASE r.buff /= <<>>
    <3>1. HeldBack(r)
      BY <1>1, <1>6, <2>2 DEF HeldBack, m
    <3> QED BY <1>6, <3>1 DEF Waits
  <2> QED BY <2>1, <2>2
<1>7. ASSUME s.tag = "none", r.buff /= <<>>, l < left, s.req = more
      PROVE  Waits(s.req) /\ \E f \in Nat : Reading(all, start, f, upto, s.req, n, B)
  <2>1. z + l < w /\ z + l > 0
    BY SMTT(30), <1>1, <1>5, <1>7
  <2>2. Waits(s.req)
    <3>1. Len(s.req.buff) = 0 /\ s.req.size + 0 = z + l /\ s.req.stage = 4
      BY <1>1, <1>2, <1>7
    <3> QED BY <1>2, <1>7, <2>1, <3>1 DEF Waits, w
  <2>3. Holds(all, start, more.buff, upto) /\ upto + Len(more.buff) = upto
    BY <1>2 DEF Holds
  <2>4. n + 1 \in 1..Len(all) /\ start[n + 1] \in Nat /\ upto = start[n + 1] + 4 + (z + l)
    <3>1. n + 1 \in 1..Len(all) /\ start[n + 1] \in Nat /\ from = start[n + 1] + 4 + z
      BY DEF HeadRead, z
    <3>2. upto = start[n + 1] + 4 + (z + l)
      BY <1>1, <3>1
    <3> QED BY <3>1, <3>2
  <2>5. Place(all, start, upto, more, n)
    <3>1. upto = start[n + 1] + more.stage + more.size
      BY <1>2, <2>4
    <3>2. n \in 0..Len(all)
      BY <2>4
    <3> QED BY <3>1, <3>2 DEF Place
  <2>6. ASSUME z + l \in Cut[m.shape].broken PROVE m \in B
    <3> DEFINE o == 4 + (z + l)
    <3>1. o \in 1..Total(m) /\ start[n + 1] + o = upto
      <4>1. Total(m) = 4 + w
        BY <1>1, <2>4, TotalIsNat DEF m
      <4> DEFINE a == start[n + 1]
                 total == Total(m)
                 p == z + l
      <4>2. p \in Nat /\ p > 0 /\ p < w /\ w \in Nat /\ a \in Nat /\ upto = a + 4 + p /\ total = 4 + w
        BY <1>1, <2>1, <2>4, <4>1
      <4> HIDE DEF a, total, p
      <4>3. 4 + p \in 1..total /\ a + (4 + p) = upto
        BY <4>2
      <4> QED BY <4>3 DEF a, total, p
    <3>2. Byte(m, o) = [kind |-> "body", msg |-> m, pos |-> z + l]
      <4>1. ~(o <= 4) /\ o - 4 = z + l
        BY <1>1, <2>1
      <4> HIDE DEF o
      <4> QED BY <4>1 DEF Byte
    <3>3. LeavesBroken(Byte(m, o))
      BY <2>6, <3>2 DEF LeavesBroken, m
    <3> HIDE DEF o
    <3> QED BY <2>4, <3>1, <3>3 DEF Known, m
  <2>7. Notes(all, more, n, B)
    <3>1. Notes(all, r, n, B)
      BY DEF Reading
    <3>2. more.size < more.length
      BY <1>2, <2>1 DEF w
    <3>3. more.lost \/ (more.size > 0 /\ more.size \in Cut[m.shape].broken) => m \in B
      BY <1>1, <1>2, <2>6
    <3> QED BY <1>2, <3>1, <3>2, <3>3 DEF Notes, m
  <2> QED BY <1>7, <2>2, <2>3, <2>5, <2>7 DEF Reading
<1>8. ASSUME s.tag = "some", r.buff /= <<>>, ~(l < left), s.req = body
      PROVE  Done(all, start, upto, s.req, n, B)
  <2>1. r.size <= r.length /\ r.length - r.size <= Len(r.buff) /\ r.size < r.length
    BY <1>1, <1>5, <1>8 DEF z, w, l
  <2>2. s.req.body = Expected(m) \/ (m \in B /\ s.req.body = <<>>)
    <3>1. r.buff[1].msg = m
      BY <1>8, <2>1, BodyFirst DEF m
    <3> QED BY <1>1, <1>3, <1>8, <3>1 DEF Expected
  <2>3. s.req.buff = Drop(r.buff, r.length - r.size) /\ s.req.msg = r.msg
    BY <1>3, <1>8 DEF left
  <2> QED BY <2>1, <2>2, <2>3, BodyDone DEF m
<1> QED BY <1>4, <1>6, <1>7, <1>8

\* What read_block does with a buffer that holds the bytes of the requests.
LEMMA BlockReads ==
  ASSUME NEW B, NEW all \in Seq(Message), NEW start, Starts(all, start),
         NEW from \in Nat, NEW upto \in Nat, upto <= start[Len(all) + 1],
         NEW n \in Nat, NEW r \in Req, Reading(all, start, from, upto, r, n, B),
         Known(all, start, upto, B), NEW luck, NEW s, s = ReadBlock(r, luck)
  PROVE  /\ s.tag = "none" =>
              Waits(s.req) /\ \E f \in Nat : Reading(all, start, f, upto, s.req, n, B)
         /\ s.tag = "some" => Done(all, start, upto, s.req, n, B)
<1> DEFINE h == ReadHead(r)
<1>1. s = IF h.tag /= "some" \/ h.req.hasBody THEN h ELSE ReadBody(h.req, luck)
  <2>1. ~(r.skip > 0)
    BY DEF Reading, Notes
  <2> QED BY <2>1 DEF ReadBlock
<1>2. h.req \in Req /\ h.tag \in Tags
  BY HeadType
<1>3. ASSUME h.tag \in {"some", "none"}
      PROVE  /\ \E f \in Nat : Reading(all, start, f, upto, h.req, n, B)
             /\ h.tag = "some" => h.req.stage = 4
             /\ h.tag = "none" => h.req.stage < 4 /\ h.req.buff = <<>>
  BY <1>3, HeadReads
<1> HIDE DEF h
<1>4. CASE h.tag /= "some"
  <2>1. s = h
    BY <1>1, <1>4
  <2> QED BY <1>3, <1>4, <2>1 DEF Waits
<1>5. CASE h.tag = "some"
  <2> DEFINE q == h.req
  <2>1. PICK f \in Nat : Reading(all, start, f, upto, q, n, B)
    BY <1>3, <1>5
  <2>2. q \in Req /\ q.stage = 4
    BY <1>2, <1>3, <1>5
  <2> HIDE DEF q
  <2>3. HeadRead(all, start, f, upto, q, n, B)
    BY <2>1, <2>2, HeadIsRead
  <2> DEFINE type == BodyType[all[n + 1].shape]
  <2>4. q.msg[1] = all[n + 1] /\ (q.hasBody <=> type = "none") /\ ~(q.size > q.length)
    <3>1. q.hasBody <=> type = "none"
      BY <2>1, <2>2 DEF Reading, Notes
    <3>2. q.msg[1] = all[n + 1] /\ ~(q.size > q.length)
      BY SMTT(30), <2>3 DEF HeadRead
    <3> QED BY <3>1, <3>2
  <2> HIDE DEF type
  <2>5. CASE ~HasReader(all[n + 1])
    <3>1. Done(all, start, upto, q, n, B)
      BY <2>1, <2>2, <2>5, UnreadBody
    <3>2. s.req = q /\ s.tag = "some"
      <4>1. CASE q.hasBody
        BY <1>1, <1>5, <4>1 DEF q
      <4>2. CASE ~q.hasBody
        <5>1. ReadBody(q, luck) = Result("some", q)
          BY <2>4, <2>5 DEF ReadBody, HasReader, type
        <5> QED BY <1>1, <1>5, <4>2, <5>1 DEF q, Result
      <4> QED BY <4>1, <4>2
    <3> QED BY <3>1, <3>2
  <2>6. CASE HasReader(all[n + 1])
    <3>1. type \in {"json", "form", "multipart"} /\ ~q.hasBody
      BY <2>4, <2>6 DEF HasReader, type
    <3>2. s = ReadBody(q, luck)
      BY <1>1, <1>5, <3>1 DEF q
    <3>3. CASE type \in {"json", "form"}
      <4>1. s = ReadWhole(q, luck)
        BY <2>4, <3>2, <3>3 DEF ReadBody, type
      <4>2. /\ s.tag = "none" => s.req = q /\ Waits(q)
            /\ s.tag = "some" => Done(all, start, upto, s.req, n, B)
        BY <2>2, <2>3, <3>3, <4>1, WholeReads DEF type
      <4> QED BY <2>1, <4>2
    <3>4. CASE type = "multipart"
      <4>1. s = ReadMultipart(q)
        BY <2>4, <3>2, <3>4 DEF ReadBody, type
      <4> QED BY <2>1, <2>2, <2>3, <3>4, <4>1, MultipartReads DEF type
    <3> QED BY <3>1, <3>3, <3>4
  <2> QED BY <2>5, <2>6
<1> QED BY <1>4, <1>5

-----------------------------------------------------------------------------
(* What the client sends, and what a read brings. *)

\* Where the requests begin when m comes behind them.
Further(all, start, m) ==
  [k \in 1..(Len(all) + 2) |->
     IF k <= Len(all) + 1 THEN start[k] ELSE start[Len(all) + 1] + Total(m)]

LEMMA NextIs ==
  ASSUME NEW all \in Seq(Message), NEW start, Starts(all, start), NEW m \in Message
  PROVE  /\ \A k \in 1..(Len(all) + 1) : Further(all, start, m)[k] = start[k] /\ start[k] \in Nat
         /\ Further(all, start, m)[Len(all) + 2] = start[Len(all) + 1] + Total(m)
         /\ Further(all, start, m) \in [1..(Len(all) + 2) -> Nat]
<1>1. start \in [1..(Len(all) + 1) -> Nat] /\ Len(all) \in Nat /\ Total(m) \in Nat
  BY BytesAre DEF Starts
<1> DEFINE l == Len(all)
           t == Total(m)
           next == Further(all, start, m)
<1> HIDE DEF l, t, next
<1>2. start \in [1..(l + 1) -> Nat] /\ l \in Nat /\ t \in Nat
  BY <1>1 DEF l, t
<1>3. next = [k \in 1..(l + 2) |-> IF k <= l + 1 THEN start[k] ELSE start[l + 1] + t]
  BY DEF l, t, next, Further
<1>4. ASSUME NEW k \in 1..(l + 1) PROVE next[k] = start[k] /\ start[k] \in Nat
  <2>1. k \in 1..(l + 2) /\ k <= l + 1
    BY <1>2
  <2> QED BY <1>2, <1>3, <2>1
<1>5. next[l + 2] = start[l + 1] + t
  <2>1. l + 2 \in 1..(l + 2) /\ ~(l + 2 <= l + 1)
    BY <1>2
  <2> QED BY <1>3, <2>1
<1>6. start[l + 1] \in Nat
  BY <1>2
<1>7. next \in [1..(l + 2) -> Nat]
  <2>1. ASSUME NEW k \in 1..(l + 2)
        PROVE  (IF k <= l + 1 THEN start[k] ELSE start[l + 1] + t) \in Nat
    <3>1. k <= l + 1 => k \in 1..(l + 1)
      BY <1>2
    <3>2. start[l + 1] + t \in Nat
      BY <1>2, <1>6
    <3> QED BY <1>4, <3>1, <3>2
  <2> QED BY <1>3, <2>1
<1> QED BY <1>4, <1>5, <1>7 DEF l, t, next

\* The client's next request goes behind the others.
LEMMA StartsSend ==
  ASSUME NEW all \in Seq(Message), NEW start, Starts(all, start), NEW m \in Message
  PROVE  Starts(Append(all, m), Further(all, start, m))
<1> DEFINE more == Append(all, m)
           next == Further(all, start, m)
<1>1. /\ Len(all) \in Nat /\ Len(more) = Len(all) + 1 /\ Total(m) \in Nat
      /\ \A k \in 1..Len(all) : more[k] = all[k]
      /\ more[Len(all) + 1] = m
  BY BytesAre
<1>2. /\ \A k \in 1..(Len(all) + 1) : next[k] = start[k] /\ start[k] \in Nat
      /\ next[Len(all) + 2] = start[Len(all) + 1] + Total(m)
      /\ next \in [1..(Len(all) + 2) -> Nat]
  BY NextIs
<1> HIDE DEF more, next
<1>3. next \in [1..(Len(more) + 1) -> Nat]
  BY <1>1, <1>2
<1>4. ASSUME NEW k \in 1..Len(more) PROVE next[k + 1] = next[k] + Total(more[k])
  <2>1. CASE k <= Len(all)
    <3>1. k \in 1..Len(all) /\ k \in 1..(Len(all) + 1) /\ k + 1 \in 1..(Len(all) + 1)
      BY <1>1, <2>1
    <3>2. start[k + 1] = start[k] + Total(all[k])
      BY <3>1 DEF Starts
    <3> QED BY <1>1, <1>2, <3>1, <3>2
  <2>2. CASE k = Len(all) + 1
    <3>1. k \in 1..(Len(all) + 1) /\ k + 1 = Len(all) + 2
      BY <1>1, <2>2
    <3> QED BY <1>1, <1>2, <2>2, <3>1
  <2> QED BY <1>1, <2>1, <2>2
<1>5. ASSUME NEW j \in 1..(Len(more) + 1), NEW k \in 1..(Len(more) + 1), j <= k
      PROVE  next[j] <= next[k]
  <2>1. CASE k <= Len(all) + 1
    <3>1. j \in 1..(Len(all) + 1) /\ k \in 1..(Len(all) + 1)
      BY <1>1, <1>5, <2>1
    <3>2. start[j] <= start[k]
      BY <1>5, <3>1 DEF Starts
    <3> QED BY <1>2, <3>1, <3>2
  <2>2. CASE k = Len(all) + 2
    <3>1. CASE j <= Len(all) + 1
      <4>1. j \in 1..(Len(all) + 1) /\ Len(all) + 1 \in 1..(Len(all) + 1)
        BY <1>1, <3>1
      <4>2. start[j] <= start[Len(all) + 1]
        BY <3>1, <4>1 DEF Starts
      <4>3. start[j] \in Nat /\ start[Len(all) + 1] \in Nat /\ next[j] = start[j]
        BY <1>2, <4>1
      <4> QED BY <1>1, <1>2, <2>2, <4>2, <4>3
    <3>2. CASE j = Len(all) + 2
      <4>1. next[k] \in Nat
        BY <1>3
      <4> QED BY <2>2, <3>2, <4>1
    <3> QED BY <1>1, <3>1, <3>2
  <2> QED BY <1>1, <2>1, <2>2
<1> QED BY <1>3, <1>4, <1>5 DEF Starts, more, next

\* What was sent before it is where it was.
LEMMA HoldsSend ==
  ASSUME NEW all \in Seq(Message), NEW start, Starts(all, start), NEW m \in Message,
         NEW q \in Seq(Token), NEW from \in Nat, Holds(all, start, q, from),
         from + Len(q) <= start[Len(all) + 1]
  PROVE  Holds(Append(all, m), Further(all, start, m), q, from)
<1> DEFINE more == Append(all, m)
           next == Further(all, start, m)
<1>1. /\ Len(all) \in Nat /\ Len(more) = Len(all) + 1 /\ Total(m) \in Nat
      /\ \A k \in 1..Len(all) : more[k] = all[k]
      /\ more[Len(all) + 1] = m
  BY BytesAre
<1>2. \A k \in 1..(Len(all) + 1) : next[k] = start[k] /\ start[k] \in Nat
  BY NextIs
<1> HIDE DEF more, next
<1> SUFFICES ASSUME NEW k \in 1..Len(more), NEW o \in 1..Total(more[k]),
                    next[k] + o - from \in 1..Len(q)
             PROVE  q[next[k] + o - from] = Byte(more[k], o)
  BY DEF Holds, more, next
<1>3. CASE k <= Len(all)
  <2>1. k \in 1..Len(all) /\ next[k] = start[k] /\ more[k] = all[k]
    BY <1>1, <1>2, <1>3
  <2> QED BY <2>1 DEF Holds
<1>4. CASE k = Len(all) + 1
  <2> DEFINE end == start[Len(all) + 1]
             l == Len(q)
  <2>1. next[k] = end /\ end \in Nat /\ o \in Nat /\ o > 0 /\ l \in Nat /\ from + l <= end
    BY <1>1, <1>2, <1>4
  <2>2. next[k] + o - from \in 1..l
    OBVIOUS
  <2> HIDE DEF end, l
  <2> QED BY <2>1, <2>2
<1> QED BY <1>1, <1>3, <1>4

\* The bytes of the request itself are behind them.
LEMMA HoldsNew ==
  ASSUME NEW all \in Seq(Message), NEW start, Starts(all, start), NEW m \in Message
  PROVE  Holds(Append(all, m), Further(all, start, m), Bytes(m), start[Len(all) + 1])
<1> DEFINE more == Append(all, m)
           next == Further(all, start, m)
           end == start[Len(all) + 1]
<1>1. /\ Len(all) \in Nat /\ Len(more) = Len(all) + 1
      /\ \A k \in 1..Len(all) : more[k] = all[k]
      /\ more[Len(all) + 1] = m
  OBVIOUS
<1>2. \A k \in 1..(Len(all) + 1) : next[k] = start[k] /\ start[k] \in Nat
  BY NextIs
<1>3. Len(Bytes(m)) = Total(m) /\ Total(m) \in Nat /\ \A o \in 1..Total(m) : Bytes(m)[o] = Byte(m, o)
  BY BytesAre
<1>4. end \in Nat
  BY <1>1, <1>2
<1> SUFFICES ASSUME NEW k \in 1..Len(more), NEW o \in 1..Total(more[k]),
                    next[k] + o - end \in 1..Len(Bytes(m))
             PROVE  Bytes(m)[next[k] + o - end] = Byte(more[k], o)
  BY DEF Holds, next
<1> HIDE DEF more, next
<1>5. CASE k <= Len(all)
  <2>1. k \in 1..Len(all) /\ k + 1 \in 1..(Len(all) + 1) /\ more[k] = all[k]
    BY <1>1, <1>5
  <2>2. start[k + 1] = start[k] + Total(all[k]) /\ start[k + 1] <= end
    BY SMTT(30), <1>1, <2>1 DEF Starts
  <2>3. Total(all[k]) \in Nat /\ next[k] = start[k] /\ start[k] \in Nat
    BY <1>1, <1>2, <1>5, <2>1, TotalIsNat
  <2> DEFINE a == start[k]
             t == Total(all[k])
  <2>4. a + t <= end /\ a \in Nat /\ t \in Nat /\ o \in 1..t /\ a + o - end >= 1
    BY <1>3, <1>4, <2>1, <2>2, <2>3
  <2> HIDE DEF a, t, end
  <2> QED BY <1>4, <2>4
<1>6. CASE k = Len(all) + 1
  <2>1. next[k] = end /\ more[k] = m
    BY <1>1, <1>2, <1>6
  <2>2. o \in 1..Total(m)
    BY <2>1
  <2>3. next[k] + o - end = o
    BY <1>3, <1>4, <2>1, <2>2
  <2> QED BY <1>3, <2>1, <2>2, <2>3
<1> QED BY <1>1, <1>5, <1>6

LEMMA ReadingSend ==
  ASSUME NEW B, NEW all \in Seq(Message), NEW start, Starts(all, start), NEW m \in Message,
         NEW from \in Nat, NEW upto \in Nat, upto <= start[Len(all) + 1],
         NEW n \in Nat, NEW r \in Req, Reading(all, start, from, upto, r, n, B)
  PROVE  Reading(Append(all, m), Further(all, start, m), from, upto, r, n, B)
<1> DEFINE more == Append(all, m)
           next == Further(all, start, m)
<1>1. /\ Len(all) \in Nat /\ Len(more) = Len(all) + 1
      /\ \A k \in 1..Len(all) : more[k] = all[k]
  OBVIOUS
<1>2. \A k \in 1..(Len(all) + 1) : next[k] = start[k]
  BY NextIs
<1>3. Holds(more, next, r.buff, from)
  <2>1. r.buff \in Seq(Token) /\ Holds(all, start, r.buff, from)
        /\ from + Len(r.buff) <= start[Len(all) + 1]
    BY FieldsOfReq DEF Reading
  <2> QED BY <2>1, HoldsSend
<1> HIDE DEF more, next
<1>4. Place(more, next, from, r, n)
  <2>1. CASE n \in 0..Len(all) /\ from = start[n + 1] + r.stage + r.size
    <3>1. n \in 0..Len(more) /\ n + 1 \in 1..(Len(all) + 1)
      BY <1>1, <2>1
    <3>2. next[n + 1] = start[n + 1]
      BY <1>2, <3>1
    <3> QED BY <2>1, <3>1, <3>2 DEF Place
  <2>2. CASE n \in 1..Len(all) /\ r.stage = 0 /\ from = start[n] + 4 /\ BodyLen[all[n].shape] > 0
    <3>1. n \in 1..Len(more) /\ n \in 1..(Len(all) + 1)
      BY <1>1, <2>2
    <3>2. next[n] = start[n] /\ more[n] = all[n]
      BY <1>1, <1>2, <2>2, <3>1
    <3> QED BY <2>2, <3>1, <3>2 DEF Place
  <2> QED BY <2>1, <2>2 DEF Reading, Place
<1>5. Notes(more, r, n, B)
  <2>1. r.stage \in 0..4 /\ r.size \in Nat
    BY FieldsOfReq
  <2>2. Notes(all, r, n, B)
    BY DEF Reading
  <2>3. CASE r.stage > 0
    <3>1. n < Len(all) /\ n + 1 \in 1..Len(all)
      BY <1>1, <2>2, <2>3 DEF Notes
    <3>2. n < Len(more) /\ more[n + 1] = all[n + 1]
      BY <1>1, <3>1
    <3> QED BY <2>2, <3>2 DEF Notes
  <2>4. CASE r.stage = 0
    BY <2>2, <2>4 DEF Notes
  <2> QED BY <2>1, <2>3, <2>4
<1> QED BY <1>3, <1>4, <1>5 DEF Reading, more, next

LEMMA FlowsSend ==
  ASSUME NEW B, NEW all \in Seq(Message), NEW m \in Message, NEW n \in Nat, NEW r \in Req,
         NEW w \in Seq(Token), Flows(all, r, n, w, B)
  PROVE  Flows(Append(all, m), r, n, w \o Bytes(m), B)
<1>1. PICK start \in [1..(Len(all) + 1) -> Nat], from \in Nat, upto \in Nat :
        /\ Starts(all, start)
        /\ Reading(all, start, from, upto, r, n, B) /\ Known(all, start, upto, B)
        /\ Holds(all, start, w, upto) /\ upto + Len(w) = start[Len(all) + 1]
  BY DEF Flows
<1> DEFINE more == Append(all, m)
           next == Further(all, start, m)
           end == start[Len(all) + 1]
           b == Bytes(m)
<1>2. /\ Len(more) = Len(all) + 1 /\ Len(w) \in Nat /\ Len(all) \in Nat
      /\ b \in Seq(Token) /\ Len(b) = Total(m) /\ Total(m) \in Nat
  BY BytesAre
<1>3. end \in Nat
  BY SMTT(30), <1>2
<1>4. Starts(more, next)
  BY <1>1, StartsSend
<1>5. next \in [1..(Len(more) + 1) -> Nat]
  BY <1>4 DEF Starts
<1>6. next[Len(more) + 1] = end + Total(m)
  <2>1. next[Len(all) + 2] = end + Total(m)
    BY <1>1, NextIs
  <2>2. Len(more) + 1 = Len(all) + 2
    BY <1>2
  <2> QED BY <2>1, <2>2
<1>7. upto <= end
  BY <1>1, <1>2, <1>3
<1>8. Reading(more, next, from, upto, r, n, B)
  BY <1>1, <1>7, ReadingSend
<1>9. Holds(more, next, w \o b, upto)
  <2>1. Holds(more, next, w, upto)
    <3>1. upto + Len(w) <= end
      BY <1>1, <1>3
    <3> QED BY <1>1, <3>1, HoldsSend
  <2>2. Holds(more, next, b, upto + Len(w))
    BY <1>1, HoldsNew
  <2>3. more \in Seq(Message)
    OBVIOUS
  <2> HIDE DEF more, next, b
  <2> QED BY <1>2, <1>5, <2>1, <2>2, <2>3, HoldsConcat
<1>10. upto + Len(w \o b) = next[Len(more) + 1]
  <2>1. Len(w \o b) = Len(w) + Total(m)
    <3>1. b \in Seq(Token) /\ Len(b) = Total(m)
      BY <1>2
    <3> HIDE DEF b
    <3>2. Len(w \o b) = Len(w) + Len(b)
      BY <3>1, ConcatProperties
    <3> QED BY <3>1, <3>2
  <2>2. upto + Len(w) = end
    BY <1>1
  <2> HIDE DEF end, next, more, b
  <2> QED BY <1>2, <1>3, <1>6, <2>1, <2>2
<1>12. Known(more, next, upto, B)
  <2> SUFFICES ASSUME NEW k \in 1..Len(more), NEW o \in 1..Total(more[k]),
                      next[k] + o = upto, LeavesBroken(Byte(more[k], o))
               PROVE  more[k] \in B
    BY DEF Known
  <2>1. CASE k <= Len(all)
    <3>1. k \in 1..Len(all) /\ k \in 1..(Len(all) + 1) /\ more[k] = all[k]
      BY <1>2, <2>1
    <3>2. next[k] = start[k]
      BY <1>1, <3>1, NextIs
    <3> HIDE DEF more, next
    <3> QED BY <1>1, <3>1, <3>2 DEF Known
  <2>2. CASE k > Len(all)
    <3>1. k = Len(all) + 1 /\ k \in 1..(Len(all) + 1) /\ more[k] = m
      BY <1>2, <2>2
    <3>2. next[k] = end
      BY <1>1, <3>1, NextIs
    <3>3. o \in Nat /\ o > 0
      BY <1>2, <3>1
    <3> HIDE DEF more, next, end
    <3> QED BY <1>3, <1>7, <3>2, <3>3
  <2> QED BY <1>2, <2>1, <2>2
<1> HIDE DEF more, next, b
<1>11. Flows(more, r, n, w \o b, B)
  BY <1>4, <1>5, <1>8, <1>9, <1>10, <1>12 DEF Flows
<1> QED BY <1>11 DEF more, b

\* A read moves bytes from the wire to the buffer.
LEMMA FlowsRead ==
  ASSUME NEW B, NEW all \in Seq(Message), NEW n \in Nat, NEW r \in Req,
         NEW w \in Seq(Token), NEW len \in 1..Len(w), Flows(all, r, n, w, B),
         NEW C, B \subseteq C, LeavesBroken(w[len]) => w[len].msg \in C
  PROVE  Flows(all, Add(r, Take(w, len)), n, Drop(w, len), C)
<1>1. PICK start \in [1..(Len(all) + 1) -> Nat], from \in Nat, upto \in Nat :
        /\ Starts(all, start)
        /\ Reading(all, start, from, upto, r, n, B) /\ Known(all, start, upto, B)
        /\ Holds(all, start, w, upto) /\ upto + Len(w) = start[Len(all) + 1]
  BY DEF Flows
<1>0. len \in 0..Len(w)
  OBVIOUS
<1> DEFINE t == Take(w, len)
           e == Add(r, t)
           q == r.buff
<1>2. /\ t \in Seq(Token) /\ Len(t) = len /\ len \in Nat
      /\ q \in Seq(Token) /\ Len(q) \in Nat
  BY <1>0, TakeSeq, FieldsOfReq
<1>3. /\ Holds(all, start, q, from) /\ from + Len(q) = upto
      /\ Place(all, start, from, r, n) /\ Notes(all, r, n, B)
  BY <1>1 DEF Reading
<1>4. Holds(all, start, t, upto)
  BY <1>0, <1>1, HoldsTake
<1>5. Holds(all, start, Drop(w, len), upto + len) /\ (upto + len) + Len(Drop(w, len)) = upto + Len(w)
  BY <1>0, <1>1, HoldsDrop
<1>6. /\ e.buff = q \o t /\ e.stage = r.stage /\ e.size = r.size /\ e.skip = r.skip
      /\ e.body = r.body /\ e.hasBody = r.hasBody /\ e.msg = r.msg /\ e.length = r.length
      /\ e.lost = r.lost
  BY DEF Req, Add
<1> HIDE DEF t, e, q
<1>7. Holds(all, start, q \o t, from)
  <2>1. Holds(all, start, t, from + Len(q))
    BY <1>3, <1>4
  <2> QED BY <1>2, <1>3, <2>1, HoldsConcat
<1>8. from + Len(q \o t) = upto + len
  <2>1. PICK l \in Nat, k \in Nat : l = Len(q) /\ k = len
    BY <1>2
  <2>2. Len(q \o t) = l + k
    BY <1>2, <2>1, ConcatProperties
  <2>3. from + l = upto
    BY <1>3, <2>1
  <2>4. from + (l + k) = upto + k
    BY <2>3
  <2> QED BY <2>1, <2>2, <2>4
<1>9. Place(all, start, from, e, n) /\ Notes(all, e, n, C)
  BY <1>3, <1>6 DEF Place, Notes
<1>10. Reading(all, start, from, upto + len, e, n, C)
  BY <1>6, <1>7, <1>8, <1>9 DEF Reading
<1>11. upto + len \in Nat /\ (upto + len) + Len(Drop(w, len)) = start[Len(all) + 1]
  BY <1>1, <1>2, <1>5
<1>13. Known(all, start, upto + len, C)
  <2> SUFFICES ASSUME NEW k \in 1..Len(all), NEW o \in 1..Total(all[k]),
                      start[k] + o = upto + len, LeavesBroken(Byte(all[k], o))
               PROVE  all[k] \in C
    BY DEF Known
  <2>1. start[k] + o - upto = len /\ len \in 1..Len(w)
    <3>1. start[k] \in Nat /\ o \in Nat /\ len \in Nat
      BY <1>2, TotalIsNat
    <3> QED BY <3>1
  <2>2. w[len] = Byte(all[k], o)
    BY <1>1, <2>1 DEF Holds
  <2>3. Byte(all[k], o).msg = all[k]
    BY DEF Byte
  <2> QED BY <2>2, <2>3
<1>12. Flows(all, e, n, Drop(w, len), C)
  BY <1>1, <1>5, <1>10, <1>11, <1>13 DEF Flows
<1> QED BY <1>12 DEF e, t

\* q has read request n + 1 of all, and the parser goes on with the next.
HasNext(all, q, n, w, B) ==
  /\ n < Len(all) /\ q.msg = <<all[n + 1]>>
  /\ q.body = Expected(all[n + 1]) \/ (all[n + 1] \in B /\ q.body = <<>>)
  /\ Flows(all, Reset(q), n + 1, w, B)

\* read_block either waits for more, or has the next request.
LEMMA FlowsBlock ==
  ASSUME NEW B, NEW all \in Seq(Message), NEW n \in Nat, NEW r \in Req,
         NEW w \in Seq(Token), Flows(all, r, n, w, B), NEW luck, NEW s, s = ReadBlock(r, luck)
  PROVE  /\ s.tag = "none" => Waits(s.req) /\ Flows(all, s.req, n, w, B)
         /\ s.tag = "some" => HasNext(all, s.req, n, w, B)
<1>1. PICK start \in [1..(Len(all) + 1) -> Nat], from \in Nat, upto \in Nat :
        /\ Starts(all, start)
        /\ Reading(all, start, from, upto, r, n, B) /\ Known(all, start, upto, B)
        /\ Holds(all, start, w, upto) /\ upto + Len(w) = start[Len(all) + 1]
  BY DEF Flows
<1>2. upto <= start[Len(all) + 1]
  <2>1. Len(all) + 1 \in 1..(Len(all) + 1) /\ Len(w) \in Nat
    OBVIOUS
  <2>2. start[Len(all) + 1] \in Nat
    BY <2>1
  <2> QED BY <1>1, <2>1, <2>2
<1>3. /\ s.tag = "none" =>
           Waits(s.req) /\ \E f \in Nat : Reading(all, start, f, upto, s.req, n, B)
      /\ s.tag = "some" => Done(all, start, upto, s.req, n, B)
  BY <1>1, <1>2, BlockReads
<1>4. ASSUME NEW q, NEW f \in Nat, NEW k, Reading(all, start, f, upto, q, k, B)
      PROVE  Flows(all, q, k, w, B)
  BY <1>1, <1>4 DEF Flows
<1>5. ASSUME s.tag = "none" PROVE Waits(s.req) /\ Flows(all, s.req, n, w, B)
  BY <1>3, <1>4, <1>5
<1>6. ASSUME s.tag = "some"
      PROVE  HasNext(all, s.req, n, w, B)
  <2>1. /\ n < Len(all) /\ s.req.msg = <<all[n + 1]>>
        /\ s.req.body = Expected(all[n + 1]) \/ (all[n + 1] \in B /\ s.req.body = <<>>)
        /\ \E f \in Nat : Reading(all, start, f, upto, Reset(s.req), n + 1, B)
    BY <1>3, <1>6 DEF Done
  <2> QED BY <1>4, <2>1 DEF HasNext
<1> QED BY <1>5, <1>6

\* Where nothing is on the wire and the parser waits, all requests are read.
LEMMA FlowsEnd ==
  ASSUME NEW B, NEW all \in Seq(Message), NEW n \in Nat, NEW r \in Req,
         Flows(all, r, n, <<>>, B), Waits(r), ~HeldBack(r)
  PROVE  n = Len(all)
<1>1. PICK start \in [1..(Len(all) + 1) -> Nat], from \in Nat, upto \in Nat :
        /\ Starts(all, start)
        /\ Reading(all, start, from, upto, r, n, B)
        /\ upto + 0 = start[Len(all) + 1]
  BY DEF Flows
<1> DEFINE l == Len(r.buff)
           z == r.size
           g == r.stage
           end == start[Len(all) + 1]
<1>2. /\ l \in Nat /\ z \in Nat /\ g \in 0..4 /\ Len(all) \in Nat
      /\ r.buff = <<>> => l = 0
  BY FieldsOfReq
<1>3. from + l = end
  <2>1. from + l = upto
    BY <1>1 DEF Reading
  <2> QED BY <1>1, <2>1
<1>4. ASSUME NEW k \in 1..Len(all)
      PROVE  /\ start[k] \in Nat /\ BodyLen[all[k].shape] \in Nat /\ end \in Nat
             /\ start[k] + (4 + BodyLen[all[k].shape]) <= end
  <2>1. k + 1 \in 1..(Len(all) + 1) /\ Len(all) + 1 \in 1..(Len(all) + 1) /\ k \in 1..(Len(all) + 1)
        /\ k + 1 <= Len(all) + 1
    OBVIOUS
  <2>2. start[k + 1] = start[k] + Total(all[k]) /\ start[k + 1] <= end
    BY <1>1, <2>1 DEF Starts
  <2>3. Total(all[k]) = 4 + BodyLen[all[k].shape] /\ BodyLen[all[k].shape] \in Nat
    BY TotalIsNat
  <2>4. start[k] \in Nat /\ end \in Nat
    BY <2>1
  <2> QED BY <2>2, <2>3, <2>4
<1>5. Notes(all, r, n, B) /\ Place(all, start, from, r, n)
  BY <1>1 DEF Reading
<1>6. CASE n \in 1..Len(all) /\ r.stage = 0 /\ from = start[n] + 4 /\ BodyLen[all[n].shape] > 0
  <2>1. l = 0
    BY <1>2, <1>6 DEF Waits
  <2> DEFINE a == start[n]
             b == BodyLen[all[n].shape]
  <2>2. a \in Nat /\ b \in Nat /\ end \in Nat /\ a + (4 + b) <= end /\ from = a + 4 /\ b > 0
    BY <1>4, <1>6
  <2> HIDE DEF a, b, l, end
  <2> QED BY <1>3, <2>1, <2>2
<1>7. ASSUME n \in 0..Len(all), from = start[n + 1] + g + z, n /= Len(all) PROVE FALSE
  <2> DEFINE a == start[n + 1]
             b == BodyLen[all[n + 1].shape]
  <2>1. n + 1 \in 1..Len(all)
    BY <1>7
  <2>2. a \in Nat /\ b \in Nat /\ end \in Nat /\ a + (4 + b) <= end /\ from = a + g + z
    BY <1>4, <1>7, <2>1
  <2>3. CASE g < 4
    <3>1. l = 0 /\ z = 0
      BY <1>2, <1>5, <2>3 DEF Waits, Notes
    <3> HIDE DEF a, b, l, z, g, end
    <3> QED BY <1>2, <1>3, <2>2, <2>3, <3>1
  <2>4. CASE g = 4
    <3>1. z + l < b
      BY <1>2, <1>5, <2>4 DEF Waits, Notes
    <3> HIDE DEF a, b, l, z, g, end
    <3> QED BY <1>2, <1>3, <2>2, <2>4, <3>1
  <2> QED BY <1>2, <2>3, <2>4
<1> QED BY <1>5, <1>6, <1>7 DEF Place

-----------------------------------------------------------------------------
(* The steps of the connection. *)

Following == Prefix /\ Flow /\ Answered

LEMMA SendStep ==
  ASSUME Typed, Following, NEW s \in Shape, ClientSend(s)
  PROVE  Following'
<1> DEFINE m == [n |-> Len(sent) + 1, shape |-> s]
<1>1. m \in Message
  BY ConnAssumption DEF ClientSend, ConnAssumption, Message, Typed
<1>2. /\ sent' = Append(sent, m) /\ wire' = wire \o Bytes(m)
      /\ UNCHANGED <<req, at, dispatched, answers, broken>>
  BY DEF ClientSend
<1> HIDE DEF m
<1>3. AllHandled' <=> AllHandled
  BY <1>2 DEF AllHandled
<1>4. Prefix'
  <2>1. /\ Len(sent') = Len(sent) + 1 /\ Len(sent) \in Nat /\ Len(dispatched) \in Nat
        /\ \A k \in 1..Len(sent) : sent'[k] = sent[k]
    BY <1>1, <1>2 DEF Typed
  <2>2. ASSUME AllHandled
        PROVE  /\ Len(dispatched) <= Len(sent')
               /\ \A k \in 1..Len(dispatched) : k \in 1..Len(sent) /\ sent'[k] = sent[k]
    BY <2>1, <2>2 DEF Following, Prefix
  <2> QED BY <1>2, <1>3, <2>2 DEF Following, Prefix
<1>5. Flow'
  <2>1. ASSUME AllHandled, at \in {"read", "parse", "respond"}
        PROVE  Flows(sent', req', Len(dispatched'), wire', broken')
    <3>1. Flows(sent, req, Len(dispatched), wire, broken)
      BY <2>1 DEF Following, Flow
    <3>2. /\ sent \in Seq(Message) /\ req \in Req /\ wire \in Seq(Token)
          /\ Len(dispatched) \in Nat
      BY DEF Typed
    <3>3. Flows(Append(sent, m), req, Len(dispatched), wire \o Bytes(m), broken)
      BY <1>1, <3>1, <3>2, FlowsSend
    <3> QED BY <1>2, <3>3
  <2> QED BY <1>2, <1>3, <2>1 DEF Flow
<1>6. Answered'
  BY <1>2, <1>3 DEF Following, Answered
<1> QED BY <1>4, <1>5, <1>6 DEF Following

LEMMA ReadStep ==
  ASSUME Typed, Following, NEW len \in 1..BlockSize, Read(len)
  PROVE  Following'
<1>1. /\ req' = Add(req, Take(wire, len)) /\ wire' = Drop(wire, len) /\ len \in 1..Len(wire)
      /\ at = "read" /\ at' = "parse" /\ UNCHANGED <<sent, dispatched, answers>>
      /\ broken' = broken \cup (IF LeavesBroken(wire[len]) THEN {wire[len].msg} ELSE {})
  BY ConnAssumption DEF Read, ConnAssumption, Typed
<1>2. AllHandled' <=> AllHandled
  BY <1>1 DEF AllHandled
<1> HIDE DEF LeavesBroken
<1>6. broken \subseteq broken' /\ (LeavesBroken(wire[len]) => wire[len].msg \in broken')
  BY <1>1
<1>3. Prefix'
  BY <1>1, <1>2, <1>6 DEF Following, Prefix
<1>4. Flow'
  <2>1. ASSUME AllHandled PROVE Flows(sent', req', Len(dispatched'), wire', broken')
    <3>1. Flows(sent, req, Len(dispatched), wire, broken)
      BY <1>1, <2>1 DEF Following, Flow
    <3>2. /\ sent \in Seq(Message) /\ req \in Req /\ wire \in Seq(Token)
          /\ Len(dispatched) \in Nat
      BY DEF Typed
    <3>3. Flows(sent, Add(req, Take(wire, len)), Len(dispatched), Drop(wire, len), broken')
      BY <1>1, <1>6, <3>1, <3>2, FlowsRead
    <3> QED BY <1>1, <3>3
  <2> QED BY <1>2, <2>1 DEF Flow
<1>5. Answered'
  BY <1>1, <1>2 DEF Following, Answered
<1> QED BY <1>3, <1>4, <1>5 DEF Following

LEMMA RequestStep ==
  ASSUME Typed, Following, NEW luck, ParseRequest(luck)
  PROVE  Following'
<1> DEFINE s == ReadBlock(req, luck)
           n == Len(dispatched)
<1>1. /\ at = "parse" /\ at' = "respond" /\ s.tag = "some"
      /\ dispatched' = Append(dispatched, Seen(s.req)) /\ req' = Reset(s.req)
      /\ UNCHANGED <<sent, wire, answers, broken>>
  BY DEF ParseRequest, clientVars
<1>2. AllHandled' <=> AllHandled
  BY <1>1 DEF AllHandled
<1>3. Seen(s.req) \in Call
  BY BlockType, SeenType DEF Typed
<1>4. /\ n \in Nat /\ Len(dispatched') = n + 1 /\ dispatched'[n + 1] = Seen(s.req)
      /\ \A k \in 1..n : dispatched'[k] = dispatched[k]
  <2> HIDE DEF s
  <2>1. dispatched \in Seq(Call)
    BY DEF Typed
  <2> QED BY <1>1, <1>3, <2>1
<1>5. ASSUME AllHandled
      PROVE  /\ n < Len(sent) /\ s.req.msg = <<sent[n + 1]>>
             /\ \/ s.req.body = Expected(sent[n + 1])
                \/ sent[n + 1] \in broken /\ s.req.body = <<>>
             /\ Flows(sent, Reset(s.req), n + 1, wire, broken)
  <2>1. Flows(sent, req, n, wire, broken)
    BY <1>1, <1>5 DEF Following, Flow
  <2>2. sent \in Seq(Message) /\ req \in Req /\ wire \in Seq(Token) /\ n \in Nat
    BY <1>4 DEF Typed
  <2>3. s = ReadBlock(req, luck)
    OBVIOUS
  <2> HIDE DEF s, n
  <2>4. s.tag = "some" => HasNext(sent, s.req, n, wire, broken)
    BY <2>1, <2>2, <2>3, FlowsBlock
  <2> QED BY <1>1, <2>4 DEF HasNext
<1> HIDE DEF s
<1>6. Prefix'
  <2>1. ASSUME AllHandled
        PROVE  /\ Len(dispatched') <= Len(sent')
               /\ \A k \in 1..Len(dispatched') :
                    /\ dispatched'[k].msg = <<sent'[k]>>
                    /\ \/ dispatched'[k].body = Expected(sent'[k])
                       \/ sent'[k] \in broken' /\ dispatched'[k].body = <<>>
    <3>1. /\ n < Len(sent) /\ s.req.msg = <<sent[n + 1]>>
          /\ \/ s.req.body = Expected(sent[n + 1])
             \/ sent[n + 1] \in broken /\ s.req.body = <<>>
      BY <1>5, <2>1
    <3>2. Len(sent) \in Nat
      BY DEF Typed
    <3>3. Len(dispatched') <= Len(sent')
      BY <1>1, <1>4, <3>1, <3>2
    <3>4. ASSUME NEW k \in 1..n
          PROVE  /\ dispatched'[k].msg = <<sent'[k]>>
                 /\ \/ dispatched'[k].body = Expected(sent'[k])
                    \/ sent'[k] \in broken' /\ dispatched'[k].body = <<>>
      BY <1>1, <1>4, <2>1 DEF Following, Prefix
    <3>5. /\ dispatched'[n + 1].msg = <<sent'[n + 1]>>
          /\ \/ dispatched'[n + 1].body = Expected(sent'[n + 1])
             \/ sent'[n + 1] \in broken' /\ dispatched'[n + 1].body = <<>>
      BY <1>1, <1>4, <3>1 DEF Seen
    <3>6. \A k \in 1..(n + 1) : k \in 1..n \/ k = n + 1
      BY <1>4
    <3> QED BY <1>4, <3>3, <3>4, <3>5, <3>6
  <2> QED BY <1>2, <2>1 DEF Prefix
<1>7. Flow'
  BY <1>1, <1>2, <1>4, <1>5 DEF Flow
<1>8. Answered'
  <2>1. req'.stage = 0
    BY <1>1 DEF Reset, Empty
  <2>2. AllHandled => Len(answers) = n
    BY <1>1 DEF Following, Answered
  <2> QED BY <1>1, <1>2, <1>4, <2>1, <2>2 DEF Answered
<1> QED BY <1>6, <1>7, <1>8 DEF Following

LEMMA MoreStep ==
  ASSUME Typed, Following, NEW luck, ParseMore(luck)
  PROVE  Following'
<1> DEFINE s == ReadBlock(req, luck)
<1>1. /\ at = "parse" /\ at' = "read" /\ s.tag = "none" /\ req' = s.req
      /\ UNCHANGED <<sent, wire, answers, dispatched, broken>>
  BY DEF ParseMore, clientVars
<1>2. AllHandled' <=> AllHandled
  BY <1>1 DEF AllHandled
<1>3. ASSUME AllHandled PROVE Waits(s.req) /\ Flows(sent, s.req, Len(dispatched), wire, broken)
  <2>1. Flows(sent, req, Len(dispatched), wire, broken)
    BY <1>1, <1>3 DEF Following, Flow
  <2>2. sent \in Seq(Message) /\ req \in Req /\ wire \in Seq(Token) /\ Len(dispatched) \in Nat
    BY DEF Typed
  <2>3. s = ReadBlock(req, luck)
    OBVIOUS
  <2> HIDE DEF s
  <2> QED BY <1>1, <2>1, <2>2, <2>3, FlowsBlock
<1> HIDE DEF s
<1>4. Prefix'
  BY <1>1, <1>2 DEF Following, Prefix
<1>5. Flow'
  BY <1>1, <1>2, <1>3 DEF Flow
<1>6. Answered'
  BY <1>1, <1>2, <1>3 DEF Following, Answered
<1> QED BY <1>4, <1>5, <1>6 DEF Following

LEMMA RespondStep ==
  ASSUME Typed, Following, Respond
  PROVE  Following'
<1> DEFINE a == [msg |-> dispatched[Len(dispatched)].msg, by |-> "handler"]
<1>1. /\ at = "respond" /\ at' = Again(req) /\ answers' = Append(answers, a)
      /\ UNCHANGED <<sent, wire, req, dispatched, broken>>
  BY DEF Respond, clientVars
<1>2. a.by = "handler"
  OBVIOUS
<1> HIDE DEF a
<1>3. /\ Len(answers) \in Nat /\ Len(answers') = Len(answers) + 1
      /\ \A k \in 1..Len(answers) : answers'[k] = answers[k]
      /\ answers'[Len(answers) + 1] = a
  BY <1>1 DEF Typed
<1>4. AllHandled' => AllHandled
  BY <1>3 DEF AllHandled
<1>5. Prefix'
  BY <1>1, <1>4 DEF Following, Prefix
<1>6. Flow'
  BY <1>1, <1>4 DEF Following, Flow
<1>7. Answered'
  <2>1. at' = "read" \/ at' = "parse"
    BY <1>1 DEF Again
  <2>2. AllHandled' => Len(answers) + 1 = Len(dispatched) /\ req.stage = 0
    BY <1>1, <1>4 DEF Following, Answered
  <2>3. at' = "read" /\ AllHandled' => Waits(req)
    BY <1>1, <2>2 DEF Again, Waits
  <2>4. at' = "read" /\ AllHandled' => Waits(req')
    BY <1>1, <2>3
  <2> QED BY <1>1, <1>3, <2>1, <2>2, <2>4 DEF Answered
<1> QED BY <1>5, <1>6, <1>7 DEF Following

\* Once a request is refused, nothing is claimed.
LEMMA RefuseStep ==
  ASSUME Typed, Following, Refuse
  PROVE  Following'
<1> DEFINE a == [msg |-> req.msg, by |-> "409"]
<1>1. answers' = Append(answers, a) /\ a.by /= "handler"
  BY DEF Refuse
<1> HIDE DEF a
<1>2. answers'[Len(answers) + 1] = a /\ Len(answers) + 1 \in 1..Len(answers')
  BY <1>1 DEF Typed
<1>3. ~AllHandled'
  BY <1>1, <1>2 DEF AllHandled
<1> QED BY <1>3 DEF Following, Prefix, Flow, Answered

LEMMA FollowingStep ==
  ASSUME Typed, Following, [Next]_vars
  PROVE  Following'
<1>1. ASSUME NEW luck,
             \/ ReadEnds \/ RespondFails \/ RefuseFails
             \/ ParseInvalid(luck) \/ ParseRefused(luck) \/ ParsePanics(luck)
      PROVE  Following'
  <2>1. at' \in {"closed", "refuse", "panicked"} /\ UNCHANGED <<sent, dispatched, answers, broken>>
    BY <1>1 DEF ReadEnds, RespondFails, RefuseFails, ParseInvalid, ParseRefused, ParsePanics,
                Disconnect, clientVars
  <2>2. AllHandled' <=> AllHandled
    BY <2>1 DEF AllHandled
  <2>3. Prefix'
    BY <2>1, <2>2 DEF Following, Prefix
  <2>4. Flow' /\ Answered'
    BY <2>1 DEF Flow, Answered
  <2> QED BY <2>3, <2>4 DEF Following
<1>2. ASSUME UNCHANGED vars PROVE Following'
  BY <1>2 DEF vars, Following, Prefix, Flow, Answered, AllHandled
<1> QED BY <1>1, <1>2, SendStep, ReadStep, RequestStep, MoreStep, RespondStep, RefuseStep
        DEF Next, Parse

-----------------------------------------------------------------------------
(* The invariant, and the theorems. *)

LEMMA Initially ==
  ASSUME Init
  PROVE  IInv
<1>0. /\ sent = <<>> /\ wire = <<>> /\ req = Empty /\ at = "read" /\ lastCtx = FALSE
      /\ dispatched = <<>> /\ answers = <<>> /\ calls = [connect |-> 0, disconnect |-> 0]
      /\ broken = {}
  BY DEF Init
<1>1. Typed
  <2>1. Empty \in Req
    <3>1. [Empty EXCEPT !.buff = <<>>] = Empty /\ <<>> \in Seq(Token)
      BY DEF Empty
    <3> QED BY <3>1, EmptyIsReq
  <2>2. /\ <<>> \in Seq(Message) /\ <<>> \in Seq(Token)
        /\ <<>> \in Seq(Call) /\ <<>> \in Seq(Answer)
    OBVIOUS
  <2>3. [connect |-> 0, disconnect |-> 0] \in [connect : Nat, disconnect : Nat]
    OBVIOUS
  <2> HIDE DEF Empty
  <2>4. broken \subseteq Message
    BY <1>0
  <2> QED BY <1>0, <2>1, <2>2, <2>3, <2>4, Zenon DEF Typed
<1>2. ConnectPairsWithDisconnect /\ Remembers /\ Responds
  BY <1>0 DEF ConnectPairsWithDisconnect, Remembers, Responds
<1>3. Prefix
  BY <1>0 DEF Prefix
<1>4. Flow
  <2> DEFINE start == [k \in 1..1 |-> 0]
  <2>1. start \in [1..(Len(sent) + 1) -> Nat] /\ start[1] = 0 /\ Len(sent) = 0
    BY <1>0
  <2>2. Starts(sent, start)
    BY <2>1 DEF Starts
  <2>3. /\ req.buff = <<>> /\ req.stage = 0 /\ req.size = 0 /\ req.skip = 0 /\ req.body = <<>>
        /\ ~req.lost
    BY <1>0 DEF Empty
  <2> HIDE DEF start
  <2>6. Known(sent, start, 0, broken)
    BY <2>1 DEF Known
  <2>4. Reading(sent, start, 0, 0, req, 0, broken)
    BY <2>1, <2>3 DEF Reading, Holds, Place, Notes
  <2>5. Holds(sent, start, wire, 0) /\ 0 + Len(wire) = start[Len(sent) + 1] /\ Len(dispatched) = 0
    BY <1>0, <2>1 DEF Holds
  <2> QED BY <2>1, <2>2, <2>4, <2>5, <2>6 DEF Flow, Flows
<1>5. Answered
  <2>1. Waits(req)
    BY <1>0 DEF Waits, Empty
  <2> QED BY <1>0, <2>1 DEF Answered
<1> QED BY <1>1, <1>2, <1>3, <1>4, <1>5 DEF IInv

LEMMA Inductive == Spec => []IInv
<1>1. ASSUME IInv, [Next]_vars PROVE IInv'
  BY <1>1, TypeStep, PairsStep, FollowingStep DEF IInv, Following
<1> QED BY Initially, <1>1, PTL DEF Spec

\* Every state has its type: the parser of a connection is always a request as
\* far as it is read, whatever bytes came, also after a refused one.
THEOREM TypeCorrect == Spec => []Typed
BY Inductive, PTL DEF IInv

\* "_connect" is called once for a connection a handler is called on, and
\* "_disconnect" once for it and no other, whichever way its task returns; a task
\* that panics in the parser has called "_disconnect" for nobody.
THEOREM Paired == Spec => []ConnectPairsWithDisconnect
BY Inductive, PTL DEF IInv

\* Handlers are called for the requests that were sent, in order and each with
\* its own body, however the bytes are cut into reads; a multipart body lacks
\* something only if a read ended at the line break before one of its boundaries.
THEOREM DispatchesInOrder == Spec => []DispatchedIsPrefix
<1>1. ASSUME IInv PROVE DispatchedIsPrefix
  BY <1>1 DEF IInv, Prefix, AllHandled, DispatchedIsPrefix, Clean
<1> QED BY Inductive, <1>1, PTL

\* A connection that waits for bytes, where none are on the way, has answered all
\* that was sent, or holds a multipart body because what it has last looks like
\* the beginning of a boundary: nothing else keeps a whole request in the buffer.
THEOREM NoneForgotten == Spec => []NothingForgotten
<1>1. ASSUME IInv, at = "read", wire = <<>>, Clean, ~HeldBack(req)
      PROVE  Len(answers) = Len(sent)
  <2>1. AllHandled /\ Flows(sent, req, Len(dispatched), <<>>, broken)
    BY <1>1 DEF IInv, Flow, AllHandled, Clean
  <2>2. Len(answers) = Len(dispatched) /\ Waits(req)
    BY <1>1, <2>1 DEF IInv, Answered
  <2>3. sent \in Seq(Message) /\ req \in Req /\ Len(dispatched) \in Nat
    BY <1>1 DEF IInv, Typed
  <2>4. Len(dispatched) = Len(sent)
    BY <1>1, <2>1, <2>2, <2>3, FlowsEnd
  <2> QED BY <2>2, <2>4
<1>2. ASSUME IInv PROVE NothingForgotten
  BY <1>1, <1>2 DEF NothingForgotten
<1> QED BY Inductive, <1>2, PTL

=============================================================================
