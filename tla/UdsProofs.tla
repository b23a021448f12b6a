------------------------------- MODULE UdsProofs -------------------------------
(***************************************************************************)
(* Proofs about UdsChannel, for any kinds of messages, any number of them, *)
(* any size of the blocks and each of the three receivers.                 *)
(*                                                                         *)
(* The bytes written are numbered from 1, through all frames: the frame of *)
(* message k is made of those after start[k], up to start[k + 1].  The     *)
(* parser's buffer holds the bytes from+1 to upto, the stream those after  *)
(* upto (Holds).  As long as no read has cut a frame, what the parser has  *)
(* noted says where in which frame it is (OnTrack, Notes); after such a    *)
(* read it may have taken a part of a json text for a binary part, and     *)
(* then never gets past the rest of that text (Lost).                      *)
(***************************************************************************)
EXTENDS UdsChannel, SequenceTheorems, FiniteSetTheorems, WellFoundedInduction, TLAPS

Token == [kind : {"meta", "sep", "json", "binary"}, msg : Message, pos : Nat]
Req == [owner : Owner, buff : Seq(Token), hasMeta : BOOLEAN, hasBody : BOOLEAN,
        json : Nat, bin : Nat, message : Seq(Message), binary : Seq(Token)]
Call == [message : Message, binary : Seq(Token)]

Typed ==
  /\ sent \in Seq(Message) /\ wire \in Seq(Token) /\ req \in Req
  /\ at \in {"read", "parse", "exited", "ended"}
  /\ dispatched \in Seq(Call)
  /\ cut \in BOOLEAN

-----------------------------------------------------------------------------
(* Where the bytes are. *)

Total(m) == 2 + JsonLen[m.shape] + BinLen[m.shape]

Byte(m, o) ==
  CASE o = 1 -> [kind |-> "meta", msg |-> m, pos |-> 1]
    [] o = 2 -> [kind |-> "sep", msg |-> m, pos |-> 1]
    [] o > 2 /\ o <= 2 + JsonLen[m.shape] -> [kind |-> "json", msg |-> m, pos |-> o - 2]
    [] OTHER -> [kind |-> "binary", msg |-> m, pos |-> o - 2 - JsonLen[m.shape]]

\* Where each of the frames of the messages all begins, and the last one ends; no
\* receiver refuses one of them.
Starts(all, start) ==
  /\ \A k \in 1..Len(all) : ~Refused(all[k].shape)
  /\ start \in [1..(Len(all) + 1) -> Nat]
  /\ \A k \in 1..Len(all) : start[k + 1] = start[k] + Total(all[k])
  /\ \A j, k \in 1..(Len(all) + 1) : j <= k => start[j] <= start[k]

\* q holds the bytes from+1 to from+Len(q) of the frames.
Holds(all, start, q, from) ==
  \A k \in 1..Len(all) : \A o \in 1..Total(all[k]) :
    start[k] + o - from \in 1..Len(q) => q[start[k] + o - from] = Byte(all[k], o)

\* How much of a frame the parser has taken from its buffer.
Taken(r) == IF ~r.hasMeta THEN 0 ELSE IF r.message = <<>> THEN 2 ELSE 2 + r.json

\* n messages are dispatched, and the parser is in the frame of the next.
OnTrack(all, start, from, r, n) == n \in 0..Len(all) /\ from = start[n + 1] + Taken(r)

\* The rest of the json text of message k has lost its meta.
Lost(all, start, from, r) ==
  /\ ~r.hasMeta
  /\ \E k \in 1..Len(all) : \E o \in 2..(1 + JsonLen[all[k].shape]) : from = start[k] + o

\* What the parser has noted of the frame it is in.
Notes(all, r, n) ==
  /\ ~r.hasBody /\ r.binary = <<>>
  /\ ~r.hasMeta => r.json = 0 /\ r.bin = 0 /\ r.message = <<>>
  /\ r.hasMeta => /\ n < Len(all)
                  /\ r.json = JsonLen[all[n + 1].shape] /\ r.bin = BinLen[all[n + 1].shape]
                  /\ r.message /= <<>> => r.message = <<all[n + 1]>> /\ r.bin > 0

\* c: a read has cut a frame.  Without that no part of a frame but its meta is
\* noted from one call of read_block to the next.
Reading(all, start, from, upto, r, n, c) ==
  /\ Holds(all, start, r.buff, from) /\ from + Len(r.buff) = upto
  /\ OnTrack(all, start, from, r, n) /\ Notes(all, r, n) /\ (c \/ r.message = <<>>)

Astray(all, start, from, upto, r) ==
  /\ Holds(all, start, r.buff, from) /\ from + Len(r.buff) = upto
  /\ Lost(all, start, from, r) /\ ~r.hasBody
  /\ r.json = 0 /\ r.bin = 0 /\ r.message = <<>> /\ r.binary = <<>>

\* r has read n of the messages all, and w is what is not read.
Flows(all, r, n, w, c) ==
  \E start \in [1..(Len(all) + 1) -> Nat], from \in Nat, upto \in Nat :
    /\ Starts(all, start)
    /\ \/ Reading(all, start, from, upto, r, n, c)
       \/ c /\ Astray(all, start, from, upto, r)
    /\ Holds(all, start, w, upto) /\ upto + Len(w) = start[Len(all) + 1]

Sure == req.owner = "rust" \/ ~cut

Flow ==
  Sure /\ at \in {"read", "parse"} => Flows(sent, req, Len(dispatched), wire, cut)

\* Unlucky, of any receiver.
Cuts(owner, byte) ==
  LET shape == byte.msg.shape
      ends == \/ byte.kind = "binary" /\ byte.pos = BinLen[shape]
              \/ byte.kind = "json" /\ byte.pos = JsonLen[shape] /\ BinLen[shape] = 0
  IN  /\ ~ends /\ byte.kind /= "sep"
      /\ owner = "python" => byte.kind /= "meta" /\ BinLen[shape] > 0

\* q is empty or ends where its receiver can go on from.
Fine(owner, q) == q /= <<>> => ~Cuts(owner, q[Len(q)])

\* It lacks bytes of what it reads next.
Lacks(r) == IF r.hasMeta THEN Len(r.buff) < r.json ELSE Len(r.buff) < 2

Whole ==
  ~cut /\ at \in {"read", "parse"} =>
    /\ Fine(req.owner, req.buff)
    /\ at = "read" => Lacks(req)

IInv == Typed /\ DispatchedIsPrefix /\ Flow /\ Whole /\ NeverGivesUp

-----------------------------------------------------------------------------
(* Sequences and sets of numbers. *)

LEMMA Least ==
  ASSUME NEW S \in SUBSET Nat, S /= {}
  PROVE  \E k \in S : \A j \in S : k <= j
<1> DEFINE T == {1..k : k \in S}
<1>1. T \subseteq FiniteSubsetsOf(Nat) /\ T /= {}
  <2>1. ASSUME NEW k \in S PROVE 1..k \in FiniteSubsetsOf(Nat)
    <3>1. 1..k \in SUBSET Nat /\ 1 \in Int /\ k \in Int
      OBVIOUS
    <3>2. IsFiniteSet(1..k)
      BY <3>1, FS_Interval
    <3> QED BY <3>1, <3>2 DEF FiniteSubsetsOf
  <2> QED BY <2>1
<1>2. PICK X \in T : \A Y \in T : ~(<<Y, X>> \in StrictSubsetOrdering(Nat))
  <2>1. IsWellFoundedOn(StrictSubsetOrdering(Nat), FiniteSubsetsOf(Nat))
    BY FS_StrictSubsetOrderingWellFounded
  <2> HIDE DEF T
  <2> QED BY <1>1, <2>1, WFMin
<1>3. PICK k \in S : X = 1..k
  OBVIOUS
<1>4. ASSUME NEW j \in S, j < k PROVE FALSE
  <2>1. 1..j \subseteq 1..k /\ 1..j /= 1..k /\ 1..j \in SUBSET Nat /\ 1..k \in SUBSET Nat
    <3>1. k \in 1..k /\ k \notin 1..j
      BY <1>4
    <3> QED BY <1>4, <3>1
  <2>2. <<1..j, 1..k>> \in StrictSubsetOrdering(Nat)
    BY <2>1 DEF StrictSubsetOrdering
  <2>3. 1..j \in T
    OBVIOUS
  <2> QED BY <1>2, <1>3, <2>2, <2>3
<1> QED BY <1>4

LEMMA DropSeq ==
  ASSUME NEW S, NEW q \in Seq(S), NEW k \in 0..Len(q)
  PROVE  /\ Drop(q, k) \in Seq(S) /\ Len(Drop(q, k)) = Len(q) - k
         /\ \A j \in 1..(Len(q) - k) : Drop(q, k)[j] = q[k + j]
BY SubSeqProperties DEF Drop

LEMMA TakeSeq ==
  ASSUME NEW S, NEW q \in Seq(S), NEW k \in 0..Len(q)
  PROVE  /\ Take(q, k) \in Seq(S) /\ Len(Take(q, k)) = k
         /\ \A j \in 1..k : Take(q, k)[j] = q[j]
BY SubSeqProperties DEF Take

LEMMA Concat ==
  ASSUME NEW p \in Seq(Token), NEW q \in Seq(Token)
  PROVE  /\ p \o q \in Seq(Token) /\ Len(p \o q) = Len(p) + Len(q)
         /\ Len(p) \in Nat /\ Len(q) \in Nat
         /\ \A i \in 1..Len(p) : (p \o q)[i] = p[i]
         /\ \A i \in 1..Len(q) : (p \o q)[Len(p) + i] = q[i]
<1>1. Len(p) \in Nat /\ Len(q) \in Nat
  OBVIOUS
<1>2. /\ p \o q \in Seq(Token) /\ Len(p \o q) = Len(p) + Len(q)
      /\ \A i \in 1..(Len(p) + Len(q)) : (p \o q)[i] = IF i <= Len(p) THEN p[i] ELSE q[i - Len(p)]
  BY ConcatProperties
<1>3. ASSUME NEW i \in 1..Len(p) PROVE (p \o q)[i] = p[i]
  <2>1. i \in 1..(Len(p) + Len(q)) /\ i <= Len(p)
    BY <1>1
  <2> QED BY <1>2, <2>1
<1>4. ASSUME NEW i \in 1..Len(q) PROVE (p \o q)[Len(p) + i] = q[i]
  <2>1. /\ Len(p) + i \in 1..(Len(p) + Len(q)) /\ ~(Len(p) + i <= Len(p))
        /\ (Len(p) + i) - Len(p) = i
    BY <1>1
  <2> QED BY <1>2, <2>1
<1> QED BY <1>1, <1>2, <1>3, <1>4

LEMMA LengthsAre ==
  ASSUME NEW m \in Message
  PROVE  /\ m.shape \in Shape
         /\ JsonLen[m.shape] \in Nat /\ JsonLen[m.shape] > 0 /\ BinLen[m.shape] \in Nat
         /\ Total(m) \in Nat /\ Total(m) = 2 + JsonLen[m.shape] + BinLen[m.shape]
<1>1. m.shape \in Shape
  BY DEF Message
<1> QED BY <1>1, ReqAssumption DEF ReqAssumption, Total

LEMMA PartIs ==
  ASSUME NEW kind \in {"meta", "sep", "json", "binary"}, NEW m \in Message, NEW len \in Nat
  PROVE  /\ Part(kind, m, len) \in Seq(Token) /\ Len(Part(kind, m, len)) = len
         /\ \A p \in 1..len : Part(kind, m, len)[p] = [kind |-> kind, msg |-> m, pos |-> p]
<1>1. \A p \in 1..len : [kind |-> kind, msg |-> m, pos |-> p] \in Token
  BY DEF Token
<1>2. [p \in 1..len |-> [kind |-> kind, msg |-> m, pos |-> p]] \in Seq(Token)
  BY <1>1, IsASeq
<1> QED BY <1>2 DEF Part

LEMMA ByteIs ==
  ASSUME NEW m \in Message
  PROVE  /\ Byte(m, 1) = [kind |-> "meta", msg |-> m, pos |-> 1]
         /\ Byte(m, 2) = [kind |-> "sep", msg |-> m, pos |-> 1]
         /\ \A p \in 1..JsonLen[m.shape] :
              Byte(m, 2 + p) = [kind |-> "json", msg |-> m, pos |-> p]
         /\ \A p \in 1..BinLen[m.shape] :
              Byte(m, (2 + JsonLen[m.shape]) + p) = [kind |-> "binary", msg |-> m, pos |-> p]
<1> DEFINE j == JsonLen[m.shape]
           b == BinLen[m.shape]
<1>1. j \in Nat /\ b \in Nat
  BY LengthsAre
<1>2. ASSUME NEW o \in Nat
      PROVE  Byte(m, o) = CASE o = 1 -> [kind |-> "meta", msg |-> m, pos |-> 1]
                            [] o = 2 -> [kind |-> "sep", msg |-> m, pos |-> 1]
                            [] o > 2 /\ o <= 2 + j -> [kind |-> "json", msg |-> m, pos |-> o - 2]
                            [] OTHER -> [kind |-> "binary", msg |-> m, pos |-> o - 2 - j]
  BY DEF Byte
<1> HIDE DEF j, b
<1>3. Byte(m, 1) = [kind |-> "meta", msg |-> m, pos |-> 1]
  BY <1>1, <1>2
<1>4. Byte(m, 2) = [kind |-> "sep", msg |-> m, pos |-> 1]
  BY <1>1, <1>2
<1>5. ASSUME NEW p \in 1..j PROVE Byte(m, 2 + p) = [kind |-> "json", msg |-> m, pos |-> p]
  <2>1. /\ 2 + p \in Nat /\ 2 + p > 2 /\ 2 + p <= 2 + j /\ (2 + p) - 2 = p
        /\ 2 + p /= 1 /\ 2 + p /= 2
    BY <1>1
  <2>2. Byte(m, 2 + p) = [kind |-> "json", msg |-> m, pos |-> (2 + p) - 2]
    BY <1>2, <2>1
  <2> QED BY <2>1, <2>2
<1>6. ASSUME NEW p \in 1..b
      PROVE  Byte(m, (2 + j) + p) = [kind |-> "binary", msg |-> m, pos |-> p]
  <2> DEFINE o == (2 + j) + p
  <2>1. o \in Nat /\ ~(o <= 2 + j) /\ o - 2 - j = p /\ o /= 1 /\ o /= 2
    BY <1>1
  <2> HIDE DEF o
  <2>2. Byte(m, o) = [kind |-> "binary", msg |-> m, pos |-> o - 2 - j]
    BY <1>2, <2>1
  <2> QED BY <2>1, <2>2 DEF o
<1> QED BY <1>3, <1>4, <1>5, <1>6 DEF j, b

\* The bytes of a frame, one by one.
LEMMA FrameIs ==
  ASSUME NEW m \in Message
  PROVE  /\ Frame(m) \in Seq(Token) /\ Len(Frame(m)) = Total(m) /\ Total(m) \in Nat
         /\ \A o \in 1..Total(m) : Frame(m)[o] = Byte(m, o)
<1> DEFINE j == JsonLen[m.shape]
           b == BinLen[m.shape]
           a1 == Part("meta", m, 1)
           a2 == Part("sep", m, 1)
           a3 == Part("json", m, j)
           a4 == Part("binary", m, b)
           h2 == a1 \o a2
           h3 == h2 \o a3
           h4 == h3 \o a4
<1>1. j \in Nat /\ j > 0 /\ b \in Nat /\ Total(m) = 2 + j + b
  BY LengthsAre
<1>2. /\ a1 \in Seq(Token) /\ Len(a1) = 1 /\ a1[1] = [kind |-> "meta", msg |-> m, pos |-> 1]
      /\ a2 \in Seq(Token) /\ Len(a2) = 1 /\ a2[1] = [kind |-> "sep", msg |-> m, pos |-> 1]
  <2>1. 1 \in Nat /\ 1 \in 1..1
    OBVIOUS
  <2>2. a1 \in Seq(Token) /\ Len(a1) = 1 /\ a1[1] = [kind |-> "meta", msg |-> m, pos |-> 1]
    <3>1. "meta" \in {"meta", "sep", "json", "binary"}
      OBVIOUS
    <3>2. /\ a1 \in Seq(Token) /\ Len(a1) = 1
          /\ \A p \in 1..1 : a1[p] = [kind |-> "meta", msg |-> m, pos |-> p]
      BY ZenonT(40), <2>1, <3>1, PartIs
    <3> QED BY <2>1, <3>2
  <2>3. a2 \in Seq(Token) /\ Len(a2) = 1 /\ a2[1] = [kind |-> "sep", msg |-> m, pos |-> 1]
    <3>1. "sep" \in {"meta", "sep", "json", "binary"}
      OBVIOUS
    <3>2. /\ a2 \in Seq(Token) /\ Len(a2) = 1
          /\ \A p \in 1..1 : a2[p] = [kind |-> "sep", msg |-> m, pos |-> p]
      BY <2>1, <3>1, PartIs
    <3> QED BY <2>1, <3>2
  <2> QED BY <2>2, <2>3
<1>3. /\ a3 \in Seq(Token) /\ Len(a3) = j
      /\ \A p \in 1..j : a3[p] = [kind |-> "json", msg |-> m, pos |-> p]
  BY <1>1, PartIs
<1>4. /\ a4 \in Seq(Token) /\ Len(a4) = b
      /\ \A p \in 1..b : a4[p] = [kind |-> "binary", msg |-> m, pos |-> p]
  BY <1>1, PartIs
<1>5. Frame(m) = h4
  BY DEF Frame
<1> HIDE DEF a1, a2, a3, a4
<1>6. h2 \in Seq(Token) /\ Len(h2) = 2 /\ h2[1] = a1[1] /\ h2[2] = a2[1]
  <2>1. 1 \in 1..Len(a1) /\ 1 \in 1..Len(a2) /\ Len(a1) + 1 = 2
    BY <1>2
  <2> QED BY <1>2, <2>1, Concat
<1> HIDE DEF h2
<1>7. /\ h3 \in Seq(Token) /\ Len(h3) = 2 + j
      /\ h3[1] = a1[1] /\ h3[2] = a2[1] /\ \A p \in 1..j : h3[2 + p] = a3[p]
  <2>1. 1 \in 1..Len(h2) /\ 2 \in 1..Len(h2)
    BY <1>6
  <2>2. /\ h2 \o a3 \in Seq(Token) /\ Len(h2 \o a3) = Len(h2) + Len(a3)
        /\ \A i \in 1..Len(h2) : (h2 \o a3)[i] = h2[i]
        /\ \A i \in 1..Len(a3) : (h2 \o a3)[Len(h2) + i] = a3[i]
    BY <1>3, <1>6, Concat
  <2> HIDE DEF j
  <2>3. h3 \in Seq(Token) /\ Len(h3) = 2 + j /\ \A p \in 1..j : h3[2 + p] = a3[p]
    BY <1>3, <1>6, <2>2
  <2>4. h3[1] = h2[1] /\ h3[2] = h2[2]
    BY <2>1, <2>2
  <2> QED BY <1>6, <2>3, <2>4
<1> HIDE DEF h3, j, b
<1>8. /\ h4 \in Seq(Token) /\ Len(h4) = 2 + j + b
      /\ \A o \in 1..(2 + j) : h4[o] = h3[o]
      /\ \A p \in 1..b : h4[(2 + j) + p] = a4[p]
  <2>1. /\ h3 \o a4 \in Seq(Token) /\ Len(h3 \o a4) = Len(h3) + Len(a4)
        /\ \A i \in 1..Len(h3) : (h3 \o a4)[i] = h3[i]
        /\ \A i \in 1..Len(a4) : (h3 \o a4)[Len(h3) + i] = a4[i]
    BY <1>4, <1>7, Concat
  <2> QED BY <1>4, <1>7, <2>1
<1> HIDE DEF h4
<1>9. ASSUME NEW o \in 1..(2 + j + b) PROVE h4[o] = Byte(m, o)
  <2>1. CASE o = 1
    <3>1. 1 \in 1..(2 + j)
      BY <1>1
    <3>2. h4[1] = a1[1]
      BY <1>7, <1>8, <3>1
    <3>3. Byte(m, 1) = a1[1]
      BY <1>2, ByteIs
    <3> QED BY <2>1, <3>2, <3>3
  <2>2. CASE o = 2
    <3>1. 2 \in 1..(2 + j)
      BY <1>1
    <3>2. h4[2] = a2[1]
      BY <1>7, <1>8, <3>1
    <3>3. Byte(m, 2) = a2[1]
      BY <1>2, ByteIs
    <3> QED BY <2>2, <3>2, <3>3
  <2>3. CASE o > 2 /\ o <= 2 + j
    <3>1. PICK p \in 1..j : o = 2 + p
      <4>1. o - 2 \in 1..j /\ o = 2 + (o - 2)
        BY <1>1, <2>3
      <4> QED BY <4>1
    <3>2. 2 + p \in 1..(2 + j)
      BY <1>1, <3>1
    <3>3. h4[2 + p] = a3[p]
      BY <1>7, <1>8, <3>1, <3>2
    <3>4. Byte(m, 2 + p) = a3[p]
      BY <1>3, <3>1, ByteIs DEF j
    <3> QED BY <3>1, <3>3, <3>4
  <2>4. CASE o > 2 + j
    <3>1. PICK p \in 1..b : o = (2 + j) + p
      <4>1. o - (2 + j) \in 1..b /\ o = (2 + j) + (o - (2 + j))
        BY <1>1, <2>4
      <4> QED BY <4>1
    <3> QED BY ZenonT(40), <1>4, <1>8, <3>1, ByteIs DEF j, b
  <2> QED BY <1>1, <2>1, <2>2, <2>3, <2>4
<1> QED BY <1>1, <1>5, <1>8, <1>9 DEF j, b

-----------------------------------------------------------------------------
(* Type correctness. *)

LEMMA FieldsOfReq ==
  ASSUME NEW r \in Req
  PROVE  /\ r.owner \in Owner /\ r.buff \in Seq(Token)
         /\ r.hasMeta \in BOOLEAN /\ r.hasBody \in BOOLEAN
         /\ r.json \in Nat /\ r.bin \in Nat
         /\ r.message \in Seq(Message) /\ r.binary \in Seq(Token)
BY Zenon DEF Req

LEMMA TokenIs ==
  ASSUME NEW q \in Seq(Token), NEW k \in 1..Len(q)
  PROVE  /\ q[k] \in Token /\ q[k].msg \in Message /\ q[k].msg.shape \in Shape
         /\ <<q[k].msg>> \in Seq(Message)
<1>1. q[k] \in Token
  OBVIOUS
<1>2. q[k].msg \in Message
  BY <1>1 DEF Token
<1>3. q[k].msg.shape \in Shape
  BY <1>2 DEF Message
<1> QED BY <1>1, <1>2, <1>3

LEMMA EmptyIsReq ==
  ASSUME NEW owner \in Owner
  PROVE  Empty(owner) \in Req /\ Empty(owner).buff = <<>> /\ Empty(owner).owner = owner
<1>1. /\ <<>> \in Seq(Token) /\ <<>> \in Seq(Message) /\ 0 \in Nat /\ FALSE \in BOOLEAN
  OBVIOUS
<1> QED BY <1>1, Zenon DEF Empty, Req

LEMMA BuffIsReq ==
  ASSUME NEW r \in Req, NEW q \in Seq(Token)
  PROVE  [r EXCEPT !.buff = q] \in Req
BY Zenon DEF Req

LEMMA ResetIsReq ==
  ASSUME NEW r \in Req
  PROVE  /\ Reset(r) \in Req /\ Reset(r).buff = r.buff /\ Reset(r).owner = r.owner
         /\ ~Reset(r).hasMeta /\ ~Reset(r).hasBody /\ Reset(r).json = 0 /\ Reset(r).bin = 0
         /\ Reset(r).message = <<>> /\ Reset(r).binary = <<>>
<1>1. r.owner \in Owner /\ r.buff \in Seq(Token)
  BY FieldsOfReq
<1>2. Empty(r.owner) \in Req
  BY <1>1, EmptyIsReq
<1>3. Reset(r) \in Req
  BY <1>1, <1>2, BuffIsReq DEF Reset
<1> QED BY <1>3 DEF Reset, Empty

\* p is empty or ends with the byte q ends with.
EndsAs(p, q) == p /= <<>> => q /= <<>> /\ p[Len(p)] = q[Len(q)]

LEMMA DropEnds ==
  ASSUME NEW q \in Seq(Token), NEW k \in 0..Len(q)
  PROVE  EndsAs(Drop(q, k), q)
<1> SUFFICES ASSUME Drop(q, k) /= <<>>
             PROVE  q /= <<>> /\ Drop(q, k)[Len(Drop(q, k))] = q[Len(q)]
  BY DEF EndsAs
<1> DEFINE d == Drop(q, k)
<1>1. /\ d \in Seq(Token) /\ Len(d) = Len(q) - k /\ Len(q) \in Nat /\ k \in Nat
      /\ \A j \in 1..(Len(q) - k) : d[j] = q[k + j]
  BY DropSeq
<1>2. d /= <<>>
  OBVIOUS
<1> HIDE DEF d
<1>3. Len(d) > 0
  BY <1>1, <1>2
<1>4. Len(d) \in 1..(Len(q) - k) /\ k + Len(d) = Len(q)
  BY <1>1, <1>3
<1>5. d[Len(d)] = q[Len(q)]
  BY <1>1, <1>4
<1>6. q /= <<>>
  BY <1>1, <1>3
<1> QED BY <1>5, <1>6 DEF d

\* What every reader leaves of a request.
Good(h, r) ==
  /\ h.req \in Req /\ h.tag \in {"some", "none", "error"}
  /\ h.req.owner = r.owner /\ EndsAs(h.req.buff, r.buff)

LEMMA SameIsGood ==
  ASSUME NEW r \in Req, NEW tag \in {"some", "none", "error"}
  PROVE  Good(Result(tag, r), r)
BY DEF Good, Result, EndsAs

LEMMA ClearedIsGood ==
  ASSUME NEW r \in Req
  PROVE  Good(Result("error", [r EXCEPT !.buff = <<>>]), r)
<1>1. <<>> \in Seq(Token)
  OBVIOUS
<1>2. [r EXCEPT !.buff = <<>>] \in Req
  BY <1>1, BuffIsReq
<1>3. [r EXCEPT !.buff = <<>>].owner = r.owner /\ [r EXCEPT !.buff = <<>>].buff = <<>>
  BY DEF Req
<1> QED BY <1>2, <1>3 DEF Good, Result, EndsAs

LEMMA BinaryType ==
  ASSUME NEW r \in Req
  PROVE  Good(ReadBinary(r), r)
<1>1. CASE ~(r.bin /= 0 /\ Len(r.buff) >= r.bin)
  BY <1>1, SameIsGood DEF ReadBinary
<1>2. CASE r.bin /= 0 /\ Len(r.buff) >= r.bin
  <2> DEFINE t == Take(r.buff, r.bin)
             d == Drop(r.buff, r.bin)
             s == [r EXCEPT !.binary = t, !.hasBody = TRUE, !.buff = d]
  <2>1. r.buff \in Seq(Token) /\ r.bin \in 0..Len(r.buff) /\ TRUE \in BOOLEAN
    BY <1>2, FieldsOfReq
  <2>2. t \in Seq(Token) /\ d \in Seq(Token) /\ EndsAs(d, r.buff)
    BY <2>1, TakeSeq, DropSeq, DropEnds
  <2>3. ReadBinary(r) = Result("some", s)
    BY <1>2 DEF ReadBinary
  <2> HIDE DEF t, d
  <2>4. s \in Req
    BY <2>1, <2>2, Zenon DEF Req
  <2>5. s.owner = r.owner /\ s.buff = d
    BY DEF Req
  <2> HIDE DEF s
  <2> QED BY <2>2, <2>3, <2>4, <2>5 DEF Good, Result
<1> QED BY <1>1, <1>2

LEMMA GoodChain ==
  ASSUME NEW r \in Req, NEW s \in Req, s.owner = r.owner, EndsAs(s.buff, r.buff),
         NEW h, Good(h, s)
  PROVE  Good(h, r)
BY DEF Good, EndsAs

LEMMA JsonType ==
  ASSUME NEW r \in Req
  PROVE  Good(ReadJson(r), r)
<1>1. CASE ~(r.json /= 0 /\ Len(r.buff) >= r.json)
  BY <1>1, BinaryType DEF ReadJson
<1>2. CASE /\ r.json /= 0 /\ Len(r.buff) >= r.json
           /\ ~IsJson(Take(r.buff, r.json))
  BY <1>2, ClearedIsGood DEF ReadJson
<1>3. CASE /\ r.json /= 0 /\ Len(r.buff) >= r.json
           /\ IsJson(Take(r.buff, r.json)) /\ r.buff[1].msg.shape \notin Bare
  <2> DEFINE d == Drop(r.buff, r.json)
             s == [r EXCEPT !.message = <<r.buff[1].msg>>, !.buff = d]
             e == [s EXCEPT !.hasBody = TRUE]
  <2>1. r.buff \in Seq(Token) /\ r.json \in 0..Len(r.buff) /\ TRUE \in BOOLEAN
        /\ 1 \in 1..Len(r.buff)
    BY <1>3, FieldsOfReq
  <2>2. <<r.buff[1].msg>> \in Seq(Message) /\ d \in Seq(Token) /\ EndsAs(d, r.buff)
    BY <2>1, TokenIs, DropSeq, DropEnds
  <2>3. ReadJson(r) = IF r.bin = 0 THEN Result("some", e) ELSE ReadBinary(s)
    <3>1. s.bin = r.bin
      BY DEF Req
    <3> QED BY <1>3 DEF ReadJson
  <2> HIDE DEF d
  <2>4. s \in Req
    BY <2>2, Zenon DEF Req
  <2>5. s.owner = r.owner /\ s.buff = d
    BY DEF Req
  <2>6. e \in Req /\ e.owner = s.owner /\ e.buff = s.buff
    <3> HIDE DEF s
    <3>1. e \in Req
      BY <2>1, <2>4, Zenon DEF Req
    <3> QED BY <2>4, <3>1 DEF Req
  <2> HIDE DEF s, e
  <2>7. Good(Result("some", e), r)
    BY <2>2, <2>5, <2>6 DEF Good, Result
  <2>8. Good(ReadBinary(s), r)
    BY <2>2, <2>4, <2>5, BinaryType, GoodChain
  <2> QED BY <2>3, <2>7, <2>8
<1>4. CASE /\ r.json /= 0 /\ Len(r.buff) >= r.json
           /\ IsJson(Take(r.buff, r.json)) /\ r.buff[1].msg.shape \in Bare
  <2>1. ReadJson(r) = BareMessage(r)
    BY <1>4 DEF ReadJson
  <2> QED BY <2>1, SameIsGood, ClearedIsGood DEF BareMessage
<1> QED BY <1>1, <1>2, <1>3, <1>4

\* The first colon is found.
FirstColon(q) == CHOOSE k \in Colons(q) : \A j \in Colons(q) : k <= j

LEMMA FirstColonIs ==
  ASSUME NEW q \in Seq(Token), Colons(q) /= {}
  PROVE  /\ FirstColon(q) \in 1..Len(q) /\ IsColon(q[FirstColon(q)])
         /\ \A j \in 1..Len(q) : IsColon(q[j]) => FirstColon(q) <= j
<1>1. Colons(q) \in SUBSET Nat
  BY DEF Colons
<1>2. \E k \in Colons(q) : \A j \in Colons(q) : k <= j
  BY <1>1, Least
<1>3. FirstColon(q) \in Colons(q) /\ \A j \in Colons(q) : FirstColon(q) <= j
  BY <1>2 DEF FirstColon
<1> QED BY <1>3 DEF Colons

\* read_body with a meta in the buffer that is one.
Met(r) == LET end == FirstColon(r.buff)
              meta == Take(r.buff, end - 1)
          IN  [r EXCEPT !.hasMeta = TRUE, !.json = JsonLen[meta[1].msg.shape],
                        !.bin = BinLen[meta[1].msg.shape], !.buff = Drop(@, end)]

\* read_body with a meta that promises too much.
Over(r) == LET meta == Take(r.buff, FirstColon(r.buff) - 1)
           IN  [r EXCEPT !.json = JsonLen[meta[1].msg.shape],
                         !.bin = BinLen[meta[1].msg.shape], !.buff = <<>>]

LEMMA MetaIs ==
  ASSUME NEW r \in Req
  PROVE  ReadMeta(r) =
           LET meta == Take(r.buff, FirstColon(r.buff) - 1)
           IN  IF Colons(r.buff) = {}
                 THEN IF Len(r.buff) > MetaMax
                        THEN Result("error", [r EXCEPT !.buff = <<>>])
                        ELSE Result("none", r)
               ELSE IF Len(meta) /= 1 \/ meta[1].kind /= "meta"
                 THEN BadMeta(r)
               ELSE IF TooLarge(r.owner, meta[1].msg.shape)
                 THEN Result("error", Over(r))
               ELSE Result("some", Met(r))
BY DEF ReadMeta, FirstColon, Met, Over

LEMMA MetaType ==
  ASSUME NEW r \in Req
  PROVE  Good(ReadMeta(r), r)
<1> DEFINE q == r.buff
           end == FirstColon(q)
           meta == Take(q, end - 1)
<1>0. q \in Seq(Token)
  BY FieldsOfReq
<1>1. CASE Colons(q) = {}
  BY <1>1, SameIsGood, ClearedIsGood, MetaIs
<1>2. CASE Colons(q) /= {} /\ (Len(meta) /= 1 \/ meta[1].kind /= "meta")
  <2>1. ReadMeta(r) = BadMeta(r)
    BY <1>2, MetaIs
  <2> QED BY <2>1, SameIsGood, ClearedIsGood DEF BadMeta
<1>3. CASE Colons(q) /= {} /\ Len(meta) = 1 /\ meta[1].kind = "meta"
  <2>1. \/ ReadMeta(r) = Result("some", Met(r))
        \/ ReadMeta(r) = Result("error", Over(r))
    BY <1>3, MetaIs
  <2>2. end \in 1..Len(q)
    BY <1>0, <1>3, FirstColonIs
  <2>3. meta \in Seq(Token) /\ Drop(q, end) \in Seq(Token) /\ EndsAs(Drop(q, end), q)
    <3>1. end - 1 \in 0..Len(q) /\ end \in 0..Len(q)
      BY <1>0, <2>2
    <3> HIDE DEF q, end
    <3> QED BY <1>0, <3>1, TakeSeq, DropSeq, DropEnds
  <2>4. meta[1].msg.shape \in Shape
    <3>1. 1 \in 1..Len(meta)
      BY <1>3
    <3> HIDE DEF meta
    <3> QED BY <2>3, <3>1, TokenIs
  <2>5. JsonLen[meta[1].msg.shape] \in Nat /\ BinLen[meta[1].msg.shape] \in Nat
    BY <2>4, ReqAssumption DEF ReqAssumption
  <2>6. /\ Met(r) = [r EXCEPT !.hasMeta = TRUE, !.json = JsonLen[meta[1].msg.shape],
                              !.bin = BinLen[meta[1].msg.shape], !.buff = Drop(q, end)]
        /\ Over(r) = [r EXCEPT !.json = JsonLen[meta[1].msg.shape],
                               !.bin = BinLen[meta[1].msg.shape], !.buff = <<>>]
    BY DEF Met, Over
  <2> DEFINE jl == JsonLen[meta[1].msg.shape]
             bl == BinLen[meta[1].msg.shape]
             d == Drop(q, end)
  <2> HIDE DEF meta, end, jl, bl, d
  <2>7. /\ Met(r) = [r EXCEPT !.hasMeta = TRUE, !.json = jl, !.bin = bl, !.buff = d]
        /\ Over(r) = [r EXCEPT !.json = jl, !.bin = bl, !.buff = <<>>]
    BY <2>6 DEF jl, bl, d
  <2>8. jl \in Nat /\ bl \in Nat /\ d \in Seq(Token) /\ TRUE \in BOOLEAN
    BY <2>3, <2>5 DEF jl, bl, d
  <2>9. Met(r) \in Req
    BY <2>7, <2>8, Zenon DEF Req
  <2>10. Met(r).owner = r.owner /\ Met(r).buff = d
    BY <2>7 DEF Req
  <2>11. <<>> \in Seq(Token) /\ EndsAs(<<>>, q)
    BY DEF EndsAs
  <2>12. Over(r) \in Req
    BY <2>7, <2>8, <2>11, Zenon DEF Req
  <2>13. Over(r).owner = r.owner /\ Over(r).buff = <<>>
    BY <2>7 DEF Req
  <2> QED BY <2>1, <2>3, <2>9, <2>10, <2>11, <2>12, <2>13 DEF Good, Result, d
<1> QED BY <1>1, <1>2, <1>3

LEMMA BlockType ==
  ASSUME NEW r \in Req
  PROVE  Good(ReadBlock(r), r)
<1>1. CASE r.hasBody
  BY <1>1, SameIsGood DEF ReadBlock
<1>2. CASE ~r.hasBody /\ r.hasMeta
  BY <1>2, JsonType DEF ReadBlock, ReadBody
<1>3. CASE ~r.hasBody /\ ~r.hasMeta
  <2>1. Good(ReadMeta(r), r)
    BY MetaType
  <2>2. Good(ReadJson(ReadMeta(r).req), r)
    BY <2>1, JsonType, GoodChain DEF Good
  <2> QED BY <1>3, <2>1, <2>2 DEF ReadBlock, ReadBody
<1> QED BY <1>1, <1>2, <1>3

-----------------------------------------------------------------------------
(* The bytes of a sequence. *)

LEMMA TotalIsNat ==
  ASSUME NEW all \in Seq(Message), NEW k \in 1..Len(all)
  PROVE  /\ all[k] \in Message /\ Total(all[k]) \in Nat
         /\ Total(all[k]) = 2 + JsonLen[all[k].shape] + BinLen[all[k].shape]
         /\ JsonLen[all[k].shape] \in Nat /\ JsonLen[all[k].shape] > 0
         /\ BinLen[all[k].shape] \in Nat
<1>1. all[k] \in Message
  OBVIOUS
<1> QED BY <1>1, LengthsAre

LEMMA HoldsDrop ==
  ASSUME NEW all \in Seq(Message), NEW start \in [1..(Len(all) + 1) -> Nat],
         NEW q \in Seq(Token), NEW from \in Nat, NEW d \in 0..Len(q), Holds(all, start, q, from)
  PROVE  /\ Holds(all, start, Drop(q, d), from + d)
         /\ (from + d) + Len(Drop(q, d)) = from + Len(q)
<1>0. (from + d) + Len(Drop(q, d)) = from + Len(q)
  <2>1. Len(Drop(q, d)) = Len(q) - d /\ Len(q) \in Nat /\ d \in Nat
    BY DropSeq
  <2> QED BY <2>1
<1> SUFFICES ASSUME NEW k \in 1..Len(all), NEW o \in 1..Total(all[k]),
                    start[k] + o - (from + d) \in 1..Len(Drop(q, d))
             PROVE  Drop(q, d)[start[k] + o - (from + d)] = Byte(all[k], o)
  BY <1>0 DEF Holds
<1> DEFINE j == start[k] + o - (from + d)
<1>1. start[k] \in Nat /\ o \in Nat /\ d \in Nat /\ Len(q) \in Nat
  BY TotalIsNat
<1>2. Len(Drop(q, d)) = Len(q) - d /\ \A i \in 1..(Len(q) - d) : Drop(q, d)[i] = q[d + i]
  BY DropSeq
<1>3. d + j = start[k] + o - from /\ d + j \in 1..Len(q)
  BY SMTT(30), <1>1, <1>2
<1>4. q[d + j] = Byte(all[k], o)
  BY <1>3 DEF Holds
<1> QED BY <1>2, <1>4

LEMMA HoldsTake ==
  ASSUME NEW all \in Seq(Message), NEW start \in [1..(Len(all) + 1) -> Nat],
         NEW q \in Seq(Token), NEW from \in Nat, NEW d \in 0..Len(q), Holds(all, start, q, from)
  PROVE  Holds(all, start, Take(q, d), from)
<1>1. Len(Take(q, d)) = d /\ \A j \in 1..d : Take(q, d)[j] = q[j]
  BY TakeSeq
<1>2. \A j \in 1..d : j \in 1..Len(q)
  OBVIOUS
<1> QED BY <1>1, <1>2 DEF Holds

LEMMA HoldsConcat ==
  ASSUME NEW all \in Seq(Message), NEW start \in [1..(Len(all) + 1) -> Nat],
         NEW p \in Seq(Token), NEW q \in Seq(Token), NEW from \in Nat,
         Holds(all, start, p, from), Holds(all, start, q, from + Len(p))
  PROVE  Holds(all, start, p \o q, from)
<1> SUFFICES ASSUME NEW k \in 1..Len(all), NEW o \in 1..Total(all[k]),
                    start[k] + o - from \in 1..Len(p \o q)
             PROVE  (p \o q)[start[k] + o - from] = Byte(all[k], o)
  BY DEF Holds
<1> DEFINE j == start[k] + o - from
<1>1. start[k] \in Nat /\ o \in Nat /\ Len(p) \in Nat /\ Len(q) \in Nat
  <2>1. k \in 1..(Len(all) + 1) /\ Len(p) \in Nat /\ Len(q) \in Nat
    OBVIOUS
  <2>2. o \in Nat
    BY TotalIsNat
  <2> QED BY <2>1, <2>2
<1>2. /\ Len(p \o q) = Len(p) + Len(q)
      /\ \A i \in 1..(Len(p) + Len(q)) : (p \o q)[i] = IF i <= Len(p) THEN p[i] ELSE q[i - Len(p)]
  BY ConcatProperties
<1>3. CASE j <= Len(p)
  <2>1. j \in 1..Len(p)
    BY <1>1, <1>2, <1>3
  <2>2. p[j] = Byte(all[k], o)
    BY <2>1 DEF Holds
  <2> QED BY <1>2, <1>3, <2>2
<1>4. CASE j > Len(p)
  <2>1. j - Len(p) = start[k] + o - (from + Len(p)) /\ j - Len(p) \in 1..Len(q)
    BY SMTT(30), <1>1, <1>2, <1>4
  <2>2. q[j - Len(p)] = Byte(all[k], o)
    BY <2>1 DEF Holds
  <2>3. j \in 1..(Len(p) + Len(q)) /\ ~(j <= Len(p))
    BY <1>1, <1>2, <1>4
  <2> QED BY <1>2, <2>2, <2>3
<1>5. j <= Len(p) \/ j > Len(p)
  BY <1>1
<1> QED BY <1>3, <1>4, <1>5

\* The bytes of q that belong to the frame it begins in.
LEMMA HoldsRest ==
  ASSUME NEW all \in Seq(Message), NEW start \in [1..(Len(all) + 1) -> Nat],
         NEW q \in Seq(Token), NEW k \in 1..Len(all), NEW o \in Nat,
         NEW from, from = start[k] + o, Holds(all, start, q, from),
         NEW j \in 1..Len(q), o + j <= Total(all[k])
  PROVE  q[j] = Byte(all[k], o + j)
<1>1. start[k] \in Nat /\ Total(all[k]) \in Nat /\ j \in Nat
  BY TotalIsNat
<1>2. start[k] + (o + j) - from = j /\ o + j \in 1..Total(all[k])
  BY <1>1
<1> QED BY <1>2 DEF Holds

\* Where there are bytes there is a frame they belong to.
LEMMA FrameThere ==
  ASSUME NEW all \in Seq(Message), NEW start, Starts(all, start),
         NEW q \in Seq(Token), q /= <<>>, NEW from \in Nat,
         from + Len(q) <= start[Len(all) + 1], NEW n \in 0..Len(all), start[n + 1] <= from
  PROVE  n < Len(all)
<1>1. Len(q) \in Nat /\ Len(q) > 0 /\ Len(all) \in Nat
  OBVIOUS
<1>2. start[Len(all) + 1] \in Nat
  BY <1>1 DEF Starts
<1>3. CASE n = Len(all)
  BY <1>1, <1>2, <1>3
<1> QED BY <1>1, <1>3

-----------------------------------------------------------------------------
(* read_block on the bytes of the frames. *)

\* r has the whole next message, and its buffer goes on behind that frame.
Done(all, start, upto, r, n) ==
  /\ n < Len(all) /\ r.message = <<all[n + 1]>>
  /\ r.binary = Part("binary", all[n + 1], BinLen[all[n + 1].shape])
  /\ Reading(all, start, start[n + 2], upto, Reset(r), n + 1, FALSE)

\* What read_block returns.
Outcome(all, start, upto, h, n, c) ==
  /\ h.tag = "error" => c
  /\ h.tag = "none" =>
       \/ /\ \E from \in Nat : Reading(all, start, from, upto, h.req, n, c)
          /\ c \/ Lacks(h.req)
       \/ c /\ \E from \in Nat : Astray(all, start, from, upto, h.req)
  /\ h.tag = "some" =>
       \/ Done(all, start, upto, h.req, n)
       \/ /\ c /\ h.req.message = <<>>
          /\ \E from \in Nat : Astray(all, start, from, upto, Reset(h.req))

\* The frame the parser is in, and the one behind it.
LEMMA NextFrame ==
  ASSUME NEW all \in Seq(Message), NEW start, Starts(all, start), NEW n \in Nat, n < Len(all)
  PROVE  /\ n + 1 \in 1..Len(all) /\ all[n + 1] \in Message
         /\ start[n + 1] \in Nat /\ start[n + 2] \in Nat
         /\ start[n + 2] = start[n + 1] + Total(all[n + 1])
         /\ start[n + 2] <= start[Len(all) + 1] /\ start[Len(all) + 1] \in Nat
         /\ ~Refused(all[n + 1].shape)
<1>1. Len(all) \in Nat /\ n + 1 \in 1..Len(all) /\ (n + 1) + 1 = n + 2
  OBVIOUS
<1>2. /\ n + 1 \in 1..(Len(all) + 1) /\ n + 2 \in 1..(Len(all) + 1)
      /\ Len(all) + 1 \in 1..(Len(all) + 1) /\ n + 2 <= Len(all) + 1
  BY <1>1
<1>3. start[n + 1] \in Nat /\ start[n + 2] \in Nat /\ start[Len(all) + 1] \in Nat
  BY <1>2 DEF Starts
<1>4. start[n + 2] = start[n + 1] + Total(all[n + 1])
  BY <1>1 DEF Starts
<1>5. start[n + 2] <= start[Len(all) + 1]
  BY <1>2 DEF Starts
<1>6. ~Refused(all[n + 1].shape)
  BY <1>1 DEF Starts
<1> QED BY <1>1, <1>3, <1>4, <1>5, <1>6

\* Behind a frame the parser begins the next.
LEMMA BehindFrame ==
  ASSUME NEW all \in Seq(Message), NEW start, Starts(all, start), NEW upto \in Nat,
         NEW n \in Nat, n < Len(all), NEW r \in Req,
         Holds(all, start, r.buff, start[n + 2]), start[n + 2] + Len(r.buff) = upto
  PROVE  Reading(all, start, start[n + 2], upto, Reset(r), n + 1, FALSE)
<1>1. n + 1 \in 0..Len(all) /\ (n + 1) + 1 = n + 2 /\ start[n + 2] \in Nat
  BY NextFrame
<1>2. /\ Reset(r).buff = r.buff /\ ~Reset(r).hasMeta /\ ~Reset(r).hasBody
      /\ Reset(r).json = 0 /\ Reset(r).bin = 0
      /\ Reset(r).message = <<>> /\ Reset(r).binary = <<>>
  BY ResetIsReq
<1> DEFINE e == Reset(r)
<1> HIDE DEF e
<1>3. OnTrack(all, start, start[n + 2], e, n + 1)
  BY <1>1, <1>2 DEF OnTrack, Taken, e
<1>4. Notes(all, e, n + 1)
  BY <1>2 DEF Notes, e
<1> QED BY <1>2, <1>3, <1>4 DEF Reading, e

LEMMA Sums ==
  ASSUME NEW x \in Nat, NEW j \in Nat, NEW b \in Nat
  PROVE  x + (2 + j + b) = (x + (2 + j)) + b /\ 2 + j \in Nat /\ 2 + j + b \in Nat
OBVIOUS

LEMMA Within ==
  ASSUME NEW b \in Nat, NEW p \in 1..b, NEW l \in Nat, l >= b, NEW j \in Nat
  PROVE  p \in 1..l /\ (2 + j) + p <= 2 + j + b
OBVIOUS

\* m is the message after the first n, and q begins behind o bytes of its frame.
InFrame(all, start, q, from, n, m, o) ==
  /\ n < Len(all) /\ m = all[n + 1] /\ from = start[n + 1] + o
  /\ Holds(all, start, q, from)

\* The lengths of its parts.
Sizes(m, j, b) == j = JsonLen[m.shape] /\ b = BinLen[m.shape]

\* r has read the meta of m.
HasMeta(r, m) ==
  /\ r.hasMeta /\ ~r.hasBody /\ r.binary = <<>>
  /\ Sizes(m, r.json, r.bin)

LEMMA SizesAre ==
  ASSUME NEW m \in Message, NEW j, NEW b, Sizes(m, j, b)
  PROVE  /\ j \in Nat /\ j > 0 /\ b \in Nat /\ Total(m) = 2 + j + b
         /\ \A p \in 1..j : Byte(m, 2 + p) = [kind |-> "json", msg |-> m, pos |-> p]
         /\ \A p \in 1..b : Byte(m, (2 + j) + p) = [kind |-> "binary", msg |-> m, pos |-> p]
<1>1. j \in Nat /\ j > 0 /\ b \in Nat /\ Total(m) = 2 + j + b
  BY LengthsAre DEF Sizes
<1>2. \A p \in 1..j : Byte(m, 2 + p) = [kind |-> "json", msg |-> m, pos |-> p]
  BY ByteIs DEF Sizes
<1>3. \A p \in 1..b : Byte(m, (2 + j) + p) = [kind |-> "binary", msg |-> m, pos |-> p]
  BY ByteIs DEF Sizes
<1> QED BY <1>1, <1>2, <1>3

\* What is behind the first d bytes of q.
LEMMA InFrameDrop ==
  ASSUME NEW all \in Seq(Message), NEW start, Starts(all, start), NEW q \in Seq(Token),
         NEW from \in Nat, NEW n \in Nat, NEW m, NEW o \in Nat,
         InFrame(all, start, q, from, n, m, o), NEW d \in 0..Len(q)
  PROVE  /\ InFrame(all, start, Drop(q, d), from + d, n, m, o + d)
         /\ (from + d) + Len(Drop(q, d)) = from + Len(q) /\ from + d \in Nat
<1>1. start \in [1..(Len(all) + 1) -> Nat] /\ Holds(all, start, q, from)
  BY DEF Starts, InFrame
<1>2. /\ Holds(all, start, Drop(q, d), from + d)
      /\ (from + d) + Len(Drop(q, d)) = from + Len(q)
  BY <1>1, HoldsDrop
<1>3. from + d = start[n + 1] + (o + d) /\ from + d \in Nat
  <2>1. n < Len(all) /\ from = start[n + 1] + o
    BY DEF InFrame
  <2>2. PICK x \in Nat : x = start[n + 1]
    BY <2>1, NextFrame
  <2>3. d \in Nat
    OBVIOUS
  <2> QED BY SMTT(30), <2>1, <2>2, <2>3
<1> QED BY <1>2, <1>3 DEF InFrame

\* The bytes that are left of the frame.
LEMMA InFrameByte ==
  ASSUME NEW all \in Seq(Message), NEW start, Starts(all, start), NEW q \in Seq(Token),
         NEW from \in Nat, NEW n \in Nat, NEW m, NEW o \in Nat,
         InFrame(all, start, q, from, n, m, o), NEW p \in 1..Len(q), o + p <= Total(m)
  PROVE  q[p] = Byte(m, o + p)
<1>1. n < Len(all) /\ m = all[n + 1]
  BY DEF InFrame
<1>2. PICK k \in 1..Len(all) : k = n + 1 /\ all[k] = m
  BY <1>1, NextFrame
<1>3. start \in [1..(Len(all) + 1) -> Nat] /\ from = start[k] + o /\ Holds(all, start, q, from)
  BY <1>2 DEF Starts, InFrame
<1>4. o + p <= Total(all[k])
  BY <1>2
<1> QED BY <1>2, <1>3, <1>4, HoldsRest

\* Where the frame ends the next one begins.
LEMMA InFrameEnd ==
  ASSUME NEW all \in Seq(Message), NEW start, Starts(all, start), NEW q,
         NEW from, NEW n \in Nat, NEW m, InFrame(all, start, q, from, n, m, Total(m))
  PROVE  Holds(all, start, q, start[n + 2]) /\ from = start[n + 2]
<1>1. n < Len(all) /\ m = all[n + 1] /\ from = start[n + 1] + Total(m)
  BY DEF InFrame
<1>2. start[n + 2] = start[n + 1] + Total(all[n + 1])
  BY <1>1, NextFrame
<1> QED BY <1>1, <1>2 DEF InFrame

\* In the frame, the parser is on its track.
LEMMA InFrameReading ==
  ASSUME NEW all \in Seq(Message), NEW start, Starts(all, start),
         NEW from \in Nat, NEW upto \in Nat, NEW n \in Nat, NEW r \in Req, NEW m, NEW c,
         HasMeta(r, m), InFrame(all, start, r.buff, from, n, m, Taken(r)),
         from + Len(r.buff) = upto,
         r.message = <<>> \/ (r.message = <<m>> /\ r.bin > 0 /\ c)
  PROVE  Reading(all, start, from, upto, r, n, c)
<1>1. n < Len(all) /\ m = all[n + 1] /\ from = start[n + 1] + Taken(r)
      /\ Holds(all, start, r.buff, from)
  BY DEF InFrame
<1>2. n \in 0..Len(all)
  BY <1>1
<1>3. OnTrack(all, start, from, r, n)
  BY <1>1, <1>2 DEF OnTrack
<1>4. Notes(all, r, n)
  BY <1>1 DEF Notes, HasMeta, Sizes
<1> QED BY <1>1, <1>3, <1>4 DEF Reading

\* The binary part of m, where that is what comes next.
LEMMA BinaryBytes ==
  ASSUME NEW all \in Seq(Message), NEW start, Starts(all, start), NEW q \in Seq(Token),
         NEW from \in Nat, NEW n \in Nat, NEW m \in Message, NEW j, NEW b, Sizes(m, j, b),
         InFrame(all, start, q, from, n, m, 2 + j), Len(q) >= b
  PROVE  Take(q, b) = Part("binary", m, b)
<1> DEFINE t == Take(q, b)
           u == Part("binary", m, b)
<1>1. j \in Nat /\ b \in Nat /\ Len(q) \in Nat /\ b \in 0..Len(q)
      /\ 2 + j \in Nat /\ Total(m) = 2 + j + b
  BY SizesAre
<1>2. t \in Seq(Token) /\ Len(t) = b /\ \A p \in 1..b : t[p] = q[p]
  BY <1>1, TakeSeq
<1>3. /\ u \in Seq(Token) /\ Len(u) = b
      /\ \A p \in 1..b : u[p] = [kind |-> "binary", msg |-> m, pos |-> p]
  <2>1. "binary" \in {"meta", "sep", "json", "binary"}
    OBVIOUS
  <2> QED BY <1>1, <2>1, PartIs
<1> HIDE DEF t, u
<1>4. ASSUME NEW p \in 1..b PROVE t[p] = u[p]
  <2>1. p \in 1..Len(q) /\ (2 + j) + p <= Total(m)
    BY <1>1, Within
  <2>2. PICK o \in Nat : o = 2 + j
    BY <1>1
  <2>3. o + p <= Total(m) /\ InFrame(all, start, q, from, n, m, o)
    BY <2>1, <2>2
  <2>4. q[p] = Byte(m, o + p)
    BY <2>1, <2>3, InFrameByte
  <2>5. Byte(m, (2 + j) + p) = [kind |-> "binary", msg |-> m, pos |-> p]
    BY SizesAre
  <2> QED BY <1>2, <1>3, <2>2, <2>4, <2>5
<1>5. t = u
  BY <1>2, <1>3, <1>4
<1> QED BY <1>5 DEF t, u

\* read_body, where the json text is read.
LEMMA BinaryReads ==
  ASSUME NEW all \in Seq(Message), NEW start, Starts(all, start),
         NEW from \in Nat, NEW upto \in Nat, NEW n \in Nat, NEW r \in Req, NEW c,
         NEW m \in Message, HasMeta(r, m), r.message = <<m>>, r.bin > 0,
         InFrame(all, start, r.buff, from, n, m, 2 + r.json),
         from + Len(r.buff) = upto, c \/ Len(r.buff) >= r.bin
  PROVE  Outcome(all, start, upto, ReadBinary(r), n, c)
<1>1. PICK q \in Seq(Token), j \in Nat, b \in Nat : q = r.buff /\ j = r.json /\ b = r.bin
  BY FieldsOfReq
<1>2. /\ Sizes(m, j, b) /\ InFrame(all, start, q, from, n, m, 2 + j) /\ from + Len(q) = upto
  BY <1>1 DEF HasMeta
<1>3. CASE Len(q) >= b
  <2> DEFINE t == Take(q, b)
             d == Drop(q, b)
             s == [r EXCEPT !.binary = t, !.hasBody = TRUE, !.buff = d]
  <2>1. ReadBinary(r) = Result("some", s)
    BY <1>1, <1>3 DEF ReadBinary
  <2>2. b \in 0..Len(q) /\ TRUE \in BOOLEAN
    BY <1>3
  <2>3. t \in Seq(Token) /\ d \in Seq(Token)
    BY <2>2, TakeSeq, DropSeq
  <2>4. t = Part("binary", m, b)
    BY <1>2, <1>3, BinaryBytes
  <2>5. Holds(all, start, d, start[n + 2]) /\ start[n + 2] + Len(d) = upto
    <3>1. Total(m) = 2 + j + b
      BY <1>2, SizesAre
    <3>2. PICK o \in Nat : o = 2 + j /\ o + b = 2 + j + b
      BY Sums
    <3>3. InFrame(all, start, q, from, n, m, o)
      BY <1>2, <3>2
    <3>4. InFrame(all, start, d, from + b, n, m, o + b) /\ (from + b) + Len(d) = from + Len(q)
      BY <2>2, <3>3, InFrameDrop
    <3>5. InFrame(all, start, d, from + b, n, m, Total(m))
      BY <3>1, <3>2, <3>4
    <3>6. Holds(all, start, d, start[n + 2]) /\ from + b = start[n + 2]
      BY <3>5, InFrameEnd
    <3> QED BY <1>2, <3>4, <3>6
  <2> HIDE DEF t, d
  <2>6. s \in Req
    BY <2>2, <2>3, Zenon DEF Req
  <2>7. s.buff = d /\ s.binary = t /\ s.message = r.message
    BY DEF Req
  <2> HIDE DEF s
  <2>8. n < Len(all) /\ m = all[n + 1]
    BY DEF InFrame
  <2>9. Reading(all, start, start[n + 2], upto, Reset(s), n + 1, FALSE)
    BY <2>5, <2>6, <2>7, <2>8, BehindFrame
  <2>10. Done(all, start, upto, s, n)
    BY <1>2, <2>4, <2>7, <2>8, <2>9 DEF Done, Sizes
  <2> QED BY <2>1, <2>10 DEF Outcome, Result
<1>4. CASE ~(Len(q) >= b)
  <2>1. ReadBinary(r) = Result("none", r) /\ c
    BY <1>1, <1>4 DEF ReadBinary
  <2>2. Taken(r) = 2 + r.json
    BY DEF Taken, HasMeta
  <2>3. Reading(all, start, from, upto, r, n, c)
    BY <2>1, <2>2, InFrameReading
  <2>4. \E f \in Nat : Reading(all, start, f, upto, r, n, c)
    BY <2>3
  <2>5. Result("none", r).tag = "none" /\ Result("none", r).req = r
    BY DEF Result
  <2> QED BY <2>1, <2>4, <2>5 DEF Outcome
<1> QED BY <1>3, <1>4

LEMMA CutsIs ==
  ASSUME NEW owner, NEW m, NEW b, b = BinLen[m.shape], NEW p
  PROVE  /\ b > 0 => Cuts(owner, [kind |-> "json", msg |-> m, pos |-> p])
         /\ b > 0 /\ p /= b => Cuts(owner, [kind |-> "binary", msg |-> m, pos |-> p])
BY DEF Cuts

\* A read that ended in m, behind its meta, can go on only if m is all there.
LEMMA FineInFrame ==
  ASSUME NEW all \in Seq(Message), NEW start, Starts(all, start), NEW q \in Seq(Token),
         NEW from \in Nat, NEW n \in Nat, NEW m \in Message, NEW j, NEW b, Sizes(m, j, b),
         InFrame(all, start, q, from, n, m, 2), NEW owner, Fine(owner, q), b > 0, q /= <<>>
  PROVE  Len(q) >= j + b
<1>1. j \in Nat /\ b \in Nat /\ Total(m) = 2 + j + b
  BY SizesAre
<1>2. PICK l \in Nat : l = Len(q) /\ l \in 1..Len(q)
  <2>1. Len(q) \in Nat /\ Len(q) > 0
    OBVIOUS
  <2>2. Len(q) \in 1..Len(q)
    BY <2>1
  <2> QED BY <2>1, <2>2
<1> SUFFICES ASSUME l < j + b PROVE FALSE
  BY <1>1, <1>2
<1>3. 2 + l <= Total(m) /\ 2 \in Nat
  BY <1>1, <1>2
<1>4. q[l] = Byte(m, 2 + l)
  BY <1>2, <1>3, InFrameByte
<1>5. ~Cuts(owner, q[l])
  BY <1>2 DEF Fine
<1>6. b = BinLen[m.shape]
  BY DEF Sizes
<1>7. CASE l <= j
  <2>1. l \in 1..j
    BY <1>1, <1>2, <1>7
  <2>2. q[l] = [kind |-> "json", msg |-> m, pos |-> l]
    BY <1>4, <2>1, SizesAre
  <2> QED BY <1>5, <1>6, <2>2, CutsIs
<1>8. CASE l > j
  <2>1. PICK p \in 1..b : l = j + p /\ p /= b
    <3>1. l - j \in 1..b /\ l = j + (l - j) /\ l - j /= b
      BY <1>1, <1>2, <1>8
    <3> QED BY <3>1
  <2>2. 2 + l = (2 + j) + p
    BY <1>1, <2>1
  <2>3. q[l] = [kind |-> "binary", msg |-> m, pos |-> p]
    BY <1>4, <2>2, SizesAre
  <2> QED BY <1>5, <1>6, <2>1, <2>3, CutsIs
<1> QED BY <1>1, <1>2, <1>7, <1>8

\* The json text of m, where that is what comes next.
LEMMA JsonBytes ==
  ASSUME NEW all \in Seq(Message), NEW start, Starts(all, start), NEW q \in Seq(Token),
         NEW from \in Nat, NEW n \in Nat, NEW m \in Message, NEW j, NEW b, Sizes(m, j, b),
         InFrame(all, start, q, from, n, m, 2), Len(q) >= j
  PROVE  IsJson(Take(q, j)) /\ q[1].msg = m
<1> DEFINE t == Take(q, j)
           u == Part("json", m, j)
<1>1. j \in Nat /\ b \in Nat /\ j > 0 /\ Len(q) \in Nat /\ j \in 0..Len(q) /\ 1 \in 1..j
      /\ Total(m) = 2 + j + b
  BY SizesAre
<1>2. t \in Seq(Token) /\ Len(t) = j /\ \A p \in 1..j : t[p] = q[p]
  BY <1>1, TakeSeq
<1>3. /\ u \in Seq(Token) /\ Len(u) = j
      /\ \A p \in 1..j : u[p] = [kind |-> "json", msg |-> m, pos |-> p]
  <2>1. "json" \in {"meta", "sep", "json", "binary"}
    OBVIOUS
  <2> QED BY <1>1, <2>1, PartIs
<1> HIDE DEF t, u
<1>4. ASSUME NEW p \in 1..j PROVE q[p] = u[p]
  <2>1. p \in 1..Len(q) /\ 2 + p <= Total(m) /\ 2 \in Nat
    BY <1>1
  <2>2. q[p] = Byte(m, 2 + p)
    BY <2>1, InFrameByte
  <2>3. Byte(m, 2 + p) = [kind |-> "json", msg |-> m, pos |-> p]
    BY SizesAre
  <2> QED BY <1>3, <2>2, <2>3
<1>5. t = u
  BY <1>2, <1>3, <1>4
<1>6. q[1].msg = m /\ t[1].msg = m
  <2>1. q[1] = [kind |-> "json", msg |-> m, pos |-> 1] /\ t[1] = q[1]
    BY <1>1, <1>2, <1>3, <1>4
  <2> QED BY <2>1
<1>7. t = Part("json", t[1].msg, Len(t)) /\ Len(t) = JsonLen[t[1].msg.shape]
  BY <1>2, <1>5, <1>6 DEF Sizes, u
<1>8. 1 \in 1..Len(t)
  BY <1>1, <1>2
<1>9. IsJson(t)
  BY <1>7, <1>8 DEF IsJson
<1> QED BY <1>6, <1>9 DEF t

\* Without the json text being there a part of it is taken for the binary one.
LEMMA ShortReads ==
  ASSUME NEW all \in Seq(Message), NEW start, Starts(all, start),
         NEW from \in Nat, NEW upto \in Nat, NEW n \in Nat, NEW r \in Req, NEW c,
         NEW m \in Message, HasMeta(r, m), r.message = <<>>,
         InFrame(all, start, r.buff, from, n, m, 2),
         from + Len(r.buff) = upto, c \/ Fine(r.owner, r.buff), Len(r.buff) < r.json
  PROVE  Outcome(all, start, upto, ReadBinary(r), n, c)
<1>1. PICK q \in Seq(Token), j \in Nat, b \in Nat : q = r.buff /\ j = r.json /\ b = r.bin
  BY FieldsOfReq
<1>2. /\ Sizes(m, j, b) /\ InFrame(all, start, q, from, n, m, 2) /\ from + Len(q) = upto
  BY <1>1 DEF HasMeta
<1>3. Len(q) \in Nat /\ Len(q) < j /\ j > 0
  BY <1>1, <1>2, SizesAre
<1>4. CASE b /= 0 /\ Len(q) >= b
  <2> DEFINE t == Take(q, b)
             d == Drop(q, b)
             s == [r EXCEPT !.binary = t, !.hasBody = TRUE, !.buff = d]
  <2>1. ReadBinary(r) = Result("some", s)
    BY <1>1, <1>4 DEF ReadBinary
  <2>2. b \in 0..Len(q) /\ TRUE \in BOOLEAN
    BY <1>3, <1>4
  <2>3. t \in Seq(Token) /\ d \in Seq(Token)
    BY <2>2, TakeSeq, DropSeq
  <2>4. c
    <3>1. q /= <<>> /\ b > 0 /\ ~(Len(q) >= j + b)
      BY <1>3, <1>4
    <3>2. ASSUME Fine(r.owner, q) PROVE FALSE
      BY <1>2, <3>1, <3>2, FineInFrame
    <3> QED BY <1>1, <3>2
  <2>5. /\ InFrame(all, start, d, from + b, n, m, 2 + b)
        /\ (from + b) + Len(d) = from + Len(q) /\ from + b \in Nat
    BY <1>2, <2>2, InFrameDrop
  <2> HIDE DEF t, d
  <2>6. s \in Req
    BY <2>2, <2>3, Zenon DEF Req
  <2>7. s.buff = d /\ s.message = <<>>
    BY DEF Req
  <2> HIDE DEF s
  <2>8. /\ Reset(s).buff = d /\ ~Reset(s).hasMeta /\ ~Reset(s).hasBody /\ Reset(s).json = 0
        /\ Reset(s).bin = 0 /\ Reset(s).message = <<>> /\ Reset(s).binary = <<>>
    BY <2>6, <2>7, ResetIsReq
  <2>9. Lost(all, start, from + b, Reset(s))
    <3>1. n + 1 \in 1..Len(all) /\ m = all[n + 1] /\ from + b = start[n + 1] + (2 + b)
      BY <2>5, NextFrame DEF InFrame
    <3>2. 2 + b \in 2..(1 + j)
      BY <1>3, <1>4
    <3>3. 2 + b \in 2..(1 + JsonLen[all[n + 1].shape])
      BY <1>2, <3>1, <3>2 DEF Sizes
    <3> QED BY <2>8, <3>1, <3>3 DEF Lost
  <2>10. Astray(all, start, from + b, upto, Reset(s))
    <3>1. Holds(all, start, d, from + b) /\ (from + b) + Len(d) = upto
      BY <1>2, <2>5 DEF InFrame
    <3> QED BY <2>8, <2>9, <3>1 DEF Astray
  <2>11. \E f \in Nat : Astray(all, start, f, upto, Reset(s))
    BY <2>5, <2>10
  <2>12. Result("some", s).tag = "some" /\ Result("some", s).req = s
    BY DEF Result
  <2> QED BY <2>1, <2>4, <2>7, <2>11, <2>12 DEF Outcome
<1>5. CASE ~(b /= 0 /\ Len(q) >= b)
  <2>1. ReadBinary(r) = Result("none", r)
    BY <1>1, <1>5 DEF ReadBinary
  <2>2. Taken(r) = 2
    BY DEF Taken, HasMeta
  <2>3. Reading(all, start, from, upto, r, n, c)
    BY <2>2, InFrameReading
  <2>4. \E f \in Nat : Reading(all, start, f, upto, r, n, c)
    BY <2>3
  <2>5. Result("none", r).tag = "none" /\ Result("none", r).req = r
    BY DEF Result
  <2>6. Lacks(r)
    BY DEF Lacks, HasMeta
  <2> QED BY <2>1, <2>4, <2>5, <2>6 DEF Outcome
<1> QED BY <1>4, <1>5

LEMMA TextReads ==
  ASSUME NEW all \in Seq(Message), NEW start, Starts(all, start),
         NEW from \in Nat, NEW upto \in Nat, NEW n \in Nat, NEW r \in Req, NEW c,
         NEW m \in Message, HasMeta(r, m), r.message = <<>>,
         InFrame(all, start, r.buff, from, n, m, 2),
         from + Len(r.buff) = upto, c \/ Fine(r.owner, r.buff), Len(r.buff) >= r.json
  PROVE  Outcome(all, start, upto, ReadJson(r), n, c)
<1>1. PICK q \in Seq(Token), j \in Nat, b \in Nat : q = r.buff /\ j = r.json /\ b = r.bin
  BY FieldsOfReq
<1>2. /\ Sizes(m, j, b) /\ InFrame(all, start, q, from, n, m, 2) /\ from + Len(q) = upto
  BY <1>1 DEF HasMeta
<1>3. Len(q) \in Nat /\ j <= Len(q) /\ j > 0 /\ j \in 0..Len(q) /\ q /= <<>>
      /\ Total(m) = 2 + j + b /\ j /= 0
  BY SMTT(30), <1>1, <1>2, SizesAre
<1>4. IsJson(Take(q, j)) /\ q[1].msg = m /\ m.shape \notin Bare
  <2>1. n < Len(all) /\ m = all[n + 1]
    BY DEF InFrame
  <2>2. ~Refused(m.shape)
    BY <2>1, NextFrame
  <2> QED BY <1>2, <1>3, <2>2, JsonBytes DEF Refused
<1> DEFINE d == Drop(q, j)
           s == [r EXCEPT !.message = <<m>>, !.buff = d]
           e == [s EXCEPT !.hasBody = TRUE]
<1>5. ReadJson(r) = IF b = 0 THEN Result("some", e) ELSE ReadBinary(s)
  <2>1. s = [r EXCEPT !.message = <<q[1].msg>>, !.buff = Drop(@, r.json)]
    BY <1>1, <1>4 DEF Req
  <2>2. s.bin = r.bin
    BY DEF Req
  <2> HIDE DEF s
  <2> QED BY <1>1, <1>3, <1>4, <2>1, <2>2 DEF ReadJson
<1>6. /\ d \in Seq(Token) /\ InFrame(all, start, d, from + j, n, m, 2 + j)
      /\ (from + j) + Len(d) = upto /\ from + j \in Nat
      /\ Len(d) = Len(q) - j /\ <<m>> \in Seq(Message)
  <2>1. 2 \in Nat
    OBVIOUS
  <2>2. d \in Seq(Token) /\ Len(d) = Len(q) - j
    BY <1>3, DropSeq
  <2>3. /\ InFrame(all, start, d, from + j, n, m, 2 + j)
        /\ (from + j) + Len(d) = from + Len(q) /\ from + j \in Nat
    BY <1>2, <1>3, <2>1, InFrameDrop
  <2> HIDE DEF d
  <2>4. (from + j) + Len(d) = upto
    BY <1>2, <2>3
  <2>5. <<m>> \in Seq(Message)
    OBVIOUS
  <2> QED BY <2>2, <2>3, <2>4, <2>5
<1> HIDE DEF d
<1>7. s \in Req
  BY <1>6, Zenon DEF Req
<1>8. /\ s.buff = d /\ s.message = <<m>> /\ s.json = j /\ s.bin = b /\ s.owner = r.owner
      /\ s.hasMeta = r.hasMeta /\ s.hasBody = r.hasBody /\ s.binary = r.binary
  BY <1>1 DEF Req
<1>9. HasMeta(s, m)
  BY <1>2, <1>8 DEF HasMeta
<1> HIDE DEF s
<1>10. CASE b = 0
  <2>1. e \in Req
    <3>1. TRUE \in BOOLEAN
      OBVIOUS
    <3> QED BY <1>7, <3>1, Zenon DEF Req
  <2>2. e.buff = d /\ e.message = <<m>> /\ e.binary = <<>>
    BY <1>7, <1>8, <1>9 DEF Req, HasMeta
  <2> HIDE DEF e
  <2>3. 2 + j = Total(m)
    BY <1>3, <1>10
  <2>4. Holds(all, start, d, start[n + 2]) /\ start[n + 2] + Len(d) = upto
    <3>1. InFrame(all, start, d, from + j, n, m, Total(m)) /\ (from + j) + Len(d) = upto
      BY <1>6, <2>3
    <3>2. Holds(all, start, d, start[n + 2]) /\ from + j = start[n + 2]
      BY SMTT(30), <1>2, <3>1, InFrameEnd
    <3> QED BY <3>1, <3>2
  <2>5. n < Len(all) /\ m = all[n + 1]
    BY <1>2 DEF InFrame
  <2>6. Reading(all, start, start[n + 2], upto, Reset(e), n + 1, FALSE)
    BY <2>1, <2>2, <2>4, <2>5, BehindFrame
  <2>7. Part("binary", m, BinLen[m.shape]) = <<>>
    <3>1. "binary" \in {"meta", "sep", "json", "binary"} /\ 0 \in Nat /\ BinLen[m.shape] = 0
      BY <1>2, <1>10 DEF Sizes
    <3>2. /\ Part("binary", m, 0) \in Seq(Token) /\ Len(Part("binary", m, 0)) = 0
      BY <3>1, PartIs
    <3> QED BY <3>1, <3>2
  <2>8. Done(all, start, upto, e, n)
    BY <2>2, <2>5, <2>6, <2>7 DEF Done
  <2>9. Result("some", e).tag = "some" /\ Result("some", e).req = e
    BY DEF Result
  <2> QED BY <1>5, <1>10, <2>8, <2>9 DEF Outcome
<1>11. CASE b /= 0
  <2>1. c \/ Len(d) >= b
    <3>1. ASSUME Fine(r.owner, q) PROVE Len(d) >= b
      <4>1. b > 0
        BY <1>11
      <4>2. Len(q) >= j + b
        BY <1>2, <1>3, <3>1, <4>1, FineInFrame
      <4> QED BY <1>3, <1>6, <4>2
    <3> QED BY <1>1, <3>1
  <2>2. s.bin > 0 /\ InFrame(all, start, s.buff, from + j, n, m, 2 + s.json)
        /\ (from + j) + Len(s.buff) = upto /\ (c \/ Len(s.buff) >= s.bin)
    <3>1. s.buff = d /\ s.bin = b /\ s.json = j
      BY <1>1, <1>8
    <3>2. b > 0
      BY <1>11
    <3> QED BY <1>6, <2>1, <3>1, <3>2, Zenon
  <2>3. Outcome(all, start, upto, ReadBinary(s), n, c)
    BY <1>6, <1>7, <1>8, <1>9, <2>2, BinaryReads
  <2> QED BY <1>5, <1>11, <2>3
<1> QED BY <1>10, <1>11

\* With its json text read, the bytes of a binary part are none.
LEMMA LateReads ==
  ASSUME NEW all \in Seq(Message), NEW start, Starts(all, start),
         NEW from \in Nat, NEW upto \in Nat, NEW n \in Nat, NEW r \in Req, NEW c,
         NEW m \in Message, HasMeta(r, m), r.message = <<m>>, r.bin > 0, c,
         InFrame(all, start, r.buff, from, n, m, 2 + r.json), from + Len(r.buff) = upto
  PROVE  Outcome(all, start, upto, ReadJson(r), n, c)
<1>1. PICK q \in Seq(Token), j \in Nat, b \in Nat : q = r.buff /\ j = r.json /\ b = r.bin
  BY FieldsOfReq
<1>2. Sizes(m, j, b) /\ InFrame(all, start, q, from, n, m, 2 + j)
  BY <1>1 DEF HasMeta
<1>3. j > 0 /\ b > 0 /\ Total(m) = 2 + j + b
  BY <1>1, <1>2, SizesAre
<1>4. CASE Len(q) >= j
  <2>1. j \in 0..Len(q) /\ 1 \in 1..Len(q) /\ 1 \in 1..j /\ 1 \in 1..b
    BY <1>3, <1>4
  <2>2. PICK o \in Nat : o = 2 + j
    OBVIOUS
  <2>3. o + 1 <= Total(m) /\ InFrame(all, start, q, from, n, m, o)
    BY <1>2, <1>3, <2>2
  <2>4. q[1] = Byte(m, o + 1)
    BY <2>1, <2>3, InFrameByte
  <2>5. q[1].kind = "binary"
    <3>1. Byte(m, (2 + j) + 1) = [kind |-> "binary", msg |-> m, pos |-> 1]
      BY <1>2, <2>1, SizesAre
    <3> QED BY <2>2, <2>4, <3>1
  <2>6. /\ Take(q, j) \in Seq(Token) /\ Len(Take(q, j)) = j /\ Take(q, j)[1] = q[1]
    BY <2>1, TakeSeq
  <2> DEFINE t == Take(q, j)
  <2> HIDE DEF t
  <2>7. ASSUME IsJson(t) PROVE FALSE
    <3>1. t = Part("json", t[1].msg, Len(t))
      BY <2>7 DEF IsJson
    <3>2. Part("json", t[1].msg, Len(t))[1] = [kind |-> "json", msg |-> t[1].msg, pos |-> 1]
      BY <2>1, <2>6 DEF Part, t
    <3>3. t[1].kind = "json"
      BY <3>1, <3>2
    <3> QED BY <2>5, <2>6, <3>3 DEF t
  <2>8. ReadJson(r) = Result("error", [r EXCEPT !.buff = <<>>])
    BY <1>1, <1>3, <1>4, <2>7 DEF ReadJson, t
  <2>9. ReadJson(r).tag = "error"
    BY <2>8 DEF Result
  <2> QED BY <2>9 DEF Outcome
<1>5. CASE ~(Len(q) >= j)
  <2>1. ReadJson(r) = ReadBinary(r)
    BY <1>1, <1>5 DEF ReadJson
  <2> QED BY <2>1, BinaryReads
<1> QED BY <1>4, <1>5

LEMMA JsonReads ==
  ASSUME NEW all \in Seq(Message), NEW start, Starts(all, start),
         NEW from \in Nat, NEW upto \in Nat, NEW n \in Nat, NEW r \in Req, NEW c,
         Reading(all, start, from, upto, r, n, c), r.hasMeta,
         c \/ Fine(r.owner, r.buff)
  PROVE  Outcome(all, start, upto, ReadJson(r), n, c)
<1>1. n < Len(all)
  BY DEF Reading, Notes
<1>2. PICK m \in Message : m = all[n + 1]
  BY <1>1, NextFrame
<1>3. HasMeta(r, m) /\ (r.message = <<>> \/ (r.message = <<m>> /\ r.bin > 0))
  BY <1>2 DEF Reading, Notes, HasMeta, Sizes
<1>4. from + Len(r.buff) = upto /\ (c \/ r.message = <<>>)
  BY DEF Reading
<1>5. InFrame(all, start, r.buff, from, n, m, Taken(r))
  BY <1>1, <1>2 DEF Reading, OnTrack, InFrame
<1>6. CASE r.message = <<>>
  <2>1. InFrame(all, start, r.buff, from, n, m, 2)
    BY <1>5, <1>6 DEF Taken
  <2>2. CASE Len(r.buff) >= r.json
    BY <1>3, <1>4, <1>6, <2>1, <2>2, TextReads
  <2>3. CASE Len(r.buff) < r.json
    <3>1. ReadJson(r) = ReadBinary(r)
      <4>1. ~(Len(r.buff) >= r.json)
        BY <2>3, FieldsOfReq
      <4> QED BY <4>1 DEF ReadJson
    <3> QED BY <1>3, <1>4, <1>6, <2>1, <2>3, <3>1, ShortReads
  <2> QED BY <2>2, <2>3, FieldsOfReq
<1>7. CASE r.message /= <<>>
  <2>1. InFrame(all, start, r.buff, from, n, m, 2 + r.json)
    BY <1>5, <1>7 DEF Taken
  <2> QED BY <1>3, <1>4, <1>7, <2>1, LateReads
<1> QED BY <1>6, <1>7

LEMMA OneOrMore ==
  ASSUME NEW q \in Seq(Token), q /= <<>>
  PROVE  Len(q) = 1 \/ Len(q) >= 2
<1>1. Len(q) \in Nat /\ Len(q) > 0
  OBVIOUS
<1>2. PICK l \in Nat : l = Len(q) /\ l > 0
  BY <1>1
<1>3. l = 1 \/ l >= 2
  BY <1>2
<1> QED BY <1>2, <1>3

\* A meta that is there with its colon is found, and one without it is not.
LEMMA MetaReads ==
  ASSUME NEW all \in Seq(Message), NEW start, Starts(all, start),
         NEW from \in Nat, NEW upto \in Nat, upto <= start[Len(all) + 1],
         NEW n \in Nat, NEW r \in Req, NEW c,
         Reading(all, start, from, upto, r, n, c), ~r.hasMeta
  PROVE  \/ ReadMeta(r).tag = "none" /\ ReadMeta(r).req = r /\ Lacks(r)
         \/ /\ ReadMeta(r).tag = "some" /\ ReadMeta(r).req.hasMeta
            /\ \E f \in Nat : Reading(all, start, f, upto, ReadMeta(r).req, n, c)
<1>1. PICK q \in Seq(Token) : q = r.buff
  BY FieldsOfReq
<1>2. /\ n \in 0..Len(all) /\ from = start[n + 1] /\ from + Len(q) = upto
      /\ Holds(all, start, q, from) /\ r.message = <<>>
      /\ ~r.hasBody /\ r.binary = <<>>
  <2>1. n \in 0..Len(all) /\ from = start[n + 1] + 0 /\ r.message = <<>>
    BY DEF Reading, OnTrack, Taken, Notes
  <2>2. start[n + 1] \in Nat
    <3>1. n + 1 \in 1..(Len(all) + 1)
      BY <2>1
    <3> QED BY <3>1 DEF Starts
  <2> QED BY <1>1, <2>1, <2>2 DEF Reading, Notes
<1>3. CASE q = <<>>
  <2>1. Colons(q) = {} /\ ~(Len(q) > MetaMax)
    BY <1>3, ReqAssumption DEF Colons, ReqAssumption
  <2>2. ReadMeta(r) = Result("none", r)
    BY <1>1, <2>1, MetaIs
  <2>3. Lacks(r)
    BY <1>1, <1>3 DEF Lacks
  <2> QED BY <2>2, <2>3 DEF Result
<1>4. CASE q /= <<>>
  <2>1. n < Len(all)
    <3>1. from + Len(q) <= start[Len(all) + 1] /\ start[n + 1] <= from
      BY <1>2
    <3> QED BY <1>2, <1>4, <3>1, FrameThere
  <2>2. PICK m \in Message : m = all[n + 1]
    BY <2>1, NextFrame
  <2>3. InFrame(all, start, q, from, n, m, 0)
    <3>1. from = start[n + 1] + 0
      BY <1>2
    <3> QED BY <1>2, <2>1, <2>2, <3>1 DEF InFrame
  <2>4. /\ Len(q) \in Nat /\ Len(q) >= 1 /\ 1 <= Total(m) /\ 2 <= Total(m)
        /\ JsonLen[m.shape] \in Nat /\ BinLen[m.shape] \in Nat
    BY SMTT(30), <1>4, LengthsAre
  <2>5. q[1] = [kind |-> "meta", msg |-> m, pos |-> 1] /\ ~IsColon(q[1])
    <3>1. 0 \in Nat /\ 1 \in 1..Len(q) /\ 0 + 1 <= Total(m) /\ 0 + 1 = 1
      BY <2>4
    <3>2. q[1] = Byte(m, 1)
      BY <2>3, <3>1, InFrameByte
    <3>3. q[1] = [kind |-> "meta", msg |-> m, pos |-> 1]
      BY <3>2, ByteIs
    <3> QED BY <3>3 DEF IsColon
  <2>6. CASE Len(q) = 1
    <3>1. Colons(q) = {} /\ ~(Len(q) > MetaMax)
      BY <2>5, <2>6, ReqAssumption DEF Colons, ReqAssumption
    <3>2. ReadMeta(r) = Result("none", r)
      BY <1>1, <3>1, MetaIs
    <3>3. Lacks(r)
      BY <1>1, <2>6 DEF Lacks
    <3> QED BY <3>2, <3>3 DEF Result
  <2>7. CASE Len(q) >= 2
    <3>1. q[2] = [kind |-> "sep", msg |-> m, pos |-> 1] /\ IsColon(q[2]) /\ 2 \in 1..Len(q)
      <4>1. 0 \in Nat /\ 2 \in 1..Len(q) /\ 0 + 2 <= Total(m) /\ 0 + 2 = 2
        BY <2>4, <2>7
      <4>2. q[2] = Byte(m, 2)
        BY <2>3, <4>1, InFrameByte
      <4>3. q[2] = [kind |-> "sep", msg |-> m, pos |-> 1]
        BY <4>2, ByteIs
      <4> QED BY <4>1, <4>3 DEF IsColon
    <3>2. Colons(q) /= {}
      BY <3>1 DEF Colons
    <3>3. FirstColon(q) = 2
      <4>1. FirstColon(q) \in 1..Len(q) /\ IsColon(q[FirstColon(q)]) /\ FirstColon(q) <= 2
        BY <3>1, <3>2, FirstColonIs
      <4>2. FirstColon(q) /= 1
        BY <2>5, <4>1
      <4> QED BY <4>1, <4>2
    <3> DEFINE t == Take(q, 1)
               d == Drop(q, 2)
    <3>4. Len(t) = 1 /\ t[1] = q[1]
      <4>1. 1 \in 0..Len(q) /\ 1 \in 1..1
        BY <2>7
      <4> QED BY <4>1, TakeSeq
    <3>5. /\ d \in Seq(Token) /\ InFrame(all, start, d, from + 2, n, m, 2)
          /\ (from + 2) + Len(d) = upto /\ from + 2 \in Nat
      <4>1. 0 \in Nat /\ 2 \in 0..Len(q) /\ 0 + 2 = 2
        BY <2>7
      <4>2. d \in Seq(Token)
        BY <4>1, DropSeq
      <4>3. /\ InFrame(all, start, d, from + 2, n, m, 0 + 2)
            /\ (from + 2) + Len(d) = from + Len(q) /\ from + 2 \in Nat
        BY <2>3, <4>1, InFrameDrop
      <4> QED BY <1>2, <4>1, <4>2, <4>3
    <3> HIDE DEF d
    <3> DEFINE jl == JsonLen[m.shape]
               bl == BinLen[m.shape]
               s == [r EXCEPT !.hasMeta = TRUE, !.json = jl, !.bin = bl, !.buff = d]
    <3>6. ReadMeta(r) = Result("some", s)
      <4>1. 2 - 1 = 1
        OBVIOUS
      <4>2. t[1].kind = "meta" /\ t[1].msg = m
        BY <2>5, <3>4
      <4>6. ~TooLarge(r.owner, m.shape)
        <5>1. ~Refused(m.shape)
          BY <2>1, <2>2, NextFrame
        <5> QED BY <5>1 DEF Refused, TooLarge
      <4>3. Take(r.buff, FirstColon(r.buff) - 1) = t /\ Drop(r.buff, FirstColon(r.buff)) = d
        BY <1>1, <3>3, <4>1 DEF d
      <4>4. Met(r) = [r EXCEPT !.hasMeta = TRUE, !.json = JsonLen[t[1].msg.shape],
                               !.bin = BinLen[t[1].msg.shape], !.buff = d]
        <5> HIDE DEF t
        <5> QED BY <4>3 DEF Met
      <4> HIDE DEF t
      <4>5. Met(r) = s
        BY <4>2, <4>4
      <4> HIDE DEF s
      <4> QED BY <1>1, <3>2, <3>4, <4>2, <4>3, <4>5, <4>6, MetaIs
    <3>7. jl \in Nat /\ bl \in Nat /\ TRUE \in BOOLEAN
      BY <2>4
    <3>8. HasMeta(s, m) /\ s.buff = d /\ s.message = <<>>
      BY <1>2 DEF HasMeta, Sizes, Req
    <3> HIDE DEF jl, bl
    <3>9. s \in Req
      BY <3>5, <3>7, Zenon DEF Req
    <3> HIDE DEF s
    <3>10. Taken(s) = 2 /\ s.hasMeta
      BY <3>8 DEF Taken, HasMeta
    <3>11. Reading(all, start, from + 2, upto, s, n, c)
      BY <3>5, <3>8, <3>9, <3>10, InFrameReading
    <3>12. \E f \in Nat : Reading(all, start, f, upto, s, n, c)
      BY <3>5, <3>11
    <3>13. ReadMeta(r).tag = "some" /\ ReadMeta(r).req = s
      BY <3>6 DEF Result
    <3> QED BY <3>10, <3>12, <3>13
  <2>8. Len(q) = 1 \/ Len(q) >= 2
    BY <1>4, OneOrMore
  <2> QED BY <2>6, <2>7, <2>8, Zenon
<1> QED BY <1>3, <1>4

\* A json text without its meta stays what it is.
LEMMA StrayReads ==
  ASSUME NEW all \in Seq(Message), NEW start, Starts(all, start),
         NEW from \in Nat, NEW upto \in Nat, NEW n \in Nat, NEW r \in Req, NEW c, c,
         Astray(all, start, from, upto, r)
  PROVE  Outcome(all, start, upto, ReadBlock(r), n, c)
<1>1. PICK q \in Seq(Token) : q = r.buff
  BY FieldsOfReq
<1>2. ~r.hasMeta /\ ~r.hasBody
  BY DEF Astray, Lost
<1>3. q /= <<>> => q[1].kind = "json"
  <2> SUFFICES ASSUME q /= <<>> PROVE q[1].kind = "json"
    OBVIOUS
  <2>0. PICK k \in 1..Len(all) :
          \E o \in 2..(1 + JsonLen[all[k].shape]) : from = start[k] + o
    BY DEF Astray, Lost
  <2>1. PICK o \in 2..(1 + JsonLen[all[k].shape]) : from = start[k] + o
    BY <2>0
  <2>2. PICK m \in Message : m = all[k]
    OBVIOUS
  <2>3. PICK j \in Nat : j = JsonLen[m.shape] /\ BinLen[m.shape] \in Nat
                         /\ Total(m) = 2 + j + BinLen[m.shape]
    BY LengthsAre
  <2>4. PICK p \in 1..j : o + 1 = 2 + p /\ o \in Nat
    <3>1. o \in 2..(1 + j)
      BY <2>2, <2>3
    <3>2. o \in Nat /\ o - 1 \in 1..j /\ o + 1 = 2 + (o - 1)
      BY <2>3, <3>1
    <3> QED BY <3>2
  <2>5. o \in Nat /\ 1 \in 1..Len(q) /\ o + 1 <= Total(m)
    <3>1. 1 \in 1..Len(q)
      OBVIOUS
    <3>2. 2 + p <= Total(m)
      BY SMTT(30), <2>3
    <3> QED BY <2>4, <3>1, <3>2
  <2>6. q[1] = Byte(m, o + 1)
    <3>1. start \in [1..(Len(all) + 1) -> Nat] /\ Holds(all, start, q, from)
      BY <1>1 DEF Starts, Astray
    <3> QED BY ZenonT(40), <2>1, <2>2, <2>5, <3>1, HoldsRest
  <2>7. Byte(m, 2 + p) = [kind |-> "json", msg |-> m, pos |-> p]
    BY <2>3, ByteIs
  <2> QED BY <2>4, <2>6, <2>7
<1>4. ReadMeta(r).tag = "error" \/ ReadMeta(r) = Result("none", r)
  <2> DEFINE t == Take(q, FirstColon(q) - 1)
  <2>1. CASE Colons(q) = {}
    BY <1>1, <2>1, MetaIs DEF Result
  <2>2. CASE Colons(q) /= {} /\ Len(t) = 1 /\ t[1].kind = "meta"
    <3>1. FirstColon(q) \in 1..Len(q)
      BY <2>2, FirstColonIs
    <3>2. FirstColon(q) - 1 \in 0..Len(q)
      BY <3>1
    <3>3. Len(t) = FirstColon(q) - 1 /\ \A j \in 1..(FirstColon(q) - 1) : t[j] = q[j]
      BY <3>2, TakeSeq
    <3>4. 1 \in 1..(FirstColon(q) - 1) /\ q /= <<>>
      BY <2>2, <3>1, <3>3
    <3>5. t[1] = q[1]
      BY <3>3, <3>4
    <3> QED BY <1>3, <2>2, <3>4, <3>5
  <2>3. CASE Colons(q) /= {} /\ (Len(t) /= 1 \/ t[1].kind /= "meta")
    <3>1. ReadMeta(r) = BadMeta(r)
      BY <1>1, <2>3, MetaIs
    <3> QED BY <3>1 DEF BadMeta, Result
  <2> QED BY <2>1, <2>2, <2>3
<1>5. ReadBlock(r) = ReadMeta(r)
  BY <1>2, <1>4 DEF ReadBlock, ReadBody, Result
<1>6. CASE ReadMeta(r).tag = "error"
  BY <1>5, <1>6 DEF Outcome
<1>7. CASE ReadMeta(r) = Result("none", r)
  <2>1. ReadBlock(r).tag = "none" /\ ReadBlock(r).req = r
    BY <1>5, <1>7 DEF Result
  <2>2. \E f \in Nat : Astray(all, start, f, upto, r)
    OBVIOUS
  <2> QED BY <2>1, <2>2 DEF Outcome
<1> QED BY <1>4, <1>6, <1>7

LEMMA BlockReads ==
  ASSUME NEW all \in Seq(Message), NEW start, Starts(all, start),
         NEW from \in Nat, NEW upto \in Nat, upto <= start[Len(all) + 1],
         NEW n \in Nat, NEW r \in Req, NEW c,
         Reading(all, start, from, upto, r, n, c), c \/ Fine(r.owner, r.buff)
  PROVE  Outcome(all, start, upto, ReadBlock(r), n, c)
<1>1. ~r.hasBody
  BY DEF Reading, Notes
<1>2. CASE r.hasMeta
  <2>1. ReadBlock(r) = ReadJson(r)
    BY <1>1, <1>2 DEF ReadBlock, ReadBody
  <2> QED BY <1>2, <2>1, JsonReads
<1>3. CASE ~r.hasMeta /\ ReadMeta(r).tag = "none"
  <2>1. ReadBlock(r) = ReadMeta(r)
    BY <1>1, <1>3 DEF ReadBlock, ReadBody
  <2>2. ReadBlock(r).tag = "none" /\ ReadBlock(r).req = r /\ Lacks(r)
    BY <1>3, <2>1, MetaReads
  <2>3. \E f \in Nat : Reading(all, start, f, upto, r, n, c)
    OBVIOUS
  <2> QED BY <2>2, <2>3 DEF Outcome
<1>4. CASE ~r.hasMeta /\ ReadMeta(r).tag = "some"
  <2>1. PICK s : s = ReadMeta(r).req
    OBVIOUS
  <2>2. ReadBlock(r) = ReadJson(s)
    BY <1>1, <1>4, <2>1 DEF ReadBlock, ReadBody
  <2>3. s \in Req /\ s.owner = r.owner /\ EndsAs(s.buff, r.buff)
    BY <2>1, MetaType DEF Good
  <2>4. s.hasMeta /\ \E f \in Nat : Reading(all, start, f, upto, s, n, c)
    BY <1>4, <2>1, MetaReads
  <2>5. c \/ Fine(s.owner, s.buff)
    BY <2>3 DEF Fine, EndsAs
  <2> QED BY <2>2, <2>3, <2>4, <2>5, JsonReads
<1>5. ~r.hasMeta => ReadMeta(r).tag \in {"none", "some"}
  BY MetaReads
<1> QED BY <1>2, <1>3, <1>4, <1>5

-----------------------------------------------------------------------------
(* What is sent, and what is read. *)

\* Where the frames begin when that of m comes behind them.
Further(all, start, m) ==
  [k \in 1..(Len(all) + 2) |->
     IF k <= Len(all) + 1 THEN start[k] ELSE start[Len(all) + 1] + Total(m)]

LEMMA NextIs ==
  ASSUME NEW all \in Seq(Message), NEW start, Starts(all, start), NEW m \in Message
  PROVE  /\ \A k \in 1..(Len(all) + 1) : Further(all, start, m)[k] = start[k] /\ start[k] \in Nat
         /\ Further(all, start, m)[Len(all) + 2] = start[Len(all) + 1] + Total(m)
         /\ Further(all, start, m) \in [1..(Len(all) + 2) -> Nat]
<1>1. start \in [1..(Len(all) + 1) -> Nat] /\ Len(all) \in Nat /\ Total(m) \in Nat
  BY FrameIs DEF Starts
<1> DEFINE l == Len(all)
           t == Total(m)
           next == Further(all, start, m)
<1> HIDE DEF l, t, next
<1>2. start \in [1..(l + 1) -> Nat] /\ l \in Nat /\ t \in Nat
  BY <1>1 DEF l, t
<1>3. next = [k \in 1..(l + 2) |-> IF k <= l + 1 THEN start[k] ELSE start[l + 1] + t]
  BY DEF l, t, next, Further
<1>4. ASSUME NEW k \in 1..(l + 1) PROVE next[k] = start[k] /\ start[k] \in Nat
  <2>1. k \in 1..(l + 2) /\ k <= l + 1
    BY <1>2
  <2> QED BY <1>2, <1>3, <2>1
<1>5. next[l + 2] = start[l + 1] + t
  <2>1. l + 2 \in 1..(l + 2) /\ ~(l + 2 <= l + 1)
    BY <1>2
  <2> QED BY <1>3, <2>1
<1>6. start[l + 1] \in Nat
  BY <1>2
<1>7. next \in [1..(l + 2) -> Nat]
  <2>1. ASSUME NEW k \in 1..(l + 2)
        PROVE  (IF k <= l + 1 THEN start[k] ELSE start[l + 1] + t) \in Nat
    <3>1. k <= l + 1 => k \in 1..(l + 1)
      BY <1>2
    <3>2. start[l + 1] + t \in Nat
      BY <1>2, <1>6
    <3> QED BY <1>4, <3>1, <3>2
  <2> QED BY <1>3, <2>1
<1> QED BY <1>4, <1>5, <1>7 DEF l, t, next

\* The next frame goes behind the others.
LEMMA StartsSend ==
  ASSUME NEW all \in Seq(Message), NEW start, Starts(all, start), NEW m \in Message,
         ~Refused(m.shape)
  PROVE  Starts(Append(all, m), Further(all, start, m))
<1> DEFINE more == Append(all, m)
           next == Further(all, start, m)
<1>1. /\ Len(all) \in Nat /\ Len(more) = Len(all) + 1 /\ Total(m) \in Nat
      /\ \A k \in 1..Len(all) : more[k] = all[k]
      /\ more[Len(all) + 1] = m
  BY FrameIs
<1>2. /\ \A k \in 1..(Len(all) + 1) : next[k] = start[k] /\ start[k] \in Nat
      /\ next[Len(all) + 2] = start[Len(all) + 1] + Total(m)
      /\ next \in [1..(Len(all) + 2) -> Nat]
  BY NextIs
<1> HIDE DEF more, next
<1>3. next \in [1..(Len(more) + 1) -> Nat]
  BY <1>1, <1>2
<1>4. ASSUME NEW k \in 1..Len(more) PROVE next[k + 1] = next[k] + Total(more[k])
  <2>1. CASE k <= Len(all)
    <3>1. k \in 1..Len(all) /\ k \in 1..(Len(all) + 1) /\ k + 1 \in 1..(Len(all) + 1)
      BY <1>1, <2>1
    <3>2. start[k + 1] = start[k] + Total(all[k])
      BY <3>1 DEF Starts
    <3> QED BY <1>1, <1>2, <3>1, <3>2
  <2>2. CASE k = Len(all) + 1
    <3>1. k \in 1..(Len(all) + 1) /\ k + 1 = Len(all) + 2
      BY <1>1, <2>2
    <3> QED BY <1>1, <1>2, <2>2, <3>1
  <2> QED BY <1>1, <2>1, <2>2
<1>5. ASSUME NEW j \in 1..(Len(more) + 1), NEW k \in 1..(Len(more) + 1), j <= k
      PROVE  next[j] <= next[k]
  <2>1. CASE k <= Len(all) + 1
    <3>1. j \in 1..(Len(all) + 1) /\ k \in 1..(Len(all) + 1)
      BY <1>1, <1>5, <2>1
    <3>2. start[j] <= start[k]
      BY <1>5, <3>1 DEF Starts
    <3> QED BY <1>2, <3>1, <3>2
  <2>2. CASE k = Len(all) + 2
    <3>1. CASE j <= Len(all) + 1
      <4>1. j \in 1..(Len(all) + 1) /\ Len(all) + 1 \in 1..(Len(all) + 1)
        BY <1>1, <3>1
      <4>2. start[j] <= start[Len(all) + 1]
        BY <3>1, <4>1 DEF Starts
      <4>3. start[j] \in Nat /\ start[Len(all) + 1] \in Nat /\ next[j] = start[j]
        BY <1>2, <4>1
      <4> QED BY <1>1, <1>2, <2>2, <4>2, <4>3
    <3>2. CASE j = Len(all) + 2
      <4>1. next[k] \in Nat
        BY <1>3
      <4> QED BY <2>2, <3>2, <4>1
    <3> QED BY <1>1, <3>1, <3>2
  <2> QED BY <1>1, <2>1, <2>2
<1>6. ASSUME NEW k \in 1..Len(more) PROVE ~Refused(more[k].shape)
  BY <1>1, <1>6 DEF Starts
<1> QED BY <1>3, <1>4, <1>5, <1>6 DEF Starts, more, next

\* What was sent before it is where it was.
LEMMA HoldsSend ==
  ASSUME NEW all \in Seq(Message), NEW start, Starts(all, start), NEW m \in Message,
         NEW q \in Seq(Token), NEW from \in Nat, Holds(all, start, q, from),
         from + Len(q) <= start[Len(all) + 1]
  PROVE  Holds(Append(all, m), Further(all, start, m), q, from)
<1> DEFINE more == Append(all, m)
           next == Further(all, start, m)
<1>1. /\ Len(all) \in Nat /\ Len(more) = Len(all) + 1 /\ Total(m) \in Nat
      /\ \A k \in 1..Len(all) : more[k] = all[k]
      /\ more[Len(all) + 1] = m
  BY FrameIs
<1>2. \A k \in 1..(Len(all) + 1) : next[k] = start[k] /\ start[k] \in Nat
  BY NextIs
<1> HIDE DEF more, next
<1> SUFFICES ASSUME NEW k \in 1..Len(more), NEW o \in 1..Total(more[k]),
                    next[k] + o - from \in 1..Len(q)
             PROVE  q[next[k] + o - from] = Byte(more[k], o)
  BY DEF Holds, more, next
<1>3. CASE k <= Len(all)
  <2>1. k \in 1..Len(all) /\ next[k] = start[k] /\ more[k] = all[k]
    BY <1>1, <1>2, <1>3
  <2> QED BY <2>1 DEF Holds
<1>4. CASE k = Len(all) + 1
  <2> DEFINE end == start[Len(all) + 1]
             l == Len(q)
  <2>1. next[k] = end /\ end \in Nat /\ o \in Nat /\ o > 0 /\ l \in Nat /\ from + l <= end
    BY <1>1, <1>2, <1>4
  <2>2. next[k] + o - from \in 1..l
    OBVIOUS
  <2> HIDE DEF end, l
  <2> QED BY <2>1, <2>2
<1> QED BY <1>1, <1>3, <1>4

\* The bytes of the frame itself are behind them.
LEMMA HoldsNew ==
  ASSUME NEW all \in Seq(Message), NEW start, Starts(all, start), NEW m \in Message
  PROVE  Holds(Append(all, m), Further(all, start, m), Frame(m), start[Len(all) + 1])
<1> DEFINE more == Append(all, m)
           next == Further(all, start, m)
           end == start[Len(all) + 1]
<1>1. /\ Len(all) \in Nat /\ Len(more) = Len(all) + 1
      /\ \A k \in 1..Len(all) : more[k] = all[k]
      /\ more[Len(all) + 1] = m
  OBVIOUS
<1>2. \A k \in 1..(Len(all) + 1) : next[k] = start[k] /\ start[k] \in Nat
  BY NextIs
<1>3. Len(Frame(m)) = Total(m) /\ Total(m) \in Nat /\ \A o \in 1..Total(m) : Frame(m)[o] = Byte(m, o)
  BY FrameIs
<1>4. end \in Nat
  BY <1>1, <1>2
<1> SUFFICES ASSUME NEW k \in 1..Len(more), NEW o \in 1..Total(more[k]),
                    next[k] + o - end \in 1..Len(Frame(m))
             PROVE  Frame(m)[next[k] + o - end] = Byte(more[k], o)
  BY DEF Holds, next
<1> HIDE DEF more, next
<1>5. CASE k <= Len(all)
  <2>1. k \in 1..Len(all) /\ k + 1 \in 1..(Len(all) + 1) /\ more[k] = all[k]
    BY <1>1, <1>5
  <2>2. start[k + 1] = start[k] + Total(all[k]) /\ start[k + 1] <= end
    BY SMTT(30), <1>1, <2>1 DEF Starts
  <2>3. Total(all[k]) \in Nat /\ next[k] = start[k] /\ start[k] \in Nat
    BY <1>1, <1>2, <1>5, <2>1, TotalIsNat
  <2> DEFINE a == start[k]
             t == Total(all[k])
  <2>4. a + t <= end /\ a \in Nat /\ t \in Nat /\ o \in 1..t /\ a + o - end >= 1
    BY <1>3, <1>4, <2>1, <2>2, <2>3
  <2> HIDE DEF a, t, end
  <2> QED BY <1>4, <2>4
<1>6. CASE k = Len(all) + 1
  <2>1. next[k] = end /\ more[k] = m
    BY <1>1, <1>2, <1>6
  <2>2. o \in 1..Total(m)
    BY <2>1
  <2>3. next[k] + o - end = o
    BY <1>3, <1>4, <2>1, <2>2
  <2> QED BY <1>3, <2>1, <2>2, <2>3
<1> QED BY <1>1, <1>5, <1>6

LEMMA FlowsSend ==
  ASSUME NEW all \in Seq(Message), NEW m \in Message, NEW n \in Nat, NEW r \in Req,
         NEW w \in Seq(Token), NEW c, Flows(all, r, n, w, c), ~Refused(m.shape)
  PROVE  Flows(Append(all, m), r, n, w \o Frame(m), c)
<1>1. PICK start \in [1..(Len(all) + 1) -> Nat], from \in Nat, upto \in Nat :
        /\ Starts(all, start)
        /\ \/ Reading(all, start, from, upto, r, n, c)
           \/ c /\ Astray(all, start, from, upto, r)
        /\ Holds(all, start, w, upto) /\ upto + Len(w) = start[Len(all) + 1]
  BY DEF Flows
<1> DEFINE more == Append(all, m)
           next == Further(all, start, m)
           end == start[Len(all) + 1]
           b == Frame(m)
<1>2. /\ Len(more) = Len(all) + 1 /\ Len(w) \in Nat /\ Len(all) \in Nat
      /\ b \in Seq(Token) /\ Len(b) = Total(m) /\ Total(m) \in Nat
      /\ more \in Seq(Message) /\ \A k \in 1..Len(all) : more[k] = all[k]
  BY FrameIs
<1>3. end \in Nat
  BY <1>2
<1>4. Starts(more, next)
  BY <1>1, StartsSend
<1>5. next \in [1..(Len(more) + 1) -> Nat] /\ \A k \in 1..(Len(all) + 1) : next[k] = start[k]
  BY ZenonT(40), <1>1, <1>4, NextIs DEF Starts
<1>6. next[Len(more) + 1] = end + Total(m)
  <2>1. next[Len(all) + 2] = end + Total(m)
    BY <1>1, NextIs
  <2>2. Len(more) + 1 = Len(all) + 2
    BY <1>2
  <2> QED BY <2>1, <2>2
<1>7. ASSUME NEW q \in Seq(Token), NEW f \in Nat, Holds(all, start, q, f), f + Len(q) <= end
      PROVE  Holds(more, next, q, f)
  BY <1>1, <1>7, HoldsSend
<1>8. Holds(more, next, w \o b, upto)
  <2>1. Holds(more, next, w, upto)
    <3>1. upto + Len(w) <= end
      BY <1>1, <1>3
    <3> QED BY <1>1, <1>7, <3>1
  <2>2. Holds(more, next, b, upto + Len(w))
    BY <1>1, HoldsNew
  <2> HIDE DEF more, next, b
  <2> QED BY <1>2, <1>5, <2>1, <2>2, HoldsConcat
<1>9. upto + Len(w \o b) = next[Len(more) + 1]
  <2>1. Len(w \o b) = Len(w) + Total(m)
    <3> HIDE DEF b
    <3>1. Len(w \o b) = Len(w) + Len(b)
      BY <1>2, Concat
    <3> QED BY <1>2, <3>1
  <2>2. upto + Len(w) = end
    BY <1>1
  <2> HIDE DEF end, next, more, b
  <2> QED BY <1>2, <1>3, <1>6, <2>1, <2>2
<1>10. PICK q \in Seq(Token) : q = r.buff
  BY FieldsOfReq
<1>11. Holds(all, start, q, from) /\ from + Len(q) = upto
  BY <1>1, <1>10 DEF Reading, Astray
<1>12. Holds(more, next, q, from)
  <2>1. upto <= end
    BY <1>1, <1>2, <1>3
  <2>2. from + Len(q) <= end
    BY <1>11, <2>1
  <2> QED BY <1>7, <1>11, <2>2
<1> HIDE DEF more, next, b, end
<1>13. ASSUME Reading(all, start, from, upto, r, n, c) PROVE Reading(more, next, from, upto, r, n, c)
  <2>1. n \in 0..Len(all) /\ from = start[n + 1] + Taken(r)
    BY <1>13 DEF Reading, OnTrack
  <2>2. n \in 0..Len(more) /\ n + 1 \in 1..(Len(all) + 1)
    BY <1>2, <2>1
  <2>3. OnTrack(more, next, from, r, n)
    BY <1>5, <2>1, <2>2 DEF OnTrack
  <2>4. n < Len(all) => n < Len(more) /\ more[n + 1] = all[n + 1]
    <3>1. n < Len(all) => n + 1 \in 1..Len(all)
      BY <1>2, <2>1
    <3> QED BY <1>2, <3>1
  <2>5. Notes(more, r, n)
    BY <1>13, <2>4 DEF Reading, Notes
  <2> QED BY <1>10, <1>11, <1>12, <1>13, <2>3, <2>5 DEF Reading
<1>14. ASSUME Astray(all, start, from, upto, r) PROVE Astray(more, next, from, upto, r)
  <2>1. PICK k \in 1..Len(all) :
          \E o \in 2..(1 + JsonLen[all[k].shape]) : from = start[k] + o
    BY <1>14 DEF Astray, Lost
  <2>2. k \in 1..Len(more) /\ more[k] = all[k] /\ next[k] = start[k]
    <3>1. k \in 1..Len(more) /\ k \in 1..(Len(all) + 1)
      BY <1>2
    <3> QED BY <1>2, <1>5, <3>1
  <2>3. Lost(more, next, from, r)
    BY <1>14, <2>1, <2>2 DEF Astray, Lost
  <2> QED BY <1>10, <1>11, <1>12, <1>14, <2>3 DEF Astray
<1>15. Flows(more, r, n, w \o b, c)
  BY <1>1, <1>4, <1>5, <1>8, <1>9, <1>13, <1>14 DEF Flows
<1> QED BY <1>15 DEF more, b

\* A read moves bytes from the stream to the buffer.
LEMMA FlowsRead ==
  ASSUME NEW all \in Seq(Message), NEW n \in Nat, NEW r \in Req, NEW w \in Seq(Token),
         NEW len \in 0..Len(w), NEW c, NEW d, c => d, Flows(all, r, n, w, c)
  PROVE  Flows(all, Add(r, Take(w, len)), n, Drop(w, len), d)
<1>1. PICK start \in [1..(Len(all) + 1) -> Nat], from \in Nat, upto \in Nat :
        /\ Starts(all, start)
        /\ \/ Reading(all, start, from, upto, r, n, c)
           \/ c /\ Astray(all, start, from, upto, r)
        /\ Holds(all, start, w, upto) /\ upto + Len(w) = start[Len(all) + 1]
  BY DEF Flows
<1>2. PICK q \in Seq(Token) : q = r.buff
  BY FieldsOfReq
<1> DEFINE t == Take(w, len)
           e == Add(r, t)
<1>3. /\ t \in Seq(Token) /\ Len(t) = len /\ len \in Nat /\ Len(q) \in Nat
  BY TakeSeq
<1>4. Holds(all, start, q, from) /\ from + Len(q) = upto
  BY <1>1, <1>2 DEF Reading, Astray
<1>5. Holds(all, start, t, upto)
  BY <1>1, HoldsTake
<1>6. Holds(all, start, Drop(w, len), upto + len) /\ (upto + len) + Len(Drop(w, len)) = upto + Len(w)
  BY <1>1, HoldsDrop
<1>7. /\ e.buff = q \o t /\ e.hasMeta = r.hasMeta /\ e.hasBody = r.hasBody /\ e.json = r.json
      /\ e.bin = r.bin /\ e.message = r.message /\ e.binary = r.binary
  BY <1>2 DEF Req, Add
<1> HIDE DEF t, e
<1>8. Holds(all, start, q \o t, from)
  <2>1. Holds(all, start, t, from + Len(q))
    BY <1>4, <1>5
  <2> QED BY <1>3, <1>4, <2>1, HoldsConcat
<1>9. from + Len(q \o t) = upto + len
  <2>1. PICK l \in Nat, k \in Nat : l = Len(q) /\ k = len
    BY <1>3
  <2>2. Len(q \o t) = l + k
    BY <1>3, <2>1, Concat
  <2>3. from + l = upto
    BY <1>4, <2>1
  <2>4. from + (l + k) = upto + k
    BY <2>3
  <2> QED BY <2>1, <2>2, <2>4
<1>10. ASSUME Reading(all, start, from, upto, r, n, c)
       PROVE  Reading(all, start, from, upto + len, e, n, d)
  <2>1. OnTrack(all, start, from, e, n) /\ Notes(all, e, n)
    BY <1>7, <1>10 DEF Reading, OnTrack, Taken, Notes
  <2>2. d \/ e.message = <<>>
    BY <1>7, <1>10 DEF Reading
  <2> QED BY <1>7, <1>8, <1>9, <2>1, <2>2 DEF Reading
<1>11. ASSUME Astray(all, start, from, upto, r)
       PROVE  Astray(all, start, from, upto + len, e)
  <2>1. Lost(all, start, from, e)
    BY <1>7, <1>11 DEF Astray, Lost
  <2> QED BY <1>7, <1>8, <1>9, <1>11, <2>1 DEF Astray
<1>12. upto + len \in Nat /\ (upto + len) + Len(Drop(w, len)) = start[Len(all) + 1]
  BY <1>1, <1>3, <1>6
<1>13. Flows(all, e, n, Drop(w, len), d)
  BY <1>1, <1>6, <1>10, <1>11, <1>12 DEF Flows
<1> QED BY <1>13 DEF e, t

\* read_block waits, fails, has the next message or part of a json text.
LEMMA FlowsBlock ==
  ASSUME NEW all \in Seq(Message), NEW n \in Nat, NEW r \in Req, NEW w \in Seq(Token),
         NEW c, Flows(all, r, n, w, c), c \/ Fine(r.owner, r.buff), NEW h, h = ReadBlock(r)
  PROVE  /\ h.tag = "error" => c
         /\ h.tag = "none" => Flows(all, h.req, n, w, c) /\ (c \/ Lacks(h.req))
         /\ h.tag = "some" =>
              \/ /\ n < Len(all) /\ h.req.message = <<all[n + 1]>>
                 /\ h.req.binary = Part("binary", all[n + 1], BinLen[all[n + 1].shape])
                 /\ Flows(all, Reset(h.req), n + 1, w, c)
              \/ h.req.message = <<>> /\ Flows(all, Reset(h.req), n, w, c)
<1>1. PICK start \in [1..(Len(all) + 1) -> Nat], from \in Nat, upto \in Nat :
        /\ Starts(all, start)
        /\ \/ Reading(all, start, from, upto, r, n, c)
           \/ c /\ Astray(all, start, from, upto, r)
        /\ Holds(all, start, w, upto) /\ upto + Len(w) = start[Len(all) + 1]
  BY DEF Flows
<1>2. upto <= start[Len(all) + 1]
  <2>1. Len(all) + 1 \in 1..(Len(all) + 1) /\ Len(w) \in Nat
    OBVIOUS
  <2>2. start[Len(all) + 1] \in Nat
    BY <2>1
  <2> QED BY <1>1, <2>1, <2>2
<1>3. Outcome(all, start, upto, h, n, c)
  BY <1>1, <1>2, BlockReads, StrayReads
<1>4. ASSUME NEW q, NEW k, NEW f \in Nat, Reading(all, start, f, upto, q, k, c)
      PROVE  Flows(all, q, k, w, c)
  BY <1>1, <1>4 DEF Flows
<1>5. ASSUME NEW q, NEW k, NEW f \in Nat, c, Astray(all, start, f, upto, q)
      PROVE  Flows(all, q, k, w, c)
  BY <1>1, <1>5 DEF Flows
<1>6. ASSUME h.tag = "none" PROVE Flows(all, h.req, n, w, c) /\ (c \/ Lacks(h.req))
  BY <1>3, <1>4, <1>5, <1>6 DEF Outcome
<1>7. ASSUME Done(all, start, upto, h.req, n)
      PROVE  /\ n < Len(all) /\ h.req.message = <<all[n + 1]>>
             /\ h.req.binary = Part("binary", all[n + 1], BinLen[all[n + 1].shape])
             /\ Flows(all, Reset(h.req), n + 1, w, c)
  <2>1. n < Len(all) /\ start[n + 2] \in Nat
    <3>1. n < Len(all)
      BY <1>7 DEF Done
    <3> QED BY <1>1, <3>1, NextFrame
  <2>2. Reading(all, start, start[n + 2], upto, Reset(h.req), n + 1, c)
    BY <1>7 DEF Done, Reading
  <2> QED BY <1>4, <1>7, <2>1, <2>2 DEF Done
<1>8. ASSUME c, NEW f \in Nat, Astray(all, start, f, upto, Reset(h.req))
      PROVE  Flows(all, Reset(h.req), n, w, c)
  BY <1>5, <1>8
<1> QED BY <1>3, <1>6, <1>7, <1>8 DEF Outcome

\* Where nothing is on its way and the parser lacks bytes, all frames are read.
LEMMA FlowsEnd ==
  ASSUME NEW all \in Seq(Message), NEW n \in Nat, NEW r \in Req,
         Flows(all, r, n, <<>>, FALSE), Lacks(r)
  PROVE  n = Len(all)
<1>1. PICK start \in [1..(Len(all) + 1) -> Nat], from \in Nat, upto \in Nat :
        /\ Starts(all, start) /\ Reading(all, start, from, upto, r, n, FALSE)
        /\ upto + 0 = start[Len(all) + 1]
  BY DEF Flows
<1>2. PICK q \in Seq(Token), l \in Nat : q = r.buff /\ l = Len(q) /\ from + l = upto
  <2>1. r.buff \in Seq(Token) /\ Len(r.buff) \in Nat
    BY FieldsOfReq
  <2> QED BY <1>1, <2>1 DEF Reading
<1>3. /\ n \in 0..Len(all) /\ from = start[n + 1] + Taken(r) /\ r.message = <<>>
      /\ r.hasMeta => r.json = JsonLen[all[n + 1].shape]
  BY <1>1 DEF Reading, OnTrack, Notes
<1> SUFFICES ASSUME n < Len(all) PROVE FALSE
  BY <1>3
<1>4. PICK m \in Message, x \in Nat, j \in Nat, b \in Nat :
        /\ m = all[n + 1] /\ x = start[n + 1] /\ j = JsonLen[m.shape] /\ b = BinLen[m.shape]
        /\ x + Total(m) <= upto /\ Total(m) = 2 + j + b /\ j > 0
  <2>1. /\ all[n + 1] \in Message /\ start[n + 1] \in Nat
        /\ start[n + 1] + Total(all[n + 1]) <= start[Len(all) + 1]
        /\ start[Len(all) + 1] \in Nat
    BY <1>1, NextFrame
  <2>2. start[Len(all) + 1] = upto
    BY <1>1, <2>1
  <2> QED BY <2>1, <2>2, LengthsAre
<1>5. CASE r.hasMeta
  <2>1. from = x + 2 /\ l < j
    BY <1>2, <1>3, <1>4, <1>5 DEF Taken, Lacks
  <2>2. x + (2 + j + b) <= upto /\ (x + 2) + l = upto
    BY <1>2, <1>4, <2>1
  <2> QED BY <2>1, <2>2
<1>6. CASE ~r.hasMeta
  <2>1. from = x /\ l < 2
    BY <1>2, <1>3, <1>4, <1>6 DEF Taken, Lacks
  <2>2. x + (2 + j + b) <= upto /\ x + l = upto
    BY <1>2, <1>4, <2>1
  <2> QED BY <2>1, <2>2
<1> QED BY <1>5, <1>6

-----------------------------------------------------------------------------
(* The steps of the channel. *)

LEMMA TypeStep ==
  ASSUME Typed, [Next]_vars
  PROVE  Typed'
<1>1. ASSUME NEW s \in Shape, Send(s) PROVE Typed'
  <2> DEFINE m == [n |-> Len(sent) + 1, shape |-> s]
  <2>1. m \in Message
    BY <1>1, ChannelAssumption DEF Send, ChannelAssumption, Message, Typed
  <2>2. /\ sent' = Append(sent, m) /\ wire' = wire \o Frame(m)
        /\ UNCHANGED <<req, at, dispatched>> /\ cut' \in BOOLEAN
    BY <1>1 DEF Send
  <2> HIDE DEF m
  <2>3. sent' \in Seq(Message)
    BY <2>1, <2>2 DEF Typed
  <2>4. wire' \in Seq(Token)
    <3>1. Frame(m) \in Seq(Token) /\ wire \in Seq(Token)
      BY <2>1, FrameIs DEF Typed
    <3> QED BY <2>2, <3>1, Concat
  <2> QED BY <2>2, <2>3, <2>4 DEF Typed
<1>2. ASSUME NEW len \in 1..BlockSize, Read(len) PROVE Typed'
  <2>1. wire \in Seq(Token) /\ req \in Req /\ len \in 0..Len(wire) /\ req.buff \in Seq(Token)
    BY <1>2, ChannelAssumption, FieldsOfReq DEF Read, ChannelAssumption, Typed
  <2>2. Take(wire, len) \in Seq(Token) /\ Drop(wire, len) \in Seq(Token)
    BY <2>1, TakeSeq, DropSeq
  <2>3. Add(req, Take(wire, len)) \in Req
    <3>1. req.buff \o Take(wire, len) \in Seq(Token)
      BY <2>1, <2>2, Concat
    <3> QED BY <2>1, <3>1, BuffIsReq DEF Add
  <2>4. /\ req' = Add(req, Take(wire, len)) /\ wire' = Drop(wire, len) /\ at' = "parse"
        /\ cut' \in BOOLEAN /\ UNCHANGED <<sent, dispatched>>
    BY <1>2 DEF Read
  <2> QED BY <2>2, <2>3, <2>4 DEF Typed
<1>3. PICK h : h = ReadBlock(req)
  OBVIOUS
<1>4. h.req \in Req
  BY <1>3, BlockType DEF Typed, Good
<1>5. ASSUME ParseMessage PROVE Typed'
  <2>1. /\ req' = Reset(h.req) /\ at' \in {"read", "parse"} /\ UNCHANGED <<sent, wire, cut>>
        /\ dispatched' = IF h.req.message = <<>> THEN dispatched
                         ELSE Append(dispatched, [message |-> h.req.message[1],
                                                  binary |-> h.req.binary])
    BY <1>3, <1>5 DEF ParseMessage, Again
  <2>2. dispatched' \in Seq(Call)
    <3>1. h.req.message \in Seq(Message) /\ h.req.binary \in Seq(Token) /\ dispatched \in Seq(Call)
      BY <1>4, FieldsOfReq DEF Typed
    <3>2. CASE h.req.message = <<>>
      BY <2>1, <3>1, <3>2
    <3>3. CASE h.req.message /= <<>>
      <4>1. h.req.message[1] \in Message
        BY <3>1, <3>3
      <4>2. [message |-> h.req.message[1], binary |-> h.req.binary] \in Call
        BY <3>1, <4>1 DEF Call
      <4> QED BY <2>1, <3>1, <3>3, <4>2
    <3> QED BY <3>2, <3>3
  <2>3. Reset(h.req) \in Req
    BY <1>4, ResetIsReq
  <2> QED BY <2>1, <2>2, <2>3 DEF Typed
<1>6. ASSUME ParseMore PROVE Typed'
  BY <1>3, <1>4, <1>6 DEF ParseMore, Again, Typed
<1>7. ASSUME ParseError PROVE Typed'
  <2>1. at' \in {"read", "parse", "exited", "ended"}
    BY <1>7 DEF ParseError, Again
  <2>2. req' = h.req /\ UNCHANGED <<sent, wire, dispatched, cut>>
    BY <1>3, <1>7 DEF ParseError
  <2> QED BY <1>4, <2>1, <2>2 DEF Typed
<1>8. ASSUME UNCHANGED vars PROVE Typed'
  BY <1>8 DEF vars, Typed
<1> QED BY <1>1, <1>2, <1>5, <1>6, <1>7, <1>8 DEF Next, Parse

Following == DispatchedIsPrefix /\ Flow /\ Whole /\ NeverGivesUp

LEMMA SendStep ==
  ASSUME Typed, Following, NEW s \in Shape, Send(s)
  PROVE  Following'
<1> DEFINE m == [n |-> Len(sent) + 1, shape |-> s]
<1>1. m \in Message
  BY ChannelAssumption DEF Send, ChannelAssumption, Message, Typed
<1>2. /\ sent' = Append(sent, m) /\ wire' = wire \o Frame(m)
      /\ UNCHANGED <<req, at, dispatched>> /\ cut' = (cut \/ Refused(m.shape))
      /\ Refused(m.shape) => req.owner = "wt"
  BY DEF Send
<1>0. Sure' => Sure /\ ~Refused(m.shape) /\ cut' = cut
  <2>1. cut \in BOOLEAN
    BY DEF Typed
  <2>2. "rust" /= "wt"
    OBVIOUS
  <2> QED BY <1>2, <2>1, <2>2 DEF Sure
<1> HIDE DEF m
<1>3. DispatchedIsPrefix'
  <2>1. /\ Len(sent') = Len(sent) + 1 /\ Len(sent) \in Nat /\ Len(dispatched) \in Nat
        /\ \A k \in 1..Len(sent) : sent'[k] = sent[k]
    BY <1>1, <1>2 DEF Typed
  <2>2. ASSUME Sure
        PROVE  /\ Len(dispatched) <= Len(sent')
               /\ \A k \in 1..Len(dispatched) : k \in 1..Len(sent) /\ sent'[k] = sent[k]
    BY <2>1, <2>2 DEF Following, DispatchedIsPrefix, Sure
  <2> QED BY <1>0, <1>2, <2>2 DEF Following, DispatchedIsPrefix, Intact, Sure
<1>4. Flow'
  <2>1. ASSUME Sure, ~Refused(m.shape), cut' = cut, at \in {"read", "parse"}
        PROVE  Flows(sent', req', Len(dispatched'), wire', cut')
    <3>1. Flows(sent, req, Len(dispatched), wire, cut)
      BY <2>1 DEF Following, Flow
    <3>2. /\ sent \in Seq(Message) /\ req \in Req /\ wire \in Seq(Token)
          /\ Len(dispatched) \in Nat
      BY DEF Typed
    <3>3. Flows(Append(sent, m), req, Len(dispatched), wire \o Frame(m), cut)
      BY <1>1, <2>1, <3>1, <3>2, FlowsSend
    <3> QED BY <1>2, <2>1, <3>3
  <2>2. (Sure /\ at \in {"read", "parse"})' =>
          Sure /\ ~Refused(m.shape) /\ cut' = cut /\ at \in {"read", "parse"}
    BY <1>0, <1>2
  <2> QED BY <2>1, <2>2 DEF Flow
<1>5. Whole' /\ NeverGivesUp'
  BY <1>2 DEF Following, Whole, NeverGivesUp
<1> QED BY <1>3, <1>4, <1>5 DEF Following

\* Nothing is dispatched, and the dispatched ones stay what they are.
LEMMA PrefixStays ==
  ASSUME DispatchedIsPrefix, UNCHANGED <<sent, dispatched>>, req'.owner = req.owner, cut => cut'
  PROVE  DispatchedIsPrefix'
BY DEF DispatchedIsPrefix, Intact

LEMMA ReadStep ==
  ASSUME Typed, Following, NEW len \in 1..BlockSize, Read(len)
  PROVE  Following'
<1>1. /\ req' = Add(req, Take(wire, len)) /\ wire' = Drop(wire, len)
      /\ at = "read" /\ at' = "parse" /\ UNCHANGED <<sent, dispatched>>
      /\ cut' = (cut \/ Unlucky(wire[len])) /\ len <= Len(wire)
  BY DEF Read
<1>2. /\ sent \in Seq(Message) /\ req \in Req /\ wire \in Seq(Token)
      /\ Len(dispatched) \in Nat /\ req.buff \in Seq(Token)
      /\ len \in 0..Len(wire) /\ len \in 1..Len(wire) /\ len \in Nat /\ len > 0
  BY <1>1, FieldsOfReq, ChannelAssumption DEF ChannelAssumption, Typed
<1>3. req'.owner = req.owner /\ req'.buff = req.buff \o Take(wire, len)
  BY <1>1, <1>2 DEF Add, Req
<1>4. DispatchedIsPrefix'
  BY <1>1, <1>3, PrefixStays DEF Following
<1>5. Flow'
  <2>1. ASSUME Sure PROVE Flows(sent', req', Len(dispatched'), wire', cut')
    <3>1. Flows(sent, req, Len(dispatched), wire, cut)
      BY <1>1, <2>1 DEF Following, Flow
    <3>2. cut => cut'
      BY <1>1
    <3>3. Flows(sent, Add(req, Take(wire, len)), Len(dispatched), Drop(wire, len), cut')
      BY <1>2, <3>1, <3>2, FlowsRead
    <3> QED BY <1>1, <3>3
  <2>2. Sure' => Sure
    BY <1>1, <1>3 DEF Sure
  <2> QED BY <2>1, <2>2 DEF Flow
<1>6. Whole'
  <2>1. ASSUME ~cut' PROVE Fine(req'.owner, req'.buff)
    <3>1. ~Cuts(req.owner, wire[len])
      BY <1>1, <2>1 DEF Unlucky, Cuts
    <3>2. PICK p \in Seq(Token), t \in Seq(Token) :
            p = req.buff /\ t = Take(wire, len) /\ Len(t) = len /\ t[len] = wire[len]
      <4>1. /\ Take(wire, len) \in Seq(Token) /\ Len(Take(wire, len)) = len
            /\ \A j \in 1..len : Take(wire, len)[j] = wire[j]
        BY <1>2, TakeSeq
      <4>2. len \in 1..len
        BY <1>2
      <4> QED BY <1>2, <4>1, <4>2
    <3>3. Len(p \o t) = Len(p) + len /\ (p \o t)[Len(p) + len] = t[len]
      <4>1. len \in 1..Len(t)
        BY <1>2, <3>2
      <4> QED BY ZenonT(40), <3>2, <4>1, Concat
    <3>4. (p \o t)[Len(p \o t)] = wire[len]
      BY <3>2, <3>3
    <3> QED BY <1>3, <3>1, <3>2, <3>4 DEF Fine
  <2> QED BY <1>1, <2>1 DEF Whole
<1>7. NeverGivesUp'
  BY <1>1 DEF NeverGivesUp
<1> QED BY <1>4, <1>5, <1>6, <1>7 DEF Following

\* What read_block returns where the frames are followed.
LEMMA BlockFollows ==
  ASSUME Typed, Following, at = "parse", Sure, NEW h, h = ReadBlock(req)
  PROVE  /\ h.tag = "error" => cut
         /\ h.tag = "none" =>
              Flows(sent, h.req, Len(dispatched), wire, cut) /\ (cut \/ Lacks(h.req))
         /\ h.tag = "some" =>
              \/ /\ Len(dispatched) < Len(sent)
                 /\ h.req.message = <<sent[Len(dispatched) + 1]>>
                 /\ h.req.binary = Intact(sent[Len(dispatched) + 1]).binary
                 /\ Flows(sent, Reset(h.req), Len(dispatched) + 1, wire, cut)
              \/ /\ h.req.message = <<>>
                 /\ Flows(sent, Reset(h.req), Len(dispatched), wire, cut)
<1>1. PICK n \in Nat : n = Len(dispatched)
  BY DEF Typed
<1>2. Flows(sent, req, n, wire, cut)
  BY <1>1 DEF Following, Flow
<1>3. sent \in Seq(Message) /\ req \in Req /\ wire \in Seq(Token)
  BY DEF Typed
<1>4. cut \/ Fine(req.owner, req.buff)
  BY DEF Following, Whole
<1>5. /\ h.tag = "error" => cut
      /\ h.tag = "none" => Flows(sent, h.req, n, wire, cut) /\ (cut \/ Lacks(h.req))
      /\ h.tag = "some" =>
           \/ /\ n < Len(sent) /\ h.req.message = <<sent[n + 1]>>
              /\ h.req.binary = Part("binary", sent[n + 1], BinLen[sent[n + 1].shape])
              /\ Flows(sent, Reset(h.req), n + 1, wire, cut)
           \/ h.req.message = <<>> /\ Flows(sent, Reset(h.req), n, wire, cut)
  BY <1>2, <1>3, <1>4, FlowsBlock
<1> QED BY <1>1, <1>5 DEF Intact

LEMMA MessageStep ==
  ASSUME Typed, Following, ParseMessage
  PROVE  Following'
<1>1. PICK h : h = ReadBlock(req)
  OBVIOUS
<1>2. PICK n \in Nat : n = Len(dispatched)
  BY DEF Typed
<1>3. /\ at = "parse" /\ at' = Again(h.req) /\ h.tag = "some" /\ req' = Reset(h.req)
      /\ UNCHANGED <<sent, wire, cut>>
      /\ dispatched' = IF h.req.message = <<>> THEN dispatched
                       ELSE Append(dispatched, [message |-> h.req.message[1],
                                                binary |-> h.req.binary])
  BY <1>1 DEF ParseMessage
<1>4. h.req \in Req /\ h.req.owner = req.owner /\ EndsAs(h.req.buff, req.buff)
  BY <1>1, BlockType DEF Typed, Good
<1>5. /\ req'.owner = req.owner /\ req'.buff = h.req.buff /\ ~req'.hasMeta
  BY <1>3, <1>4, ResetIsReq
<1>6. Sure' <=> Sure
  BY <1>3, <1>5 DEF Sure
<1>7. at' \in {"read", "parse"} /\ (at' = "read" => req'.buff = <<>>)
  BY <1>3, <1>5 DEF Again
<1>8. Whole'
  <2>1. ASSUME ~cut PROVE Fine(req'.owner, req'.buff)
    <3>1. Fine(req.owner, req.buff)
      BY <1>3, <2>1 DEF Following, Whole
    <3> QED BY <1>4, <1>5, <3>1 DEF Fine, EndsAs
  <2>2. at' = "read" => Lacks(req')
    BY <1>5, <1>7 DEF Lacks
  <2> QED BY <1>3, <2>1, <2>2 DEF Whole
<1>9. NeverGivesUp'
  BY <1>7 DEF NeverGivesUp
<1>10. CASE ~Sure
  BY <1>6, <1>8, <1>9, <1>10 DEF Following, Flow, DispatchedIsPrefix, Sure
<1>11. CASE /\ Sure /\ h.req.message = <<>>
            /\ Flows(sent, Reset(h.req), n, wire, cut)
  <2>1. dispatched' = dispatched
    BY <1>3, <1>11
  <2>2. DispatchedIsPrefix'
    BY <1>3, <1>5, <2>1, PrefixStays DEF Following
  <2>3. Flow'
    BY <1>2, <1>3, <1>11, <2>1 DEF Flow
  <2> QED BY <1>8, <1>9, <2>2, <2>3 DEF Following
<1>12. CASE /\ Sure /\ n < Len(sent) /\ h.req.message = <<sent[n + 1]>>
            /\ h.req.binary = Intact(sent[n + 1]).binary
            /\ Flows(sent, Reset(h.req), n + 1, wire, cut)
  <2>1. PICK x : x = [message |-> sent[n + 1], binary |-> h.req.binary]
    OBVIOUS
  <2>2. dispatched' = Append(dispatched, x)
    BY <1>3, <1>12, <2>1
  <2>3. x = Intact(sent[n + 1])
    BY <1>12, <2>1 DEF Intact
  <2>4. /\ Len(dispatched') = n + 1 /\ dispatched'[n + 1] = x
        /\ \A k \in 1..n : dispatched'[k] = dispatched[k]
    BY <1>2, <2>2 DEF Typed
  <2>5. DispatchedIsPrefix'
    <3>1. Len(sent) \in Nat /\ n + 1 <= Len(sent)
      BY <1>12 DEF Typed
    <3>2. ASSUME NEW k \in 1..n PROVE dispatched'[k] = Intact(sent[k])
      BY <1>2, <1>12, <2>4 DEF Following, DispatchedIsPrefix, Sure
    <3>3. \A k \in 1..(n + 1) : k \in 1..n \/ k = n + 1
      OBVIOUS
    <3>4. \A k \in 1..(n + 1) : dispatched'[k] = Intact(sent[k])
      BY <2>3, <2>4, <3>2, <3>3
    <3> QED BY <1>3, <2>4, <3>1, <3>4 DEF DispatchedIsPrefix, Intact
  <2>6. Flow'
    BY <1>3, <1>12, <2>4 DEF Flow
  <2> QED BY <1>8, <1>9, <2>5, <2>6 DEF Following
<1>13. Sure => \/ /\ n < Len(sent) /\ h.req.message = <<sent[n + 1]>>
                  /\ h.req.binary = Intact(sent[n + 1]).binary
                  /\ Flows(sent, Reset(h.req), n + 1, wire, cut)
               \/ h.req.message = <<>> /\ Flows(sent, Reset(h.req), n, wire, cut)
  BY <1>1, <1>2, <1>3, BlockFollows
<1> QED BY <1>10, <1>11, <1>12, <1>13, Zenon

LEMMA MoreStep ==
  ASSUME Typed, Following, ParseMore
  PROVE  Following'
<1>1. PICK h : h = ReadBlock(req)
  OBVIOUS
<1>2. /\ at = "parse" /\ at' \in {"read", "parse"} /\ h.tag = "none" /\ req' = h.req
      /\ UNCHANGED <<sent, wire, dispatched, cut>>
  BY <1>1 DEF ParseMore, Again
<1>3. h.req.owner = req.owner /\ EndsAs(h.req.buff, req.buff)
  BY <1>1, BlockType DEF Typed, Good
<1>4. Sure' <=> Sure
  BY <1>2, <1>3 DEF Sure
<1>5. Sure => Flows(sent, h.req, Len(dispatched), wire, cut) /\ (cut \/ Lacks(h.req))
  BY <1>1, <1>2, BlockFollows
<1>6. DispatchedIsPrefix'
  BY <1>2, <1>3, PrefixStays DEF Following
<1>7. Flow'
  BY <1>2, <1>4, <1>5 DEF Flow
<1>8. Whole'
  <2>1. ASSUME ~cut PROVE Fine(req'.owner, req'.buff) /\ Lacks(req')
    <3>1. Fine(req.owner, req.buff) /\ Sure
      BY <1>2, <2>1 DEF Following, Whole, Sure
    <3>2. Fine(req'.owner, req'.buff)
      BY <1>2, <1>3, <3>1 DEF Fine, EndsAs
    <3> QED BY <1>2, <1>5, <2>1, <3>1, <3>2
  <2> QED BY <1>2, <2>1 DEF Whole
<1>9. NeverGivesUp'
  BY <1>2 DEF NeverGivesUp
<1> QED BY <1>6, <1>7, <1>8, <1>9 DEF Following

\* Without a cut frame there is no error; after one only the parser of uds.rs
\* claims anything, and that process exits.
LEMMA ErrorStep ==
  ASSUME Typed, Following, ParseError
  PROVE  Following'
<1>1. PICK h : h = ReadBlock(req)
  OBVIOUS
<1>2. /\ at = "parse" /\ h.tag = "error" /\ req' = h.req
      /\ req.owner = "rust" => at' = "exited"
      /\ UNCHANGED <<sent, wire, dispatched, cut>>
  BY <1>1 DEF ParseError
<1>3. h.req.owner = req.owner
  BY <1>1, BlockType DEF Typed, Good
<1>4. cut
  BY <1>1, <1>2, BlockFollows DEF Sure
<1>5. DispatchedIsPrefix'
  BY <1>2, <1>3, PrefixStays DEF Following
<1>6. Flow' /\ Whole' /\ NeverGivesUp'
  BY <1>2, <1>3, <1>4 DEF Flow, Whole, NeverGivesUp, Sure
<1> QED BY <1>5, <1>6 DEF Following

-----------------------------------------------------------------------------
(* The invariant, and the theorems. *)

LEMMA Initially ==
  ASSUME Init
  PROVE  IInv
<1>0. PICK owner \in Owner : req = Empty(owner)
  BY DEF Init
<1>1. sent = <<>> /\ wire = <<>> /\ at = "read" /\ dispatched = <<>> /\ cut = FALSE
  BY DEF Init
<1>2. /\ req.buff = <<>> /\ ~req.hasMeta /\ ~req.hasBody /\ req.json = 0 /\ req.bin = 0
      /\ req.message = <<>> /\ req.binary = <<>>
  BY <1>0 DEF Empty
<1>3. Typed
  <2>1. /\ <<>> \in Seq(Message) /\ <<>> \in Seq(Token) /\ <<>> \in Seq(Call)
    OBVIOUS
  <2> QED BY <1>0, <1>1, <2>1, EmptyIsReq DEF Typed
<1>4. DispatchedIsPrefix /\ NeverGivesUp
  BY <1>1 DEF DispatchedIsPrefix, NeverGivesUp
<1>5. Flow
  <2> DEFINE start == [k \in 1..1 |-> 0]
  <2>1. start \in [1..(Len(sent) + 1) -> Nat] /\ start[1] = 0 /\ Len(sent) = 0
    BY <1>1
  <2>2. Starts(sent, start)
    BY <2>1 DEF Starts
  <2> HIDE DEF start
  <2>3. Reading(sent, start, 0, 0, req, 0, FALSE)
    BY <1>2, <2>1 DEF Reading, Holds, OnTrack, Taken, Notes
  <2>4. /\ Holds(sent, start, wire, 0) /\ 0 + Len(wire) = start[Len(sent) + 1]
        /\ Len(dispatched) = 0
    BY <1>1, <2>1 DEF Holds
  <2> QED BY <1>1, <2>1, <2>2, <2>3, <2>4 DEF Flow, Flows
<1>6. Whole
  BY <1>2 DEF Whole, Fine, Lacks
<1> QED BY <1>3, <1>4, <1>5, <1>6 DEF IInv

LEMMA Inductive == Spec => []IInv
<1>1. ASSUME IInv, [Next]_vars PROVE IInv'
  <2>1. Typed /\ Following
    BY <1>1 DEF IInv, Following
  <2>2. ASSUME UNCHANGED vars PROVE Following'
    BY <2>1, <2>2
       DEF vars, Following, DispatchedIsPrefix, Intact, Flow, Whole, NeverGivesUp, Sure
  <2>3. Following'
    BY <1>1, <2>1, <2>2, SendStep, ReadStep, MessageStep, MoreStep, ErrorStep DEF Next, Parse
  <2> QED BY <1>1, <2>1, <2>3, TypeStep DEF IInv, Following
<1> QED BY Initially, <1>1, PTL DEF Spec

\* Every state has its type: what the parser holds is a request as far as it is
\* read, also after a read that cut a frame and after an error.
THEOREM TypeCorrect == Spec => []Typed
BY Inductive, PTL DEF IInv

\* The handlers of the Rust end see the messages that were sent, whole and in
\* order, however the bytes are cut into reads; those of the other two receivers
\* do as long as no read has cut a frame.
THEOREM DispatchesInOrder == Spec => []DispatchedIsPrefix
BY Inductive, PTL DEF IInv

\* No process exits and no acceptor ends unless a read has cut a frame.
THEOREM GoesOn == Spec => []NeverGivesUp
BY Inductive, PTL DEF IInv

\* A receiver that waits for bytes, where none are on the way and no read has cut
\* a frame, has dispatched all that was sent.
THEOREM AllArrive == Spec => []WholeFramesArrive
<1>1. ASSUME IInv, at = "read", wire = <<>>, ~cut PROVE Len(dispatched) = Len(sent)
  <2>1. cut = FALSE /\ Len(dispatched) \in Nat /\ sent \in Seq(Message) /\ req \in Req
    BY <1>1 DEF IInv, Typed
  <2>2. Flows(sent, req, Len(dispatched), <<>>, FALSE) /\ Lacks(req)
    BY <1>1, <2>1 DEF IInv, Flow, Whole, Sure
  <2> QED BY <2>1, <2>2, FlowsEnd
<1>2. ASSUME IInv PROVE WholeFramesArrive
  BY <1>1, <1>2 DEF WholeFramesArrive
<1> QED BY Inductive, <1>2, PTL

===============================================================================
