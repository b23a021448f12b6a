----------------------------- MODULE Http1BodyProofs -----------------------------
(***************************************************************************)
(* Proofs about the bodies of HTTP/1: what Http1Response writes of one and *)
(* what Http1Multipart reads of one.                                       *)
(*                                                                         *)
(* Http1Response, for any operations, any number of them and a channel of  *)
(* any capacity.  What was pushed is in three places, one behind the       *)
(* other: what is written, the channel and the operation being applied     *)
(* (Pushed).  As long as the write loop runs, nothing of what was promised *)
(* is missing there up to the capacity of the channel (Kept, Reaching):    *)
(* when an event is dropped, the channel is full with what came before.    *)
(* Measured is about the promise itself: it begins with a head and as much *)
(* as the head says.                                                       *)
(*                                                                         *)
(* Http1Multipart, for any forms, any boundary their data does not have in *)
(* it, any limits and any reads.  Counted holds of any bytes: a call only  *)
(* moves what it takes off the buffer to what was counted.  For a form,    *)
(* the buffer is a Window on the body between what was counted and what    *)
(* was read; what was counted ends before a boundary (Before) or in the    *)
(* data of a part (Within), and what was stored and totalled is what the   *)
(* parts up to there give.  A search in the window finds the boundaries of *)
(* the form and no other (NoEarly, FirstWithin); one that is not whole     *)
(* makes the call wait (Cut), so that no byte of it is taken for data,     *)
(* unless the read ended at the line break before it (Clean).              *)
(***************************************************************************)
EXTENDS Http1Response, Http1Multipart,
        SequenceTheorems, FiniteSetTheorems, WellFoundedInduction, TLAPS

\* A set of numbers has a least one.
LEMMA Least ==
  ASSUME NEW S \in SUBSET Nat, S /= {}
  PROVE  \E k \in S : \A j \in S : k <= j
<1> DEFINE T == {1..k : k \in S}
<1>1. T \subseteq FiniteSubsetsOf(Nat) /\ T /= {}
  <2>1. ASSUME NEW k \in S PROVE 1..k \in FiniteSubsetsOf(Nat)
    <3>1. 1..k \in SUBSET Nat /\ 1 \in Int /\ k \in Int
      OBVIOUS
    <3>2. IsFiniteSet(1..k)
      BY <3>1, FS_Interval
    <3> QED BY <3>1, <3>2 DEF FiniteSubsetsOf
  <2> QED BY <2>1
<1>2. PICK X \in T : \A Y \in T : ~(<<Y, X>> \in StrictSubsetOrdering(Nat))
  <2>1. IsWellFoundedOn(StrictSubsetOrdering(Nat), FiniteSubsetsOf(Nat))
    BY FS_StrictSubsetOrderingWellFounded
  <2> HIDE DEF T
  <2> QED BY <1>1, <2>1, WFMin
<1>3. PICK k \in S : X = 1..k
  OBVIOUS
<1>4. ASSUME NEW j \in S, j < k PROVE FALSE
  <2>1. 1..j \subseteq 1..k /\ 1..j /= 1..k /\ 1..j \in SUBSET Nat /\ 1..k \in SUBSET Nat
    <3>1. k \in 1..k /\ k \notin 1..j
      BY <1>4
    <3> QED BY <1>4, <3>1
  <2>2. <<1..j, 1..k>> \in StrictSubsetOrdering(Nat)
    BY <2>1 DEF StrictSubsetOrdering
  <2>3. 1..j \in T
    OBVIOUS
  <2> QED BY <1>2, <1>3, <2>2, <2>3
<1> QED BY <1>4

\* A function that adds up as BodyLength does is what BodyLength adds up.

-----------------------------------------------------------------------------
(* Http1Response. *)

EventT == [kind : {"head", "data", "flush"}, size : Nat, n : Nat]
StreamT == [headersSent : BOOLEAN, file : BOOLEAN, attach : BOOLEAN, known : BOOLEAN]

Typed ==
  /\ onConnect \in BOOLEAN
  /\ stream \in StreamT
  /\ emit \in Seq(EventT) /\ chan \in Seq(EventT) /\ out \in Seq(EventT)
  /\ promised \in Seq(EventT)
  /\ at \in {"connect", "handler", "drain", "writing", "flushing", "done", "failed", "timeout", "exited"}
  /\ woken \in BOOLEAN /\ late \in BOOLEAN /\ applied \in Nat

Live == at \in {"connect", "handler", "drain", "writing"}

Pushed == out \o (chan \o emit)

\* No event of q is an end.
Unended(q) == \A i \in 1..Len(q) : q[i].kind /= "flush"

\* Up to its first end, q has one head, at its front.
HeadOk(q) ==
  \A i \in 1..Len(q) : (\A j \in 1..i : q[j].kind /= "flush") => (q[i].kind = "head" <=> i = 1)

\* The first end of what was promised.
First(k) == /\ k \in 1..Len(promised) /\ promised[k].kind = "flush"
            /\ \A i \in 1..(k - 1) : promised[i].kind /= "flush"

\* The first k events of q are those that were promised.
Reaches(k, q) == k <= Len(q) /\ \A i \in 1..k : q[i] = promised[i]

Waiting == Registered => out = <<>> /\ ~late

Heading == ~late /\ Unended(promised) => (stream.headersSent <=> promised /= <<>>)

EndsLast ==
  /\ \A i \in 1..Len(emit) : emit[i].kind = "flush" => emit = <<emit[i]>>
  /\ Registered /\ ~Unended(emit) => ~Unended(promised)

FirstEnd == ~Unended(promised) => \E k \in 1..Len(promised) : First(k)

Woken == woken => ~Unended(promised)

Kept == Live /\ ~late /\ Len(promised) <= Cap => Pushed = promised

Heads ==
  Len(promised) <= Cap =>
    /\ \A k \in 1..Len(out) : out[k].kind = "head" <=> k = 1
    /\ Live => HeadOk(Pushed)

Reaching ==
  \A k \in 1..Cap : First(k) =>
    /\ Live => Reaches(k, Pushed)
    /\ Live /\ woken => Reaches(k, out \o chan)
    /\ at \in {"flushing", "done"} => Len(out) = k - 1 /\ \A i \in 1..(k - 1) : out[i] = promised[i]
    /\ at = "timeout" => ~woken

\* p begins with the head and the d chunks of one operation, of the length that
\* the head says.
Answer(p, d) ==
  /\ 1 + d <= Len(p)
  /\ \A i \in 1..Len(p) : p[i].n = p[1].n <=> i <= 1 + d
  /\ \A i \in 1..(1 + d) : p[i].kind /= "flush"
  /\ \/ d = 1 /\ p[2].size = p[1].size
     \/ d = p[1].size /\ \A i \in 2..(1 + d) : p[i].size = 1

Measured ==
  /\ \A i \in 1..Len(promised) : promised[i].n <= applied
  /\ promised /= <<>> /\ promised[1].kind /= "flush" => \E d \in Nat : Answer(promised, d)

Facts == Waiting /\ Heading /\ EndsLast /\ FirstEnd /\ Woken /\ Unended(out)

IInv == Typed /\ Facts /\ Kept /\ Heads /\ Reaching /\ Measured

-----------------------------------------------------------------------------
(* Sequences of events. *)

LEMMA Concats ==
  ASSUME NEW p \in Seq(EventT), NEW q \in Seq(EventT)
  PROVE  /\ p \o q \in Seq(EventT) /\ Len(p \o q) = Len(p) + Len(q)
         /\ Len(p) \in Nat /\ Len(q) \in Nat
         /\ \A i \in 1..Len(p) : (p \o q)[i] = p[i]
         /\ \A i \in 1..Len(p \o q) : i > Len(p) => /\ i - Len(p) \in 1..Len(q)
                                                     /\ (p \o q)[i] = q[i - Len(p)]
<1>1. Len(p) \in Nat /\ Len(q) \in Nat
  OBVIOUS
<1>2. /\ p \o q \in Seq(EventT) /\ Len(p \o q) = Len(p) + Len(q)
      /\ \A i \in 1..(Len(p) + Len(q)) : (p \o q)[i] = IF i <= Len(p) THEN p[i] ELSE q[i - Len(p)]
  BY ConcatProperties
<1>3. \A i \in 1..Len(p) : i \in 1..(Len(p) + Len(q)) /\ i <= Len(p)
  BY <1>1
<1>4. \A i \in 1..(Len(p) + Len(q)) : i > Len(p) => i - Len(p) \in 1..Len(q) /\ ~(i <= Len(p))
  BY <1>1
<1> QED BY <1>1, <1>2, <1>3, <1>4

LEMMA Regroup ==
  ASSUME NEW p \in Seq(EventT), NEW q \in Seq(EventT), NEW z \in Seq(EventT)
  PROVE  p \o (q \o z) = (p \o q) \o z
BY ConcatAssociative

LEMMA EmptyConcat ==
  ASSUME NEW q \in Seq(EventT)
  PROVE  <<>> \o q = q /\ q \o <<>> = q
BY ConcatEmptySeq

\* A sequence is its first element and the rest.
LEMMA FirstAndRest ==
  ASSUME NEW q \in Seq(EventT), q /= <<>>
  PROVE  /\ Head(q) \in EventT /\ Tail(q) \in Seq(EventT) /\ q = <<Head(q)>> \o Tail(q)
         /\ <<Head(q)>> \in Seq(EventT) /\ Len(q) \in Nat /\ Len(q) > 0 /\ q[1] = Head(q)
<1>1. Head(q) \in EventT /\ Tail(q) \in Seq(EventT) /\ Len(Tail(q)) = Len(q) - 1
      /\ \A i \in 1..Len(Tail(q)) : Tail(q)[i] = q[i + 1]
  BY HeadTailProperties
<1>2. Len(q) \in Nat /\ Len(q) > 0 /\ q[1] = Head(q)
  OBVIOUS
<1> DEFINE h == <<Head(q)>>
           t == Tail(q)
<1>3. h \in Seq(EventT) /\ Len(h) = 1 /\ h[1] = q[1]
  BY <1>1, <1>2
<1> HIDE DEF h, t
<1>4. t \in Seq(EventT) /\ Len(t) = Len(q) - 1 /\ \A i \in 1..Len(t) : t[i] = q[i + 1]
  BY <1>1 DEF t
<1>5. /\ h \o t \in Seq(EventT) /\ Len(h \o t) = Len(q)
      /\ \A i \in 1..Len(h) : (h \o t)[i] = h[i]
      /\ \A i \in 1..Len(h \o t) : i > Len(h) => /\ i - Len(h) \in 1..Len(t)
                                                 /\ (h \o t)[i] = t[i - Len(h)]
  <2>1. Len(h \o t) = Len(h) + Len(t)
    BY <1>3, <1>4, Concats
  <2>2. Len(h \o t) = Len(q)
    BY <1>2, <1>3, <1>4, <2>1
  <2>3. h \o t \in Seq(EventT)
    BY <1>3, <1>4, Concats
  <2>4. \A i \in 1..Len(h) : (h \o t)[i] = h[i]
    BY <1>3, <1>4, Concats
  <2>5. \A i \in 1..Len(h \o t) : i > Len(h) => /\ i - Len(h) \in 1..Len(t)
                                                 /\ (h \o t)[i] = t[i - Len(h)]
    BY <1>3, <1>4, Concats
  <2> QED BY <2>2, <2>3, <2>4, <2>5
<1>6. ASSUME NEW i \in 1..Len(q) PROVE q[i] = (h \o t)[i]
  <2>1. CASE i = 1
    <3>1. 1 \in 1..Len(h)
      BY <1>3
    <3>2. (h \o t)[1] = h[1]
      BY <1>5, <3>1
    <3> QED BY <1>3, <2>1, <3>2
  <2>2. CASE i > 1
    <3>1. PICK j \in Nat : i = j + 1
      <4>1. i - 1 \in Nat /\ i = (i - 1) + 1
        BY <1>2, <2>2
      <4> QED BY <4>1
    <3>2. i \in 1..Len(h \o t) /\ i > Len(h) /\ i - Len(h) = j
      BY <1>3, <1>5, <2>2, <3>1
    <3>3. j \in 1..Len(t) /\ (h \o t)[i] = t[j]
      BY <1>5, <3>2
    <3>4. t[j] = q[j + 1]
      BY <1>4, <3>3
    <3> QED BY <3>1, <3>3, <3>4
  <2>3. i = 1 \/ i > 1
    BY <1>2
  <2> QED BY <2>1, <2>2, <2>3, Zenon
<1>7. q = h \o t
  BY <1>5, <1>6, SeqEqual
<1> QED BY <1>1, <1>2, <1>3, <1>7 DEF h, t

LEMMA Appended ==
  ASSUME NEW q \in Seq(EventT), NEW e \in EventT
  PROVE  Append(q, e) = q \o <<e>> /\ <<e>> \in Seq(EventT) /\ Len(<<e>>) = 1
<1>1. <<e>> \in Seq(EventT) /\ Len(<<e>>) = 1 /\ <<e>>[1] = e
  OBVIOUS
<1>2. Append(q, e) \in Seq(EventT) /\ Len(Append(q, e)) = Len(q) + 1 /\ Len(q) \in Nat
      /\ \A i \in 1..Len(Append(q, e)) : Append(q, e)[i] = IF i <= Len(q) THEN q[i] ELSE e
  OBVIOUS
<1> DEFINE z == <<e>>
           a == Append(q, e)
<1> HIDE DEF z, a
<1>3. q \o z \in Seq(EventT) /\ Len(q \o z) = Len(q) + 1
      /\ \A i \in 1..(Len(q) + 1) : (q \o z)[i] = IF i <= Len(q) THEN q[i] ELSE z[i - Len(q)]
  <2>1. z \in Seq(EventT) /\ Len(z) = 1
    BY <1>1 DEF z
  <2>2. /\ q \o z \in Seq(EventT) /\ Len(q \o z) = Len(q) + Len(z)
        /\ \A i \in 1..(Len(q) + Len(z)) :
             (q \o z)[i] = IF i <= Len(q) THEN q[i] ELSE z[i - Len(q)]
    BY <2>1, ConcatProperties
  <2> QED BY <2>1, <2>2
<1>4. a \in Seq(EventT) /\ Len(a) = Len(q) + 1
      /\ \A i \in 1..Len(a) : a[i] = IF i <= Len(q) THEN q[i] ELSE e
  BY <1>2 DEF a
<1>5. ASSUME NEW i \in 1..Len(a) PROVE a[i] = (q \o z)[i]
  <2>1. ~(i <= Len(q)) => i - Len(q) = 1
    BY <1>2, <1>4
  <2> QED BY <1>1, <1>3, <1>4, <2>1 DEF z
<1>6. a = q \o z
  BY <1>3, <1>4, <1>5, SeqEqual
<1> QED BY <1>1, <1>6 DEF a, z

\* A beginning of q is a beginning of what q begins.
LEMMA ReachesMore ==
  ASSUME NEW q \in Seq(EventT), NEW z \in Seq(EventT), NEW k \in Nat, Reaches(k, q)
  PROVE  Reaches(k, q \o z)
<1>1. /\ Len(q \o z) = Len(q) + Len(z) /\ Len(q) \in Nat /\ Len(z) \in Nat
      /\ \A i \in 1..Len(q) : (q \o z)[i] = q[i]
  BY Concats
<1>2. k <= Len(q) /\ \A i \in 1..k : q[i] = promised[i]
  BY DEF Reaches
<1>3. k <= Len(q \o z) /\ \A i \in 1..k : i \in 1..Len(q)
  BY <1>1, <1>2
<1> QED BY <1>1, <1>2, <1>3 DEF Reaches

LEMMA ReachesLess ==
  ASSUME NEW q \in Seq(EventT), NEW z \in Seq(EventT), NEW k \in Nat, Reaches(k, q \o z),
         k <= Len(q)
  PROVE  Reaches(k, q)
<1>1. Len(q) \in Nat /\ \A i \in 1..Len(q) : (q \o z)[i] = q[i]
  BY Concats
<1>2. \A i \in 1..k : (q \o z)[i] = promised[i] /\ i \in 1..Len(q)
  BY <1>1 DEF Reaches
<1> QED BY <1>1, <1>2 DEF Reaches

\* Events with a head only where q has none.
Fits(q, e) ==
  Unended(q) => \A i \in 1..Len(e) : e[i].kind /= "flush" =>
                  (e[i].kind = "head" <=> i = 1 /\ q = <<>>)

LEMMA HeadOkMore ==
  ASSUME NEW q \in Seq(EventT), NEW e \in Seq(EventT), HeadOk(q), Fits(q, e)
  PROVE  HeadOk(q \o e)
<1> DEFINE a == q \o e
<1>1. /\ a \in Seq(EventT) /\ Len(a) = Len(q) + Len(e) /\ Len(q) \in Nat /\ Len(e) \in Nat
      /\ \A i \in 1..Len(q) : a[i] = q[i]
      /\ \A i \in 1..Len(a) : i > Len(q) => i - Len(q) \in 1..Len(e) /\ a[i] = e[i - Len(q)]
  BY Concats
<1> HIDE DEF a
<1>2. ASSUME NEW i \in 1..Len(a), \A j \in 1..i : a[j].kind /= "flush"
      PROVE  a[i].kind = "head" <=> i = 1
  <2>1. CASE i <= Len(q)
    <3>1. i \in 1..Len(q) /\ \A j \in 1..i : j \in 1..Len(q)
      BY <1>1, <2>1
    <3>2. a[i] = q[i] /\ \A j \in 1..i : q[j].kind /= "flush"
      BY <1>1, <1>2, <3>1
    <3> QED BY <3>1, <3>2 DEF HeadOk
  <2>2. CASE ~(i <= Len(q))
    <3>1. i > Len(q) /\ i \in Nat /\ \A j \in 1..Len(q) : j \in 1..i
      BY <1>1, <2>2
    <3>2. Unended(q)
      BY <1>1, <1>2, <3>1 DEF Unended
    <3>3. PICK m \in 1..Len(e) : a[i] = e[m] /\ m = i - Len(q)
      BY <1>1, <3>1
    <3>4. i \in 1..i
      BY <1>1
    <3>5. e[m].kind /= "flush"
      BY <1>2, <3>3, <3>4
    <3>6. e[m].kind = "head" <=> m = 1 /\ q = <<>>
      BY <3>2, <3>5 DEF Fits
    <3>7. q = <<>> <=> Len(q) = 0
      OBVIOUS
    <3>8. i = 1 <=> m = 1 /\ Len(q) = 0
      BY <1>1, <3>1, <3>3
    <3> QED BY <3>3, <3>6, <3>7, <3>8
  <2> QED BY <2>1, <2>2
<1>3. HeadOk(a)
  BY <1>2 DEF HeadOk
<1> QED BY <1>3 DEF a

\* An event that is dropped behind others: it is no head, or comes after an end.
LEMMA HeadOkDrop ==
  ASSUME NEW q \in Seq(EventT), NEW e \in EventT, NEW t \in Seq(EventT), q /= <<>>,
         HeadOk(q \o (<<e>> \o t)), e.kind = "flush" => t = <<>>
  PROVE  HeadOk(q \o t)
<1> DEFINE z == <<e>>
           a == q \o (z \o t)
           b == q \o t
<1>1. z \in Seq(EventT) /\ Len(z) = 1 /\ z[1] = e
  OBVIOUS
<1> HIDE DEF z
<1>2. /\ z \o t \in Seq(EventT) /\ Len(z \o t) = Len(z) + Len(t) /\ Len(t) \in Nat
      /\ \A i \in 1..Len(z) : (z \o t)[i] = z[i]
      /\ \A i \in 1..Len(z \o t) : i > Len(z) => (z \o t)[i] = t[i - Len(z)]
  BY <1>1, Concats
<1>3. /\ Len(a) = Len(q) + Len(z \o t) /\ Len(q) \in Nat
      /\ \A i \in 1..Len(q) : a[i] = q[i]
      /\ \A i \in 1..Len(a) : i > Len(q) => i - Len(q) \in 1..Len(z \o t) /\ a[i] = (z \o t)[i - Len(q)]
  BY <1>2, Concats
<1>4. /\ Len(b) = Len(q) + Len(t)
      /\ \A i \in 1..Len(q) : b[i] = q[i]
      /\ \A i \in 1..Len(b) : i > Len(q) => i - Len(q) \in 1..Len(t) /\ b[i] = t[i - Len(q)]
  BY Concats
<1>5. HeadOk(a)
  BY DEF z
<1> HIDE DEF a, b
<1>6. Len(q) > 0 /\ Len(z \o t) = 1 + Len(t) /\ Len(a) = Len(b) + 1 /\ Len(b) \in Nat
  <2>1. Len(q) > 0
    OBVIOUS
  <2> QED BY <1>1, <1>2, <1>3, <1>4, <2>1
\* What is at place i behind q in b is at place i + 1 in a.
<1>7. ASSUME NEW i \in 1..Len(b), i > Len(q)
      PROVE  i + 1 \in 1..Len(a) /\ a[i + 1] = b[i]
  <2>1. PICK m \in Nat : m = i - Len(q) /\ m \in 1..Len(t)
    BY <1>4, <1>7
  <2>2. b[i] = t[m]
    BY <1>4, <1>7, <2>1
  <2>3. i + 1 \in 1..Len(a) /\ i + 1 > Len(q) /\ (i + 1) - Len(q) = m + 1
    BY <1>3, <1>6, <1>7, <2>1
  <2>4. a[i + 1] = (z \o t)[m + 1]
    <3>1. a[i + 1] = (z \o t)[(i + 1) - Len(q)]
      BY <1>3, <2>3, Zenon
    <3> QED BY <2>3, <3>1
  <2>5. m + 1 \in 1..Len(z \o t) /\ m + 1 > Len(z) /\ (m + 1) - Len(z) = m
    BY <1>1, <1>6, <2>1
  <2>6. (z \o t)[m + 1] = t[m]
    BY <1>2, <2>5
  <2> QED BY <2>2, <2>3, <2>4, <2>6
<1>8. a[Len(q) + 1] = e
  <2>1. Len(q) + 1 \in 1..Len(a) /\ Len(q) + 1 > Len(q) /\ (Len(q) + 1) - Len(q) = 1
    BY <1>2, <1>3, <1>6
  <2>2. a[Len(q) + 1] = (z \o t)[1]
    BY <1>3, <2>1
  <2>3. 1 \in 1..Len(z)
    BY <1>1
  <2> QED BY <1>1, <1>2, <2>2, <2>3
<1>9. ASSUME NEW i \in 1..Len(b), \A j \in 1..i : b[j].kind /= "flush"
      PROVE  b[i].kind = "head" <=> i = 1
  <2>1. CASE i <= Len(q)
    <3>1. i \in 1..Len(q) /\ i \in 1..Len(a) /\ \A j \in 1..i : j \in 1..Len(q)
      BY <1>3, <1>4, <1>6, <2>1
    <3>2. a[i] = b[i] /\ \A j \in 1..i : a[j] = b[j]
      BY <1>3, <1>4, <3>1
    <3> QED BY <1>5, <1>9, <3>1, <3>2 DEF HeadOk
  <2>2. CASE ~(i <= Len(q))
    <3>1. i > Len(q) /\ i \in Nat /\ i > 1
      BY <1>3, <1>6, <2>2
    <3>2. e.kind /= "flush"
      <4>1. Len(t) > 0
        BY <1>3, <1>4, <3>1
      <4>2. t /= <<>>
        BY <4>1
      <4> QED BY <4>2
    <3>3. ASSUME NEW j \in 1..(i + 1) PROVE a[j].kind /= "flush"
      <4>1. CASE j <= Len(q)
        <5>1. j \in 1..Len(q) /\ j \in 1..i
          BY <1>3, <3>1, <4>1
        <5> QED BY <1>3, <1>4, <1>9, <5>1
      <4>2. CASE j = Len(q) + 1
        BY <1>8, <3>2, <4>2
      <4>3. CASE j > Len(q) + 1
        <5>1. PICK m \in Nat : j = m + 1
          <6>1. j - 1 \in Nat /\ j = (j - 1) + 1
            BY <3>1
          <6> QED BY <6>1
        <5>2. m \in 1..Len(b) /\ m > Len(q) /\ m \in 1..i
          BY <1>3, <3>1, <4>3, <5>1
        <5> QED BY <1>7, <1>9, <5>1, <5>2
      <4>4. j <= Len(q) \/ j = Len(q) + 1 \/ j > Len(q) + 1
        BY <1>3, <3>1
      <4> QED BY <4>1, <4>2, <4>3, <4>4
    <3>4. i + 1 \in 1..Len(a) /\ a[i + 1] = b[i] /\ i + 1 /= 1
      BY <1>7, <3>1
    <3>5. a[i + 1].kind = "head" <=> i + 1 = 1
      BY <1>5, <3>3, <3>4 DEF HeadOk
    <3> QED BY <3>1, <3>4, <3>5
  <2> QED BY <2>1, <2>2
<1>10. HeadOk(b)
  BY <1>9 DEF HeadOk
<1> QED BY <1>10 DEF b

-----------------------------------------------------------------------------
(* The length of a body. *)

LEMMA BodyIs ==
  ASSUME NEW q \in Seq(EventT),
         NEW f, f = [k \in 0..Len(q) |-> IF k <= 1 THEN 0 ELSE f[k - 1] + q[k].size]
  PROVE  BodyLength(q) = f[Len(q)]
<1> DEFINE Adds(h) == h = [k \in 0..Len(q) |-> IF k <= 1 THEN 0 ELSE h[k - 1] + q[k].size]
           g == CHOOSE h : Adds(h)
<1>1. BodyLength(q) = g[Len(q)]
  BY DEF BodyLength
<1>2. Adds(g)
  <2>1. Adds(f)
    OBVIOUS
  <2> HIDE DEF Adds
  <2> QED BY <2>1
<1> HIDE DEF g
<1>3. Len(q) \in Nat
  OBVIOUS
<1> DEFINE Bad == {k \in 0..Len(q) : g[k] /= f[k]}
<1>4. CASE Bad = {}
  <2>1. Len(q) \in 0..Len(q)
    BY <1>3
  <2>2. Len(q) \notin Bad
    <3> HIDE DEF Bad
    <3> QED BY <1>4
  <2> QED BY <1>1, <2>1, <2>2
<1>5. CASE Bad /= {}
  <2>1. Bad \in SUBSET Nat
    BY <1>3
  <2>2. PICK k \in Bad : \A j \in Bad : k <= j
    <3> HIDE DEF Bad
    <3> QED BY <1>5, <2>1, Least
  <2>3. k \in 0..Len(q) /\ k \in Nat /\ g[k] /= f[k]
    BY <1>3
  <2>4. /\ g[k] = IF k <= 1 THEN 0 ELSE g[k - 1] + q[k].size
        /\ f[k] = IF k <= 1 THEN 0 ELSE f[k - 1] + q[k].size
    BY <1>2, <2>3
  <2>5. ~(k <= 1)
    BY <2>3, <2>4
  <2>6. PICK j \in Nat : j = k - 1
    BY <2>3, <2>5
  <2>7. j \in 0..Len(q) /\ j \notin Bad
    BY <1>3, <2>2, <2>3, <2>6
  <2>8. g[j] = f[j]
    BY <2>7
  <2> QED BY <2>3, <2>4, <2>5, <2>6, <2>8
<1> QED BY <1>4, <1>5

\* The body of one chunk, and of chunks of 1.
LEMMA OneChunk ==
  ASSUME NEW q \in Seq(EventT), Len(q) = 2
  PROVE  BodyLength(q) = q[2].size
<1> DEFINE f == [k \in 0..Len(q) |-> IF k <= 1 THEN 0 ELSE q[2].size]
<1>1. q[2].size \in Nat
  <2>1. q[2] \in EventT
    <3>1. 2 \in 1..Len(q)
      OBVIOUS
    <3> QED BY <3>1, ElementOfSeq
  <2> QED BY <2>1 DEF EventT
<1>2. f = [k \in 0..Len(q) |-> IF k <= 1 THEN 0 ELSE f[k - 1] + q[k].size]
  <2>1. ASSUME NEW k \in 0..Len(q), ~(k <= 1) PROVE q[2].size = f[k - 1] + q[k].size
    <3>1. k = 2 /\ 1 \in 0..Len(q)
      BY <2>1
    <3>2. f[1] = 0
      BY <3>1
    <3> QED BY <1>1, <3>1, <3>2
  <2> QED BY <2>1
<1>3. f[Len(q)] = q[2].size
  OBVIOUS
<1> HIDE DEF f
<1> QED BY <1>2, <1>3, BodyIs

LEMMA UnitChunks ==
  ASSUME NEW q \in Seq(EventT), Len(q) > 0, \A i \in 2..Len(q) : q[i].size = 1
  PROVE  BodyLength(q) = Len(q) - 1
<1> DEFINE f == [k \in 0..Len(q) |-> IF k <= 1 THEN 0 ELSE k - 1]
<1>1. Len(q) \in Nat
  OBVIOUS
<1>2. f = [k \in 0..Len(q) |-> IF k <= 1 THEN 0 ELSE f[k - 1] + q[k].size]
  <2>1. ASSUME NEW k \in 0..Len(q), ~(k <= 1) PROVE k - 1 = f[k - 1] + q[k].size
    <3>1. PICK j \in Nat : j = k - 1 /\ j \in 0..Len(q)
      BY <1>1, <2>1
    <3>2. f[j] = IF j <= 1 THEN 0 ELSE j - 1
      BY <3>1
    <3>3. f[j] = j - 1
      BY <2>1, <3>1, <3>2
    <3>4. q[k].size = 1
      BY <1>1, <2>1
    <3> QED BY <3>1, <3>3, <3>4
  <2> QED BY <2>1
<1>3. f[Len(q)] = Len(q) - 1
  <2>1. PICK n \in Nat : n = Len(q) /\ n \in 0..Len(q) /\ n > 0
    BY <1>1
  <2>2. f[n] = IF n <= 1 THEN 0 ELSE n - 1
    BY <2>1
  <2>3. f[n] = n - 1
    BY <2>1, <2>2
  <2> QED BY <2>1, <2>3
<1> HIDE DEF f
<1> QED BY <1>2, <1>3, BodyIs

-----------------------------------------------------------------------------
(* The operations. *)

LEMMA OpIs ==
  ASSUME NEW op \in Op
  PROVE  op.kind \in {"push", "file", "missing", "code", "end"} /\ op.size \in Nat /\ op.attach \in BOOLEAN
BY ResponseAssumption DEF ResponseAssumption

LEMMA CapIs == Cap \in Nat /\ Cap > 0 /\ MaxOps \in Nat /\ UserConnect \subseteq BOOLEAN
BY ResponseAssumption DEF ResponseAssumption

LEMMA StreamFields ==
  ASSUME Typed
  PROVE  /\ stream.headersSent \in BOOLEAN /\ stream.file \in BOOLEAN
         /\ stream.attach \in BOOLEAN /\ stream.known \in BOOLEAN
BY Zenon DEF Typed, StreamT

LEMMA NewIs == New \in StreamT /\ New.headersSent = FALSE
<1>1. FALSE \in BOOLEAN /\ TRUE \in BOOLEAN
  OBVIOUS
<1>2. New \in StreamT
  BY <1>1, Zenon DEF New, StreamT
<1> QED BY <1>2 DEF New

LEMMA FieldsAre ==
  ASSUME Typed, NEW op \in Op, op.kind /= "missing"
  PROVE  /\ Fields(op) \in StreamT
         /\ op.kind \in {"push", "file"} => Fields(op).headersSent
         /\ op.kind = "code" => Fields(op).headersSent = stream.headersSent
<1>1. op.kind \in {"push", "file", "code", "end"} /\ op.attach \in BOOLEAN /\ TRUE \in BOOLEAN
  BY OpIs
<1>2. stream \in StreamT
  BY DEF Typed, StreamT
<1>3. CASE op.kind \in {"push", "file"}
  <2> DEFINE f == stream.file \/ op.kind = "file"
             s == [stream EXCEPT !.headersSent = TRUE, !.attach = op.attach, !.file = f]
  <2>1. f \in BOOLEAN
    OBVIOUS
  <2>2. Fields(op) = s
    BY <1>3 DEF Fields
  <2> HIDE DEF f
  <2>3. s \in StreamT
    BY <1>1, <1>2, <2>1, Zenon DEF StreamT
  <2>4. s.headersSent = TRUE
    BY <1>2 DEF StreamT
  <2> QED BY <1>3, <2>2, <2>3, <2>4
<1>4. CASE op.kind = "code"
  <2> DEFINE k == op.size < 600
             s == [stream EXCEPT !.known = k]
  <2>1. k \in BOOLEAN
    OBVIOUS
  <2>2. Fields(op) = s
    BY <1>4 DEF Fields
  <2> HIDE DEF k
  <2>3. s \in StreamT
    BY <1>2, <2>1, Zenon DEF StreamT
  <2>4. s.headersSent = stream.headersSent
    BY <1>2 DEF StreamT
  <2> QED BY <1>4, <2>2, <2>3, <2>4
<1>5. CASE op.kind = "end"
  <2>1. Fields(op) = New
    BY <1>5 DEF Fields
  <2> QED BY <1>5, <2>1, NewIs
<1> QED BY <1>1, <1>3, <1>4, <1>5

\* What an operation pushes: a head first if there was none, and an end alone.
LEMMA EventsAre ==
  ASSUME Typed, NEW op \in Op, op.kind /= "missing"
  PROVE  /\ Events(op) \in Seq(EventT)
         /\ \A i \in 1..Len(Events(op)) : Events(op)[i].kind = "flush" => Events(op) = <<Events(op)[i]>>
         /\ \A i \in 1..Len(Events(op)) : Events(op)[i].kind /= "flush" =>
              (Events(op)[i].kind = "head" <=> i = 1 /\ ~stream.headersSent)
         /\ Unended(Events(op)) =>
              (Fields(op).headersSent <=> stream.headersSent \/ Events(op) /= <<>>)
<1> DEFINE h == HeadEvents(op)
           blocks == [b \in 1..op.size |-> DataEvent(1)]
           one == <<DataEvent(op.size)>>
<1>1. op.kind \in {"push", "file", "code", "end"} /\ op.size \in Nat /\ applied + 1 \in Nat
      /\ stream.headersSent \in BOOLEAN
  BY OpIs, StreamFields DEF Typed
<1>2. /\ HeadEvent(op) \in EventT /\ HeadEvent(op).kind = "head"
      /\ FlushEvent \in EventT /\ FlushEvent.kind = "flush"
      /\ \A k \in Nat : DataEvent(k) \in EventT /\ DataEvent(k).kind = "data"
  BY <1>1 DEF HeadEvent, FlushEvent, DataEvent, EventT
<1>3. /\ h \in Seq(EventT) /\ Len(h) \in {0, 1} /\ (stream.headersSent <=> Len(h) = 0)
      /\ \A i \in 1..Len(h) : i = 1 /\ h[i].kind = "head"
  BY <1>1, <1>2 DEF HeadEvents
<1>4. one \in Seq(EventT) /\ Len(one) = 1 /\ \A i \in 1..Len(one) : one[i].kind = "data"
  BY <1>1, <1>2
<1>5. blocks \in Seq(EventT) /\ \A i \in 1..Len(blocks) : blocks[i].kind = "data"
  <2>1. DataEvent(1) \in EventT /\ DataEvent(1).kind = "data"
    BY <1>2
  <2>2. \A b \in 1..op.size : DataEvent(1) \in EventT
    BY <2>1
  <2>3. blocks \in Seq(EventT)
    BY <1>1, <2>2, IsASeq
  <2>4. Len(blocks) = op.size
    BY <1>1, <2>3
  <2> QED BY <2>1, <2>3, <2>4
<1> HIDE DEF h, blocks, one
<1>6. ASSUME NEW d \in Seq(EventT), \A i \in 1..Len(d) : d[i].kind = "data"
      PROVE  /\ h \o d \in Seq(EventT)
             /\ \A i \in 1..Len(h \o d) :
                  /\ (h \o d)[i].kind /= "flush"
                  /\ (h \o d)[i].kind = "head" <=> i = 1 /\ ~stream.headersSent
             /\ ~stream.headersSent => h \o d /= <<>>
  <2>1. /\ Len(h) \in Nat /\ h \o d \in Seq(EventT) /\ Len(h \o d) = Len(h) + Len(d) /\ Len(d) \in Nat
        /\ \A i \in 1..Len(h) : (h \o d)[i] = h[i]
        /\ \A i \in 1..Len(h \o d) : i > Len(h) => /\ i - Len(h) \in 1..Len(d)
                                                   /\ (h \o d)[i] = d[i - Len(h)]
    BY <1>3, Concats
  <2>2. ASSUME NEW i \in 1..Len(h \o d)
        PROVE  /\ (h \o d)[i].kind /= "flush"
               /\ (h \o d)[i].kind = "head" <=> i = 1 /\ ~stream.headersSent
    <3>1. CASE i > Len(h)
      <4>1. (h \o d)[i].kind = "data"
        BY <1>6, <2>1, <3>1
      <4>2. ~(i = 1 /\ ~stream.headersSent)
        BY <1>3, <3>1
      <4> QED BY <4>1, <4>2
    <3>2. CASE ~(i > Len(h))
      <4>1. i \in 1..Len(h)
        BY <2>1, <3>2
      <4>2. i = 1 /\ h[i].kind = "head" /\ ~stream.headersSent
        BY <1>3, <4>1
      <4> QED BY <2>1, <4>1, <4>2
    <3> QED BY <3>1, <3>2
  <2>3. ~stream.headersSent => Len(h \o d) > 0
    BY <1>3, <2>1
  <2> QED BY <2>1, <2>2, <2>3
<1>7. CASE op.kind \in {"push", "file"}
  <2>1. PICK d \in Seq(EventT) : Events(op) = h \o d /\ \A i \in 1..Len(d) : d[i].kind = "data"
    <3>1. Events(op) = h \o one \/ Events(op) = h \o blocks
      BY <1>7 DEF Events, h, one, blocks
    <3> QED BY <1>4, <1>5, <3>1
  <2>2. Fields(op).headersSent
    BY <1>7, FieldsAre
  <2> DEFINE a == h \o d
  <2>3. /\ a \in Seq(EventT)
        /\ \A i \in 1..Len(a) : /\ a[i].kind /= "flush"
                                /\ a[i].kind = "head" <=> i = 1 /\ ~stream.headersSent
        /\ ~stream.headersSent => a /= <<>>
    BY <1>6, <2>1
  <2>4. Events(op) = a
    BY <2>1
  <2> HIDE DEF a
  <2> QED BY <1>1, <2>2, <2>3, <2>4
<1>8. CASE op.kind = "code"
  <2>1. Events(op) = <<>> /\ Fields(op).headersSent = stream.headersSent
    BY <1>8, FieldsAre DEF Events
  <2> QED BY <1>1, <2>1
<1>9. CASE op.kind = "end"
  <2> DEFINE e == FlushEvent
  <2>1. Events(op) = <<e>> /\ e \in EventT /\ e.kind = "flush"
    BY <1>2, <1>9 DEF Events
  <2> HIDE DEF e
  <2>2. Events(op) \in Seq(EventT) /\ Len(Events(op)) = 1 /\ Events(op)[1] = e
    BY <2>1
  <2>3. \A i \in 1..Len(Events(op)) : Events(op)[i] = e
    BY <2>2
  <2>4. ~Unended(Events(op))
    BY <2>1, <2>2, <2>3 DEF Unended
  <2> QED BY <2>1, <2>2, <2>3, <2>4
<1> QED BY <1>1, <1>7, <1>8, <1>9

LEMMA TypeStep ==
  ASSUME Typed, [Next]_vars
  PROVE  Typed'
<1>1. ASSUME NEW op \in Op, Apply(op) PROVE Typed'
  <2>1. CASE Misuse(op)
    <3>1. UNCHANGED <<stream, emit, promised>>
      BY <1>1, <2>1 DEF Apply
    <3>2. stream' \in StreamT /\ emit' \in Seq(EventT) /\ promised' \in Seq(EventT)
      BY <3>1 DEF Typed
    <3>3. late' \in BOOLEAN /\ applied' \in Nat /\ at' = "exited"
          /\ UNCHANGED <<onConnect, chan, out, woken>>
      BY <1>1, <2>1 DEF Apply, Typed, Returned
    <3> QED BY <3>2, <3>3 DEF Typed
  <2>2. CASE ~Misuse(op)
    <3>1. op.kind /= "missing"
      BY <2>2 DEF Misuse
    <3>2. Fields(op) \in StreamT /\ Events(op) \in Seq(EventT) /\ promised \o Events(op) \in Seq(EventT)
      BY <3>1, FieldsAre, EventsAre, Concats DEF Typed
    <3>3. stream' \in StreamT /\ emit' \in Seq(EventT) /\ promised' \in Seq(EventT)
      BY <1>1, <2>2, <3>2 DEF Apply, Typed
    <3>4. late' \in BOOLEAN /\ applied' \in Nat /\ at' = at
          /\ UNCHANGED <<onConnect, chan, out, woken>>
      BY <1>1, <2>2 DEF Apply, Typed, Returned
    <3> QED BY <3>3, <3>4 DEF Typed
  <2> QED BY <2>1, <2>2
<1>2. ASSUME TrySend PROVE Typed'
  <2>1. emit' \in Seq(EventT) /\ chan' \in Seq(EventT)
    BY <1>2 DEF TrySend, Typed
  <2>2. woken' \in BOOLEAN /\ UNCHANGED <<onConnect, stream, out, at, late, applied, promised>>
    BY <1>2 DEF TrySend, Typed
  <2> QED BY <2>1, <2>2 DEF Typed
<1>3. ASSUME Return PROVE Typed'
  BY <1>3 DEF Return, Typed
<1>4. ASSUME Write \/ Written \/ WriteFails \/ WriteTimeout PROVE Typed'
  <2>1. chan' \in Seq(EventT)
    <3>1. chan' = chan \/ (chan /= <<>> /\ chan' = Tail(chan))
      BY <1>4 DEF Write, Written, WriteFails, WriteTimeout
    <3>2. chan \in Seq(EventT) /\ (chan /= <<>> => Tail(chan) \in Seq(EventT))
      BY HeadTailProperties DEF Typed
    <3> QED BY <3>1, <3>2
  <2>2. out' \in Seq(EventT)
    <3>1. out' = out \/ (chan /= <<>> /\ out' = Append(out, Head(chan)))
      BY <1>4 DEF Write, Written, WriteFails, WriteTimeout
    <3>2. out \in Seq(EventT) /\ (chan /= <<>> => Append(out, Head(chan)) \in Seq(EventT))
      BY HeadTailProperties DEF Typed
    <3> QED BY <3>1, <3>2
  <2>3. at' \in {"drain", "writing", "flushing", "done", "failed", "timeout"}
        /\ UNCHANGED <<onConnect, stream, emit, woken, late, applied, promised>>
    BY <1>4 DEF Write, Written, WriteFails, WriteTimeout
  <2> QED BY <2>1, <2>2, <2>3 DEF Typed
<1>5. ASSUME UNCHANGED vars PROVE Typed'
  BY <1>5 DEF vars, Typed
<1> QED BY <1>1, <1>2, <1>3, <1>4, <1>5 DEF Next

-----------------------------------------------------------------------------
(* The steps. *)

LEMMA PushedIs ==
  ASSUME Typed
  PROVE  /\ out \o chan \in Seq(EventT) /\ chan \o emit \in Seq(EventT) /\ Pushed \in Seq(EventT)
         /\ Pushed = (out \o chan) \o emit
         /\ emit = <<>> => Pushed = out \o chan
         /\ Len(Pushed) = Len(out) + (Len(chan) + Len(emit))
<1>1. out \in Seq(EventT) /\ chan \in Seq(EventT) /\ emit \in Seq(EventT)
  BY DEF Typed
<1>2. out \o chan \in Seq(EventT) /\ chan \o emit \in Seq(EventT)
      /\ Len(chan \o emit) = Len(chan) + Len(emit)
  BY <1>1, Concats
<1>3. Pushed \in Seq(EventT) /\ Len(Pushed) = Len(out) + Len(chan \o emit)
  BY <1>1, <1>2, Concats DEF Pushed
<1>4. Pushed = (out \o chan) \o emit
  BY <1>1, Regroup DEF Pushed
<1>5. emit = <<>> => Pushed = out \o chan
  BY <1>2, <1>4, EmptyConcat
<1> QED BY <1>2, <1>3, <1>4, <1>5

\* A misuse ends the process.
LEMMA MisuseStep ==
  ASSUME Typed, Facts, Heads, NEW op \in Op, Apply(op), Misuse(op)
  PROVE  Facts' /\ Kept' /\ Heads' /\ Reaching'
<1>1. /\ at' = "exited" /\ late' = Returned /\ emit = <<>> /\ (Registered \/ ~late)
      /\ UNCHANGED <<onConnect, chan, out, woken, stream, emit, promised>>
  BY DEF Apply
<1>2. ~late
  BY <1>1 DEF Facts, Waiting
<1>3. ~Registered' /\ ~Live'
  BY <1>1 DEF Registered, Live
<1>4. (Unended(promised)' <=> Unended(promised)) /\ (Unended(out)' <=> Unended(out))
      /\ \A k : First(k)' <=> First(k)
  BY <1>1 DEF Unended, First
<1>5. Facts'
  BY <1>1, <1>2, <1>3, <1>4 DEF Facts, Waiting, Heading, EndsLast, FirstEnd, Woken
<1>6. Kept' /\ Reaching'
  BY <1>1, <1>3 DEF Kept, Reaching
<1>7. Heads'
  BY <1>1, <1>3 DEF Heads
<1> QED BY <1>5, <1>6, <1>7

\* The events that a response has so far leave no room for a second head.
LEMMA OperationFits ==
  ASSUME Typed, Facts, Kept, Live, ~late, Len(promised) <= Cap, NEW op \in Op,
         op.kind /= "missing"
  PROVE  Fits(Pushed, Events(op))
<1>1. Pushed = promised
  BY DEF Kept
<1>2. Unended(promised) => (stream.headersSent <=> promised /= <<>>)
  BY DEF Facts, Heading
<1>3. \A i \in 1..Len(Events(op)) : Events(op)[i].kind /= "flush" =>
        (Events(op)[i].kind = "head" <=> i = 1 /\ ~stream.headersSent)
  BY EventsAre
<1>4. CASE Unended(promised)
  BY <1>1, <1>2, <1>3, <1>4 DEF Fits
<1>5. CASE ~Unended(promised)
  BY <1>1, <1>3, <1>5 DEF Fits
<1> QED BY <1>4, <1>5

LEMMA UnendedBoth ==
  ASSUME NEW p \in Seq(EventT), NEW e \in Seq(EventT)
  PROVE  Unended(p \o e) <=> Unended(p) /\ Unended(e)
<1> DEFINE a == p \o e
<1>1. /\ Len(a) = Len(p) + Len(e) /\ Len(p) \in Nat /\ Len(e) \in Nat
      /\ \A i \in 1..Len(p) : a[i] = p[i]
      /\ \A i \in 1..Len(a) : i > Len(p) => i - Len(p) \in 1..Len(e) /\ a[i] = e[i - Len(p)]
  BY Concats
<1> HIDE DEF a
<1>2. Unended(a) => Unended(p)
  <2>1. \A i \in 1..Len(p) : i \in 1..Len(a)
    BY <1>1
  <2> QED BY <1>1, <2>1 DEF Unended
<1>3. Unended(a) => Unended(e)
  <2> SUFFICES ASSUME Unended(a), NEW j \in 1..Len(e) PROVE e[j].kind /= "flush"
    BY DEF Unended
  <2>1. PICK x \in Nat : x = Len(p) + j
    BY <1>1
  <2>2. x \in 1..Len(a) /\ x > Len(p) /\ x - Len(p) = j
    BY <1>1, <2>1
  <2>3. a[x] = e[x - Len(p)]
    BY <1>1, <2>2
  <2> QED BY <2>2, <2>3 DEF Unended
<1>4. Unended(p) /\ Unended(e) => Unended(a)
  <2> SUFFICES ASSUME Unended(p), Unended(e), NEW i \in 1..Len(a) PROVE a[i].kind /= "flush"
    BY DEF Unended
  <2>1. CASE i > Len(p)
    BY <1>1, <2>1 DEF Unended
  <2>2. CASE ~(i > Len(p))
    <3>1. i \in 1..Len(p)
      BY <1>1, <2>2
    <3> QED BY <1>1, <3>1 DEF Unended
  <2> QED BY <2>1, <2>2
<1>5. Unended(a) <=> Unended(p) /\ Unended(e)
  BY <1>2, <1>3, <1>4
<1> QED BY <1>5 DEF a

\* What was promised grows at its end: its first end stays where it is.
LEMMA FirstStays ==
  ASSUME Typed, NEW e \in Seq(EventT), promised' = promised \o e
  PROVE  /\ \A i \in 1..Len(promised) : promised'[i] = promised[i]
         /\ \A k \in 1..Len(promised) : First(k)' <=> First(k)
         /\ \A k \in Nat : First(k)' /\ k > Len(promised) => Unended(promised)
         /\ \A k : First(k)' => k \in 1..Len(promised')
<1> DEFINE p == promised
           a == promised \o e
<1>1. p \in Seq(EventT)
  BY DEF Typed
<1>2. /\ Len(a) = Len(p) + Len(e) /\ Len(p) \in Nat /\ Len(e) \in Nat
      /\ \A i \in 1..Len(p) : a[i] = p[i]
  BY <1>1, Concats
<1>3. promised' = a /\ p = promised
  OBVIOUS
<1> HIDE DEF a, p
<1>4. ASSUME NEW k \in 1..Len(p)
      PROVE  First(k)' <=> First(k)
  <2>1. k \in 1..Len(a) /\ a[k] = p[k] /\ \A i \in 1..(k - 1) : a[i] = p[i]
    <3>1. k \in 1..Len(a) /\ \A i \in 1..(k - 1) : i \in 1..Len(p)
      BY <1>2
    <3> QED BY <1>2, <3>1
  <2>2. First(k)' <=> /\ k \in 1..Len(a) /\ a[k].kind = "flush"
                      /\ \A i \in 1..(k - 1) : a[i].kind /= "flush"
    BY <1>3 DEF First
  <2>3. First(k) <=> /\ k \in 1..Len(p) /\ p[k].kind = "flush"
                     /\ \A i \in 1..(k - 1) : p[i].kind /= "flush"
    BY <1>3 DEF First
  <2> QED BY <2>1, <2>2, <2>3
<1>5. ASSUME NEW k \in Nat, First(k)', k > Len(p) PROVE Unended(p)
  <2>1. \A i \in 1..(k - 1) : a[i].kind /= "flush"
    BY <1>3, <1>5 DEF First
  <2>2. \A i \in 1..Len(p) : i \in 1..(k - 1) /\ a[i] = p[i]
    BY <1>2, <1>5
  <2> QED BY <2>1, <2>2 DEF Unended
<1>6. \A k : First(k)' => k \in 1..Len(promised')
  BY DEF First
<1> QED BY <1>2, <1>3, <1>4, <1>5, <1>6

\* An operation of a registered handler.
LEMMA ApplyRegistered ==
  ASSUME Typed, Facts, Kept, Heads, Reaching, NEW op \in Op, Apply(op), ~Misuse(op), Registered
  PROVE  Facts' /\ Kept' /\ Heads' /\ Reaching'
<1> DEFINE p == promised
           e == Events(op)
           q == out \o chan
<1>0. op.kind /= "missing"
  BY DEF Misuse
<1>1. /\ emit = <<>> /\ emit' = e /\ promised' = p \o e /\ stream' = Fields(op) /\ late' = FALSE
      /\ UNCHANGED <<onConnect, chan, out, woken, at>>
  <2>1. ~Returned
    BY DEF Registered, Returned
  <2>2. /\ emit = <<>> /\ emit' = e /\ promised' = p \o e /\ stream' = Fields(op)
        /\ UNCHANGED <<onConnect, chan, out, woken, at>>
    BY DEF Apply
  <2>3. late' = FALSE
    BY <2>1 DEF Apply
  <2> QED BY <2>2, <2>3
<1>2. ~late /\ Live /\ Live' /\ (Registered' <=> Registered)
  BY <1>1 DEF Facts, Waiting, Registered, Live
<1>3. p \in Seq(EventT) /\ e \in Seq(EventT) /\ q \in Seq(EventT)
  BY <1>0, PushedIs, EventsAre DEF Typed
<1>4. Pushed = q /\ Pushed' = q \o e
  <2>1. Pushed = q
    BY <1>1, PushedIs
  <2>2. Pushed' = out \o (chan \o e)
    BY <1>1 DEF Pushed
  <2>3. out \o (chan \o e) = (out \o chan) \o e
    <3>1. out \in Seq(EventT) /\ chan \in Seq(EventT)
      BY DEF Typed
    <3>2. e \in Seq(EventT)
      BY <1>3
    <3> HIDE DEF e, q
    <3> QED BY <3>1, <3>2, Regroup
  <2> QED BY <2>1, <2>2, <2>3
<1>5. /\ \A i \in 1..Len(e) : e[i].kind = "flush" => e = <<e[i]>>
      /\ Unended(e) => (Fields(op).headersSent <=> stream.headersSent \/ e /= <<>>)
  BY <1>0, EventsAre
<1>6. Len(p) <= Cap => Fits(q, e) /\ q = p
  BY <1>0, <1>2, <1>4, OperationFits DEF Kept
<1>7. /\ \A i \in 1..Len(p) : promised'[i] = p[i]
      /\ \A k \in 1..Len(p) : First(k)' <=> First(k)
      /\ \A k \in Nat : First(k)' /\ k > Len(p) => Unended(p)
      /\ \A k : First(k)' => k \in 1..Len(promised')
  BY <1>1, <1>3, FirstStays
<1>8. /\ Unended(p \o e) <=> Unended(p) /\ Unended(e)
      /\ p \o e \in Seq(EventT) /\ Len(p \o e) = Len(p) + Len(e) /\ Len(p) \in Nat /\ Len(e) \in Nat
  BY <1>3, UnendedBoth, Concats
<1>9. p = promised
  OBVIOUS
<1> HIDE DEF p, e, q
<1>10. Facts'
  <2>1. Waiting' /\ Woken' /\ Unended(out)'
    BY <1>1, <1>2, <1>8, <1>9 DEF Facts, Waiting, Woken, Unended
  <2>2. Heading'
    <3>1. Unended(p) => (stream.headersSent <=> p /= <<>>)
      BY <1>2, <1>9 DEF Facts, Heading
    <3>2. p \o e /= <<>> <=> p /= <<>> \/ e /= <<>>
      BY <1>3, ConcatEqualIffEmpty
    <3>3. Unended(p \o e) => (Fields(op).headersSent <=> p \o e /= <<>>)
      BY <1>5, <1>8, <3>1, <3>2
    <3> QED BY <1>1, <3>3 DEF Heading
  <2>3. EndsLast'
    BY <1>1, <1>5, <1>8 DEF EndsLast
  <2>4. FirstEnd'
    <3> SUFFICES ASSUME ~Unended(p \o e) PROVE \E k \in 1..Len(promised') : First(k)'
      BY <1>1 DEF FirstEnd
    <3>1. CASE ~Unended(p)
      <4>1. PICK k \in 1..Len(p) : First(k)
        BY <1>9, <3>1 DEF Facts, FirstEnd
      <4>2. First(k)' /\ k \in 1..Len(promised')
        BY <1>7, <4>1
      <4> QED BY <4>2
    <3>2. CASE Unended(p)
      <4>1. PICK i \in 1..Len(e) : e[i].kind = "flush"
        BY <1>8, <3>2 DEF Unended
      <4>2. e = <<e[i]>>
        BY <1>5, <4>1
      <4>3. Len(e) = 1
        BY <4>2
      <4> PICK k \in Nat : k = Len(p) + 1
        BY <1>8
      <4>4. k \in 1..Len(p \o e) /\ k > Len(p) /\ k - Len(p) = 1 /\ i = 1 /\ k - 1 = Len(p)
        BY <1>8, <4>1, <4>3
      <4>5. (p \o e)[k] = e[k - Len(p)]
        BY <1>3, <4>4, Concats
      <4>6. (p \o e)[k].kind = "flush"
        BY <4>1, <4>4, <4>5
      <4>7. \A j \in 1..(k - 1) : (p \o e)[j].kind /= "flush"
        BY <1>1, <1>7, <3>2, <4>4 DEF Unended
      <4>8. First(k)'
        BY <1>1, <4>4, <4>6, <4>7 DEF First
      <4> QED BY <1>1, <4>4, <4>8
    <3> QED BY <3>1, <3>2
  <2> QED BY <2>1, <2>2, <2>3, <2>4 DEF Facts
<1>11. Len(p \o e) <= Cap => Len(p) <= Cap
  BY <1>8, CapIs
<1>12. Kept'
  BY <1>1, <1>4, <1>6, <1>11 DEF Kept
<1>13. Heads'
  <2> SUFFICES ASSUME Len(p \o e) <= Cap
               PROVE  /\ \A k \in 1..Len(out) : out[k].kind = "head" <=> k = 1
                      /\ HeadOk(q \o e)
    BY <1>1, <1>4 DEF Heads, HeadOk
  <2>1. Len(p) <= Cap
    BY <1>11
  <2>2. (\A k \in 1..Len(out) : out[k].kind = "head" <=> k = 1) /\ HeadOk(q)
    BY <1>2, <1>4, <1>9, <2>1 DEF Heads
  <2> QED BY <1>3, <1>6, <2>1, <2>2, HeadOkMore
<1>14. Reaching'
  <2> SUFFICES ASSUME NEW k \in 1..Cap, First(k)'
               PROVE  Reaches(k, Pushed)' /\ (woken => Reaches(k, out \o chan)')
    BY <1>1, <1>2 DEF Reaching, Live
  <2>1. k \in 1..Len(p \o e) /\ k \in Nat
    BY <1>1, <1>7, CapIs
  <2>2. CASE k <= Len(p)
    <3>1. k \in 1..Len(p)
      BY <1>8, <2>1, <2>2
    <3>2. First(k)
      BY <1>7, <3>1
    <3>3. Reaches(k, q) /\ (woken => Reaches(k, q))
      BY <1>2, <1>4, <3>2 DEF Reaching, q
    <3>4. Reaches(k, q \o e)
      BY <1>3, <2>1, <3>3, ReachesMore
    <3>5. \A i \in 1..k : promised'[i] = promised[i]
      BY <1>7, <1>9, <3>1
    <3>6. (out \o chan)' = q
      BY <1>1 DEF q
    <3> QED BY <1>4, <3>3, <3>4, <3>5, <3>6 DEF Reaches
  <2>3. CASE ~(k <= Len(p))
    <3>1. Unended(p)
      BY <1>7, <1>8, <2>1, <2>3
    <3>2. ~woken
      BY <1>9, <3>1 DEF Facts, Woken
    <3>3. q = p
      BY <1>6, <1>8, <2>1, <2>3, CapIs
    <3> QED BY <1>1, <1>4, <2>1, <3>2, <3>3 DEF Reaches
  <2> QED BY <2>2, <2>3
<1> QED BY <1>10, <1>12, <1>13, <1>14

\* The operation that was looked up before the handler returned.
LEMMA ApplyLate ==
  ASSUME Typed, Facts, Kept, Heads, Reaching, NEW op \in Op, Apply(op), ~Misuse(op), ~Registered
  PROVE  Facts' /\ Kept' /\ Heads' /\ Reaching'
<1> DEFINE e == Events(op)
           q == out \o chan
<1>0. op.kind /= "missing"
  BY DEF Misuse
<1>1. /\ emit = <<>> /\ emit' = e /\ stream' = Fields(op) /\ late' = TRUE /\ ~late
      /\ UNCHANGED <<onConnect, chan, out, woken, at, promised>>
  BY DEF Apply
<1>2. (Live' <=> Live) /\ ~Registered'
  BY <1>1 DEF Registered, Live
<1>3. e \in Seq(EventT) /\ q \in Seq(EventT)
  BY <1>0, PushedIs, EventsAre
<1>4. Pushed = q /\ Pushed' = q \o e
  <2>1. Pushed = q
    BY <1>1, PushedIs
  <2>2. Pushed' = out \o (chan \o e)
    BY <1>1 DEF Pushed
  <2>3. out \o (chan \o e) = (out \o chan) \o e
    <3>1. out \in Seq(EventT) /\ chan \in Seq(EventT)
      BY DEF Typed
    <3>2. e \in Seq(EventT)
      BY <1>3
    <3> HIDE DEF e, q
    <3> QED BY <3>1, <3>2, Regroup
  <2> QED BY <2>1, <2>2, <2>3
<1>5. \A i \in 1..Len(e) : e[i].kind = "flush" => e = <<e[i]>>
  BY <1>0, EventsAre
<1>6. Live /\ Len(promised) <= Cap => Fits(q, e)
  BY <1>0, <1>1, <1>4, OperationFits
<1>7. q = out \o chan
  OBVIOUS
<1> HIDE DEF e, q
<1>8. \A k : First(k)' <=> First(k)
  BY <1>1 DEF First
<1>9. Facts'
  BY <1>1, <1>2, <1>5, <1>8 DEF Facts, Waiting, Heading, EndsLast, FirstEnd, Woken, Unended
<1>10. Kept'
  BY <1>1 DEF Kept
<1>11. Heads'
  <2>1. Live /\ Len(promised) <= Cap => HeadOk(q \o e)
    BY <1>3, <1>4, <1>6, HeadOkMore DEF Heads
  <2>2. HeadOk(Pushed)' <=> HeadOk(q \o e)
    BY <1>4 DEF HeadOk
  <2> QED BY <1>1, <1>2, <2>1, <2>2 DEF Heads
<1>12. Reaching'
  <2> SUFFICES ASSUME NEW k \in 1..Cap, First(k)'
               PROVE  /\ Live => Reaches(k, Pushed)'
                      /\ Live /\ woken => Reaches(k, out \o chan)'
                      /\ at \in {"flushing", "done"} => Len(out) = k - 1 /\ \A i \in 1..(k - 1) : out[i] = promised[i]
                      /\ at = "timeout" => ~woken
    BY <1>1, <1>2 DEF Reaching
  <2>1. First(k) /\ k \in Nat
    BY <1>8, CapIs
  <2>2. Live => Reaches(k, q \o e)
    BY <1>3, <1>4, <2>1, ReachesMore DEF Reaching
  <2>3. Reaches(k, Pushed)' <=> Reaches(k, q \o e)
    BY <1>1, <1>4 DEF Reaches
  <2>4. Reaches(k, out \o chan)' <=> Reaches(k, out \o chan)
    BY <1>1 DEF Reaches
  <2> QED BY <2>1, <2>2, <2>3, <2>4 DEF Reaching
<1> QED BY <1>9, <1>10, <1>11, <1>12

\* An event is put into the channel, or dropped.
LEMMA TrySendStep ==
  ASSUME Typed, Facts, Kept, Heads, Reaching, TrySend
  PROVE  Facts' /\ Kept' /\ Heads' /\ Reaching'
<1> DEFINE e == Head(emit)
           t == Tail(emit)
           z == <<e>>
           q == out \o chan
<1>1. /\ emit /= <<>> /\ emit' = t
      /\ chan' = (IF Open /\ Len(chan) < Cap
                    THEN Append(chan, e) ELSE chan)
      /\ woken' = (woken \/ (Registered /\ e.kind = "flush"))
      /\ UNCHANGED <<onConnect, stream, out, at, late, applied, promised>>
  BY DEF TrySend
<1>2. out \in Seq(EventT) /\ chan \in Seq(EventT) /\ emit \in Seq(EventT) /\ q \in Seq(EventT)
  BY PushedIs DEF Typed
<1>3. /\ e \in EventT /\ t \in Seq(EventT) /\ emit = z \o t /\ z \in Seq(EventT)
      /\ Len(emit) \in Nat /\ Len(emit) > 0 /\ emit[1] = e
  BY <1>1, <1>2, FirstAndRest
<1>4. /\ Len(t) = Len(emit) - 1 /\ \A i \in 1..Len(t) : t[i] = emit[i + 1]
  BY <1>1, <1>2, HeadTailProperties
<1>5. \A i \in 1..Len(emit) : emit[i].kind = "flush" => emit = <<emit[i]>>
  BY DEF Facts, EndsLast
<1>6. Pushed = q \o (z \o t) /\ Len(Pushed) = Len(out) + (Len(chan) + Len(emit))
  BY <1>3, PushedIs
<1>7. /\ z \o t \in Seq(EventT) /\ Len(q) = Len(out) + Len(chan) /\ Len(out) \in Nat
      /\ Len(chan) \in Nat
  BY <1>2, <1>3, Concats
<1>8. q = out \o chan
  OBVIOUS
<1> HIDE DEF e, t, q
<1>9. Unended(t) /\ (e.kind = "flush" => t = <<>>)
  <2>1. ASSUME NEW i \in 1..Len(emit), emit[i].kind = "flush" PROVE Len(emit) = 1
    <3>1. emit = <<emit[i]>>
      BY <1>5, <2>1
    <3>2. Len(<<emit[i]>>) = 1
      OBVIOUS
    <3> QED BY <3>1, <3>2
  <2>2. e.kind = "flush" => Len(t) = 0
    <3>1. 1 \in 1..Len(emit)
      BY <1>3
    <3> QED BY <1>3, <1>4, <2>1, <3>1
  <2>3. ASSUME NEW i \in 1..Len(t) PROVE t[i].kind /= "flush"
    <3>1. i + 1 \in 1..Len(emit) /\ Len(emit) /= 1 /\ t[i] = emit[i + 1]
      BY <1>3, <1>4
    <3> QED BY <2>1, <3>1
  <2> QED BY <1>3, <2>2, <2>3 DEF Unended
<1> HIDE DEF z
<1>10. (Live' <=> Live) /\ (Registered' <=> Registered) /\ (\A k : First(k)' <=> First(k))
  BY <1>1 DEF Live, Registered, First
<1>11. Registered /\ e.kind = "flush" => ~Unended(promised)
  <2>1. e.kind = "flush" => ~Unended(emit)
    <3>1. 1 \in 1..Len(emit)
      BY <1>3
    <3> QED BY <1>3, <3>1 DEF Unended
  <2> QED BY <2>1 DEF Facts, EndsLast
<1>12. Facts'
  <2>1. Waiting' /\ Heading' /\ FirstEnd' /\ Unended(out)'
    BY <1>1, <1>10 DEF Facts, Waiting, Heading, FirstEnd, Unended
  <2>2. Woken'
    BY <1>1, <1>11 DEF Facts, Woken, Unended
  <2>3. EndsLast'
    BY <1>1, <1>9 DEF EndsLast, Unended
  <2> QED BY <2>1, <2>2, <2>3 DEF Facts
<1>21. /\ out \in Seq(EventT) /\ chan \in Seq(EventT) /\ q \in Seq(EventT)
       /\ z \in Seq(EventT) /\ t \in Seq(EventT)
  BY <1>2, <1>3
<1>13. \/ (out \o chan)' = q \o z /\ Pushed' = q \o (z \o t)
       \/ (out \o chan)' = q /\ Pushed' = q \o t /\ (Live => Cap <= Len(chan))
  <2>1. CASE Open /\ Len(chan) < Cap
    <3>1. chan' = Append(chan, e)
      BY <1>1, <2>1
    <3>2. Append(chan, e) = chan \o z
      BY <1>2, <1>3, Appended DEF z
    <3>3. out \o (chan \o z) = q \o z
      <4>1. out \o (chan \o z) = (out \o chan) \o z
        BY SMTT(30), <1>21, Regroup
      <4> QED BY <1>8, <4>1
    <3>4. out \o ((chan \o z) \o t) = q \o (z \o t)
      <4>1. (chan \o z) \o t = chan \o (z \o t)
        BY ZenonT(40), <1>21, Regroup
      <4>2. out \o (chan \o (z \o t)) = (out \o chan) \o (z \o t)
        <5> DEFINE d == z \o t
        <5>1. d \in Seq(EventT)
          BY <1>7
        <5> HIDE DEF d
        <5>2. out \o (chan \o d) = (out \o chan) \o d
          BY SMTT(30), <1>21, <5>1, Regroup
        <5> QED BY <5>2 DEF d
      <4> QED BY <1>8, <4>1, <4>2
    <3>5. (out \o chan)' = q \o z /\ Pushed' = q \o (z \o t)
      BY <1>1, <3>1, <3>2, <3>3, <3>4 DEF Pushed
    <3> QED BY <3>5
  <2>2. CASE ~(Open /\ Len(chan) < Cap)
    <3>1. chan' = chan
      BY <1>1, <2>2
    <3>2. out \o (chan \o t) = q \o t
      <4>1. out \o (chan \o t) = (out \o chan) \o t
        BY SMTT(30), <1>21, Regroup
      <4> QED BY <1>8, <4>1
    <3>3. (out \o chan)' = q /\ Pushed' = q \o t
      BY <1>1, <1>8, <3>1, <3>2 DEF Pushed
    <3> QED BY <1>7, <2>2, <3>3, CapIs DEF Live, Open
  <2> QED BY <2>1, <2>2
<1>14. Kept'
  <2> SUFFICES ASSUME Live, ~late, Len(promised) <= Cap PROVE Pushed' = promised
    BY <1>1, <1>10 DEF Kept
  <2>1. Pushed = promised
    BY DEF Kept
  <2>2. ~(Cap <= Len(chan))
    <3>1. Len(promised) = Len(out) + (Len(chan) + Len(emit))
      BY <1>6, <2>1
    <3> QED BY <1>3, <1>7, <3>1, CapIs
  <2> QED BY <1>6, <1>13, <2>1, <2>2
<1>15. Heads'
  <2>1. Live /\ Len(promised) <= Cap => HeadOk(Pushed)'
    <3> SUFFICES ASSUME Live, Len(promised) <= Cap PROVE HeadOk(Pushed)'
      OBVIOUS
    <3>1. HeadOk(q \o (z \o t))
      BY <1>6 DEF Heads
    <3>2. CASE Pushed' = q \o (z \o t)
      BY <3>1, <3>2 DEF HeadOk
    <3>3. CASE Pushed' = q \o t /\ Cap <= Len(chan)
      <4>1. Len(q) > 0
        BY <1>7, <3>3, CapIs
      <4>2. q /= <<>>
        BY <4>1
      <4>3. HeadOk(q \o t)
        BY <1>2, <1>3, <1>9, <3>1, <4>2, HeadOkDrop DEF z
      <4> QED BY <3>3, <4>3 DEF HeadOk
    <3> QED BY <1>13, <3>2, <3>3
  <2> QED BY <1>1, <1>10, <2>1 DEF Heads
<1>16. Reaching'
  <2> SUFFICES ASSUME NEW k \in 1..Cap, First(k)
               PROVE  /\ Live => Reaches(k, Pushed)'
                      /\ Live /\ woken' => Reaches(k, out \o chan)'
                      /\ at \in {"flushing", "done"} => Len(out) = k - 1 /\ \A i \in 1..(k - 1) : out[i] = promised[i]
                      /\ at = "timeout" => ~woken'
    BY <1>1, <1>10 DEF Reaching
  <2>1. k \in Nat /\ k <= Cap
    BY CapIs
  <2>2. /\ Live => Reaches(k, q \o (z \o t))
        /\ Live /\ woken => Reaches(k, q)
    BY <1>6, <1>8 DEF Reaching
  <2>3. Live => Reaches(k, Pushed)'
    <3> SUFFICES ASSUME Live PROVE Reaches(k, Pushed)'
      OBVIOUS
    <3>1. CASE Pushed' = q \o (z \o t)
      BY <1>1, <2>2, <3>1 DEF Reaches
    <3>2. CASE Pushed' = q \o t /\ Cap <= Len(chan)
      <4>1. k <= Len(q)
        BY <1>7, <2>1, <3>2, CapIs
      <4>2. Reaches(k, q \o t)
        BY <1>2, <1>3, <1>7, <2>1, <2>2, <4>1, ReachesLess, ReachesMore
      <4> QED BY <1>1, <3>2, <4>2 DEF Reaches
    <3> QED BY <1>13, <3>1, <3>2
  <2>4. ASSUME Live, woken PROVE Reaches(k, out \o chan)'
    <3>1. Reaches(k, q) /\ Reaches(k, q \o z)
      BY <1>2, <1>3, <2>1, <2>2, <2>4, ReachesMore
    <3> QED BY <1>1, <1>13, <3>1 DEF Reaches
  <2>5. ASSUME Live, woken', ~woken PROVE Reaches(k, out \o chan)'
    <3>1. t = <<>>
      BY <1>1, <1>9, <2>5
    <3>2. z \o t = z /\ q \o t = q
      BY <1>2, <1>3, <3>1, EmptyConcat
    <3>3. (out \o chan)' = Pushed'
      BY <1>13, <3>2
    <3> QED BY <2>3, <2>5, <3>3 DEF Reaches
  <2>6. at = "timeout" => ~woken'
    BY <1>1 DEF Reaching, Registered
  <2>7. at \in {"flushing", "done"} => Len(out) = k - 1 /\ \A i \in 1..(k - 1) : out[i] = promised[i]
    BY DEF Reaching
  <2> QED BY <2>3, <2>4, <2>5, <2>6, <2>7
<1> QED BY <1>12, <1>14, <1>15, <1>16

LEMMA ReturnStep ==
  ASSUME Typed, Facts, Kept, Heads, Reaching, Return
  PROVE  Facts' /\ Kept' /\ Heads' /\ Reaching'
<1>1. /\ Registered /\ at' \in {"handler", "drain"} /\ (woken' => woken)
      /\ UNCHANGED <<onConnect, stream, emit, chan, out, late, applied, promised>>
  BY DEF Return
<1>2. Live /\ Live'
  BY <1>1 DEF Live, Registered
<1>3. \A k : First(k)' <=> First(k)
  BY <1>1 DEF First
<1>4. Facts'
  BY <1>1, <1>3 DEF Facts, Waiting, Heading, EndsLast, FirstEnd, Woken, Unended
<1>5. Pushed' = Pushed /\ (out \o chan)' = out \o chan
  BY <1>1 DEF Pushed
<1>6. Kept' /\ Heads'
  BY <1>1, <1>2, <1>5 DEF Kept, Heads, HeadOk
<1>7. Reaching'
  <2> SUFFICES ASSUME NEW k \in 1..Cap, First(k)
               PROVE  Reaches(k, Pushed)' /\ (woken' => Reaches(k, out \o chan)')
    BY <1>1, <1>3 DEF Reaching
  <2>1. Reaches(k, Pushed) /\ (woken => Reaches(k, out \o chan))
    BY <1>2 DEF Reaching
  <2> QED BY <1>1, <1>5, <2>1 DEF Reaches
<1> QED BY <1>4, <1>6, <1>7

\* An event is written, or ends the write loop.
LEMMA WriteStep ==
  ASSUME Typed, Facts, Kept, Heads, Reaching, Write
  PROVE  Facts' /\ Kept' /\ Heads' /\ Reaching'
<1> DEFINE e == Head(chan)
           t == Tail(chan)
           z == <<e>>
<1>1. /\ at = "drain" /\ chan /= <<>> /\ chan' = t
      /\ \/ e.kind = "flush" /\ at' = "flushing" /\ out' = out
         \/ e.kind /= "flush" /\ at' = "writing" /\ out' = Append(out, e)
      /\ UNCHANGED <<onConnect, stream, emit, woken, late, applied, promised>>
  BY DEF Write
<1>2. out \in Seq(EventT) /\ chan \in Seq(EventT) /\ emit \in Seq(EventT)
  BY DEF Typed
<1>3. /\ e \in EventT /\ t \in Seq(EventT) /\ chan = z \o t /\ z \in Seq(EventT)
  BY <1>1, <1>2, FirstAndRest
<1>4. Len(z) = 1 /\ z[1] = e
  OBVIOUS
<1>5. Live /\ ~Registered /\ ~Registered'
  BY <1>1 DEF Live, Registered
<1>6. \A k : First(k)' <=> First(k)
  BY <1>1 DEF First
<1> HIDE DEF e, t
<1>7. out \o z \in Seq(EventT) /\ Len(out \o z) = Len(out) + 1 /\ Len(out) \in Nat
      /\ (out \o z)[Len(out) + 1] = e /\ \A i \in 1..Len(out) : (out \o z)[i] = out[i]
  <2>1. /\ out \o z \in Seq(EventT) /\ Len(out \o z) = Len(out) + Len(z) /\ Len(out) \in Nat
        /\ \A i \in 1..Len(out) : (out \o z)[i] = out[i]
        /\ \A i \in 1..Len(out \o z) : i > Len(out) => (out \o z)[i] = z[i - Len(out)]
    BY <1>2, <1>3, Concats
  <2>2. PICK n \in Nat : n = Len(out) + 1
    BY <2>1
  <2>3. n \in 1..Len(out \o z) /\ n > Len(out) /\ n - Len(out) = 1
    BY <1>4, <2>1, <2>2
  <2>4. (out \o z)[n] = z[n - Len(out)]
    BY <2>1, <2>3
  <2>5. (out \o z)[n] = e
    BY <1>4, <2>3, <2>4
  <2> QED BY <1>4, <2>1, <2>2, <2>5
<1>8. Append(out, e) = out \o z
  BY <1>2, <1>3, Appended
<1> HIDE DEF z
<1>21. out \in Seq(EventT) /\ z \in Seq(EventT) /\ t \in Seq(EventT) /\ emit \in Seq(EventT)
  BY <1>2, <1>3
<1>9. /\ (out \o z) \o t = out \o chan
      /\ (out \o z) \o (t \o emit) = Pushed
      /\ t \o emit \in Seq(EventT) /\ Pushed \in Seq(EventT)
  <2>1. t \o emit \in Seq(EventT)
    BY <1>2, <1>3, Concats
  <2>2. out \o (z \o t) = (out \o z) \o t
    BY ZenonT(40), <1>21, Regroup
  <2>3. out \o (z \o (t \o emit)) = (out \o z) \o (t \o emit)
    <3> DEFINE d == t \o emit
    <3>1. d \in Seq(EventT)
      BY <2>1
    <3> HIDE DEF d
    <3>2. out \o (z \o d) = (out \o z) \o d
      BY SMTT(30), <1>21, <3>1, Regroup
    <3> QED BY <3>2 DEF d
  <2>4. z \o (t \o emit) = (z \o t) \o emit
    BY <1>21, Regroup
  <2>5. Pushed \in Seq(EventT)
    BY PushedIs
  <2> QED BY <1>3, <2>1, <2>2, <2>3, <2>4, <2>5 DEF Pushed
<1>10. Pushed[Len(out) + 1] = e /\ Len(out) + 1 <= Len(Pushed)
       /\ \A i \in 1..(Len(out) + 1) : Pushed[i] = (out \o z)[i]
  <2> DEFINE b == out \o z
             d == t \o emit
  <2>1. b \in Seq(EventT) /\ d \in Seq(EventT) /\ b \o d = Pushed
    BY <1>7, <1>9
  <2>2. Len(b) = Len(out) + 1 /\ b[Len(out) + 1] = e
    BY <1>7
  <2> HIDE DEF b, d
  <2>3. /\ Len(b \o d) = Len(b) + Len(d) /\ Len(b) \in Nat /\ Len(d) \in Nat
        /\ \A i \in 1..Len(b) : (b \o d)[i] = b[i]
    BY <2>1, Concats
  <2>4. Len(b) \in 1..Len(b) /\ Len(b) <= Len(b \o d)
    BY <1>7, <2>2, <2>3
  <2>5. \A i \in 1..Len(b) : Pushed[i] = b[i]
    BY <2>1, <2>3
  <2>6. Pushed[Len(b)] = b[Len(b)] /\ Len(b) <= Len(Pushed)
    BY <2>1, <2>4, <2>5
  <2> QED BY <2>2, <2>5, <2>6 DEF b
<1>11. Unended(out)
  BY DEF Facts
<1>12. CASE e.kind = "flush"
  <2>1. at' = "flushing" /\ out' = out /\ ~Live'
    BY <1>1, <1>12 DEF Live
  <2>2. Facts'
    BY <1>1, <1>5, <1>6, <2>1 DEF Facts, Waiting, Heading, EndsLast, FirstEnd, Woken, Unended
  <2>3. Kept' /\ Heads'
    BY <1>1, <2>1 DEF Kept, Heads
  <2>4. Reaching'
    <3> SUFFICES ASSUME NEW k \in 1..Cap, First(k)
                 PROVE  Len(out) = k - 1 /\ \A i \in 1..(k - 1) : out[i] = promised[i]
      BY <1>1, <1>6, <2>1 DEF Reaching
    <3>1. Reaches(k, Pushed) /\ k \in Nat
      BY <1>5, CapIs DEF Reaching
    <3>2. \A i \in 1..Len(out) : Pushed[i] = out[i] /\ Pushed[i].kind /= "flush"
      <4>1. \A i \in 1..Len(out) : i \in 1..(Len(out) + 1)
        BY <1>7
      <4> QED BY <1>7, <1>10, <1>11, <4>1 DEF Unended
    <3>3. ~(k <= Len(out))
      <4>1. promised[k].kind = "flush" /\ Pushed[k] = promised[k]
        BY <3>1 DEF First, Reaches
      <4>2. k <= Len(out) => k \in 1..Len(out)
        BY <1>7
      <4> QED BY <3>2, <4>1, <4>2
    <3>4. ~(k > Len(out) + 1)
      <4> SUFFICES ASSUME k > Len(out) + 1 PROVE FALSE
        OBVIOUS
      <4>1. Len(out) + 1 \in 1..(k - 1) /\ Len(out) + 1 \in 1..k
        BY <1>7, <3>1
      <4>2. promised[Len(out) + 1].kind /= "flush"
        BY <4>1, Zenon DEF First
      <4>3. Pushed[Len(out) + 1] = promised[Len(out) + 1]
        BY <3>1, <4>1, Zenon DEF Reaches
      <4> QED BY <1>10, <1>12, <4>2, <4>3
    <3>5. Len(out) = k - 1
      BY <1>7, <3>1, <3>3, <3>4
    <3>6. \A i \in 1..(k - 1) : i \in 1..k /\ i \in 1..Len(out)
      BY <1>7, <3>1, <3>5
    <3> QED BY <3>1, <3>2, <3>5, <3>6 DEF Reaches
  <2> QED BY <2>2, <2>3, <2>4
<1>13. CASE e.kind /= "flush"
  <2>1. at' = "writing" /\ out' = out \o z /\ Live'
    BY <1>1, <1>8, <1>13 DEF Live
  <2>2. Pushed' = Pushed /\ (out \o chan)' = out \o chan
    BY <1>1, <1>9, <2>1 DEF Pushed
  <2>3. Unended(out \o z)
    <3> SUFFICES ASSUME NEW i \in 1..Len(out \o z) PROVE (out \o z)[i].kind /= "flush"
      BY DEF Unended
    <3>1. i \in 1..Len(out) \/ i = Len(out) + 1
      BY <1>7
    <3> QED BY <1>7, <1>11, <1>13, <3>1 DEF Unended
  <2>4. Facts'
    <3>1. Unended(out)'
      BY <2>1, <2>3 DEF Unended
    <3> QED BY <1>1, <1>5, <1>6, <3>1 DEF Facts, Waiting, Heading, EndsLast, FirstEnd, Woken, Unended
  <2>5. Kept'
    BY <1>1, <1>5, <2>1, <2>2 DEF Kept
  <2>6. Heads'
    <3> SUFFICES ASSUME Len(promised) <= Cap
                 PROVE  /\ \A k \in 1..Len(out \o z) : (out \o z)[k].kind = "head" <=> k = 1
                        /\ HeadOk(Pushed)'
      BY <1>1, <2>1 DEF Heads
    <3>1. HeadOk(Pushed)
      BY <1>5 DEF Heads
    <3>2. ASSUME NEW k \in 1..Len(out \o z) PROVE (out \o z)[k].kind = "head" <=> k = 1
      <4>1. k \in 1..(Len(out) + 1) /\ k \in 1..Len(Pushed)
        <5>1. Len(Pushed) \in Nat
          BY <1>9
        <5> QED BY <1>7, <1>10, <5>1
      <4>2. \A j \in 1..k : j \in 1..(Len(out) + 1) /\ j \in 1..Len(out \o z)
        BY <1>7, <4>1
      <4>3. \A j \in 1..k : Pushed[j].kind /= "flush"
        BY <1>10, <2>3, <4>2 DEF Unended
      <4>4. Pushed[k].kind = "head" <=> k = 1
        BY <3>1, <4>1, <4>3 DEF HeadOk
      <4> QED BY <1>10, <4>1, <4>4
    <3>3. HeadOk(Pushed)'
      BY <2>2, <3>1 DEF HeadOk
    <3> QED BY <3>2, <3>3
  <2>7. Reaching'
    <3> SUFFICES ASSUME NEW k \in 1..Cap, First(k)
                 PROVE  Reaches(k, Pushed)' /\ (woken => Reaches(k, out \o chan)')
      BY <1>1, <1>6, <2>1 DEF Reaching
    <3>1. Reaches(k, Pushed) /\ (woken => Reaches(k, out \o chan))
      BY <1>5 DEF Reaching
    <3> QED BY <1>1, <2>2, <3>1 DEF Reaches
  <2> QED BY <2>4, <2>5, <2>6, <2>7
<1> QED BY <1>12, <1>13

\* The client has taken the event that was given to the socket.
LEMMA WrittenStep ==
  ASSUME Typed, Facts, Kept, Heads, Reaching, Written
  PROVE  Facts' /\ Kept' /\ Heads' /\ Reaching'
<1>1. /\ \/ at = "writing" /\ at' = "drain"
         \/ at = "flushing" /\ at' = "done"
      /\ UNCHANGED <<onConnect, stream, emit, chan, out, woken, late, applied, promised>>
  BY DEF Written
<1>2. (Live' <=> Live) /\ ~Registered /\ ~Registered' /\ (\A k : First(k)' <=> First(k))
      /\ Pushed' = Pushed
  BY <1>1 DEF Live, Registered, First, Pushed
<1>3. Facts'
  BY <1>1, <1>2 DEF Facts, Waiting, Heading, EndsLast, FirstEnd, Woken, Unended
<1>4. Kept' /\ Heads'
  BY <1>1, <1>2 DEF Kept, Heads, HeadOk
<1>5. Reaching'
  <2> SUFFICES ASSUME NEW k \in 1..Cap, First(k)
               PROVE  /\ Live => Reaches(k, Pushed)' /\ (woken => Reaches(k, out \o chan)')
                      /\ at' \in {"flushing", "done"} =>
                           Len(out) = k - 1 /\ \A i \in 1..(k - 1) : out[i] = promised[i]
    BY <1>1, <1>2 DEF Reaching
  <2>1. Live => Reaches(k, Pushed) /\ (woken => Reaches(k, out \o chan))
    BY DEF Reaching
  <2>2. at = "flushing" => Len(out) = k - 1 /\ \A i \in 1..(k - 1) : out[i] = promised[i]
    BY DEF Reaching
  <2> QED BY <1>1, <1>2, <2>1, <2>2 DEF Reaches
<1> QED BY <1>3, <1>4, <1>5

\* The write loop is left before the end of the response.
LEMMA LeaveStep ==
  ASSUME Typed, Facts, Kept, Heads, Reaching, WriteFails \/ WriteTimeout
  PROVE  Facts' /\ Kept' /\ Heads' /\ Reaching'
<1>1. /\ at \in {"drain", "writing", "flushing"} /\ at' \in {"failed", "timeout"}
      /\ at' = "timeout" => at = "drain" /\ chan = <<>>
      /\ UNCHANGED <<onConnect, stream, emit, chan, out, woken, late, applied, promised>>
  BY DEF WriteFails, WriteTimeout
<1>2. ~Live' /\ ~Registered /\ ~Registered' /\ (at' = "timeout" => Live)
  BY <1>1 DEF Live, Registered
<1>3. \A k : First(k)' <=> First(k)
  BY <1>1 DEF First
<1>4. Facts'
  BY <1>1, <1>2, <1>3 DEF Facts, Waiting, Heading, EndsLast, FirstEnd, Woken, Unended
<1>5. Kept' /\ Heads'
  BY <1>1, <1>2 DEF Kept, Heads
<1>6. ASSUME NEW k \in 1..Cap, First(k), at' = "timeout" PROVE ~woken
  <2> SUFFICES ASSUME woken PROVE FALSE
    OBVIOUS
  <2>1. Reaches(k, out \o chan) /\ out \o chan = out /\ out \in Seq(EventT)
    BY <1>1, <1>2, <1>6, EmptyConcat DEF Reaching, Typed
  <2>2. k \in 1..Len(out) /\ out[k] = promised[k]
    BY <2>1, CapIs DEF Reaches
  <2>3. promised[k].kind = "flush"
    BY <1>6 DEF First
  <2> QED BY <2>2, <2>3 DEF Facts, Unended
<1>7. Reaching'
  BY <1>1, <1>2, <1>3, <1>6 DEF Reaching
<1> QED BY <1>4, <1>5, <1>7

\* The events of an operation have its number, and the first of them the
\* length of the others.
LEMMA EventsAnswer ==
  ASSUME Typed, NEW op \in Op, op.kind /= "missing"
  PROVE  /\ \A i \in 1..Len(Events(op)) : Events(op)[i].n = applied + 1
         /\ /\ ~stream.headersSent /\ Events(op) /= <<>> /\ Events(op)[1].kind /= "flush"
            => \E d \in Nat : Answer(Events(op), d)
<1> DEFINE h == <<HeadEvent(op)>>
           blocks == [b \in 1..op.size |-> DataEvent(1)]
           one == <<DataEvent(op.size)>>
           N == applied + 1
<1>1. op.kind \in {"push", "file", "code", "end"} /\ op.size \in Nat /\ N \in Nat
  BY OpIs DEF Typed
<1>2. /\ HeadEvent(op) \in EventT /\ HeadEvent(op).kind = "head" /\ HeadEvent(op).n = N
      /\ HeadEvent(op).size = op.size
      /\ FlushEvent.kind = "flush" /\ FlushEvent.n = N
      /\ \A k \in Nat : /\ DataEvent(k) \in EventT /\ DataEvent(k).kind = "data"
                        /\ DataEvent(k).n = N /\ DataEvent(k).size = k
  BY <1>1 DEF HeadEvent, FlushEvent, DataEvent, EventT
<1>3. /\ h \in Seq(EventT) /\ Len(h) = 1 /\ h[1].kind = "head" /\ h[1].n = N
      /\ h[1].size = op.size
  BY <1>2
<1>4. /\ one \in Seq(EventT) /\ Len(one) = 1 /\ one[1].size = op.size
      /\ \A i \in 1..Len(one) : one[i].kind = "data" /\ one[i].n = N
  BY <1>1, <1>2
<1>5. /\ blocks \in Seq(EventT) /\ Len(blocks) = op.size
      /\ \A i \in 1..Len(blocks) : /\ blocks[i].kind = "data" /\ blocks[i].n = N
                                   /\ blocks[i].size = 1
  <2>1. /\ DataEvent(1) \in EventT /\ DataEvent(1).kind = "data"
        /\ DataEvent(1).n = N /\ DataEvent(1).size = 1
    BY <1>2
  <2>2. \A b \in 1..op.size : DataEvent(1) \in EventT
    BY <2>1
  <2>3. blocks \in Seq(EventT)
    BY <1>1, <2>2, IsASeq
  <2>4. Len(blocks) = op.size
    BY <1>1, <2>3
  <2> QED BY <2>1, <2>3, <2>4
<1> HIDE DEF h, blocks, one, N
\* With a head, and without.
<1>6. ASSUME NEW d \in Seq(EventT),
             \A i \in 1..Len(d) : d[i].kind = "data" /\ d[i].n = N,
             \/ Len(d) = 1 /\ d[1].size = op.size
             \/ Len(d) = op.size /\ \A i \in 1..Len(d) : d[i].size = 1
      PROVE  (\A i \in 1..Len(h \o d) : (h \o d)[i].n = N) /\ Answer(h \o d, Len(d))
  <2> DEFINE a == h \o d
  <2>1. PICK l \in Nat : l = Len(d)
    OBVIOUS
  <2>2. Len(a) = 1 + l /\ a[1] = h[1]
    <3>1. Len(h \o d) = Len(h) + Len(d) /\ \A i \in 1..Len(h) : (h \o d)[i] = h[i]
      BY <1>3, Concats
    <3>2. 1 \in 1..Len(h)
      BY <1>3
    <3> QED BY <1>3, <2>1, <3>1, <3>2
  <2>3. ASSUME NEW i \in 2..(1 + l) PROVE a[i] = d[i - 1] /\ i - 1 \in 1..l
    <3>1. i \in 1..Len(a) /\ i > Len(h)
      BY <1>3, <2>2
    <3>2. i - Len(h) \in 1..Len(d) /\ a[i] = d[i - Len(h)]
      BY <1>3, <3>1, Concats
    <3> QED BY <1>3, <2>1, <3>2
  <2> HIDE DEF a
  <2>4. \A i \in 1..(1 + l) : i = 1 \/ i \in 2..(1 + l)
    OBVIOUS
  <2>5. \A i \in 2..(1 + l) : a[i].kind = "data" /\ a[i].n = N
    BY <1>6, <2>1, <2>3
  <2>6. \A i \in 1..(1 + l) : a[i].kind /= "flush" /\ a[i].n = N
    BY <1>3, <2>2, <2>4, <2>5
  <2>7. \/ l = 1 /\ a[2].size = a[1].size
        \/ l = a[1].size /\ \A i \in 2..(1 + l) : a[i].size = 1
    <3>1. CASE Len(d) = 1 /\ d[1].size = op.size
      <4>1. 2 \in 2..(1 + l) /\ 2 - 1 = 1
        BY <2>1, <3>1
      <4>2. a[2] = d[1]
        BY <2>3, <4>1
      <4> QED BY <1>3, <2>1, <2>2, <3>1, <4>2
    <3>2. CASE Len(d) = op.size /\ \A i \in 1..Len(d) : d[i].size = 1
      BY <1>3, <2>1, <2>2, <2>3, <3>2
    <3> QED BY <1>6, <3>1, <3>2
  <2>8. \A i \in 1..Len(a) : i <= 1 + l /\ i \in 1..(1 + l)
    BY <2>2
  <2>9. 1 \in 1..(1 + l)
    OBVIOUS
  <2>10. Answer(a, l)
    BY <2>2, <2>6, <2>7, <2>8, <2>9 DEF Answer
  <2> QED BY <2>1, <2>2, <2>6, <2>10 DEF a
<1>7. CASE op.kind \in {"push", "file"}
  <2>1. PICK d \in Seq(EventT) :
          /\ Events(op) = HeadEvents(op) \o d
          /\ \A i \in 1..Len(d) : d[i].kind = "data" /\ d[i].n = N
          /\ \/ Len(d) = 1 /\ d[1].size = op.size
             \/ Len(d) = op.size /\ \A i \in 1..Len(d) : d[i].size = 1
    <3>1. CASE op.kind = "push"
      <4>1. Events(op) = HeadEvents(op) \o one
        BY <3>1 DEF Events, one
      <4> QED BY <1>4, <4>1
    <3>2. CASE op.kind = "file"
      <4>1. Events(op) = HeadEvents(op) \o blocks
        BY <3>2 DEF Events, blocks
      <4> QED BY <1>5, <4>1
    <3> QED BY <1>7, <3>1, <3>2
  <2>2. Len(d) \in Nat
    OBVIOUS
  <2>3. CASE stream.headersSent
    <3>1. Events(op) = <<>> \o d
      BY <2>1, <2>3 DEF HeadEvents
    <3>2. Events(op) = d
      BY <3>1, EmptyConcat
    <3> QED BY <2>1, <2>3, <3>2 DEF N
  <2>4. CASE ~stream.headersSent
    <3>1. Events(op) = h \o d
      BY <2>1, <2>4 DEF HeadEvents, h
    <3>2. (\A i \in 1..Len(h \o d) : (h \o d)[i].n = N) /\ Answer(h \o d, Len(d))
      BY <1>6, <2>1
    <3> QED BY <2>2, <3>1, <3>2 DEF N
  <2> QED BY <2>3, <2>4
<1>8. CASE op.kind = "code"
  <2>1. Events(op) = <<>>
    BY <1>8 DEF Events
  <2> QED BY <2>1
<1>9. CASE op.kind = "end"
  <2> DEFINE e == FlushEvent
  <2>1. Events(op) = <<e>> /\ e.kind = "flush" /\ e.n = N
    BY <1>2, <1>9 DEF Events
  <2> HIDE DEF e
  <2>2. Len(Events(op)) = 1 /\ Events(op)[1] = e
    BY <2>1
  <2> QED BY <2>1, <2>2 DEF N
<1> QED BY <1>1, <1>7, <1>8, <1>9

\* What comes later has another number.
LEMMA AnswerStays ==
  ASSUME NEW p \in Seq(EventT), NEW e \in Seq(EventT), NEW d \in Nat, Answer(p, d),
         \A i \in 1..Len(e) : e[i].n /= p[1].n
  PROVE  Answer(p \o e, d)
<1> DEFINE a == p \o e
<1>1. /\ Len(a) = Len(p) + Len(e) /\ Len(p) \in Nat /\ Len(e) \in Nat
      /\ \A i \in 1..Len(p) : a[i] = p[i]
      /\ \A i \in 1..Len(a) : i > Len(p) => i - Len(p) \in 1..Len(e) /\ a[i] = e[i - Len(p)]
  BY Concats
<1> HIDE DEF a
<1>2. 1 + d <= Len(p) /\ 1 \in 1..Len(p) /\ \A i \in 1..(1 + d) : i \in 1..Len(p) /\ a[i] = p[i]
  BY <1>1 DEF Answer
<1>3. a[1] = p[1] /\ 1 + d <= Len(a)
  BY <1>1, <1>2
<1>4. ASSUME NEW i \in 1..Len(a) PROVE a[i].n = a[1].n <=> i <= 1 + d
  <2>1. CASE i > Len(p)
    <3>1. a[i].n /= p[1].n
      BY <1>1, <2>1
    <3>2. ~(i <= 1 + d)
      BY <1>1, <1>2, <2>1
    <3> QED BY <1>3, <3>1, <3>2
  <2>2. CASE ~(i > Len(p))
    <3>1. i \in 1..Len(p)
      BY <1>1, <2>2
    <3>2. p[i].n = p[1].n <=> i <= 1 + d
      BY <3>1 DEF Answer
    <3> QED BY <1>1, <1>3, <3>1, <3>2
  <2> QED BY <2>1, <2>2
<1>5. \A i \in 1..(1 + d) : a[i].kind /= "flush"
  BY <1>2 DEF Answer
<1>6. \/ d = 1 /\ a[2].size = a[1].size
      \/ d = a[1].size /\ \A i \in 2..(1 + d) : a[i].size = 1
  <2>1. \A i \in 2..(1 + d) : a[i] = p[i]
    BY <1>2
  <2>2. d = 1 => a[2] = p[2]
    BY <2>1
  <2> QED BY <1>3, <2>1, <2>2 DEF Answer
<1>7. Answer(a, d)
  BY <1>3, <1>4, <1>5, <1>6 DEF Answer
<1> QED BY <1>7 DEF a

\* A head is measured when it is pushed, by the operation that pushes it.
LEMMA MeasuredStep ==
  ASSUME Typed, Facts, Measured, [Next]_vars
  PROVE  Measured'
<1>1. promised \in Seq(EventT) /\ applied \in Nat /\ Len(promised) \in Nat
      /\ \A i \in 1..Len(promised) : promised[i].n \in Nat
  <2>1. promised \in Seq(EventT) /\ applied \in Nat
    BY DEF Typed
  <2>2. \A i \in 1..Len(promised) : promised[i] \in EventT
    BY <2>1, ElementOfSeq
  <2> QED BY <2>1, <2>2 DEF EventT
<1>2. ASSUME promised' = promised, applied' \in {applied, applied + 1} PROVE Measured'
  <2>1. \A i \in 1..Len(promised) : promised[i].n <= applied'
    BY <1>1, <1>2 DEF Measured
  <2>2. promised /= <<>> /\ promised[1].kind /= "flush" => \E d \in Nat : Answer(promised, d)
    BY DEF Measured
  <2> QED BY <1>2, <2>1, <2>2 DEF Measured
<1>3. ASSUME NEW op \in Op, Apply(op), ~Misuse(op), Registered PROVE Measured'
  <2> DEFINE p == promised
             e == Events(op)
  <2>0. op.kind /= "missing"
    BY <1>3 DEF Misuse
  <2>1. promised' = p \o e /\ applied' = applied + 1 /\ ~late
    BY <1>3 DEF Apply, Facts, Waiting
  <2>2. /\ e \in Seq(EventT) /\ \A i \in 1..Len(e) : e[i].n = applied + 1
        /\ /\ ~stream.headersSent /\ e /= <<>> /\ e[1].kind /= "flush"
           => \E d \in Nat : Answer(e, d)
    BY <2>0, EventsAre, EventsAnswer
  <2>3. p \in Seq(EventT) /\ p = promised
    BY <1>1
  <2> HIDE DEF p, e
  <2>4. CASE p = <<>>
    <3>1. promised' = e
      BY <2>1, <2>2, <2>4, EmptyConcat
    <3>2. ~stream.headersSent
      <4>1. Unended(promised)
        BY <2>3, <2>4 DEF Unended
      <4> QED BY <2>1, <2>3, <2>4, <4>1 DEF Facts, Heading
    <3>3. \A i \in 1..Len(e) : e[i].n <= applied + 1
      BY <1>1, <2>2
    <3> QED BY <2>1, <2>2, <3>1, <3>2, <3>3 DEF Measured
  <2>5. CASE p /= <<>>
    <3> DEFINE a == p \o e
    <3>1. /\ Len(a) = Len(p) + Len(e) /\ Len(p) \in Nat /\ Len(e) \in Nat
          /\ \A i \in 1..Len(p) : a[i] = p[i]
          /\ \A i \in 1..Len(a) : i > Len(p) => i - Len(p) \in 1..Len(e) /\ a[i] = e[i - Len(p)]
      BY <2>2, <2>3, Concats
    <3>2. 1 \in 1..Len(p)
      BY <2>3, <2>5
    <3> HIDE DEF a
    <3>3. \A i \in 1..Len(p) : p[i].n \in Nat /\ p[i].n <= applied
      BY <1>1, <2>3 DEF Measured
    <3>4. ASSUME NEW i \in 1..Len(a) PROVE a[i].n <= applied + 1
      <4>1. CASE i > Len(p)
        <5>1. a[i].n = applied + 1
          BY <2>2, <3>1, <4>1
        <5> QED BY <1>1, <5>1
      <4>2. CASE ~(i > Len(p))
        <5>1. i \in 1..Len(p)
          BY <3>1, <4>2
        <5>2. a[i].n \in Nat /\ a[i].n <= applied
          BY <3>1, <3>3, <5>1
        <5> QED BY <1>1, <5>2
      <4> QED BY <4>1, <4>2
    <3>5. ASSUME a[1].kind /= "flush" PROVE \E d \in Nat : Answer(a, d)
      <4>1. p[1].kind /= "flush"
        BY <3>1, <3>2, <3>5
      <4>2. PICK d \in Nat : Answer(p, d)
        BY <2>3, <2>5, <4>1 DEF Measured
      <4>3. \A i \in 1..Len(e) : e[i].n /= p[1].n
        <5>1. p[1].n \in Nat /\ p[1].n <= applied
          BY <3>2, <3>3
        <5>2. p[1].n /= applied + 1
          BY <1>1, <5>1
        <5> QED BY <2>2, <5>2
      <4>4. Answer(a, d)
        BY <2>2, <2>3, <4>2, <4>3, AnswerStays DEF a
      <4> QED BY <4>4
    <3>6. promised' = a
      BY <2>1 DEF a
    <3> QED BY <2>1, <3>4, <3>5, <3>6 DEF Measured
  <2> QED BY <2>4, <2>5
<1>4. ASSUME NEW op \in Op, Apply(op), Misuse(op) \/ ~Registered PROVE Measured'
  <2>1. promised' = promised /\ applied' = applied + 1
    BY <1>4 DEF Apply
  <2> QED BY <1>2, <2>1
<1>5. ASSUME TrySend \/ Return \/ Write \/ Written \/ WriteFails \/ WriteTimeout \/ UNCHANGED vars
      PROVE  Measured'
  <2>1. promised' = promised /\ applied' = applied
    BY <1>5 DEF TrySend, Return, Write, Written, WriteFails, WriteTimeout, vars
  <2> QED BY <1>2, <2>1
<1> QED BY <1>3, <1>4, <1>5 DEF Next

-----------------------------------------------------------------------------
(* The theorems. *)

LEMMA Initially == Init => IInv
<1> SUFFICES ASSUME Init PROVE IInv
  OBVIOUS
<1>1. /\ onConnect \in BOOLEAN /\ stream = New /\ emit = <<>> /\ chan = <<>> /\ out = <<>>
      /\ promised = <<>> /\ at \in {"connect", "handler"} /\ woken = FALSE /\ late = FALSE
      /\ applied = 0
  BY CapIs DEF Init
<1>2. Typed
  <2>1. stream \in StreamT
    BY <1>1, NewIs
  <2>2. <<>> \in Seq(EventT) /\ 0 \in Nat /\ FALSE \in BOOLEAN
    OBVIOUS
  <2>3. woken \in BOOLEAN /\ late \in BOOLEAN
    BY <1>1, <2>2, Zenon
  <2>4. applied \in Nat /\ emit \in Seq(EventT) /\ chan \in Seq(EventT)
    BY <1>1, <2>2
  <2>5. out \in Seq(EventT) /\ promised \in Seq(EventT)
    BY <1>1, <2>2
  <2>6. at \in {"connect", "handler", "drain", "writing", "flushing", "done", "failed", "timeout", "exited"}
    BY <1>1
  <2> QED BY <1>1, <2>1, <2>3, <2>4, <2>5, <2>6 DEF Typed
<1>3. Unended(promised) /\ Unended(out) /\ Unended(emit) /\ Len(promised) = 0
  BY <1>1 DEF Unended
<1>4. Facts
  BY <1>1, <1>3, NewIs DEF Facts, Waiting, Heading, EndsLast, FirstEnd, Woken
<1>5. Pushed = <<>>
  <2>1. out \o chan = <<>>
    BY <1>1, <1>2, EmptyConcat DEF Typed
  <2> QED BY <1>1, <1>2, <2>1, PushedIs
<1>6. Kept /\ Heads
  BY <1>1, <1>5 DEF Kept, Heads, HeadOk
<1>7. Reaching
  BY <1>1, <1>3 DEF Reaching, First
<1>8. Measured
  BY <1>1, <1>3 DEF Measured
<1> QED BY <1>2, <1>4, <1>6, <1>7, <1>8 DEF IInv

LEMMA KeptBySteps ==
  ASSUME IInv, [Next]_vars
  PROVE  IInv'
<1>1. Typed /\ Facts /\ Kept /\ Heads /\ Reaching /\ Measured
  BY DEF IInv
<1>2. Typed'
  BY <1>1, TypeStep
<1>3. ASSUME NEW op \in Op, Apply(op) PROVE Facts' /\ Kept' /\ Heads' /\ Reaching'
  <2>1. CASE Misuse(op)
    BY <1>1, <1>3, <2>1, MisuseStep
  <2>2. CASE ~Misuse(op) /\ Registered
    BY <1>1, <1>3, <2>2, ApplyRegistered
  <2>3. CASE ~Misuse(op) /\ ~Registered
    BY <1>1, <1>3, <2>3, ApplyLate
  <2> QED BY <2>1, <2>2, <2>3
<1>4. ASSUME UNCHANGED vars PROVE Facts' /\ Kept' /\ Heads' /\ Reaching'
  <2>1. UNCHANGED <<onConnect, stream, emit, chan, out, at, woken, late, applied, promised>>
    BY <1>4 DEF vars
  <2>2. (Live' <=> Live) /\ (Registered' <=> Registered) /\ (\A k : First(k)' <=> First(k))
        /\ Pushed' = Pushed
    BY <2>1 DEF Live, Registered, First, Pushed
  <2>3. Facts'
    BY <1>1, <2>1, <2>2 DEF Facts, Waiting, Heading, EndsLast, FirstEnd, Woken, Unended
  <2>4. Kept' /\ Heads'
    BY <1>1, <2>1, <2>2 DEF Kept, Heads, HeadOk
  <2>5. Reaching'
    BY <1>1, <2>1, <2>2 DEF Reaching, Reaches
  <2> QED BY <2>3, <2>4, <2>5
<1>5. Facts' /\ Kept' /\ Heads' /\ Reaching'
  BY <1>1, <1>3, <1>4, TrySendStep, ReturnStep, WriteStep, WrittenStep, LeaveStep DEF Next
<1>6. Measured'
  BY <1>1, MeasuredStep
<1> QED BY <1>2, <1>5, <1>6 DEF IInv

LEMMA Inductive == Spec => []IInv
<1>1. IInv /\ [Next]_vars => IInv'
  BY KeptBySteps
<1> QED BY Initially, <1>1, PTL DEF Spec

\* The variables of a response keep their types.
THEOREM TypeCorrect == Spec => []Typed
<1>1. IInv => Typed
  BY DEF IInv
<1> QED BY Inductive, <1>1, PTL

\* The client gets one head, and first: whatever the handlers do and when, no
\* second head and no body byte before the head is written, if the channel held
\* what they pushed (headers_sent in Http1Stream::send and reset, try_send in
\* cb_send).
THEOREM HeadsFirst == Spec => []OneHeadFirst
<1>1. IInv => OneHeadFirst
  BY DEF IInv, Heads, OneHeadFirst
<1> QED BY Inductive, <1>1, PTL

\* What SelectInSeq finds is the first end.
LEMMA EndIsFirst ==
  ASSUME Typed, FirstEnd, SelectInSeq(promised, IsFlush) \in 1..Cap
  PROVE  First(SelectInSeq(promised, IsFlush))
<1> DEFINE I == {i \in 1..Len(promised) : promised[i].kind = "flush"}
<1>1. SelectInSeq(promised, IsFlush) = IF I /= {} THEN Min(I) ELSE 0
  BY DEF SelectInSeq, IsFlush
<1>2. I /= {}
  BY <1>1, CapIs
<1>3. ~Unended(promised)
  BY <1>2 DEF Unended
<1>4. PICK k \in 1..Len(promised) : First(k)
  BY <1>3 DEF FirstEnd
<1>5. promised \in Seq(EventT) /\ Len(promised) \in Nat
  BY DEF Typed
<1>6. k \in I /\ \A i \in I : k <= i
  <2>1. k \in I
    BY <1>4 DEF First
  <2>2. ASSUME NEW i \in I, ~(k <= i) PROVE FALSE
    <3>1. i \in 1..(k - 1) /\ promised[i].kind = "flush"
      BY <1>5, <2>2
    <3> QED BY <1>4, <3>1 DEF First
  <2> QED BY <2>1, <2>2
<1>7. I \subseteq Int
  BY <1>5
<1> HIDE DEF I
<1>8. Min(I) = k
  <2>1. Min(I) \in I /\ \A i \in I : Min(I) <= i
    BY <1>6, Zenon DEF Min
  <2>2. Min(I) <= k /\ k <= Min(I)
    BY <1>6, <2>1
  <2>3. Min(I) \in Int /\ k \in Int
    BY <1>6, <1>7, <2>1
  <2> QED BY <2>2, <2>3
<1> QED BY <1>1, <1>2, <1>4, <1>8

\* A response that its handler has ended, and that the channel holds with its head
\* and its end, is delivered: when the write loop is over without an error, all
\* that was pushed up to the end is written, whatever is applied after it (cb_send,
\* and the write loop of the CONNECTION TASK).
THEOREM Delivered == Spec => []EndedIsDelivered
<1>1. ASSUME IInv, at \in {"done", "timeout"}, woken, SelectInSeq(promised, IsFlush) \in 1..Cap
      PROVE  /\ at = "done"
             /\ out = SubSeq(promised, 1, SelectInSeq(promised, IsFlush) - 1)
  <2> DEFINE k == SelectInSeq(promised, IsFlush)
  <2>1. First(k) /\ k \in 1..Cap /\ k \in Nat /\ k > 0
    BY <1>1, EndIsFirst, CapIs DEF IInv, Facts
  <2> HIDE DEF k
  <2>2. at = "done"
    BY <1>1, <2>1 DEF IInv, Reaching
  <2>3. Len(out) = k - 1 /\ \A i \in 1..(k - 1) : out[i] = promised[i]
    BY <1>1, <2>1, <2>2 DEF IInv, Reaching
  <2>4. out \in Seq(EventT) /\ promised \in Seq(EventT) /\ k \in 1..Len(promised)
    BY <1>1, <2>1 DEF IInv, Typed, First
  <2> DEFINE n == k - 1
             s == SubSeq(promised, 1, n)
  <2>5. n \in Nat /\ n \in Int /\ 1 \in Int /\ \A i \in 1..n : promised[i] \in EventT
    BY <2>1, <2>4
  <2> HIDE DEF n
  <2>6. /\ s \in Seq(EventT) /\ Len(s) = (IF 1 <= n THEN n - 1 + 1 ELSE 0)
        /\ \A i \in 1..(n - 1 + 1) : s[i] = promised[1 + i - 1]
    BY <2>5, SubSeqProperties
  <2> HIDE DEF s
  <2>7. Len(out) = n /\ \A i \in 1..n : out[i] = promised[i]
    BY <2>3 DEF n
  <2>8. Len(s) = n
    BY <2>5, <2>6
  <2>9. ASSUME NEW i \in 1..n PROVE s[i] = out[i]
    <3>1. i \in 1..(n - 1 + 1) /\ 1 + i - 1 = i
      BY <2>5
    <3> QED BY <2>6, <2>7, <3>1
  <2>10. out = s
    BY <2>4, <2>6, <2>7, <2>8, <2>9, SeqEqual
  <2> QED BY <2>2, <2>10 DEF s, n, k
<1>2. IInv => EndedIsDelivered
  BY <1>1 DEF EndedIsDelivered
<1> QED BY Inductive, <1>2, PTL

\* What the head says is what follows it, if the handler pushes once and the channel
\* holds it (Content-Length in Http1Stream::send, and what cb_send drops).
THEOREM LengthMatches == Spec => []LengthIsBody
<1>1. ASSUME IInv, at = "done", woken, out /= <<>>, Len(promised) <= Cap,
             \A j, k \in 1..Len(out) : out[j].n = out[k].n
      PROVE  out[1].size = BodyLength(out)
  <2>1. out \in Seq(EventT) /\ promised \in Seq(EventT) /\ Len(promised) \in Nat /\ Len(out) \in Nat
    BY <1>1 DEF IInv, Typed
  <2>2. PICK k \in 1..Len(promised) : First(k)
    BY <1>1 DEF IInv, Facts, Woken, FirstEnd
  <2>3. k \in 1..Cap /\ k \in Nat
    BY <1>1, <2>1, <2>2, CapIs
  <2>4. Len(out) = k - 1 /\ \A i \in 1..(k - 1) : out[i] = promised[i]
    BY <1>1, <2>2, <2>3 DEF IInv, Reaching
  <2>5. Len(out) > 0
    BY <1>1, <2>1
  <2>6. \A i \in 1..Len(out) : i \in 1..Len(promised) /\ out[i] = promised[i]
    BY <2>1, <2>2, <2>3, <2>4
  <2>7. 1 \in 1..Len(out) /\ out[1] = promised[1]
    BY <2>1, <2>5, <2>6
  <2>8. promised[1].kind /= "flush" /\ promised /= <<>>
    <3>1. 1 \in 1..(k - 1)
      BY <2>3, <2>4, <2>5
    <3>2. promised /= <<>>
      BY <2>2
    <3> QED BY <2>2, <3>1, <3>2 DEF First
  <2>9. PICK d \in Nat : Answer(promised, d)
    BY <1>1, <2>8 DEF IInv, Measured
  <2>10. ~(k <= 1 + d)
    <3>1. k <= 1 + d => k \in 1..(1 + d)
      BY <2>3, <2>9
    <3> QED BY <2>2, <2>9, <3>1 DEF First, Answer
  <2>11. Len(out) <= 1 + d
    <3> SUFFICES ASSUME Len(out) > 1 + d PROVE FALSE
      BY <2>1, <2>9
    <3>1. PICK i \in Nat : i = 2 + d
      BY <2>9
    <3>2. i \in 1..Len(out) /\ ~(i <= 1 + d)
      BY <2>1, <2>9, <3>1
    <3>3. promised[i].n /= promised[1].n
      BY <2>6, <2>9, <3>2 DEF Answer
    <3> QED BY <1>1, <2>6, <2>7, <3>2, <3>3
  <2>12. Len(out) = 1 + d
    BY <2>1, <2>3, <2>4, <2>9, <2>10, <2>11
  <2>13. CASE d = 1 /\ promised[2].size = promised[1].size
    <3>1. Len(out) = 2
      BY <2>12, <2>13
    <3>2. 2 \in 1..Len(out)
      BY <3>1
    <3>3. out[2].size = out[1].size
      BY <2>6, <2>7, <2>13, <3>2
    <3> QED BY <2>1, <3>1, <3>3, OneChunk
  <2>14. CASE d = promised[1].size /\ \A i \in 2..(1 + d) : promised[i].size = 1
    <3>1. ASSUME NEW i \in 2..Len(out) PROVE out[i].size = 1
      <4>1. i \in 1..Len(out) /\ i \in 2..(1 + d)
        BY <2>1, <2>12
      <4> QED BY SMTT(30), <2>6, <2>14, <4>1
    <3>2. BodyLength(out) = Len(out) - 1
      BY <2>1, <2>5, <3>1, UnitChunks
    <3>3. Len(out) - 1 = d
      BY <2>9, <2>12
    <3> QED BY <2>7, <2>14, <3>2, <3>3
  <2> QED BY <2>9, <2>13, <2>14 DEF Answer
<1>2. IInv => LengthIsBody
  BY <1>1 DEF LengthIsBody
<1> QED BY Inductive, <1>2, PTL

-----------------------------------------------------------------------------
(* Http1Multipart. *)

Upto(s, k) == FlattenSeq(SubSeq(s, 1, k))

\* Induction over 0..n, for membership in a set.
LEMMA Climb ==
  ASSUME NEW S, NEW n \in Nat, 0 \in S, \A k \in 1..n : k - 1 \in S => k \in S
  PROVE  \A k \in 0..n : k \in S
<1> DEFINE bad == {k \in 0..n : k \notin S}
<1>1. SUFFICES ASSUME bad /= {} PROVE FALSE
  BY <1>1
<1>2. bad \in SUBSET Nat
  OBVIOUS
<1>3. PICK k \in bad : \A j \in bad : k <= j
  <2> HIDE DEF bad
  <2> QED BY <1>1, <1>2, Least
<1>4. k \in 1..n /\ k - 1 \in 0..n /\ k \notin S /\ ~(k <= k - 1)
  BY <1>3
<1>5. k - 1 \in S
  BY <1>3, <1>4
<1> QED BY <1>4, <1>5

-----------------------------------------------------------------------------
(* One sequence behind the other. *)

Sums(s, g) == g[0] = <<>> /\ \A k \in 1..Len(s) : g[k] = g[k - 1] \o s[k]

LEMMA SumsExist ==
  ASSUME NEW S, NEW s \in Seq(Seq(S))
  PROVE  \E g \in [0..Len(s) -> Seq(S)] : Sums(s, g)
<1>1. Len(s) \in Nat
  OBVIOUS
<1> DEFINE W == {k \in 0..Len(s) : \E g \in [0..k -> Seq(S)] :
                   g[0] = <<>> /\ \A j \in 1..k : g[j] = g[j - 1] \o s[j]}
<1>2. 0 \in W
  <2> DEFINE g == [j \in 0..0 |-> <<>>]
  <2>1. g \in [0..0 -> Seq(S)] /\ g[0] = <<>>
    OBVIOUS
  <2>2. \A j \in 1..0 : g[j] = g[j - 1] \o s[j]
    OBVIOUS
  <2>3. 0 \in 0..Len(s)
    BY <1>1
  <2> HIDE DEF g
  <2> QED BY <2>1, <2>2, <2>3
<1>3. ASSUME NEW k \in 1..Len(s), k - 1 \in W PROVE k \in W
  <2>1. PICK g \in [0..(k - 1) -> Seq(S)] :
          g[0] = <<>> /\ \A j \in 1..(k - 1) : g[j] = g[j - 1] \o s[j]
    BY <1>3
  <2>2. k \in Nat /\ k > 0 /\ k - 1 \in 0..(k - 1) /\ k \in 0..Len(s)
    BY <1>1
  <2>3. s[k] \in Seq(S) /\ g[k - 1] \in Seq(S)
    BY <2>1, <2>2, ElementOfSeq
  <2>4. g[k - 1] \o s[k] \in Seq(S)
    BY <2>3, ConcatProperties
  <2> DEFINE h == [j \in 0..k |-> IF j = k THEN g[k - 1] \o s[k] ELSE g[j]]
  <2>5. \A j \in 0..k : j /= k => j \in 0..(k - 1)
    BY <2>2
  <2>6. h \in [0..k -> Seq(S)]
    BY <2>1, <2>4, <2>5
  <2>7. h[0] = <<>>
    BY <2>1, <2>2
  <2>8. ASSUME NEW j \in 1..k PROVE h[j] = h[j - 1] \o s[j]
    <3>1. j \in 0..k /\ j - 1 \in 0..k /\ j - 1 /= k
      BY <2>2
    <3>2. h[j - 1] = g[j - 1]
      BY <3>1
    <3>3. CASE j = k
      BY <3>1, <3>2, <3>3
    <3>4. CASE j /= k
      <4>1. j \in 1..(k - 1)
        BY <2>2, <3>4
      <4> QED BY <2>1, <3>1, <3>2, <3>4, <4>1
    <3> QED BY <3>3, <3>4
  <2> HIDE DEF h
  <2> QED BY <2>2, <2>6, <2>7, <2>8
<1>4. \A k \in 0..Len(s) : k \in W
  <2> HIDE DEF W
  <2> QED BY <1>1, <1>2, <1>3, Climb
<1>5. Len(s) \in W
  <2> HIDE DEF W
  <2> QED BY <1>1, <1>4
<1> QED BY <1>5 DEF Sums

LEMMA UptoIsSum ==
  ASSUME NEW S, NEW s \in Seq(Seq(S)), NEW g \in [0..Len(s) -> Seq(S)], Sums(s, g),
         NEW k \in 0..Len(s)
  PROVE  Upto(s, k) = g[k]
<1> DEFINE t == SubSeq(s, 1, k)
<1>1. Len(s) \in Nat /\ k \in Nat /\ k <= Len(s) /\ 1 \in Int /\ k \in Int
  OBVIOUS
<1>2. t \in Seq(Seq(S)) /\ Len(t) = k /\ \A i \in 1..k : t[i] = s[i]
  <2>1. \A i \in 1..k : s[i] \in Seq(S)
    <3> TAKE i \in 1..k
    <3>1. i \in 1..Len(s)
      BY <1>1
    <3> QED BY <3>1, ElementOfSeq
  <2>2. /\ t \in Seq(Seq(S)) /\ Len(t) = IF 1 <= k THEN k - 1 + 1 ELSE 0
        /\ \A i \in 1..(k - 1 + 1) : t[i] = s[1 + i - 1]
    BY <1>1, <2>1, SubSeqProperties
  <2> HIDE DEF t
  <2>3. Len(t) = k
    BY <1>1, <2>2
  <2>4. ASSUME NEW i \in 1..k PROVE t[i] = s[i]
    <3>1. i \in 1..(k - 1 + 1) /\ 1 + i - 1 = i
      BY <1>1
    <3> QED BY <2>2, <3>1
  <2> QED BY <2>2, <2>3, <2>4
<1> HIDE DEF t
<1>3. CASE k = 0
  <2>1. t = <<>>
    BY <1>2, <1>3, EmptySeq
  <2>2. FlattenSeq(t) = t
    BY <1>2, <1>3 DEF FlattenSeq
  <2> QED BY <1>3, <2>1, <2>2 DEF Upto, Sums, t
<1>4. CASE k > 0
  <2> DEFINE F(h) == [i \in 1..k |-> IF i = 1 THEN t[i] ELSE h[i - 1] \o t[i]]
             c == CHOOSE h : h = F(h)
  <2>1. FlattenSeq(t) = c[k]
    BY <1>2, <1>4 DEF FlattenSeq
  <2>2. c = F(c)
    <3> DEFINE h == [i \in 1..k |-> g[i]]
    <3>1. ASSUME NEW i \in 1..k PROVE g[i] = IF i = 1 THEN t[i] ELSE h[i - 1] \o t[i]
      <4>1. i \in 1..Len(s) /\ t[i] = s[i] /\ g[i] = g[i - 1] \o s[i] /\ s[i] \in Seq(S)
        <5>1. i \in 1..Len(s) /\ t[i] = s[i]
          <6> HIDE DEF F, c
          <6>1. i \in 1..Len(s)
            BY <1>1
          <6> QED BY <1>2, <6>1
        <5>2. s[i] \in Seq(S)
          BY <5>1, ElementOfSeq
        <5> QED BY <5>1, <5>2 DEF Sums
      <4>2. CASE i = 1
        <5>1. i - 1 = 0 /\ g[0] = <<>>
          BY <4>2 DEF Sums
        <5> QED BY <4>1, <4>2, <5>1, ConcatEmptySeq
      <4>3. CASE i /= 1
        <5>1. i - 1 \in 1..k
          BY <1>1, <4>3
        <5>2. h[i - 1] = g[i - 1]
          BY <5>1
        <5> QED BY <4>1, <4>3, <5>2
      <4> QED BY <4>2, <4>3
    <3>2. h = F(h)
      BY <3>1
    <3> HIDE DEF h, F
    <3> QED BY <3>2
  <2>3. \A i \in 1..k : c[i] = IF i = 1 THEN t[i] ELSE c[i - 1] \o t[i]
    <3> HIDE DEF c
    <3>1. \A i \in 1..k : F(c)[i] = IF i = 1 THEN t[i] ELSE c[i - 1] \o t[i]
      OBVIOUS
    <3> HIDE DEF F
    <3> QED BY <2>2, <3>1
  <2> HIDE DEF c
  <2> DEFINE W == {0} \cup {i \in 1..k : c[i] = g[i]}
  <2>4. ASSUME NEW i \in 1..k, i - 1 \in W PROVE i \in W
    <3>1. i \in 1..Len(s) /\ t[i] = s[i] /\ g[i] = g[i - 1] \o s[i] /\ s[i] \in Seq(S)
      <4>1. i \in 1..Len(s) /\ t[i] = s[i]
        <5> HIDE DEF F, c
        <5>1. i \in 1..Len(s)
          BY <1>1
        <5> QED BY <1>2, <5>1
      <4>2. s[i] \in Seq(S)
        BY <4>1, ElementOfSeq
      <4> QED BY <4>1, <4>2 DEF Sums
    <3>2. CASE i = 1
      <4>1. i - 1 = 0 /\ g[0] = <<>>
        BY <3>2 DEF Sums
      <4>2. g[i] = s[i]
        BY <3>1, <4>1, ConcatEmptySeq
      <4> QED BY <2>3, <3>1, <3>2, <4>2
    <3>3. CASE i /= 1
      <4>1. i - 1 /= 0
        BY <1>1, <3>3
      <4>2. c[i - 1] = g[i - 1]
        BY <2>4, <4>1
      <4> QED BY <2>3, <3>1, <3>3, <4>2
    <3> QED BY <3>2, <3>3
  <2>5. 0 \in W
    OBVIOUS
  <2>6. \A i \in 0..k : i \in W
    <3> HIDE DEF W
    <3> QED BY <1>1, <2>4, <2>5, Climb
  <2>7. k \in W /\ k /= 0
    <3> HIDE DEF W
    <3> QED BY <1>1, <1>4, <2>6
  <2> QED BY <2>1, <2>7 DEF Upto, t
<1> QED BY <1>1, <1>3, <1>4

\* The beginnings of a sequence of sequences, one element behind the other.
LEMMA UptoStep ==
  ASSUME NEW S, NEW s \in Seq(Seq(S))
  PROVE  /\ Upto(s, 0) = <<>> /\ FlattenSeq(s) = Upto(s, Len(s))
         /\ \A k \in 0..Len(s) : Upto(s, k) \in Seq(S) /\ Len(Upto(s, k)) \in Nat
         /\ \A k \in 1..Len(s) : Upto(s, k) = Upto(s, k - 1) \o s[k]
<1>1. PICK g \in [0..Len(s) -> Seq(S)] : Sums(s, g)
  BY SumsExist
<1>2. \A k \in 0..Len(s) : Upto(s, k) = g[k]
  BY <1>1, UptoIsSum
<1>3. Len(s) \in Nat /\ 0 \in 0..Len(s)
  OBVIOUS
<1>4. \A k \in 0..Len(s) : g[k] \in Seq(S) /\ Len(g[k]) \in Nat
  BY <1>1
<1>5. FlattenSeq(s) = Upto(s, Len(s))
  BY SubSeqFull, Zenon DEF Upto
<1>6. \A k \in 1..Len(s) : k \in 0..Len(s) /\ k - 1 \in 0..Len(s)
  BY <1>3
<1>7. g[0] = <<>> /\ \A k \in 1..Len(s) : g[k] = g[k - 1] \o s[k]
  BY <1>1 DEF Sums
<1>8. \A k \in 1..Len(s) : Upto(s, k) = Upto(s, k - 1) \o s[k]
  BY <1>2, <1>6, <1>7
<1> QED BY <1>2, <1>3, <1>4, <1>5, <1>7, <1>8

\* A beginning begins every longer one.
LEMMA UptoGrows ==
  ASSUME NEW S, NEW s \in Seq(Seq(S)), NEW j \in 0..Len(s), NEW k \in j..Len(s)
  PROVE  /\ Len(Upto(s, j)) <= Len(Upto(s, k))
         /\ \A i \in 1..Len(Upto(s, j)) : Upto(s, k)[i] = Upto(s, j)[i]
<1> DEFINE n == Len(Upto(s, j))
           Grown(q) == n <= Len(q) /\ \A i \in 1..n : q[i] = Upto(s, j)[i]
           W == {d \in 0..(Len(s) - j) : Grown(Upto(s, j + d))}
<1>1. Len(s) \in Nat /\ j \in Nat /\ Len(s) - j \in Nat /\ k - j \in 0..(Len(s) - j) /\ j + (k - j) = k
  OBVIOUS
<1>2. n \in Nat
  BY UptoStep
<1> HIDE DEF n
<1>3. 0 \in W
  <2>1. j + 0 = j /\ 0 \in 0..(Len(s) - j) /\ n <= n
    BY <1>1, <1>2
  <2> QED BY <2>1 DEF n
<1>4. ASSUME NEW d \in 1..(Len(s) - j), d - 1 \in W PROVE d \in W
  <2>1. j + d \in 1..Len(s) /\ (j + d) - 1 = j + (d - 1) /\ j + (d - 1) \in 0..Len(s)
        /\ d \in 0..(Len(s) - j)
    BY <1>1
  <2> DEFINE p == Upto(s, j + (d - 1))
  <2>2. Upto(s, j + d) = p \o s[j + d] /\ p \in Seq(S) /\ s[j + d] \in Seq(S)
    BY <2>1, UptoStep, ElementOfSeq
  <2>3. n <= Len(p) /\ \A i \in 1..n : p[i] = Upto(s, j)[i]
    BY <1>4
  <2> HIDE DEF p
  <2> DEFINE z == s[j + d]
  <2>4. Len(p) \in Nat /\ Len(z) \in Nat
    BY <2>2
  <2> HIDE DEF z
  <2>5. Len(p \o z) = Len(p) + Len(z)
        /\ \A i \in 1..(Len(p) + Len(z)) : (p \o z)[i] = IF i <= Len(p) THEN p[i] ELSE z[i - Len(p)]
    BY <2>2, ConcatProperties DEF z
  <2>6. n <= Len(p \o z) /\ \A i \in 1..n : (p \o z)[i] = p[i]
    BY <1>2, <2>3, <2>4, <2>5
  <2> QED BY <2>1, <2>2, <2>3, <2>6 DEF z
<1>5. \A d \in 0..(Len(s) - j) : d \in W
  <2> HIDE DEF W
  <2> QED BY <1>1, <1>3, <1>4, Climb
<1>6. Grown(Upto(s, j + (k - j)))
  BY <1>1, <1>5
<1> QED BY <1>1, <1>6 DEF n

-----------------------------------------------------------------------------
(* Requests, and what is found in a buffer. *)

Bytes == Seq(Byte)

\* What is stored of a part.
Entry == [file : BOOLEAN, data : Bytes]

UploadT == [buff : Bytes, size : Nat, length : Nat, skip : Int,
            isWrite : BOOLEAN, keys : {"none", "file", "field", "object"},
            disk : Bytes, body : Bytes,
            files : Nat, filesTotal : Nat, fields : Nat, fieldsTotal : Nat,
            parts : Seq(Entry)]

TakeT == {"some", "none", "done", "refused", "garbled", "unwritten", "invalid", "panicked"}

LEMMA TakeIs ==
  ASSUME NEW S, NEW q \in Seq(S), NEW n \in Int, n <= Len(q)
  PROVE  /\ Take(q, n) \in Seq(S) /\ Len(Take(q, n)) = IF 1 <= n THEN n ELSE 0
         /\ \A i \in 1..n : Take(q, n)[i] = q[i]
<1>1. Len(q) \in Nat /\ 1 \in Int
  OBVIOUS
<1>2. ASSUME NEW i \in 1..n PROVE q[i] \in S
  <2>1. i \in 1..Len(q)
    BY <1>1
  <2> QED BY <2>1, ElementOfSeq
<1>3. /\ Take(q, n) \in Seq(S) /\ Len(Take(q, n)) = IF 1 <= n THEN n - 1 + 1 ELSE 0
      /\ \A i \in 1..(n - 1 + 1) : Take(q, n)[i] = q[1 + i - 1]
  BY <1>1, <1>2, SubSeqProperties DEF Take
<1>4. ASSUME NEW i \in 1..n PROVE Take(q, n)[i] = q[i]
  <2>1. i \in 1..(n - 1 + 1) /\ 1 + i - 1 = i
    OBVIOUS
  <2> QED BY <1>3, <2>1
<1>5. n - 1 + 1 = n
  OBVIOUS
<1> QED BY <1>3, <1>4, <1>5

LEMMA DropIs ==
  ASSUME NEW S, NEW q \in Seq(S), NEW n \in 0..Len(q)
  PROVE  /\ Drop(q, n) \in Seq(S) /\ Len(Drop(q, n)) = Len(q) - n
         /\ \A i \in 1..(Len(q) - n) : Drop(q, n)[i] = q[n + i]
<1>1. PICK l \in Nat : l = Len(q)
  <2>1. Len(q) \in Nat
    OBVIOUS
  <2> QED BY <2>1
<1>2. n + 1 \in Int /\ l \in Int /\ n \in 0..l
  BY <1>1
<1>3. ASSUME NEW i \in (n + 1)..l PROVE q[i] \in S
  <2>1. i \in 1..Len(q)
    BY <1>1, <1>2
  <2> QED BY <2>1, ElementOfSeq
<1>4. /\ SubSeq(q, n + 1, l) \in Seq(S)
      /\ Len(SubSeq(q, n + 1, l)) = IF n + 1 <= l THEN l - (n + 1) + 1 ELSE 0
      /\ \A i \in 1..(l - (n + 1) + 1) : SubSeq(q, n + 1, l)[i] = q[(n + 1) + i - 1]
  BY <1>2, <1>3, SubSeqProperties
<1>5. Drop(q, n) = SubSeq(q, n + 1, l)
  BY <1>1 DEF Drop
<1>6. ASSUME NEW i \in 1..(l - n) PROVE SubSeq(q, n + 1, l)[i] = q[n + i]
  <2>1. i \in 1..(l - (n + 1) + 1) /\ (n + 1) + i - 1 = n + i
    BY <1>2
  <2> QED BY <1>4, <2>1
<1>7. Len(SubSeq(q, n + 1, l)) = l - n
  BY <1>2, <1>4
<1> QED BY <1>1, <1>4, <1>5, <1>6, <1>7

\* What Find gives for sequences of l and m bytes: the first place where the pattern
\* is, or 0.
FindGives(q, p, from, l, m, z) ==
  \/ /\ z = 0
     /\ \A j \in from..(l - m + 1) : SubSeq(q, j, j + m - 1) /= p
  \/ \E x \in from..(l - m + 1) :
       /\ z = x /\ SubSeq(q, x, x + m - 1) = p
       /\ \A j \in from..(x - 1) : SubSeq(q, j, j + m - 1) /= p

LEMMA FindIs ==
  ASSUME NEW q \in Bytes, NEW p \in Bytes, NEW from \in Nat, from > 0
  PROVE  FindGives(q, p, from, Len(q), Len(p), Find(q, p, from))
<1>1. PICK l \in Int : l = Len(q) - Len(p) + 1
  <2>1. Len(q) \in Nat /\ Len(p) \in Nat
    BY DEF Bytes
  <2> QED BY <2>1
<1> DEFINE here(k) == SubSeq(q, k, k + Len(p) - 1) = p
           found == {k \in from..l : here(k)}
<1>2. Find(q, p, from) = IF found = {} THEN 0 ELSE Min(found)
  BY <1>1 DEF Find
<1>3. CASE found = {}
  <2>1. \A k \in from..l : ~here(k)
    BY <1>3
  <2> QED BY <1>1, <1>2, <1>3, <2>1 DEF FindGives
<1>4. CASE found /= {}
  <2>1. found \in SUBSET Nat
    OBVIOUS
  <2>2. PICK m \in found : \A j \in found : m <= j
    <3> HIDE DEF found
    <3> QED BY <1>4, <2>1, Least
  <2>3. \E x \in found : \A y \in found : x =< y
    BY <2>2
  <2>4. PICK k : k = Min(found)
    OBVIOUS
  <2>5. k \in found /\ \A j \in found : k <= j
    <3> HIDE DEF found
    <3> QED BY <2>3, <2>4 DEF Min
  <2>6. k \in from..l /\ here(k)
    BY <2>5
  <2>7. ASSUME NEW j \in from..(k - 1), here(j) PROVE FALSE
    <3>1. j \in from..l /\ ~(k <= j)
      BY <2>6
    <3>2. j \in found
      BY <2>7, <3>1
    <3> QED BY <2>5, <3>1, <3>2
  <2>8. Find(q, p, from) = k
    BY <1>2, <1>4, <2>4
  <2> QED BY <1>1, <2>6, <2>7, <2>8 DEF FindGives
<1> QED BY <1>3, <1>4

-----------------------------------------------------------------------------
(* What a call does to the counts, for any bytes. *)

\* A result r of what was done to a request whose bytes, counted or in the buffer,
\* are c and whose length is l.
Counted(r, c, l) ==
  /\ r.req \in UploadT /\ r.req.length = l /\ r.tag \in TakeT
  /\ r.tag \in {"some", "none", "done"} => r.req.size + Len(r.req.buff) = c
  /\ r.tag = "refused" => r.req.skip = l - c + Len(r.req.buff)
  /\ r.tag = "garbled" => r.req.skip = l - c
  /\ r.tag = "unwritten" => r.req.size = c

LEMMA Bounds ==
  /\ Boundary \in Bytes /\ Boundary /= <<>> /\ Len(Boundary) \in Nat /\ Len(Boundary) > 0
  /\ Break \in Bytes /\ Len(Break) = 2 /\ Break[1] = "cr" /\ Break[2] = "lf"
  /\ Final \in Bytes /\ Len(Final) = 4
  /\ Final[1] = "-" /\ Final[2] = "-" /\ Final[3] = "cr" /\ Final[4] = "lf"
<1>1. Boundary \in Bytes /\ Boundary /= <<>> /\ Len(Boundary) \in Nat /\ Len(Boundary) > 0
  BY MultipartAssumption DEF Bytes
<1>2. {"cr", "lf", "-"} \subseteq Byte
  BY MultipartAssumption
<1>3. Break \in Bytes /\ Len(Break) = 2 /\ Break[1] = "cr" /\ Break[2] = "lf"
  BY <1>2 DEF Bytes, Break
<1> DEFINE dashes == <<"-", "-">>
<1>4. dashes \in Bytes /\ Len(dashes) = 2 /\ dashes[1] = "-" /\ dashes[2] = "-"
  BY <1>2 DEF Bytes
<1>5. Final = dashes \o Break
  BY DEF Final
<1> HIDE DEF dashes
<1>6. /\ Final \in Bytes /\ Len(Final) = Len(dashes) + Len(Break)
      /\ \A i \in 1..(Len(dashes) + Len(Break)) :
           Final[i] = IF i <= Len(dashes) THEN dashes[i] ELSE Break[i - Len(dashes)]
  BY <1>3, <1>4, <1>5, ConcatProperties DEF Bytes
<1>7. /\ Final \in Bytes /\ Len(Final) = 4
      /\ Final[1] = "-" /\ Final[2] = "-" /\ Final[3] = "cr" /\ Final[4] = "lf"
  BY <1>3, <1>4, <1>6
<1> QED BY <1>1, <1>3, <1>7

LEMMA InvalidCounts ==
  ASSUME NEW r \in UploadT, NEW c
  PROVE  Counted(Invalid(r), c, r.length)
<1>1. <<>> \in Bytes
  BY DEF Bytes
<1>2. [r EXCEPT !.buff = <<>>] \in UploadT /\ [r EXCEPT !.buff = <<>>].length = r.length
  BY <1>1 DEF UploadT
<1> QED BY <1>2 DEF Counted, Invalid, Result, TakeT

LEMMA RefusedCounts ==
  ASSUME NEW r \in UploadT, NEW n \in 0..Len(r.buff)
  PROVE  Counted(Refused(r, n), r.size - n + Len(r.buff), r.length)
<1> DEFINE d == Drop(r.buff, n)
<1>1. r.buff \in Bytes
  BY DEF UploadT
<1>2. d \in Bytes /\ Len(d) = Len(r.buff) - n
  BY <1>1, DropIs DEF Bytes
<1> HIDE DEF d
<1>3. PICK l \in Nat : l = Len(r.buff)
  <2>1. Len(r.buff) \in Nat
    BY <1>1 DEF Bytes
  <2> QED BY <2>1
<1>4. r.size \in Nat /\ r.length \in Nat /\ r.length - r.size \in Int
  BY DEF UploadT
<1> DEFINE t == [r EXCEPT !.buff = d, !.skip = r.length - r.size]
<1>5. t \in UploadT
  BY <1>2, <1>4 DEF UploadT
<1>6. t.length = r.length /\ t.skip = r.length - r.size /\ t.buff = d
  BY DEF UploadT
<1>7. Refused(r, n) = [tag |-> "refused", req |-> t]
  BY DEF Refused, Result, d
<1> HIDE DEF t
<1>8. t.skip = r.length - (r.size - n + Len(r.buff)) + Len(t.buff)
  BY <1>2, <1>3, <1>4, <1>6
<1> QED BY <1>5, <1>6, <1>7, <1>8 DEF Counted, TakeT

LEMMA UploadTyped ==
  ASSUME NEW r \in UploadT
  PROVE  /\ r.buff \in Bytes /\ r.disk \in Bytes /\ r.body \in Bytes /\ Len(r.buff) \in Nat
         /\ Len(r.disk) \in Nat /\ Len(r.body) \in Nat
         /\ r.size \in Nat /\ r.length \in Nat /\ r.files \in Nat /\ r.fields \in Nat
         /\ r.filesTotal \in Nat /\ r.fieldsTotal \in Nat /\ r.isWrite \in BOOLEAN
         /\ r.parts \in Seq(Entry)
<1>1. /\ r.buff \in Bytes /\ r.disk \in Bytes /\ r.body \in Bytes
      /\ r.size \in Nat /\ r.length \in Nat /\ r.files \in Nat /\ r.fields \in Nat
      /\ r.filesTotal \in Nat /\ r.fieldsTotal \in Nat /\ r.isWrite \in BOOLEAN
      /\ r.parts \in Seq(Entry)
  BY DEF UploadT
<1>2. \A q \in Bytes : Len(q) \in Nat
  BY DEF Bytes
<1> QED BY <1>1, <1>2

LEMMA Size ==
  ASSUME NEW r \in UploadT, NEW n \in Nat
  PROVE  LET t == [r EXCEPT !.size = @ + n]
         IN  /\ t \in UploadT /\ t.size = r.size + n /\ t.buff = r.buff /\ t.length = r.length
             /\ t.keys = r.keys /\ t.isWrite = r.isWrite /\ t.disk = r.disk /\ t.body = r.body
             /\ t.files = r.files /\ t.filesTotal = r.filesTotal
             /\ t.fields = r.fields /\ t.fieldsTotal = r.fieldsTotal /\ t.parts = r.parts
<1> DEFINE t == [r EXCEPT !.size = @ + n]
<1>1. t \in UploadT
  BY SMTT(30) DEF UploadT
<1>2. /\ t.size = r.size + n /\ t.buff = r.buff /\ t.length = r.length
      /\ t.keys = r.keys /\ t.isWrite = r.isWrite /\ t.disk = r.disk /\ t.body = r.body
      /\ t.files = r.files /\ t.filesTotal = r.filesTotal
      /\ t.fields = r.fields /\ t.fieldsTotal = r.fieldsTotal /\ t.parts = r.parts
  BY DEF UploadT
<1> QED BY <1>1, <1>2

LEMMA Buffer ==
  ASSUME NEW r \in UploadT, NEW q \in Bytes
  PROVE  LET t == [r EXCEPT !.buff = q]
         IN  /\ t \in UploadT /\ t.size = r.size /\ t.buff = q /\ t.length = r.length
             /\ t.keys = r.keys /\ t.isWrite = r.isWrite /\ t.disk = r.disk /\ t.body = r.body
             /\ t.files = r.files /\ t.filesTotal = r.filesTotal
             /\ t.fields = r.fields /\ t.fieldsTotal = r.fieldsTotal /\ t.parts = r.parts
<1> DEFINE t == [r EXCEPT !.buff = q]
<1>1. t \in UploadT
  BY DEF UploadT
<1>2. /\ t.size = r.size /\ t.buff = q /\ t.length = r.length
      /\ t.keys = r.keys /\ t.isWrite = r.isWrite /\ t.disk = r.disk /\ t.body = r.body
      /\ t.files = r.files /\ t.filesTotal = r.filesTotal
      /\ t.fields = r.fields /\ t.fieldsTotal = r.fieldsTotal /\ t.parts = r.parts
  BY DEF UploadT
<1> QED BY <1>1, <1>2

LEMMA FileWritten ==
  ASSUME NEW r \in UploadT, NEW q \in Bytes
  PROVE  LET t == WriteFile(r, q)
         IN  /\ t \in UploadT /\ t.size = r.size /\ t.buff = r.buff /\ t.length = r.length
             /\ t.keys = r.keys /\ t.isWrite = r.isWrite /\ t.disk = r.disk \o q /\ t.body = r.body
             /\ t.files = r.files /\ t.filesTotal = r.filesTotal + Len(q)
             /\ t.fields = r.fields /\ t.fieldsTotal = r.fieldsTotal /\ t.parts = r.parts
<1>1. r.disk \in Bytes /\ r.filesTotal \in Nat /\ Len(q) \in Nat
  BY UploadTyped DEF Bytes
<1> DEFINE d == r.disk \o q
           m == r.filesTotal + Len(q)
<1>2. d \in Bytes
  BY <1>1, ConcatProperties DEF Bytes
<1>3. m \in Nat
  BY <1>1
<1>4. WriteFile(r, q) = [r EXCEPT !.disk = d, !.filesTotal = m]
  BY DEF WriteFile
<1> DEFINE t == [r EXCEPT !.disk = d, !.filesTotal = m]
<1> HIDE DEF d, m
<1>5. t \in UploadT
  BY <1>2, <1>3 DEF UploadT
<1>6. /\ t.size = r.size /\ t.buff = r.buff /\ t.length = r.length
      /\ t.keys = r.keys /\ t.isWrite = r.isWrite /\ t.disk = d /\ t.body = r.body
      /\ t.files = r.files /\ t.filesTotal = m
      /\ t.fields = r.fields /\ t.fieldsTotal = r.fieldsTotal /\ t.parts = r.parts
  BY DEF UploadT
<1> QED BY <1>4, <1>5, <1>6 DEF d, m

LEMMA Noted ==
  ASSUME NEW r \in UploadT, NEW q \in Bytes
  PROVE  LET t == Note(r, q)
         IN  /\ t \in UploadT /\ t.size = r.size /\ t.buff = r.buff /\ t.length = r.length
             /\ t.keys = r.keys /\ t.isWrite = r.isWrite /\ t.disk = r.disk /\ t.body = r.body
             /\ t.files = r.files /\ t.filesTotal = r.filesTotal
             /\ t.fields = r.fields /\ t.fieldsTotal = r.fieldsTotal + Len(q) /\ t.parts = r.parts
<1> DEFINE m == r.fieldsTotal + Len(q)
           t == [r EXCEPT !.fieldsTotal = m]
<1>1. m \in Nat
  <2>1. r.fieldsTotal \in Nat /\ Len(q) \in Nat
    BY UploadTyped DEF Bytes
  <2> QED BY <2>1
<1>2. Note(r, q) = t
  BY DEF Note
<1> HIDE DEF m
<1>3. t \in UploadT
  BY <1>1 DEF UploadT
<1>4. /\ t.size = r.size /\ t.buff = r.buff /\ t.length = r.length
      /\ t.keys = r.keys /\ t.isWrite = r.isWrite /\ t.disk = r.disk /\ t.body = r.body
      /\ t.files = r.files /\ t.filesTotal = r.filesTotal
      /\ t.fields = r.fields /\ t.fieldsTotal = m /\ t.parts = r.parts
  BY DEF UploadT
<1> QED BY <1>2, <1>3, <1>4 DEF m

LEMMA Filed ==
  ASSUME NEW r \in UploadT
  PROVE  LET t == SetFile(r)
         IN  /\ t \in UploadT /\ t.size = r.size /\ t.buff = r.buff /\ t.length = r.length
             /\ ~t.isWrite /\ t.files = r.files /\ t.filesTotal = r.filesTotal
             /\ t.fields = r.fields /\ t.fieldsTotal = r.fieldsTotal
             /\ t.parts = Append(r.parts, [file |-> TRUE, data |-> r.disk])
<1> DEFINE p == Append(r.parts, [file |-> TRUE, data |-> r.disk])
           t == [r EXCEPT !.parts = p, !.isWrite = FALSE]
<1>1. p \in Seq(Entry)
  <2>1. [file |-> TRUE, data |-> r.disk] \in Entry /\ r.parts \in Seq(Entry)
    BY UploadTyped DEF Entry
  <2> QED BY <2>1, AppendProperties
<1>2. SetFile(r) = t
  BY DEF SetFile
<1> HIDE DEF p
<1>3. t \in UploadT
  BY <1>1 DEF UploadT
<1>4. /\ t.size = r.size /\ t.buff = r.buff /\ t.length = r.length
      /\ ~t.isWrite /\ t.files = r.files /\ t.filesTotal = r.filesTotal
      /\ t.fields = r.fields /\ t.fieldsTotal = r.fieldsTotal /\ t.parts = p
  BY DEF UploadT
<1> QED BY <1>2, <1>3, <1>4 DEF p

LEMMA Bodied ==
  ASSUME NEW r \in UploadT, NEW q \in Bytes
  PROVE  LET t == SetBody(r, q)
         IN  /\ t \in UploadT /\ t.size = r.size /\ t.buff = r.buff /\ t.length = r.length
             /\ t.isWrite = r.isWrite /\ t.files = r.files /\ t.filesTotal = r.filesTotal
             /\ t.fields = r.fields /\ t.fieldsTotal = r.fieldsTotal
             /\ t.parts = IF IsBlank(r.body \o q) THEN r.parts
                          ELSE Append(r.parts, [file |-> FALSE, data |-> r.body \o q])
<1> DEFINE all == r.body \o q
<1>1. all \in Bytes
  <2>1. r.body \in Bytes
    BY UploadTyped
  <2> QED BY <2>1, ConcatProperties DEF Bytes
<1> DEFINE p == IF IsBlank(all) THEN r.parts ELSE Append(r.parts, [file |-> FALSE, data |-> all])
           t == [r EXCEPT !.body = all, !.parts = p]
<1>2. SetBody(r, q) = t
  BY DEF SetBody
<1> HIDE DEF all
<1>3. p \in Seq(Entry)
  <2>1. [file |-> FALSE, data |-> all] \in Entry /\ r.parts \in Seq(Entry)
    BY <1>1, UploadTyped DEF Entry
  <2>2. Append(r.parts, [file |-> FALSE, data |-> all]) \in Seq(Entry)
    BY <2>1, AppendProperties
  <2> QED BY <2>1, <2>2
<1> HIDE DEF p
<1>4. t \in UploadT
  BY <1>1, <1>3 DEF UploadT
<1>5. /\ t.size = r.size /\ t.buff = r.buff /\ t.length = r.length
      /\ t.isWrite = r.isWrite /\ t.files = r.files /\ t.filesTotal = r.filesTotal
      /\ t.fields = r.fields /\ t.fieldsTotal = r.fieldsTotal /\ t.parts = p
  BY DEF UploadT
<1> QED BY <1>2, <1>4, <1>5 DEF p, all

-----------------------------------------------------------------------------
(* The end of a part, a header, data: what each does to the request. *)

LEMMA BytesLen == \A q \in Bytes : Len(q) \in Nat
BY DEF Bytes

\* What is found behind: the buffer without its first n bytes.
LEMMA Dropped ==
  ASSUME NEW r \in UploadT, NEW n \in 0..Len(r.buff)
  PROVE  Drop(r.buff, n) \in Bytes /\ Len(Drop(r.buff, n)) = Len(r.buff) - n
<1>1. r.buff \in Seq(Byte)
  BY UploadTyped DEF Bytes
<1> QED BY <1>1, DropIs DEF Bytes

\* A part is ended by refusing it or by putting it behind the others.
EndPartGives(r, n, chunk, res) ==
  \/ r.size + n >= r.length /\ res = Invalid(r)
  \/ n < 2 /\ res = Result("panicked", r)
  \/ /\ res.tag = "refused" /\ Counted(res, r.size + Len(r.buff), r.length)
     /\ r.size + n < r.length /\ n >= 2
     /\ r.isWrite =>
          \/ (~AllowEmpty /\ chunk = <<>>) \/ r.keys /= "file"
          \/ Len(r.disk \o chunk) > MaxFileSize \/ r.filesTotal + Len(chunk) > MaxFilesTotal
          \/ r.filesTotal + Len(chunk) > DiskSpace
     /\ ~r.isWrite =>
          \/ r.fieldsTotal + Len(chunk) > MaxFieldsTotal \/ ~IsText(chunk)
          \/ ~IsBlank(r.body \o chunk) /\ r.keys /= "field"
  \/ /\ res.tag = "some" /\ r.size + n < r.length /\ n >= 2
     /\ res.req \in UploadT /\ res.req.length = r.length
     /\ res.req.size = r.size + n /\ res.req.buff = Drop(r.buff, n) /\ ~res.req.isWrite
     /\ res.req.files = r.files /\ res.req.fields = r.fields
     /\ r.isWrite =>
          /\ res.req.parts = Append(r.parts, [file |-> TRUE, data |-> r.disk \o chunk])
          /\ AllowEmpty \/ chunk /= <<>>
          /\ r.keys = "file" /\ Len(r.disk \o chunk) <= MaxFileSize
          /\ res.req.filesTotal = r.filesTotal + Len(chunk) /\ res.req.filesTotal <= DiskSpace
          /\ res.req.filesTotal <= MaxFilesTotal /\ res.req.fieldsTotal = r.fieldsTotal
     /\ ~r.isWrite =>
          /\ res.req.parts = IF IsBlank(r.body \o chunk) THEN r.parts
                             ELSE Append(r.parts, [file |-> FALSE, data |-> r.body \o chunk])
          /\ IsText(chunk) /\ (IsBlank(r.body \o chunk) \/ r.keys = "field")
          /\ res.req.fieldsTotal = r.fieldsTotal + Len(chunk)
          /\ res.req.fieldsTotal <= MaxFieldsTotal /\ res.req.filesTotal = r.filesTotal

LEMMA EndPartIs ==
  ASSUME NEW r \in UploadT, NEW n \in 1..Len(r.buff),
         NEW chunk, chunk = Take(r.buff, n - 2), NEW res, res = EndPart(r, n)
  PROVE  EndPartGives(r, n, chunk, res)
<1> USE DEF EndPartGives
<1>1. PICK l \in Nat : l = Len(r.buff)
  BY UploadTyped
<1>2. n \in Nat /\ n \in 0..Len(r.buff) /\ n - 2 \in Int /\ n - 2 <= Len(r.buff) /\ n \in 1..l
  BY <1>1
<1>3. chunk \in Bytes
  <2>1. r.buff \in Seq(Byte)
    BY UploadTyped DEF Bytes
  <2> QED BY <1>2, <2>1, TakeIs DEF Bytes
<1> DEFINE counted == [r EXCEPT !.size = @ + n]
           filed == WriteFile(counted, chunk)
           noted == Note(counted, chunk)
           d == Drop(r.buff, n)
<1>4. d \in Bytes /\ Len(d) = l - n
  BY <1>1, <1>2, Dropped
<1>5. /\ counted \in UploadT /\ counted.size = r.size + n /\ counted.buff = r.buff
      /\ counted.length = r.length /\ counted.keys = r.keys /\ counted.isWrite = r.isWrite
      /\ counted.disk = r.disk /\ counted.body = r.body
      /\ counted.files = r.files /\ counted.filesTotal = r.filesTotal
      /\ counted.fields = r.fields /\ counted.fieldsTotal = r.fieldsTotal
      /\ counted.parts = r.parts
  BY <1>2, Size
<1> HIDE DEF counted
<1>6. /\ filed \in UploadT /\ filed.size = r.size + n /\ filed.buff = r.buff
      /\ filed.length = r.length /\ filed.keys = r.keys /\ filed.isWrite = r.isWrite
      /\ filed.disk = r.disk \o chunk
      /\ filed.files = r.files /\ filed.filesTotal = r.filesTotal + Len(chunk)
      /\ filed.fields = r.fields /\ filed.fieldsTotal = r.fieldsTotal
      /\ filed.parts = r.parts
  <2>1. /\ filed \in UploadT /\ filed.size = counted.size /\ filed.buff = counted.buff
        /\ filed.length = counted.length /\ filed.keys = counted.keys
        /\ filed.isWrite = counted.isWrite /\ filed.disk = counted.disk \o chunk
        /\ filed.files = counted.files /\ filed.filesTotal = counted.filesTotal + Len(chunk)
        /\ filed.fields = counted.fields /\ filed.fieldsTotal = counted.fieldsTotal
        /\ filed.parts = counted.parts
    BY <1>3, <1>5, FileWritten
  <2> HIDE DEF filed
  <2> QED BY <1>5, <2>1, Zenon
<1>7. /\ noted \in UploadT /\ noted.size = r.size + n /\ noted.buff = r.buff
      /\ noted.length = r.length /\ noted.isWrite = r.isWrite /\ noted.body = r.body
      /\ noted.files = r.files /\ noted.filesTotal = r.filesTotal
      /\ noted.fields = r.fields /\ noted.fieldsTotal = r.fieldsTotal + Len(chunk)
      /\ noted.parts = r.parts
  BY <1>3, <1>5, Noted
<1> DEFINE noFile == \/ ~AllowEmpty /\ chunk = <<>>
                     \/ FileTooLarge(filed) \/ DiskFull(filed)
                     \/ r.keys /= "file"
           noField == \/ noted.fieldsTotal > MaxFieldsTotal
                      \/ ~IsText(chunk)
                      \/ ~IsBlank(r.body \o chunk) /\ r.keys /= "field"
<1>8. res = IF r.size + n >= r.length THEN Invalid(r)
            ELSE IF n < 2 THEN Result("panicked", r)
            ELSE IF r.isWrite
              THEN IF noFile THEN Refused(filed, n)
                   ELSE Result("some", SetFile([filed EXCEPT !.buff = Drop(@, n)]))
            ELSE IF noField THEN Refused(noted, n)
              ELSE Result("some", SetBody([noted EXCEPT !.buff = Drop(@, n)], chunk))
  BY DEF EndPart, counted
<1>9. [filed EXCEPT !.buff = Drop(@, n)] = [filed EXCEPT !.buff = d]
      /\ [noted EXCEPT !.buff = Drop(@, n)] = [noted EXCEPT !.buff = d]
  BY <1>6, <1>7
<1>10. FileTooLarge(filed) <=> Len(r.disk \o chunk) > MaxFileSize
                               \/ r.filesTotal + Len(chunk) > MaxFilesTotal
  BY <1>6 DEF FileTooLarge
<1>20. noFile <=> \/ (~AllowEmpty /\ chunk = <<>>) \/ r.keys /= "file"
                  \/ Len(r.disk \o chunk) > MaxFileSize
                  \/ r.filesTotal + Len(chunk) > MaxFilesTotal
                  \/ r.filesTotal + Len(chunk) > DiskSpace
  BY <1>6, <1>10 DEF DiskFull
<1>21. noField <=> \/ r.fieldsTotal + Len(chunk) > MaxFieldsTotal \/ ~IsText(chunk)
                   \/ ~IsBlank(r.body \o chunk) /\ r.keys /= "field"
  BY <1>7
<1> HIDE DEF filed, noted, d, noFile, noField
<1>11. r.size \in Nat /\ r.length \in Nat /\ r.isWrite \in BOOLEAN
       /\ Len(r.disk \o chunk) \in Nat /\ r.filesTotal + Len(chunk) \in Nat
       /\ r.fieldsTotal + Len(chunk) \in Nat
  <2>1. r.disk \o chunk \in Bytes /\ Len(chunk) \in Nat
    BY <1>3, UploadTyped, ConcatProperties DEF Bytes
  <2>2. Len(r.disk \o chunk) \in Nat
    BY <2>1, BytesLen, Zenon
  <2>3. r.size \in Nat /\ r.length \in Nat /\ r.isWrite \in BOOLEAN
        /\ r.filesTotal \in Nat /\ r.fieldsTotal \in Nat
    BY UploadTyped
  <2>4. r.filesTotal + Len(chunk) \in Nat /\ r.fieldsTotal + Len(chunk) \in Nat
    <3> HIDE DEF filed
    <3> QED BY <2>1, <2>3
  <2> QED BY <2>2, <2>3, <2>4, Zenon
<1>12. MaxFileSize \in Nat /\ MaxFilesTotal \in Nat /\ MaxFieldsTotal \in Nat /\ DiskSpace \in Nat
  BY MultipartAssumption
<1>13. ASSUME NEW t \in UploadT, t.size = r.size + n, t.buff = r.buff, t.length = r.length
       PROVE  Refused(t, n).tag = "refused"
              /\ Counted(Refused(t, n), r.size + Len(r.buff), r.length)
  <2>1. Refused(t, n).tag = "refused"
    BY DEF Refused, Result
  <2>2. Counted(Refused(t, n), t.size - n + Len(t.buff), t.length)
    BY <1>2, <1>13, RefusedCounts
  <2>3. t.size - n + Len(t.buff) = r.size + Len(r.buff)
    BY <1>1, <1>2, <1>11, <1>13
  <2> QED BY <1>13, <2>1, <2>2, <2>3
<1>14. CASE r.size + n >= r.length
  BY <1>8, <1>14
<1>15. CASE n < 2
  BY <1>8, <1>15
<1>16. CASE r.size + n < r.length /\ n >= 2 /\ r.isWrite
  <2>1. ~(r.size + n >= r.length) /\ ~(n < 2)
    BY <1>2, <1>11, <1>16
  <2>2. CASE noFile
    <3>1. res = Refused(filed, n)
      BY <1>8, <1>16, <2>1, <2>2
    <3>2. res.tag = "refused" /\ Counted(res, r.size + Len(r.buff), r.length)
      BY <1>6, <1>13, <3>1
    <3> QED BY <1>16, <1>20, <2>2, <3>2
  <2>3. CASE ~noFile
    <3> DEFINE t == [filed EXCEPT !.buff = d]
    <3>1. /\ t \in UploadT /\ t.size = r.size + n /\ t.buff = d
          /\ t.length = r.length /\ t.disk = r.disk \o chunk
          /\ t.files = r.files /\ t.filesTotal = r.filesTotal + Len(chunk)
          /\ t.fields = r.fields /\ t.fieldsTotal = r.fieldsTotal
          /\ t.parts = r.parts
      BY <1>4, <1>6, Buffer
    <3>2. res = Result("some", SetFile(t))
      BY <1>8, <1>9, <1>16, <2>1, <2>3
    <3> HIDE DEF t
    <3> DEFINE u == SetFile(t)
    <3>3. /\ u \in UploadT /\ u.size = r.size + n /\ u.buff = d /\ u.length = r.length
          /\ ~u.isWrite /\ u.files = r.files /\ u.filesTotal = r.filesTotal + Len(chunk)
          /\ u.fields = r.fields /\ u.fieldsTotal = r.fieldsTotal
          /\ u.parts = Append(r.parts, [file |-> TRUE, data |-> r.disk \o chunk])
      BY <3>1, Filed
    <3>4. res.tag = "some" /\ res.req = u
      BY <3>2 DEF Result
    <3>5. ~(Len(r.disk \o chunk) > MaxFileSize) /\ ~(r.filesTotal + Len(chunk) > MaxFilesTotal)
          /\ ~(r.filesTotal + Len(chunk) > DiskSpace)
          /\ (AllowEmpty \/ chunk /= <<>>) /\ r.keys = "file"
      BY <1>20, <2>3
    <3>6. Len(r.disk \o chunk) <= MaxFileSize /\ r.filesTotal + Len(chunk) <= MaxFilesTotal
          /\ r.filesTotal + Len(chunk) <= DiskSpace
      <4> DEFINE a == Len(r.disk \o chunk)
                 b == r.filesTotal + Len(chunk)
      <4>1. a \in Nat /\ b \in Nat /\ ~(a > MaxFileSize) /\ ~(b > MaxFilesTotal) /\ ~(b > DiskSpace)
        BY <1>11, <3>5
      <4> HIDE DEF a, b
      <4>2. a <= MaxFileSize /\ b <= MaxFilesTotal /\ b <= DiskSpace
        BY <1>12, <4>1
      <4> QED BY <4>2 DEF a, b
    <3> HIDE DEF u
    <3> QED BY <1>16, <3>3, <3>4, <3>5, <3>6 DEF d
  <2> QED BY <2>2, <2>3
<1>17. CASE r.size + n < r.length /\ n >= 2 /\ ~r.isWrite
  <2>1. ~(r.size + n >= r.length) /\ ~(n < 2)
    BY <1>2, <1>11, <1>17
  <2>2. CASE noField
    <3>1. res = Refused(noted, n)
      BY <1>8, <1>17, <2>1, <2>2
    <3>2. res.tag = "refused" /\ Counted(res, r.size + Len(r.buff), r.length)
      BY <1>7, <1>13, <3>1
    <3> QED BY <1>17, <1>21, <2>2, <3>2
  <2>3. CASE ~noField
    <3> DEFINE t == [noted EXCEPT !.buff = d]
    <3>1. /\ t \in UploadT /\ t.size = r.size + n /\ t.buff = d
          /\ t.length = r.length /\ t.body = r.body /\ t.isWrite = r.isWrite
          /\ t.files = r.files /\ t.filesTotal = r.filesTotal
          /\ t.fields = r.fields /\ t.fieldsTotal = r.fieldsTotal + Len(chunk)
          /\ t.parts = r.parts
      BY <1>4, <1>7, Buffer
    <3>2. res = Result("some", SetBody(t, chunk))
      BY <1>8, <1>9, <1>17, <2>1, <2>3
    <3> HIDE DEF t
    <3> DEFINE u == SetBody(t, chunk)
    <3>3. /\ u \in UploadT /\ u.size = r.size + n /\ u.buff = d /\ u.length = r.length
          /\ u.isWrite = r.isWrite /\ u.files = r.files /\ u.filesTotal = r.filesTotal
          /\ u.fields = r.fields /\ u.fieldsTotal = r.fieldsTotal + Len(chunk)
          /\ u.parts = IF IsBlank(r.body \o chunk) THEN r.parts
                       ELSE Append(r.parts, [file |-> FALSE, data |-> r.body \o chunk])
      <4>1. /\ u \in UploadT /\ u.size = t.size /\ u.buff = t.buff /\ u.length = t.length
            /\ u.isWrite = t.isWrite /\ u.files = t.files /\ u.filesTotal = t.filesTotal
            /\ u.fields = t.fields /\ u.fieldsTotal = t.fieldsTotal
            /\ u.parts = IF IsBlank(t.body \o chunk) THEN t.parts
                         ELSE Append(t.parts, [file |-> FALSE, data |-> t.body \o chunk])
        BY <1>3, <3>1, Bodied
      <4> HIDE DEF u
      <4> QED BY <3>1, <4>1, Zenon
    <3>4. res.tag = "some" /\ res.req = u
      BY <3>2 DEF Result
    <3>5. ~(r.fieldsTotal + Len(chunk) > MaxFieldsTotal)
          /\ IsText(chunk) /\ (IsBlank(r.body \o chunk) \/ r.keys = "field")
      BY <1>21, <2>3
    <3>6. r.fieldsTotal + Len(chunk) <= MaxFieldsTotal
      BY <1>11, <1>12, <3>5
    <3> HIDE DEF u
    <3> QED BY <1>17, <3>3, <3>4, <3>5, <3>6 DEF d
  <2> QED BY <2>2, <2>3
<1>18. r.size + n >= r.length \/ n < 2 \/ (r.size + n < r.length /\ n >= 2)
  BY <1>2, <1>11
<1> QED BY <1>14, <1>15, <1>16, <1>17, <1>18

\* A header begins a part or is one too many, or set_keys panics on its name.
ReadMetaGives(r, n, header, files, res) ==
  \/ /\ res.tag = "refused" /\ Counted(res, r.size - n + Len(r.buff), r.length)
     /\ r.fields + 1 > MaxFields \/ files > MaxFiles
  \/ /\ res.tag = "some" /\ res.req \in UploadT /\ res.req.length = r.length
     /\ res.req.size = r.size /\ res.req.buff = Drop(r.buff, n)
     /\ res.req.fields = r.fields + 1 /\ res.req.fields <= MaxFields
     /\ res.req.files = files /\ res.req.files <= MaxFiles
     /\ res.req.parts = r.parts
     /\ res.req.filesTotal = r.filesTotal /\ res.req.fieldsTotal = r.fieldsTotal
     /\ header \notin OfPanic /\ res.req.keys = KeysOf(header)
     /\ header \in OfFile => res.req.isWrite /\ res.req.disk = <<>>
     /\ header \notin OfFile => res.req.isWrite = r.isWrite /\ res.req.body = <<>>
  \/ res.tag = "panicked" /\ res.req \in UploadT /\ res.req.length = r.length /\ header \in OfPanic

LEMMA ReadMetaIs ==
  ASSUME NEW r \in UploadT, NEW n \in 1..Len(r.buff), NEW header, NEW files,
         files = IF header \in OfFile THEN r.files + 1 ELSE r.files,
         NEW res, res = ReadMeta(r, n, header)
  PROVE  ReadMetaGives(r, n, header, files, res)
<1> USE DEF ReadMetaGives
<1> DEFINE d == Drop(r.buff, n)
           b == IF r.fields < MaxFields THEN <<>> ELSE r.body
           counted == [r EXCEPT !.fields = r.fields + 1, !.body = b, !.files = files]
<1>1. /\ r.fields \in Nat /\ r.files \in Nat /\ r.body \in Bytes /\ r.size \in Nat
      /\ Len(r.buff) \in Nat /\ <<>> \in Bytes
  BY UploadTyped DEF Bytes
<1>2. d \in Bytes /\ n \in 0..Len(r.buff)
  BY <1>1, Dropped
<1>3. MaxFields \in Nat /\ MaxFiles \in Nat
  BY MultipartAssumption
<1>4. b \in Bytes /\ files \in Nat /\ r.fields + 1 \in Nat
  BY <1>1
<1> DEFINE keys == KeysOf(header)
           rest == [counted EXCEPT !.buff = Drop(@, n), !.keys = keys]
<1>5. ReadMeta(r, n, header) =
        IF counted.fields > MaxFields \/ counted.files > MaxFiles THEN Refused(counted, n)
        ELSE IF header \in OfPanic THEN Result("panicked", counted)
        ELSE Result("some", IF header \in OfFile THEN [rest EXCEPT !.disk = <<>>, !.isWrite = TRUE]
                                                  ELSE rest)
  <2>1. counted = [r EXCEPT !.fields = @ + 1, !.body = IF r.fields < MaxFields THEN <<>> ELSE @,
                           !.files = IF header \in OfFile THEN @ + 1 ELSE @]
    OBVIOUS
  <2> HIDE DEF counted
  <2> QED BY <2>1 DEF ReadMeta
<1>17. keys \in {"file", "field", "object"}
  BY DEF KeysOf
<1> HIDE DEF b, d
<1>6. counted \in UploadT
  BY <1>4 DEF UploadT
<1>7. /\ counted.fields = r.fields + 1 /\ counted.files = files /\ counted.body = b
      /\ counted.size = r.size /\ counted.buff = r.buff /\ counted.length = r.length
      /\ counted.parts = r.parts /\ counted.isWrite = r.isWrite
      /\ counted.filesTotal = r.filesTotal /\ counted.fieldsTotal = r.fieldsTotal
  BY DEF UploadT
<1> HIDE DEF counted
<1> HIDE DEF keys
<1>8. rest = [counted EXCEPT !.buff = d, !.keys = keys]
  BY <1>7 DEF d
<1> DEFINE v == [counted EXCEPT !.buff = d, !.keys = keys]
<1>9. v \in UploadT
  BY <1>2, <1>6, <1>17 DEF UploadT
<1>10. /\ v.size = counted.size /\ v.buff = d /\ v.length = counted.length
       /\ v.isWrite = counted.isWrite /\ v.body = counted.body /\ v.keys = keys
       /\ v.files = counted.files /\ v.filesTotal = counted.filesTotal
       /\ v.fields = counted.fields /\ v.fieldsTotal = counted.fieldsTotal
       /\ v.parts = counted.parts
  BY <1>6 DEF UploadT
<1> HIDE DEF v
<1> DEFINE u == [v EXCEPT !.disk = <<>>, !.isWrite = TRUE]
<1>11. u \in UploadT
  BY <1>1, <1>9 DEF UploadT
<1>12. /\ u.size = v.size /\ u.buff = v.buff /\ u.length = v.length
       /\ u.isWrite /\ u.keys = v.keys /\ u.disk = <<>>
       /\ u.files = v.files /\ u.filesTotal = v.filesTotal
       /\ u.fields = v.fields /\ u.fieldsTotal = v.fieldsTotal /\ u.parts = v.parts
  BY <1>9 DEF UploadT
<1> HIDE DEF rest
<1>14. res = IF r.fields + 1 > MaxFields \/ files > MaxFiles THEN Refused(counted, n)
             ELSE IF header \in OfPanic THEN Result("panicked", counted)
             ELSE Result("some", IF header \in OfFile THEN u ELSE v)
  <2>1. rest = v
    BY <1>8 DEF v
  <2>2. [rest EXCEPT !.disk = <<>>, !.isWrite = TRUE] = u
    BY <2>1
  <2> HIDE DEF u
  <2> QED BY <1>5, <1>7, <2>1, <2>2, Zenon
<1> HIDE DEF u
<1>15. CASE r.fields + 1 > MaxFields \/ files > MaxFiles
  <2>1. res = Refused(counted, n)
    BY <1>14, <1>15
  <2>2. Counted(Refused(counted, n), counted.size - n + Len(counted.buff), counted.length)
    BY <1>2, <1>6, <1>7, RefusedCounts
  <2>3. Refused(counted, n).tag = "refused"
    BY DEF Refused, Result
  <2> QED BY <1>7, <1>15, <2>1, <2>2, <2>3
<1>16. CASE ~(r.fields + 1 > MaxFields \/ files > MaxFiles)
  <2>1. r.fields + 1 <= MaxFields /\ files <= MaxFiles
    BY <1>3, <1>4, <1>16
  <2>2. b = <<>>
    <3>1. r.fields < MaxFields
      BY <1>1, <1>3, <2>1
    <3> QED BY <3>1 DEF b
  <2>3. CASE header \in OfPanic
    <3>1. res.tag = "panicked" /\ res.req = counted
      BY <1>14, <1>16, <2>3 DEF Result
    <3> QED BY <1>6, <1>7, <2>3, <3>1, Zenon
  <2>4. CASE header \notin OfPanic /\ header \in OfFile
    <3>1. res.tag = "some" /\ res.req = u
      BY <1>14, <1>16, <2>4 DEF Result
    <3> QED BY <1>7, <1>10, <1>11, <1>12, <2>1, <2>4, <3>1, Zenon DEF d, keys
  <2>5. CASE header \notin OfPanic /\ header \notin OfFile
    <3>1. res.tag = "some" /\ res.req = v
      BY <1>14, <1>16, <2>5 DEF Result
    <3> QED BY <1>7, <1>9, <1>10, <2>1, <2>2, <2>5, <3>1, Zenon DEF d, keys
  <2> QED BY <2>3, <2>4, <2>5
<1> QED BY <1>15, <1>16

\* The data goes to the part that is being read.
DataGives(r, n, res) ==
  \/ n = 0 /\ res = Result("none", r)
  \/ r.size + n >= r.length /\ res = Invalid(r)
  \/ /\ res.tag = "refused" /\ Counted(res, r.size + n, r.length)
     /\ r.isWrite => \/ Len(r.disk \o r.buff) > MaxFileSize
                     \/ r.filesTotal + n > MaxFilesTotal
     /\ ~r.isWrite => r.fieldsTotal + n > MaxFieldsTotal
  \/ /\ res.tag = "unwritten" /\ res.req \in UploadT /\ res.req.length = r.length
     /\ res.req.size = r.size + n /\ r.size + n < r.length
     /\ r.isWrite /\ r.filesTotal + n > DiskSpace
  \/ /\ res.tag = "garbled" /\ res.req \in UploadT /\ res.req.length = r.length
     /\ res.req.skip = r.length - (r.size + n) /\ r.size + n < r.length
     /\ ~r.isWrite /\ ~IsText(r.buff)
  \/ /\ res.tag = "none" /\ res.req \in UploadT /\ res.req.length = r.length
     /\ n > 0 /\ r.size + n < r.length
     /\ res.req.size = r.size + n /\ res.req.buff = <<>>
     /\ res.req.keys = r.keys /\ res.req.isWrite = r.isWrite
     /\ res.req.files = r.files /\ res.req.fields = r.fields
     /\ res.req.parts = r.parts
     /\ r.isWrite =>
          /\ res.req.disk = r.disk \o r.buff
          /\ res.req.filesTotal = r.filesTotal + n /\ res.req.filesTotal <= DiskSpace
          /\ res.req.filesTotal <= MaxFilesTotal /\ res.req.fieldsTotal = r.fieldsTotal
     /\ ~r.isWrite =>
          /\ res.req.body = r.body \o r.buff /\ IsText(r.buff)
          /\ res.req.fieldsTotal = r.fieldsTotal + n
          /\ res.req.fieldsTotal <= MaxFieldsTotal /\ res.req.filesTotal = r.filesTotal

LEMMA DataIs ==
  ASSUME NEW r \in UploadT, NEW n, n = Len(r.buff), NEW res, res = Data(r)
  PROVE  DataGives(r, n, res)
<1> USE DEF DataGives
<1>1. /\ n \in Nat /\ n \in 0..Len(r.buff) /\ r.size \in Nat /\ r.length \in Nat
      /\ r.buff \in Bytes /\ r.body \in Bytes /\ <<>> \in Bytes
      /\ r.isWrite \in BOOLEAN /\ r.filesTotal \in Nat /\ r.fieldsTotal \in Nat
  <2>1. /\ r.size \in Nat /\ r.length \in Nat /\ Len(r.buff) \in Nat
        /\ r.buff \in Bytes /\ r.body \in Bytes
        /\ r.isWrite \in BOOLEAN /\ r.filesTotal \in Nat /\ r.fieldsTotal \in Nat
    BY UploadTyped
  <2>2. <<>> \in Bytes
    BY DEF Bytes
  <2> QED BY <2>1, <2>2
<1>2. MaxFieldsTotal \in Nat /\ MaxFilesTotal \in Nat /\ DiskSpace \in Nat
  BY MultipartAssumption
<1> DEFINE counted == [r EXCEPT !.size = @ + n]
           filed == WriteFile(counted, r.buff)
           noted == Note(counted, r.buff)
<1>3. /\ counted \in UploadT /\ counted.size = r.size + n /\ counted.buff = r.buff
      /\ counted.length = r.length /\ counted.keys = r.keys /\ counted.isWrite = r.isWrite
      /\ counted.disk = r.disk /\ counted.body = r.body
      /\ counted.files = r.files /\ counted.filesTotal = r.filesTotal
      /\ counted.fields = r.fields /\ counted.fieldsTotal = r.fieldsTotal
      /\ counted.parts = r.parts
  BY <1>1, Size
<1> HIDE DEF counted
<1>4. /\ filed \in UploadT /\ filed.size = counted.size /\ filed.buff = counted.buff
      /\ filed.length = counted.length /\ filed.keys = counted.keys
      /\ filed.isWrite = counted.isWrite /\ filed.disk = counted.disk \o r.buff
      /\ filed.files = counted.files /\ filed.filesTotal = counted.filesTotal + Len(r.buff)
      /\ filed.fields = counted.fields /\ filed.fieldsTotal = counted.fieldsTotal
      /\ filed.parts = counted.parts
  BY <1>1, <1>3, FileWritten
<1>5. /\ noted \in UploadT /\ noted.size = counted.size /\ noted.buff = counted.buff
      /\ noted.length = counted.length /\ noted.keys = counted.keys
      /\ noted.isWrite = counted.isWrite /\ noted.body = counted.body
      /\ noted.files = counted.files /\ noted.filesTotal = counted.filesTotal
      /\ noted.fields = counted.fields
      /\ noted.fieldsTotal = counted.fieldsTotal + Len(r.buff)
      /\ noted.parts = counted.parts
  BY <1>1, <1>3, Noted
<1>6. res = IF n = 0 THEN Result("none", r)
            ELSE IF r.size + n >= r.length THEN Invalid(r)
            ELSE IF r.isWrite
              THEN IF FileTooLarge(filed) THEN Refused(filed, n)
                   ELSE IF DiskFull(filed) THEN Result("unwritten", filed)
                   ELSE Result("none", [filed EXCEPT !.buff = <<>>])
            ELSE IF noted.fieldsTotal > MaxFieldsTotal THEN Refused(noted, n)
            ELSE IF ~IsText(r.buff)
              THEN Result("garbled", [noted EXCEPT !.skip = r.length - noted.size])
            ELSE Result("none", [noted EXCEPT !.body = @ \o r.buff, !.buff = <<>>])
  BY DEF Data, counted
<1> HIDE DEF filed, noted
<1>7. filed.disk = r.disk \o r.buff /\ filed.filesTotal = r.filesTotal + n
      /\ noted.fieldsTotal = r.fieldsTotal + n
  BY <1>3, <1>4, <1>5, Zenon
<1>8. FileTooLarge(filed) <=> Len(r.disk \o r.buff) > MaxFileSize
                              \/ r.filesTotal + n > MaxFilesTotal
  BY <1>7, Zenon DEF FileTooLarge
<1>15. DiskFull(filed) <=> r.filesTotal + n > DiskSpace
  BY <1>7, Zenon DEF DiskFull
<1>9. ASSUME NEW t \in UploadT, t.size = r.size + n, t.buff = r.buff, t.length = r.length
      PROVE  Refused(t, n).tag = "refused"
             /\ Counted(Refused(t, n), r.size + n, r.length)
  <2>1. Refused(t, n).tag = "refused"
    BY DEF Refused, Result
  <2>2. Counted(Refused(t, n), t.size - n + Len(t.buff), t.length)
    BY <1>1, <1>9, RefusedCounts
  <2>3. t.size - n + Len(t.buff) = r.size + n
    BY <1>1, <1>9
  <2> QED BY <1>9, <2>1, <2>2, <2>3
<1>10. CASE n = 0
  BY <1>6, <1>10
<1>11. CASE n /= 0 /\ r.size + n >= r.length
  BY <1>6, <1>11
<1>12. CASE n /= 0 /\ ~(r.size + n >= r.length) /\ r.isWrite
  <2>1. n > 0 /\ r.size + n < r.length
    BY <1>1, <1>12
  <2>2. CASE FileTooLarge(filed)
    <3>1. res = Refused(filed, n)
      BY <1>6, <1>12, <2>2, Zenon
    <3>2. res.tag = "refused" /\ Counted(res, r.size + n, r.length)
      BY <1>3, <1>4, <1>9, <3>1, Zenon
    <3> QED BY <1>8, <1>12, <2>2, <3>2, Zenon
  <2>4. CASE ~FileTooLarge(filed) /\ DiskFull(filed)
    <3>1. res = Result("unwritten", filed)
      BY <1>6, <1>12, <2>4, Zenon
    <3>2. res.tag = "unwritten" /\ res.req = filed
      BY <3>1 DEF Result
    <3> QED BY <1>3, <1>4, <1>12, <1>15, <2>1, <2>4, <3>2, Zenon
  <2>3. CASE ~FileTooLarge(filed) /\ ~DiskFull(filed)
    <3> DEFINE t == [filed EXCEPT !.buff = <<>>]
    <3>1. /\ t \in UploadT /\ t.size = filed.size /\ t.buff = <<>> /\ t.length = filed.length
          /\ t.keys = filed.keys /\ t.isWrite = filed.isWrite /\ t.disk = filed.disk
          /\ t.files = filed.files /\ t.filesTotal = filed.filesTotal
          /\ t.fields = filed.fields /\ t.fieldsTotal = filed.fieldsTotal
          /\ t.parts = filed.parts
      BY <1>1, <1>4, Buffer
    <3>2. res = Result("none", t)
      BY <1>6, <1>12, <2>3, Zenon
    <3> HIDE DEF t
    <3>3. res.tag = "none" /\ res.req = t
      BY <3>2 DEF Result
    <3>4. r.filesTotal + n <= MaxFilesTotal /\ r.filesTotal + n <= DiskSpace
      <4>1. ~(r.filesTotal + n > MaxFilesTotal) /\ ~(r.filesTotal + n > DiskSpace)
        BY <1>8, <1>15, <2>3, Zenon
      <4> QED BY <1>1, <1>2, <4>1
    <3> QED BY <1>3, <1>4, <1>7, <1>12, <2>1, <3>1, <3>3, <3>4, ZenonT(40)
  <2> QED BY <2>2, <2>3, <2>4
<1>13. CASE n /= 0 /\ ~(r.size + n >= r.length) /\ ~r.isWrite
  <2>1. n > 0 /\ r.size + n < r.length
    BY <1>1, <1>13
  <2>2. CASE noted.fieldsTotal > MaxFieldsTotal
    <3>1. res = Refused(noted, n)
      BY <1>6, <1>13, <2>2, Zenon
    <3>2. res.tag = "refused" /\ Counted(res, r.size + n, r.length)
      BY <1>3, <1>5, <1>9, <3>1, Zenon
    <3> QED BY <1>7, <1>13, <2>2, <3>2, Zenon
  <2>4. CASE ~(noted.fieldsTotal > MaxFieldsTotal) /\ ~IsText(r.buff)
    <3> DEFINE z == r.length - noted.size
               t == [noted EXCEPT !.skip = z]
    <3>1. res = Result("garbled", t)
      <4>1. [noted EXCEPT !.skip = r.length - noted.size] = t
        OBVIOUS
      <4> HIDE DEF t
      <4> QED BY <1>6, <1>13, <2>4, <4>1, Zenon
    <3>2. z \in Int /\ z = r.length - (r.size + n)
      BY <1>1, <1>3, <1>5
    <3> HIDE DEF z
    <3>3. t \in UploadT /\ t.length = noted.length /\ t.skip = z
      BY <1>5, <3>2 DEF UploadT
    <3> HIDE DEF t
    <3>4. res.tag = "garbled" /\ res.req = t
      BY <3>1 DEF Result
    <3> QED BY <1>3, <1>5, <1>13, <2>1, <2>4, <3>2, <3>3, <3>4, Zenon
  <2>3. CASE ~(noted.fieldsTotal > MaxFieldsTotal) /\ IsText(r.buff)
    <3> DEFINE b == r.body \o r.buff
               t == [noted EXCEPT !.body = b, !.buff = <<>>]
    <3>1. b \in Bytes
      BY <1>1, ConcatProperties DEF Bytes
    <3>2. res = Result("none", t)
      <4>1. [noted EXCEPT !.body = @ \o r.buff, !.buff = <<>>] = t
        <5>1. noted.body = r.body
          BY <1>3, <1>5
        <5> QED BY <5>1
      <4> HIDE DEF t
      <4> QED BY <1>6, <1>13, <2>3, <4>1, Zenon
    <3> HIDE DEF b
    <3>3. t \in UploadT
      BY <1>1, <1>5, <3>1 DEF UploadT
    <3>4. /\ t.size = noted.size /\ t.buff = <<>> /\ t.length = noted.length
          /\ t.keys = noted.keys /\ t.isWrite = noted.isWrite /\ t.body = b
          /\ t.files = noted.files /\ t.filesTotal = noted.filesTotal
          /\ t.fields = noted.fields /\ t.fieldsTotal = noted.fieldsTotal
          /\ t.parts = noted.parts
      BY <1>5 DEF UploadT
    <3> HIDE DEF t
    <3>5. res.tag = "none" /\ res.req = t
      BY <3>2 DEF Result
    <3>6. r.fieldsTotal + n <= MaxFieldsTotal
      <4>1. ~(r.fieldsTotal + n > MaxFieldsTotal)
        BY <1>7, <2>3, Zenon
      <4> QED BY <1>1, <1>2, <4>1
    <3> QED BY <1>3, <1>5, <1>7, <1>13, <2>1, <2>3, <3>3, <3>4, <3>5, <3>6, Zenon DEF b
  <2> QED BY <2>2, <2>3, <2>4
<1>14. n = 0 \/ (n /= 0 /\ r.size + n >= r.length)
       \/ (n /= 0 /\ ~(r.size + n >= r.length) /\ r.isWrite)
       \/ (n /= 0 /\ ~(r.size + n >= r.length) /\ ~r.isWrite)
  OBVIOUS
<1> QED BY <1>10, <1>11, <1>12, <1>13, <1>14, Zenon

-----------------------------------------------------------------------------
(* A round, and the loop of rounds. *)

LEMMA FindNat ==
  ASSUME NEW q \in Bytes, NEW p \in Bytes, NEW from \in Nat, from > 0
  PROVE  /\ Find(q, p, from) \in Nat
         /\ \/ Find(q, p, from) = 0
            \/ Find(q, p, from) >= from /\ Find(q, p, from) <= Len(q) - Len(p) + 1
<1> DEFINE m == Find(q, p, from)
<1>1. m = 0 \/ \E k \in from..(Len(q) - Len(p) + 1) : m = k
  BY FindIs DEF FindGives
<1>2. PICK l \in Int : l = Len(q) - Len(p) + 1
  <2>1. Len(q) \in Nat /\ Len(p) \in Nat
    BY DEF Bytes
  <2> QED BY <2>1
<1> HIDE DEF m
<1>3. m \in Nat /\ (m = 0 \/ (m >= from /\ m <= l))
  BY <1>1, <1>2
<1> QED BY <1>2, <1>3 DEF m

LEMMA Ends ==
  /\ Boundary \o Final \in Bytes /\ Len(Boundary \o Final) = Len(Boundary) + 4
  /\ Break \o Break \in Bytes /\ Len(Break \o Break) = 4
  /\ (Break \o Break)[1] = "cr" /\ (Break \o Break)[2] = "lf"
  /\ (Break \o Break)[3] = "cr" /\ (Break \o Break)[4] = "lf"
<1>1. /\ Boundary \in Bytes /\ Break \in Bytes /\ Len(Break) = 2 /\ Break[1] = "cr"
      /\ Break[2] = "lf" /\ Final \in Bytes /\ Len(Final) = 4
  BY Bounds
<1>2. Boundary \o Final \in Bytes /\ Len(Boundary \o Final) = Len(Boundary) + 4
  <2>1. Boundary \o Final \in Bytes /\ Len(Boundary \o Final) = Len(Boundary) + Len(Final)
    BY <1>1, ConcatProperties DEF Bytes
  <2> QED BY <1>1, <2>1
<1>3. /\ Break \o Break \in Bytes /\ Len(Break \o Break) = Len(Break) + Len(Break)
      /\ \A i \in 1..(Len(Break) + Len(Break)) :
           (Break \o Break)[i] = IF i <= Len(Break) THEN Break[i] ELSE Break[i - Len(Break)]
  BY <1>1, ConcatProperties DEF Bytes
<1>4. /\ Len(Break \o Break) = 4 /\ (Break \o Break)[1] = "cr" /\ (Break \o Break)[2] = "lf"
      /\ (Break \o Break)[3] = "cr" /\ (Break \o Break)[4] = "lf"
  <2> DEFINE bb == Break \o Break
  <2>1. /\ Len(bb) = Len(Break) + Len(Break)
        /\ \A i \in 1..(Len(Break) + Len(Break)) :
             bb[i] = IF i <= Len(Break) THEN Break[i] ELSE Break[i - Len(Break)]
    BY <1>3
  <2> HIDE DEF bb
  <2>2. Len(bb) = 4 /\ bb[1] = "cr" /\ bb[2] = "lf" /\ bb[3] = "cr" /\ bb[4] = "lf"
    BY <1>1, <2>1
  <2> QED BY <2>2 DEF bb
<1> QED BY <1>2, <1>3, <1>4

\* At a boundary: the end of the body, the header of a part, or not enough yet.
AtBoundaryGives(r, res) ==
  LET last == Len(Boundary) + 4
      lineEnd == Find(r.buff, Break, 1)
      metaEnd == Find(r.buff, Break \o Break, lineEnd + 2)
      n == metaEnd + 3
      ended == IsPrefix(Boundary \o Final, r.buff)
  IN  \/ /\ ended /\ r.size + last > r.length /\ res = Invalid(r)
      \/ /\ ended /\ res.tag = "done" /\ res.req \in UploadT /\ last <= Len(r.buff)
         /\ res.req.length = r.length /\ res.req.size = r.size + last
         /\ res.req.buff = Drop(r.buff, last) /\ res.req.parts = r.parts
      \/ ~ended /\ (lineEnd = 0 \/ metaEnd = 0) /\ res = Result("none", r)
      \/ /\ ~ended /\ lineEnd > 0 /\ metaEnd > 0 /\ r.size + n >= r.length
         /\ res = Invalid(r)
      \/ /\ ~ended /\ lineEnd > 0 /\ metaEnd > 0 /\ n \in 1..Len(r.buff)
         /\ r.size + n < r.length
         /\ res = ReadMeta([r EXCEPT !.size = @ + n], n, r.buff[lineEnd + 2])

LEMMA AtBoundaryIs ==
  ASSUME NEW r \in UploadT, NEW res, res = AtBoundary(r)
  PROVE  AtBoundaryGives(r, res)
<1> USE DEF AtBoundaryGives
<1>1. PICK l \in Nat, last \in Nat : l = Len(r.buff) /\ last = Len(Boundary) + 4
  <2>1. Len(r.buff) \in Nat /\ Len(Boundary) + 4 \in Nat
    BY UploadTyped, Bounds
  <2> QED BY <2>1
<1>2. r.buff \in Bytes /\ r.size \in Nat /\ r.length \in Nat
  BY UploadTyped
<1>3. Break \in Bytes /\ Break \o Break \in Bytes /\ Len(Break \o Break) = 4 /\ Len(Break) = 2
      /\ Len(Boundary \o Final) = last /\ Len(Boundary) + Len(Final) = last
  BY <1>1, Bounds, Ends
<1> DEFINE bb == Break \o Break
           lineEnd == Find(r.buff, Break, 1)
           metaEnd == Find(r.buff, bb, lineEnd + 2)
           n == metaEnd + 3
           ended == IsPrefix(Boundary \o Final, r.buff)
           d == Drop(r.buff, last)
<1>4. res = IF ended
              THEN IF r.size + last > r.length THEN Invalid(r)
                   ELSE Result("done", [r EXCEPT !.size = @ + last, !.buff = d])
            ELSE IF lineEnd = 0 \/ metaEnd = 0 THEN Result("none", r)
            ELSE IF r.size + n >= r.length THEN Invalid(r)
            ELSE ReadMeta([r EXCEPT !.size = @ + n], n, r.buff[lineEnd + 2])
  <2>1. r.size + metaEnd + 3 = r.size + n /\ [r EXCEPT !.size = @ + metaEnd + 3] = [r EXCEPT !.size = @ + n]
    <3>1. lineEnd \in Nat
      <4>1. 1 \in Nat /\ 1 > 0
        OBVIOUS
      <4> QED BY <1>2, <1>3, <4>1, FindNat
    <3>2. metaEnd \in Nat
      <4>1. lineEnd + 2 \in Nat /\ lineEnd + 2 > 0
        BY <3>1
      <4> HIDE DEF lineEnd
      <4> QED BY <1>2, <1>3, <4>1, FindNat
    <3> HIDE DEF metaEnd
    <3> QED BY <1>2, <3>2
  <2>2. Drop(r.buff, Len(Boundary) + Len(Final)) = d /\ r.size + (Len(Boundary) + Len(Final)) = r.size + last
    BY <1>3
  <2>3. [r EXCEPT !.size = @ + (Len(Boundary) + Len(Final)), !.buff = Drop(@, Len(Boundary) + Len(Final))]
        = [r EXCEPT !.size = @ + last, !.buff = d]
    BY <1>3
  <2>4. res = IF ended
              THEN IF r.size + (Len(Boundary) + Len(Final)) > r.length THEN Invalid(r)
                   ELSE Result("done", [r EXCEPT !.size = @ + (Len(Boundary) + Len(Final)),
                                                 !.buff = Drop(@, Len(Boundary) + Len(Final))])
            ELSE IF lineEnd = 0 \/ metaEnd = 0 THEN Result("none", r)
            ELSE IF r.size + metaEnd + 3 >= r.length THEN Invalid(r)
            ELSE ReadMeta([r EXCEPT !.size = @ + metaEnd + 3], metaEnd + 3, r.buff[lineEnd + 2])
    BY DEF AtBoundary
  <2> HIDE DEF ended, lineEnd, metaEnd, d
  <2> QED BY <2>1, <2>2, <2>3, <2>4
<1>5. lineEnd = 0 \/ (lineEnd \in Nat /\ lineEnd > 0)
  <2>1. 1 \in Nat /\ 1 > 0
    OBVIOUS
  <2>2. lineEnd \in Nat
    BY <1>2, <1>3, <2>1, FindNat
  <2> HIDE DEF lineEnd
  <2> QED BY <2>2
<1>6. metaEnd = 0 \/ (metaEnd > 0 /\ n \in 1..l)
  <2>1. lineEnd + 2 \in Nat /\ lineEnd + 2 > 0
    BY <1>5
  <2> HIDE DEF lineEnd
  <2>2. metaEnd \in Nat /\ (metaEnd = 0 \/ (metaEnd >= lineEnd + 2 /\ metaEnd <= Len(r.buff) - Len(bb) + 1))
    BY <1>2, <1>3, <2>1, FindNat
  <2>3. Len(r.buff) - Len(bb) + 1 = l - 3
    BY <1>1, <1>3
  <2> HIDE DEF metaEnd, bb
  <2> QED BY <1>1, <2>1, <2>2, <2>3
<1>7. CASE ended
  <2>1. last <= l
    BY <1>1, <1>3, <1>7 DEF IsPrefix
  <2>2. CASE r.size + last > r.length
    <3>1. res = Invalid(r)
      BY <1>4, <1>7, <2>2
    <3> QED BY <1>1, <1>7, <2>2, <3>1
  <2>3. CASE ~(r.size + last > r.length)
    <3>1. last \in 0..Len(r.buff)
      BY <1>1, <2>1
    <3>2. d \in Bytes
      BY <3>1, Dropped
    <3> DEFINE t == [r EXCEPT !.size = @ + last, !.buff = d]
    <3>3. res = Result("done", t)
      BY <1>4, <1>7, <2>3
    <3> HIDE DEF d
    <3>4. t \in UploadT
      <4>1. r.size + last \in Nat
        BY <1>1, <1>2
      <4> QED BY <3>2, <4>1 DEF UploadT
    <3>5. t.length = r.length /\ t.size = r.size + last /\ t.buff = d /\ t.parts = r.parts
      BY DEF UploadT
    <3> HIDE DEF t, ended
    <3>6. res.tag = "done" /\ res.req = t
      BY <3>3 DEF Result
    <3>7. last <= Len(r.buff)
      BY <1>1, <2>1
    <3>8. d = Drop(r.buff, Len(Boundary) + 4) /\ ended
      BY <1>1, <1>7 DEF d
    <3> HIDE DEF lineEnd, metaEnd
    <3> QED BY <1>1, <3>4, <3>5, <3>6, <3>7, <3>8 DEF ended
  <2> QED BY <2>2, <2>3
<1>8. CASE ~ended /\ (lineEnd = 0 \/ metaEnd = 0)
  <2>1. res = Result("none", r)
    BY <1>4, <1>8
  <2> HIDE DEF ended, lineEnd, metaEnd
  <2> QED BY <1>8, <2>1 DEF ended, lineEnd, metaEnd
<1>9. CASE ~ended /\ lineEnd > 0 /\ metaEnd > 0 /\ lineEnd /= 0 /\ metaEnd /= 0
  <2> HIDE DEF ended, lineEnd, metaEnd
  <2>1. n \in 1..Len(r.buff)
    BY <1>1, <1>6, <1>9
  <2>2. CASE r.size + n >= r.length
    <3>1. res = Invalid(r)
      BY <1>4, <1>9, <2>2
    <3> QED BY <1>9, <2>2, <3>1 DEF ended, lineEnd, metaEnd
  <2>3. CASE ~(r.size + n >= r.length)
    <3>1. res = ReadMeta([r EXCEPT !.size = @ + n], n, r.buff[lineEnd + 2])
      BY <1>4, <1>9, <2>3
    <3>2. r.size + n < r.length
      BY <1>1, <1>2, <2>1, <2>3
    <3> HIDE DEF n, bb
    <3> QED BY <1>9, <2>1, <3>1, <3>2 DEF ended, lineEnd, metaEnd, n, bb
  <2> QED BY <2>2, <2>3
<1>10. ended \/ (~ended /\ (lineEnd = 0 \/ metaEnd = 0))
       \/ (~ended /\ lineEnd > 0 /\ metaEnd > 0 /\ lineEnd /= 0 /\ metaEnd /= 0)
  <2> HIDE DEF ended, lineEnd, metaEnd
  <2> QED BY <1>5, <1>6
<1> HIDE DEF ended, lineEnd, metaEnd
<1> QED BY <1>7, <1>8, <1>9, <1>10

\* A result after which the loop goes on has a shorter buffer.
Shorter(res, r) == res.tag = "some" => Len(res.req.buff) < Len(r.buff)

LEMMA CountedMore ==
  ASSUME NEW res, res.tag \in {"some", "none", "done"}, res.req \in UploadT, NEW c \in Int,
         res.req.size + Len(res.req.buff) = c
  PROVE  Counted(res, c, res.req.length)
BY DEF Counted, TakeT

LEMMA EndPartCounts ==
  ASSUME NEW r \in UploadT, NEW n \in 1..Len(r.buff)
  PROVE  Counted(EndPart(r, n), r.size + Len(r.buff), r.length) /\ Shorter(EndPart(r, n), r)
<1> DEFINE res == EndPart(r, n)
           chunk == Take(r.buff, n - 2)
           c == r.size + Len(r.buff)
<1>1. \/ res = Invalid(r)
      \/ res = Result("panicked", r)
      \/ res.tag = "refused" /\ Counted(res, c, r.length)
      \/ /\ res.tag = "some" /\ res.req \in UploadT /\ res.req.length = r.length
         /\ res.req.size = r.size + n /\ res.req.buff = Drop(r.buff, n)
  <2> HIDE DEF res, chunk
  <2>1. res = EndPart(r, n) /\ chunk = Take(r.buff, n - 2)
    BY DEF res, chunk
  <2>2. EndPartGives(r, n, chunk, res)
    BY <2>1, EndPartIs
  <2> QED BY <2>2, Zenon DEF EndPartGives
<1> HIDE DEF res
<1>2. CASE res = Invalid(r)
  <2>1. res.tag = "invalid"
    BY <1>2 DEF Invalid, Result
  <2> QED BY <1>2, <2>1, InvalidCounts DEF Shorter, res
<1>3. CASE res = Result("panicked", r)
  BY <1>3 DEF Counted, Shorter, Result, TakeT, res
<1>4. CASE res.tag = "refused" /\ Counted(res, c, r.length)
  BY <1>4 DEF Shorter, res
<1>5. CASE /\ res.tag = "some" /\ res.req \in UploadT /\ res.req.length = r.length
           /\ res.req.size = r.size + n /\ res.req.buff = Drop(r.buff, n)
  <2>1. PICK l \in Nat : l = Len(r.buff)
    BY UploadTyped
  <2>2. r.size \in Nat /\ n \in 0..Len(r.buff) /\ n \in 1..l
    BY <2>1, UploadTyped
  <2>3. Len(res.req.buff) = l - n
    BY <1>5, <2>1, <2>2, Dropped
  <2>4. res.req.size + Len(res.req.buff) = c /\ c \in Int
    BY <1>5, <2>1, <2>2, <2>3
  <2>5. Counted(res, c, r.length)
    <3> HIDE DEF c
    <3> QED BY <1>5, <2>4, CountedMore
  <2>6. Shorter(res, r)
    BY <2>1, <2>2, <2>3 DEF Shorter
  <2> QED BY <2>5, <2>6 DEF res
<1> QED BY <1>1, <1>2, <1>3, <1>4, <1>5

LEMMA AtBoundaryCounts ==
  ASSUME NEW r \in UploadT
  PROVE  Counted(AtBoundary(r), r.size + Len(r.buff), r.length) /\ Shorter(AtBoundary(r), r)
<1> DEFINE res == AtBoundary(r)
           c == r.size + Len(r.buff)
           last == Len(Boundary) + 4
<1>1. PICK l \in Nat : l = Len(r.buff)
  BY UploadTyped
<1>2. r.size \in Nat /\ r.length \in Nat /\ c \in Int
  BY UploadTyped
<1>3. \/ res = Invalid(r)
      \/ /\ res.tag = "done" /\ res.req \in UploadT /\ last <= Len(r.buff)
         /\ res.req.length = r.length /\ res.req.size = r.size + last
         /\ res.req.buff = Drop(r.buff, last)
      \/ res = Result("none", r)
      \/ \E n \in 1..Len(r.buff) : \E header :
            res = ReadMeta([r EXCEPT !.size = @ + n], n, header)
  <2> HIDE DEF res
  <2>1. res = AtBoundary(r)
    BY DEF res
  <2>2. AtBoundaryGives(r, res)
    BY <2>1, AtBoundaryIs
  <2> HIDE DEF c
  <2> QED BY <2>2, Zenon DEF AtBoundaryGives
<1> HIDE DEF res
<1>4. CASE res = Invalid(r)
  <2>1. res.tag = "invalid"
    BY <1>4 DEF Invalid, Result
  <2> QED BY <1>4, <2>1, InvalidCounts DEF Shorter, res
<1>5. CASE /\ res.tag = "done" /\ res.req \in UploadT /\ last <= Len(r.buff)
           /\ res.req.length = r.length /\ res.req.size = r.size + last
           /\ res.req.buff = Drop(r.buff, last)
  <2>1. last \in Nat /\ last \in 0..Len(r.buff)
    BY <1>1, <1>5, Bounds
  <2>2. Len(res.req.buff) = l - last
    <3> HIDE DEF last
    <3> QED BY <1>1, <1>5, <2>1, Dropped
  <2>3. res.req.size + Len(res.req.buff) = c
    <3> HIDE DEF last
    <3> QED BY <1>1, <1>2, <1>5, <2>1, <2>2
  <2>4. Counted(res, c, r.length)
    <3> HIDE DEF c
    <3> QED BY <1>2, <1>5, <2>3, CountedMore
  <2> QED BY <1>5, <2>4 DEF Shorter, res
<1>6. CASE res = Result("none", r)
  <2>1. res.tag = "none" /\ res.req = r
    BY <1>6 DEF Result
  <2>2. Counted(res, c, r.length)
    BY <1>2, <2>1, CountedMore
  <2> QED BY <2>1, <2>2 DEF Shorter, res
<1>7. ASSUME NEW n \in 1..Len(r.buff), NEW header,
             res = ReadMeta([r EXCEPT !.size = @ + n], n, header)
      PROVE  Counted(res, c, r.length) /\ Shorter(res, r)
  <2> DEFINE t == [r EXCEPT !.size = @ + n]
  <2>1. n \in Nat /\ n \in 0..Len(r.buff) /\ n \in 1..l
    BY <1>1
  <2>2. t \in UploadT /\ t.size = r.size + n /\ t.buff = r.buff /\ t.length = r.length
    BY <2>1, Size
  <2> HIDE DEF t
  <2> DEFINE files == IF header \in OfFile THEN t.files + 1 ELSE t.files
  <2>3. n \in 1..Len(t.buff) /\ res = ReadMeta(t, n, header)
    BY <1>7, <2>2 DEF t
  <2>4. \/ /\ res.tag = "refused" /\ Counted(res, t.size - n + Len(t.buff), t.length)
        \/ /\ res.tag = "some" /\ res.req \in UploadT /\ res.req.length = t.length
           /\ res.req.size = t.size /\ res.req.buff = Drop(t.buff, n)
        \/ res.tag = "panicked" /\ res.req \in UploadT /\ res.req.length = t.length
    <3>1. PICK f : f = files
      OBVIOUS
    <3>2. ReadMetaGives(t, n, header, f, res)
      BY <2>2, <2>3, <3>1, ReadMetaIs
    <3> QED BY <3>2, Zenon DEF ReadMetaGives
  <2>5. t.size - n + Len(t.buff) = c
    BY <1>1, <1>2, <2>1, <2>2
  <2>6. CASE res.tag = "refused" /\ Counted(res, t.size - n + Len(t.buff), t.length)
    BY <2>2, <2>5, <2>6 DEF Shorter
  <2>7. CASE /\ res.tag = "some" /\ res.req \in UploadT /\ res.req.length = t.length
             /\ res.req.size = t.size /\ res.req.buff = Drop(t.buff, n)
    <3>1. Len(res.req.buff) = l - n
      BY <1>1, <2>1, <2>2, <2>7, Dropped
    <3>2. res.req.size + Len(res.req.buff) = c
      BY <1>1, <1>2, <2>1, <2>2, <2>7, <3>1
    <3>3. Counted(res, c, r.length)
      <4> HIDE DEF c
      <4> QED BY <1>2, <2>2, <2>7, <3>2, CountedMore
    <3> QED BY <1>1, <2>1, <3>1, <3>3 DEF Shorter
  <2>8. CASE res.tag = "panicked" /\ res.req \in UploadT /\ res.req.length = t.length
    BY <2>2, <2>8 DEF Shorter, Counted, TakeT
  <2> QED BY <2>4, <2>6, <2>7, <2>8
<1> QED BY <1>3, <1>4, <1>5, <1>6, <1>7 DEF res

LEMMA DataCounts ==
  ASSUME NEW r \in UploadT
  PROVE  Counted(Data(r), r.size + Len(r.buff), r.length) /\ Data(r).tag /= "some"
<1> DEFINE res == Data(r)
           n == Len(r.buff)
           c == r.size + n
<1>1. r.size \in Nat /\ n \in Nat /\ c \in Int
  BY UploadTyped
<1>2. \/ res = Result("none", r)
      \/ res = Invalid(r)
      \/ res.tag = "refused" /\ Counted(res, c, r.length)
      \/ /\ res.tag = "none" /\ res.req \in UploadT /\ res.req.length = r.length
         /\ res.req.size = r.size + n /\ res.req.buff = <<>>
      \/ /\ res.tag = "unwritten" /\ res.req \in UploadT /\ res.req.length = r.length
         /\ res.req.size = r.size + n
      \/ /\ res.tag = "garbled" /\ res.req \in UploadT /\ res.req.length = r.length
         /\ res.req.skip = r.length - (r.size + n)
  <2> HIDE DEF res, n
  <2>1. res = Data(r) /\ n = Len(r.buff)
    BY DEF res, n
  <2>2. DataGives(r, n, res)
    BY <2>1, DataIs
  <2> QED BY <2>2, Zenon DEF DataGives
<1> HIDE DEF res
<1>3. CASE res = Result("none", r)
  <2>1. res.tag = "none" /\ res.req = r
    BY <1>3 DEF Result
  <2>2. Counted(res, c, r.length)
    BY <1>1, <2>1, CountedMore
  <2> QED BY <2>1, <2>2 DEF res
<1>4. CASE res = Invalid(r)
  <2>1. res.tag = "invalid"
    BY <1>4 DEF Invalid, Result
  <2> QED BY <1>4, <2>1, InvalidCounts DEF res
<1>5. CASE res.tag = "refused" /\ Counted(res, c, r.length)
  BY <1>5 DEF res
<1>6. CASE /\ res.tag = "none" /\ res.req \in UploadT /\ res.req.length = r.length
           /\ res.req.size = r.size + n /\ res.req.buff = <<>>
  <2>1. Len(res.req.buff) = 0
    BY <1>6
  <2>2. res.req.size + Len(res.req.buff) = c
    BY <1>1, <1>6, <2>1
  <2>3. Counted(res, c, r.length)
    <3> HIDE DEF c
    <3> QED BY <1>1, <1>6, <2>2, CountedMore
  <2> QED BY <1>6, <2>3 DEF res
<1>7. CASE /\ res.tag = "unwritten" /\ res.req \in UploadT /\ res.req.length = r.length
           /\ res.req.size = r.size + n
  BY <1>7 DEF Counted, TakeT, res
<1>8. CASE /\ res.tag = "garbled" /\ res.req \in UploadT /\ res.req.length = r.length
           /\ res.req.skip = r.length - (r.size + n)
  BY <1>8 DEF Counted, TakeT, res
<1> QED BY <1>2, <1>3, <1>4, <1>5, <1>6, <1>7, <1>8

LEMMA RoundCounts ==
  ASSUME NEW r \in UploadT
  PROVE  Counted(Round(r), r.size + Len(r.buff), r.length) /\ Shorter(Round(r), r)
<1> DEFINE start == Find(r.buff, Boundary, 1)
           ended == IF start > 1 THEN EndPart(r, start - 1) ELSE Result("some", r)
           c == r.size + Len(r.buff)
<1>1. PICK l \in Nat : l = Len(r.buff)
  BY UploadTyped
<1>2. r.size \in Nat /\ r.buff \in Bytes /\ c \in Int
  BY UploadTyped
<1>3. start \in Nat /\ (start = 0 \/ (start >= 1 /\ start <= l))
  <2>1. 1 \in Nat /\ 1 > 0 /\ Boundary \in Bytes
    BY Bounds
  <2>2. PICK b \in Nat : b = Len(Boundary) /\ b > 0
    BY Bounds
  <2>3. start \in Nat /\ (start = 0 \/ (start >= 1 /\ start <= Len(r.buff) - Len(Boundary) + 1))
    BY <1>2, <2>1, FindNat
  <2> HIDE DEF start
  <2> QED BY <1>1, <2>2, <2>3
<1>4. Round(r) = IF start = 0 THEN Data(r)
                 ELSE IF ended.tag = "some" THEN AtBoundary(ended.req) ELSE ended
  BY DEF Round
<1> HIDE DEF start
<1>5. CASE start = 0
  <2>1. Round(r) = Data(r)
    BY <1>4, <1>5
  <2> QED BY <2>1, DataCounts DEF Shorter
<1>6. CASE start = 1
  <2>1. ended.tag = "some" /\ ended.req = r
    BY <1>6 DEF Result
  <2>2. Round(r) = AtBoundary(r)
    BY <1>4, <1>6, <2>1
  <2> QED BY <2>2, AtBoundaryCounts
<1>7. CASE start > 1
  <2>1. start - 1 \in 1..Len(r.buff)
    BY <1>1, <1>3, <1>7
  <2>2. ended = EndPart(r, start - 1)
    BY <1>7
  <2>3. Counted(ended, c, r.length) /\ Shorter(ended, r)
    BY <2>1, <2>2, EndPartCounts
  <2> HIDE DEF ended
  <2>4. CASE ended.tag = "some"
    <3> DEFINE t == ended.req
    <3>1. Round(r) = AtBoundary(t)
      BY <1>3, <1>4, <1>7, <2>4
    <3>2. t \in UploadT /\ t.length = r.length /\ t.size + Len(t.buff) = c
          /\ Len(t.buff) < Len(r.buff)
      BY <2>3, <2>4 DEF Counted, Shorter
    <3> HIDE DEF t
    <3>3. Counted(AtBoundary(t), t.size + Len(t.buff), t.length) /\ Shorter(AtBoundary(t), t)
      BY <3>2, AtBoundaryCounts
    <3>4. Counted(Round(r), c, r.length) /\ Shorter(Round(r), t)
      BY <3>1, <3>2, <3>3
    <3> DEFINE u == Round(r)
    <3>5. u.tag = "some" => Len(u.req.buff) < Len(t.buff) /\ Len(u.req.buff) \in Nat /\ Len(t.buff) \in Nat
      BY <3>2, <3>4, UploadTyped DEF Counted, Shorter
    <3> HIDE DEF u
    <3>6. u.tag = "some" => Len(u.req.buff) < Len(r.buff)
      BY <1>1, <3>2, <3>5
    <3> QED BY <3>4, <3>6 DEF Shorter, u
  <2>5. CASE ended.tag /= "some"
    <3>1. Round(r) = ended
      BY <1>3, <1>4, <1>7, <2>5
    <3> QED BY <2>3, <3>1
  <2> QED BY <2>4, <2>5
<1> QED BY <1>3, <1>5, <1>6, <1>7

\* The results g of n rounds.
Rounds(r, g, n) ==
  /\ g[0] = Result("some", r)
  /\ \A k \in 1..n : g[k] = IF g[k - 1].tag = "some" THEN Round(g[k - 1].req) ELSE g[k - 1]

LEMMA RoundsExist ==
  ASSUME NEW r, NEW n \in Nat
  PROVE  \E g : Rounds(r, g, n) /\ g = [k \in 0..n |-> g[k]]
<1> DEFINE Next1(x) == IF x.tag = "some" THEN Round(x.req) ELSE x
           W == {k \in 0..n : \E g : Rounds(r, g, k) /\ g = [j \in 0..k |-> g[j]]}
<1>1. 0 \in W
  <2> DEFINE g == [j \in 0..0 |-> Result("some", r)]
  <2>1. g[0] = Result("some", r) /\ g = [j \in 0..0 |-> g[j]]
    OBVIOUS
  <2>2. \A j \in 1..0 : FALSE
    OBVIOUS
  <2> HIDE DEF g
  <2>3. Rounds(r, g, 0)
    BY <2>1, <2>2 DEF Rounds
  <2>4. 0 \in 0..n
    OBVIOUS
  <2> QED BY <2>1, <2>3, <2>4
<1>2. ASSUME NEW k \in 1..n, k - 1 \in W PROVE k \in W
  <2>1. PICK g : Rounds(r, g, k - 1)
    BY <1>2
  <2>2. k \in Nat /\ k > 0 /\ k \in 0..n /\ 0 \in 0..k /\ 0 /= k
    OBVIOUS
  <2> DEFINE h == [j \in 0..k |-> IF j = k THEN Next1(g[k - 1]) ELSE g[j]]
  <2>3. h = [j \in 0..k |-> h[j]]
    OBVIOUS
  <2>4. h[0] = Result("some", r)
    BY <2>1, <2>2 DEF Rounds
  <2>5. ASSUME NEW j \in 1..k PROVE h[j] = Next1(h[j - 1])
    <3> HIDE DEF Next1
    <3>1. j \in 0..k /\ j - 1 \in 0..k /\ j - 1 /= k
      BY <2>2
    <3>2. h[j - 1] = g[j - 1]
      BY <3>1
    <3>3. CASE j = k
      BY <3>1, <3>2, <3>3
    <3>4. CASE j /= k
      <4>1. j \in 1..(k - 1)
        BY <2>2, <3>4
      <4>2. g[j] = Next1(g[j - 1])
        BY <2>1, <4>1 DEF Rounds, Next1
      <4> QED BY <3>1, <3>2, <3>4, <4>2
    <3> QED BY <3>3, <3>4
  <2> HIDE DEF h
  <2>6. Rounds(r, h, k)
    BY <2>4, <2>5 DEF Rounds
  <2> QED BY <2>2, <2>3, <2>6
<1>3. \A k \in 0..n : k \in W
  <2> HIDE DEF W
  <2> QED BY <1>1, <1>2, Climb
<1>4. n \in W
  <2> HIDE DEF W
  <2> QED BY <1>3
<1> QED BY <1>4

LEMMA PartsAreRounds ==
  ASSUME NEW r \in UploadT, NEW n, n = Len(r.buff) + 1
  PROVE  n \in Nat /\ \E g : Rounds(r, g, n) /\ Parts(r) = g[n]
<1>1. n \in Nat
  BY UploadTyped
<1> DEFINE F(h) == [k \in 0..n |-> IF k = 0 THEN Result("some", r)
                     ELSE IF h[k - 1].tag = "some" THEN Round(h[k - 1].req) ELSE h[k - 1]]
           c == CHOOSE h : h = F(h)
<1>2. Parts(r) = c[n]
  BY DEF Parts
<1>3. c = F(c)
  <2>1. PICK g : Rounds(r, g, n) /\ g = [k \in 0..n |-> g[k]]
    BY <1>1, RoundsExist
  <2>2. \A k \in 0..n : g[k] = IF k = 0 THEN Result("some", r)
                     ELSE IF g[k - 1].tag = "some" THEN Round(g[k - 1].req) ELSE g[k - 1]
    <3>1. \A k \in 0..n : k /= 0 => k \in 1..n
      BY <1>1
    <3> QED BY <2>1, <3>1 DEF Rounds
  <2>3. g = F(g)
    BY <2>1, <2>2
  <2> HIDE DEF F
  <2> QED BY <2>3
<1> HIDE DEF c
<1>4. \A k \in 0..n : c[k] = IF k = 0 THEN Result("some", r)
                     ELSE IF c[k - 1].tag = "some" THEN Round(c[k - 1].req) ELSE c[k - 1]
  <2>1. \A k \in 0..n : F(c)[k] = IF k = 0 THEN Result("some", r)
                     ELSE IF c[k - 1].tag = "some" THEN Round(c[k - 1].req) ELSE c[k - 1]
    OBVIOUS
  <2> HIDE DEF F
  <2> QED BY <1>3, <2>1
<1>5. Rounds(r, c, n)
  <2>1. 0 \in 0..n /\ \A k \in 1..n : k \in 0..n /\ k /= 0
    BY <1>1
  <2> QED BY <1>4, <2>1 DEF Rounds
<1> QED BY <1>1, <1>2, <1>5

LEMMA PartsCounts ==
  ASSUME NEW r \in UploadT
  PROVE  /\ Counted(Parts(r), r.size + Len(r.buff), r.length)
         /\ Parts(r).tag /= "some"
<1> DEFINE c == r.size + Len(r.buff)
           n == Len(r.buff) + 1
<1>1. PICK l \in Nat : l = Len(r.buff)
  BY UploadTyped
<1>2. PICK g : Rounds(r, g, n) /\ Parts(r) = g[n]
  BY PartsAreRounds
<1>3. n \in Nat /\ c \in Int /\ n = l + 1
  BY <1>1, UploadTyped
<1> HIDE DEF c, n
<1> DEFINE Ok(k) == /\ Counted(g[k], c, r.length)
                    /\ g[k].tag = "some" => Len(g[k].req.buff) <= l - k
           W == {k \in 0..n : Ok(k)}
<1>4. 0 \in W
  <2>1. g[0] = Result("some", r)
    BY <1>2 DEF Rounds
  <2>2. g[0].tag = "some" /\ g[0].req = r
    BY <2>1 DEF Result
  <2>3. Counted(g[0], c, r.length)
    <3>1. g[0].req.size + Len(g[0].req.buff) = c
      BY <2>2 DEF c
    <3> QED BY <1>3, <2>2, <3>1, CountedMore
  <2>4. 0 \in 0..n /\ Len(g[0].req.buff) <= l - 0
    BY <1>1, <1>3, <2>2
  <2> QED BY <2>3, <2>4
<1>5. ASSUME NEW k \in 1..n, k - 1 \in W PROVE k \in W
  <2> DEFINE x == g[k - 1]
             y == g[k]
  <2>1. y = IF x.tag = "some" THEN Round(x.req) ELSE x
    BY <1>2 DEF Rounds
  <2>2. Counted(x, c, r.length) /\ (x.tag = "some" => Len(x.req.buff) <= l - (k - 1))
    <3>1. Ok(k - 1)
      <4> HIDE DEF Ok
      <4> QED BY <1>5
    <3> QED BY <3>1
  <2>3. k \in 0..n /\ k \in Int
    BY <1>3
  <2> HIDE DEF x, y
  <2>4. CASE x.tag = "some"
    <3> DEFINE q == x.req
    <3>1. q \in UploadT /\ q.length = r.length /\ q.size + Len(q.buff) = c
          /\ Len(q.buff) <= l - (k - 1)
      BY <2>2, <2>4 DEF Counted
    <3>2. y = Round(q)
      BY <2>1, <2>4
    <3> HIDE DEF q
    <3>3. Counted(y, c, r.length) /\ Shorter(y, q)
      BY <3>1, <3>2, RoundCounts
    <3>4. y.tag = "some" => Len(y.req.buff) <= l - k
      <4>1. SUFFICES ASSUME y.tag = "some" PROVE Len(y.req.buff) <= l - k
        OBVIOUS
      <4>2. y.req \in UploadT /\ Len(y.req.buff) < Len(q.buff)
        BY <3>3, <4>1 DEF Counted, Shorter
      <4>3. PICK a \in Nat, b \in Nat : a = Len(y.req.buff) /\ b = Len(q.buff)
        BY <3>1, <4>2, UploadTyped
      <4> QED BY <1>1, <2>3, <3>1, <4>2, <4>3
    <3> QED BY <2>3, <3>3, <3>4 DEF y
  <2>5. CASE x.tag /= "some"
    BY <2>1, <2>2, <2>3, <2>5 DEF y
  <2> QED BY <2>4, <2>5
<1>6. \A k \in 0..n : k \in W
  <2> HIDE DEF W
  <2> QED BY <1>3, <1>4, <1>5, Climb
<1>7. n \in W
  <2> HIDE DEF W
  <2> QED BY <1>3, <1>6
<1> DEFINE z == g[n]
<1>8. Counted(z, c, r.length) /\ (z.tag = "some" => Len(z.req.buff) <= l - n)
  <2>1. Ok(n)
    <3> HIDE DEF Ok
    <3> QED BY <1>7
  <2> QED BY <2>1
<1>9. Parts(r) = z
  BY <1>2
<1> HIDE DEF z
<1>10. z.tag /= "some"
  <2>1. SUFFICES ASSUME z.tag = "some" PROVE FALSE
    OBVIOUS
  <2>2. z.req \in UploadT
    BY <1>8 DEF Counted
  <2>3. PICK a \in Nat : a = Len(z.req.buff)
    BY <2>2, UploadTyped
  <2> QED BY <1>1, <1>3, <1>8, <2>1, <2>3
<1> QED BY <1>8, <1>9, <1>10 DEF c

LEMMA CallCounts ==
  ASSUME NEW r \in UploadT
  PROVE  /\ Counted(ReadMultipart(r), r.size + Len(r.buff), r.length)
         /\ ReadMultipart(r).tag /= "some"
<1>1. CASE MayBeBoundary(r.buff)
  <2> DEFINE res == Result("none", r)
  <2>1. ReadMultipart(r) = res
    BY <1>1 DEF ReadMultipart
  <2>2. res.tag = "none" /\ res.req = r
    BY DEF Result
  <2> HIDE DEF res
  <2>3. r.size + Len(r.buff) \in Int
    BY UploadTyped
  <2>4. Counted(res, r.size + Len(r.buff), r.length)
    BY <2>2, <2>3, CountedMore
  <2> QED BY <2>1, <2>2, <2>4
<1>2. CASE ~MayBeBoundary(r.buff)
  BY <1>2, PartsCounts DEF ReadMultipart
<1> QED BY <1>1, <1>2

-----------------------------------------------------------------------------
(* The body of a form. *)

Bodies(f) == [k \in 1..Len(f) |-> PartBytes(f[k])]

\* Where the boundary before part k + 1 begins, or the last one.
Start(f, k) == Len(Upto(Bodies(f), k))

Width == Len(Boundary)

LEMMA WidthIs == Width \in Nat /\ Width > 0 /\ Width = Len(Boundary)
BY Bounds DEF Width

LEMMA Places ==
  ASSUME NEW l \in Nat, NEW d \in Nat
  PROVE  /\ \A i \in 1..(l + 7) : /\ i \in 1..(l + 7 + d + 2) /\ i <= l + 7 + d
                                  /\ i \in 1..(l + 7 + d) /\ i <= l + 7
         /\ (l + 7 + d + 1) - (l + 7 + d) = 1 /\ (l + 7 + d + 2) - (l + 7 + d) = 2
         /\ l + 7 + d + 1 \in 1..(l + 7 + d + 2) /\ l + 7 + d + 2 \in 1..(l + 7 + d + 2)
         /\ ~(l + 7 + d + 1 <= l + 7 + d) /\ ~(l + 7 + d + 2 <= l + 7 + d)
OBVIOUS

\* What the header of a part says of it.
LEMMA HeaderIs ==
  ASSUME NEW part \in Part
  PROVE  /\ Header(part) \in Byte /\ Header(part) \notin {"cr", "lf"}
         /\ Header(part) \in OfFile <=> part.file
         /\ Header(part) \in OfPanic <=> part.keys = "panic"
         /\ KeysOf(Header(part)) = "file" <=> part.file /\ part.keys = "array"
         /\ KeysOf(Header(part)) = "field" <=> ~part.file /\ part.keys = "array"
<1>1. part.file \in BOOLEAN /\ part.keys \in {"array", "object", "panic"}
  BY DEF Part
<1>2. Header(part) = IF part.file
                       THEN IF part.keys = "array" THEN "file"
                            ELSE IF part.keys = "object" THEN "file in object" ELSE "file in panic"
                       ELSE IF part.keys = "array" THEN "field"
                            ELSE IF part.keys = "object" THEN "field in object" ELSE "field in panic"
  <2>1. CASE part.file
    <3>1. CASE part.keys = "array"
      BY <2>1, <3>1 DEF Header
    <3>2. CASE part.keys = "object"
      BY <2>1, <3>2 DEF Header
    <3>3. CASE part.keys = "panic"
      BY <2>1, <3>3 DEF Header
    <3> QED BY <1>1, <3>1, <3>2, <3>3, Zenon
  <2>2. CASE ~part.file
    <3>1. CASE part.keys = "array"
      BY <2>2, <3>1 DEF Header
    <3>2. CASE part.keys = "object"
      BY <2>2, <3>2 DEF Header
    <3>3. CASE part.keys = "panic"
      BY <2>2, <3>3 DEF Header
    <3> QED BY <1>1, <3>1, <3>2, <3>3, Zenon
  <2> QED BY <2>1, <2>2, Zenon
<1>3. Header(part) \in Headers
  BY <1>2 DEF Headers
<1>4. Headers \subseteq Byte
  BY MultipartAssumption
<1>5. Header(part) \notin {"cr", "lf"}
  BY <1>3 DEF Headers
<1>6. Header(part) \in OfFile <=> part.file
  BY <1>1, <1>2 DEF OfFile
<1>7. Header(part) \in OfPanic <=> part.keys = "panic"
  BY <1>1, <1>2 DEF OfPanic
<1>8. KeysOf(Header(part)) = "file" <=> part.file /\ part.keys = "array"
  BY <1>1, <1>2 DEF KeysOf
<1>9. KeysOf(Header(part)) = "field" <=> ~part.file /\ part.keys = "array"
  BY <1>1, <1>2 DEF KeysOf
<1> QED BY <1>3, <1>4, <1>5, <1>6, <1>7, <1>8, <1>9

\* PartBytes, byte by byte.
LEMMA PartBytesAre ==
  ASSUME NEW part \in Part, NEW d \in Nat, d = Len(part.data)
  PROVE  LET b == PartBytes(part)
         IN  /\ b \in Bytes /\ Len(b) = Width + 7 + d + 2
             /\ \A i \in 1..Width : b[i] = Boundary[i]
             /\ b[Width + 1] = "cr" /\ b[Width + 2] = "lf"
             /\ b[Width + 3] = Header(part)
             /\ b[Width + 4] = "cr" /\ b[Width + 5] = "lf" /\ b[Width + 6] = "cr" /\ b[Width + 7] = "lf"
             /\ \A i \in 1..d : b[Width + 7 + i] = part.data[i]
             /\ b[Width + 7 + d + 1] = "cr" /\ b[Width + 7 + d + 2] = "lf"
<1> DEFINE kind == <<Header(part)>>
           b1 == Boundary \o Break
           b2 == b1 \o kind
           b3 == b2 \o Break
           b4 == b3 \o Break
           b5 == b4 \o part.data
           b6 == b5 \o Break
<1>1. PartBytes(part) = b6
  BY DEF PartBytes
<1>2. /\ Boundary \in Bytes /\ Width \in Nat
      /\ Break \in Bytes /\ Len(Break) = 2 /\ Break[1] = "cr" /\ Break[2] = "lf"
  BY Bounds, WidthIs
<1>3. kind \in Bytes /\ Len(kind) = 1 /\ kind[1] = Header(part)
  <2>1. Header(part) \in Byte
    BY HeaderIs
  <2> QED BY <2>1 DEF Bytes
<1>4. part.data \in Bytes
  BY DEF Part, Bytes
<1>5. d \in Nat /\ Width \in Nat
  BY <1>2, <1>4, BytesLen
<1> HIDE DEF kind
<1>6. \A p, q \in Bytes :
        /\ p \o q \in Bytes /\ Len(p \o q) = Len(p) + Len(q)
        /\ \A i \in 1..(Len(p) + Len(q)) : (p \o q)[i] = IF i <= Len(p) THEN p[i] ELSE q[i - Len(p)]
  BY ConcatProperties DEF Bytes
<1>7. b1 \in Bytes /\ Len(b1) = Width + 2
      /\ \A i \in 1..(Width + 2) : b1[i] = IF i <= Width THEN Boundary[i] ELSE Break[i - Width]
  <2>1. /\ b1 \in Bytes /\ Len(b1) = Len(Boundary) + Len(Break)
        /\ \A i \in 1..(Len(Boundary) + Len(Break)) :
             b1[i] = IF i <= Len(Boundary) THEN Boundary[i] ELSE Break[i - Len(Boundary)]
    BY <1>2, <1>6
  <2> HIDE DEF b1
  <2> QED BY <1>2, <2>1, WidthIs, Zenon
<1> HIDE DEF b1
<1>8. b2 \in Bytes /\ Len(b2) = Width + 3
      /\ \A i \in 1..(Width + 3) : b2[i] = IF i <= Width + 2 THEN b1[i] ELSE kind[i - (Width + 2)]
  <2>1. /\ b2 \in Bytes /\ Len(b2) = Len(b1) + Len(kind)
        /\ \A i \in 1..(Len(b1) + Len(kind)) : b2[i] = IF i <= Len(b1) THEN b1[i] ELSE kind[i - Len(b1)]
    BY <1>3, <1>6, <1>7
  <2> HIDE DEF b2
  <2>2. Len(b1) + Len(kind) = Width + 3 /\ Len(b1) = Width + 2
    BY <1>2, <1>3, <1>7
  <2> QED BY <2>1, <2>2
<1> HIDE DEF b2
<1>9. b3 \in Bytes /\ Len(b3) = Width + 5
      /\ \A i \in 1..(Width + 5) : b3[i] = IF i <= Width + 3 THEN b2[i] ELSE Break[i - (Width + 3)]
  <2>1. /\ b3 \in Bytes /\ Len(b3) = Len(b2) + Len(Break)
        /\ \A i \in 1..(Len(b2) + Len(Break)) : b3[i] = IF i <= Len(b2) THEN b2[i] ELSE Break[i - Len(b2)]
    BY <1>2, <1>6, <1>8
  <2> HIDE DEF b3
  <2>2. Len(b2) + Len(Break) = Width + 5 /\ Len(b2) = Width + 3
    BY <1>2, <1>8
  <2> QED BY <2>1, <2>2
<1> HIDE DEF b3
<1>10. b4 \in Bytes /\ Len(b4) = Width + 7
      /\ \A i \in 1..(Width + 7) : b4[i] = IF i <= Width + 5 THEN b3[i] ELSE Break[i - (Width + 5)]
  <2>1. /\ b4 \in Bytes /\ Len(b4) = Len(b3) + Len(Break)
        /\ \A i \in 1..(Len(b3) + Len(Break)) : b4[i] = IF i <= Len(b3) THEN b3[i] ELSE Break[i - Len(b3)]
    BY <1>2, <1>6, <1>9
  <2> HIDE DEF b4
  <2>2. Len(b3) + Len(Break) = Width + 7 /\ Len(b3) = Width + 5
    BY <1>2, <1>9
  <2> QED BY <2>1, <2>2
<1> HIDE DEF b4
<1>11. b5 \in Bytes /\ Len(b5) = Width + 7 + d
      /\ \A i \in 1..(Width + 7 + d) : b5[i] = IF i <= Width + 7 THEN b4[i] ELSE part.data[i - (Width + 7)]
  <2>1. /\ b5 \in Bytes /\ Len(b5) = Len(b4) + Len(part.data)
        /\ \A i \in 1..(Len(b4) + Len(part.data)) : b5[i] = IF i <= Len(b4) THEN b4[i] ELSE part.data[i - Len(b4)]
    BY <1>4, <1>6, <1>10
  <2> HIDE DEF b5
  <2>2. Len(b4) + Len(part.data) = Width + 7 + d /\ Len(b4) = Width + 7
    BY <1>2, <1>5, <1>10
  <2> QED BY <2>1, <2>2
<1> HIDE DEF b5
<1>12. b6 \in Bytes /\ Len(b6) = Width + 7 + d + 2
      /\ \A i \in 1..(Width + 7 + d + 2) : b6[i] = IF i <= Width + 7 + d THEN b5[i] ELSE Break[i - (Width + 7 + d)]
  <2>1. /\ b6 \in Bytes /\ Len(b6) = Len(b5) + Len(Break)
        /\ \A i \in 1..(Len(b5) + Len(Break)) : b6[i] = IF i <= Len(b5) THEN b5[i] ELSE Break[i - Len(b5)]
    BY <1>2, <1>6, <1>11
  <2> HIDE DEF b6
  <2>2. Len(b5) + Len(Break) = Width + 7 + d + 2 /\ Len(b5) = Width + 7 + d
    BY <1>2, <1>5, <1>11
  <2> QED BY <2>1, <2>2
<1> HIDE DEF b6
<1>13. \A i \in 1..(Width + 7) : b6[i] = b4[i]
  <2> TAKE i \in 1..(Width + 7)
  <2>1. i \in 1..(Width + 7 + d + 2) /\ i <= Width + 7 + d /\ i \in 1..(Width + 7 + d) /\ i <= Width + 7
    BY <1>5, Places
  <2> QED BY <1>11, <1>12, <2>1
<1>14. \A i \in 1..Width : b6[i] = Boundary[i]
  <2> TAKE i \in 1..Width
  <2>1. i \in 1..(Width + 7) /\ i <= Width + 5 /\ i \in 1..(Width + 5) /\ i <= Width + 3 /\ i \in 1..(Width + 3)
        /\ i <= Width + 2 /\ i \in 1..(Width + 2) /\ i <= Width
    BY <1>2
  <2> QED BY <1>7, <1>8, <1>9, <1>10, <1>13, <2>1
<1>15. b6[Width + 1] = "cr" /\ b6[Width + 2] = "lf"
  <2>1. b6[Width + 1] = b1[Width + 1] /\ b6[Width + 2] = b1[Width + 2]
    <3>1. b6[Width + 1] = b4[Width + 1] /\ b6[Width + 2] = b4[Width + 2]
      BY <1>2, <1>13
    <3>2. b4[Width + 1] = b3[Width + 1] /\ b4[Width + 2] = b3[Width + 2]
      BY <1>2, <1>10
    <3>3. b3[Width + 1] = b2[Width + 1] /\ b3[Width + 2] = b2[Width + 2]
      BY <1>2, <1>9
    <3>4. b2[Width + 1] = b1[Width + 1] /\ b2[Width + 2] = b1[Width + 2]
      BY <1>2, <1>8
    <3> QED BY <3>1, <3>2, <3>3, <3>4
  <2>2. b1[Width + 1] = Break[1] /\ b1[Width + 2] = Break[2]
    <3>1. (Width + 1) - Width = 1 /\ (Width + 2) - Width = 2
      BY <1>2
    <3> QED BY <1>2, <1>7, <3>1
  <2> QED BY <1>2, <2>1, <2>2
<1>16. b6[Width + 3] = kind[1]
  <2>1. b6[Width + 3] = b4[Width + 3]
    BY <1>2, <1>13
  <2>2. b4[Width + 3] = b3[Width + 3]
    BY <1>2, <1>10
  <2>3. b3[Width + 3] = b2[Width + 3]
    BY <1>2, <1>9
  <2>4. (Width + 3) - (Width + 2) = 1
    BY <1>2
  <2>5. b2[Width + 3] = kind[1]
    BY <1>2, <1>8, <2>4
  <2> QED BY <2>1, <2>2, <2>3, <2>5
<1>17. b6[Width + 4] = "cr" /\ b6[Width + 5] = "lf"
  <2>1. b6[Width + 4] = b4[Width + 4] /\ b6[Width + 5] = b4[Width + 5]
    BY <1>2, <1>13
  <2>2. b4[Width + 4] = b3[Width + 4] /\ b4[Width + 5] = b3[Width + 5]
    BY <1>2, <1>10
  <2>3. (Width + 4) - (Width + 3) = 1 /\ (Width + 5) - (Width + 3) = 2
    BY <1>2
  <2>4. b3[Width + 4] = Break[1] /\ b3[Width + 5] = Break[2]
    BY <1>2, <1>9, <2>3
  <2> QED BY <1>2, <2>1, <2>2, <2>4
<1>18. b6[Width + 6] = "cr" /\ b6[Width + 7] = "lf"
  <2>1. b6[Width + 6] = b4[Width + 6] /\ b6[Width + 7] = b4[Width + 7]
    BY <1>2, <1>13
  <2>2. (Width + 6) - (Width + 5) = 1 /\ (Width + 7) - (Width + 5) = 2
    BY <1>2
  <2>3. b4[Width + 6] = Break[1] /\ b4[Width + 7] = Break[2]
    BY <1>2, <1>10, <2>2
  <2> QED BY <1>2, <2>1, <2>3
<1>19. ASSUME NEW i \in 1..d PROVE b6[Width + 7 + i] = part.data[i]
  <2>1. PICK m \in Nat : m = Width + 7
    <3>1. Width + 7 \in Nat
      BY <1>5
    <3> QED BY <3>1
  <2>2. i \in Nat /\ 1 <= i /\ i <= d
    BY <1>5
  <2>3. m + i \in 1..(m + d + 2) /\ m + i <= m + d /\ m + i \in 1..(m + d)
        /\ ~(m + i <= m) /\ (m + i) - m = i
    BY <2>2
  <2>4. /\ \A j \in 1..(m + d) : b5[j] = IF j <= m THEN b4[j] ELSE part.data[j - m]
        /\ \A j \in 1..(m + d + 2) : b6[j] = IF j <= m + d THEN b5[j] ELSE Break[j - (m + d)]
    BY <1>11, <1>12, <2>1, Zenon
  <2>5. b6[m + i] = part.data[i]
    BY <2>3, <2>4
  <2> QED BY <2>1, <2>5
<1>20. b6[Width + 7 + d + 1] = "cr" /\ b6[Width + 7 + d + 2] = "lf"
  <2>1. (Width + 7 + d + 1) - (Width + 7 + d) = 1 /\ (Width + 7 + d + 2) - (Width + 7 + d) = 2
        /\ Width + 7 + d + 1 \in 1..(Width + 7 + d + 2) /\ Width + 7 + d + 2 \in 1..(Width + 7 + d + 2)
        /\ ~(Width + 7 + d + 1 <= Width + 7 + d) /\ ~(Width + 7 + d + 2 <= Width + 7 + d)
    BY <1>5, Places
  <2> QED BY <1>2, <1>12, <2>1
<1> QED BY ZenonT(40), <1>1, <1>2, <1>3, <1>5, <1>12, <1>14, <1>15, <1>16, <1>17, <1>18, <1>19, <1>20

LEMMA FormTyped ==
  ASSUME NEW f \in Form
  PROVE  /\ f \in Seq(Part) /\ Len(f) \in Nat
         /\ \A k \in 1..Len(f) : /\ f[k] \in Part /\ f[k].data \in Bytes /\ f[k].file \in BOOLEAN
                                 /\ Len(f[k].data) \in Nat
<1>1. f \in Seq(Part)
  BY MultipartAssumption
<1>2. Len(f) \in Nat
  BY <1>1
<1>3. ASSUME NEW k \in 1..Len(f)
      PROVE  f[k] \in Part /\ f[k].data \in Bytes /\ f[k].file \in BOOLEAN /\ Len(f[k].data) \in Nat
  <2>1. f[k] \in Part
    BY <1>1, ElementOfSeq
  <2>2. f[k].data \in Bytes /\ f[k].file \in BOOLEAN
    BY <2>1 DEF Part, Bytes
  <2> QED BY <2>1, <2>2, BytesLen
<1> QED BY <1>1, <1>2, <1>3

LEMMA BodiesTyped ==
  ASSUME NEW f \in Form
  PROVE  /\ Bodies(f) \in Seq(Bytes) /\ Len(Bodies(f)) = Len(f)
         /\ \A k \in 1..Len(f) : Bodies(f)[k] = PartBytes(f[k]) /\ PartBytes(f[k]) \in Bytes
<1>1. PICK n \in Nat : n = Len(f)
  BY FormTyped
<1>2. \A k \in 1..n : PartBytes(f[k]) \in Bytes
  <2> TAKE k \in 1..n
  <2>1. f[k] \in Part /\ Len(f[k].data) \in Nat /\ Len(Boundary) \in Nat
    BY <1>1, FormTyped, Bounds
  <2> QED BY <2>1, PartBytesAre
<1>3. Bodies(f) = [k \in 1..n |-> PartBytes(f[k])]
  BY <1>1 DEF Bodies
<1>4. Bodies(f) \in Seq(Bytes) /\ Len(Bodies(f)) = n
  BY <1>2, <1>3
<1>5. \A k \in 1..n : Bodies(f)[k] = PartBytes(f[k])
  BY <1>3
<1> QED BY <1>1, <1>2, <1>4, <1>5

\* Where the parts of a body begin.
LEMMA Starts ==
  ASSUME NEW f \in Form
  PROVE  /\ Start(f, 0) = 0
         /\ \A k \in 0..Len(f) : Start(f, k) \in Nat
         /\ \A k \in 1..Len(f) : Start(f, k) = Start(f, k - 1) + Width + 9 + Len(f[k].data)
         /\ \A k \in 0..Len(f) : \A j \in 0..k : Start(f, j) <= Start(f, k)
         /\ \A k \in 0..Len(f) : \A j \in 0..(k - 1) : Start(f, j) + Width + 9 <= Start(f, k)
<1> DEFINE s == Bodies(f)
<1>0. Width \in Nat
  BY WidthIs
<1>1. PICK n \in Nat : n = Len(f)
  BY FormTyped
<1>2. s \in Seq(Bytes) /\ Len(s) = n /\ \A k \in 1..n : s[k] = PartBytes(f[k])
  BY <1>1, BodiesTyped
<1> HIDE DEF s
<1>3. /\ Upto(s, 0) = <<>>
      /\ \A k \in 0..n : Upto(s, k) \in Bytes /\ Len(Upto(s, k)) \in Nat
      /\ \A k \in 1..n : Upto(s, k) = Upto(s, k - 1) \o s[k]
  BY <1>2, UptoStep DEF Bytes
<1>4. Start(f, 0) = 0
  <2>1. Len(<<>>) = 0
    OBVIOUS
  <2> QED BY <1>3, <2>1 DEF Start, s
<1>5. \A k \in 0..n : Start(f, k) \in Nat
  BY <1>3 DEF Start, s
<1>6. ASSUME NEW k \in 1..n PROVE Start(f, k) = Start(f, k - 1) + Width + 9 + Len(f[k].data)
  <2> DEFINE p == Upto(s, k - 1)
             q == s[k]
  <2>1. k - 1 \in 0..n
    BY <1>1
  <2>2. p \in Bytes /\ Upto(s, k) = p \o q
    BY <1>3, <2>1
  <2>3. PICK d \in Nat : d = Len(f[k].data)
    BY <1>1, FormTyped
  <2>4. q \in Bytes /\ Len(q) = Width + 7 + d + 2
    <3>1. f[k] \in Part
      BY <1>1, FormTyped
    <3>2. PartBytes(f[k]) \in Bytes /\ Len(PartBytes(f[k])) = Width + 7 + d + 2
      BY <2>3, <3>1, PartBytesAre
    <3> QED BY <1>2, <3>2
  <2> HIDE DEF p, q
  <2>5. Len(p \o q) = Len(p) + Len(q)
    BY <2>2, <2>4, ConcatProperties DEF Bytes
  <2>6. PICK a \in Nat : a = Len(p)
    BY <2>2, BytesLen
  <2>7. Start(f, k - 1) = a /\ Start(f, k) = Len(p \o q)
    BY <2>2, <2>6 DEF Start, p, s
  <2>8. Start(f, k) = a + (Width + 7 + d + 2)
    BY <2>4, <2>5, <2>6, <2>7, Zenon
  <2>9. a + (Width + 7 + d + 2) = a + Width + 9 + d
    BY <1>0
  <2> QED BY <2>3, <2>7, <2>8, <2>9, Zenon
<1>7. ASSUME NEW k \in 0..n, NEW j \in 0..k PROVE Start(f, j) <= Start(f, k)
  <2>1. j \in 0..Len(s) /\ k \in j..Len(s)
    BY <1>1, <1>2
  <2>2. s \in Seq(Seq(Byte))
    BY <1>2 DEF Bytes
  <2> QED BY <2>1, <2>2, UptoGrows DEF Start, s
<1>8. ASSUME NEW k \in 0..n, NEW j \in 0..(k - 1) PROVE Start(f, j) + Width + 9 <= Start(f, k)
  <2>1. k \in 1..n /\ k - 1 \in 0..n /\ j \in 0..n
    BY <1>1
  <2>2. PICK d \in Nat : d = Len(f[k].data)
    BY <1>1, <2>1, FormTyped
  <2>3. PICK a \in Nat, b \in Nat, c \in Nat :
          a = Start(f, j) /\ b = Start(f, k - 1) /\ c = Start(f, k)
    BY <1>5, <2>1
  <2>4. a <= b /\ c = b + Width + 9 + d
    BY <1>6, <1>7, <2>1, <2>2, <2>3, Zenon
  <2>5. a + Width + 9 <= c
    BY <1>0, <2>4
  <2> QED BY <2>3, <2>5, Zenon
<1> QED BY <1>1, <1>4, <1>5, <1>6, <1>7, <1>8

\* What is where in a body.
LEMMA BodyAre ==
  ASSUME NEW f \in Form, NEW n \in Nat, n = Len(f)
  PROVE  LET b == BodyBytes(f)
         IN  /\ b \in Bytes /\ Len(b) = Start(f, n) + Width + 4
             /\ \A k \in 1..n : \A i \in 1..Len(PartBytes(f[k])) :
                  b[Start(f, k - 1) + i] = PartBytes(f[k])[i]
             /\ \A i \in 1..Width : b[Start(f, n) + i] = Boundary[i]
             /\ \A i \in 1..4 : b[Start(f, n) + Width + i] = Final[i]
<1> DEFINE s == Bodies(f)
           all == Upto(s, n)
           ab == all \o Boundary
           b == ab \o Final
<1>0. Width \in Nat
  BY WidthIs
<1>1. s \in Seq(Bytes) /\ Len(s) = n /\ \A k \in 1..n : s[k] = PartBytes(f[k])
  BY BodiesTyped
<1>2. BodyBytes(f) = b
  <2>1. FlattenSeq(s) = all
    BY <1>1, UptoStep DEF Bytes
  <2> HIDE DEF all
  <2> QED BY <2>1 DEF BodyBytes, Bodies
<1> HIDE DEF s
<1>3. /\ \A k \in 0..n : Upto(s, k) \in Bytes /\ Len(Upto(s, k)) \in Nat
      /\ \A k \in 1..n : Upto(s, k) = Upto(s, k - 1) \o s[k]
  BY <1>1, UptoStep DEF Bytes
<1>4. PICK e \in Nat : e = Start(f, n) /\ e = Len(all) /\ all \in Bytes
  <2>1. n \in 0..n
    OBVIOUS
  <2> QED BY <1>3, <2>1 DEF Start, s
<1>5. Boundary \in Bytes /\ Final \in Bytes /\ Len(Final) = 4
  BY Bounds
<1> HIDE DEF all
<1>6. /\ ab \in Bytes /\ Len(ab) = e + Width
      /\ \A i \in 1..(e + Width) : ab[i] = IF i <= e THEN all[i] ELSE Boundary[i - e]
  <2>1. /\ ab \in Bytes /\ Len(ab) = Len(all) + Len(Boundary)
        /\ \A i \in 1..(Len(all) + Len(Boundary)) :
             ab[i] = IF i <= Len(all) THEN all[i] ELSE Boundary[i - Len(all)]
    BY <1>4, <1>5, ConcatProperties DEF Bytes
  <2> HIDE DEF ab
  <2> QED BY <1>4, <2>1, WidthIs, Zenon
<1> HIDE DEF ab
<1>7. /\ b \in Bytes /\ Len(b) = e + Width + 4
      /\ \A i \in 1..(e + Width + 4) : b[i] = IF i <= e + Width THEN ab[i] ELSE Final[i - (e + Width)]
  <2>1. /\ b \in Bytes /\ Len(b) = Len(ab) + Len(Final)
        /\ \A i \in 1..(Len(ab) + Len(Final)) : b[i] = IF i <= Len(ab) THEN ab[i] ELSE Final[i - Len(ab)]
    BY <1>5, <1>6, ConcatProperties DEF Bytes
  <2> HIDE DEF b
  <2>2. Len(ab) = e + Width /\ Len(Final) = 4 /\ Len(ab) + Len(Final) = e + Width + 4
    BY <1>5, <1>6
  <2> QED BY <2>1, <2>2, Zenon
<1> HIDE DEF b
<1>8. \A i \in 1..e : b[i] = all[i]
  <2> TAKE i \in 1..e
  <2>1. i \in 1..(e + Width + 4) /\ i <= e + Width /\ i \in 1..(e + Width) /\ i <= e
    BY <1>0
  <2> QED BY <1>6, <1>7, <2>1
<1>9. ASSUME NEW i \in 1..Width PROVE b[e + i] = Boundary[i]
  <2>1. e + i \in 1..(e + Width + 4) /\ e + i <= e + Width /\ e + i \in 1..(e + Width) /\ ~(e + i <= e)
        /\ (e + i) - e = i
    <3>1. i \in Nat /\ 1 <= i /\ i <= Width
      BY <1>0
    <3> QED BY <1>0, <3>1
  <2> QED BY <1>6, <1>7, <2>1
<1>10. ASSUME NEW i \in 1..4 PROVE b[e + Width + i] = Final[i]
  <2>1. e + Width + i \in 1..(e + Width + 4) /\ ~(e + Width + i <= e + Width) /\ (e + Width + i) - (e + Width) = i
    BY <1>0
  <2> QED BY <1>7, <2>1
<1>11. ASSUME NEW k \in 1..n, NEW i \in 1..Len(PartBytes(f[k]))
       PROVE  b[Start(f, k - 1) + i] = PartBytes(f[k])[i]
  <2> DEFINE p == Upto(s, k - 1)
             q == s[k]
             u == Upto(s, k)
  <2>1. k - 1 \in 0..n /\ k \in 0..n
    OBVIOUS
  <2>2. p \in Bytes /\ u = p \o q /\ u \in Bytes
    BY <1>3, <2>1
  <2>3. q = PartBytes(f[k])
    BY <1>1
  <2>4. q \in Bytes
    BY <2>3, BodiesTyped
  <2>5. Len(u) <= Len(all) /\ \A j \in 1..Len(u) : all[j] = u[j]
    <3>1. k \in 0..Len(s) /\ n \in k..Len(s)
      BY <1>1, <2>1
    <3>2. s \in Seq(Seq(Byte))
      BY <1>1 DEF Bytes
    <3> QED BY <3>1, <3>2, UptoGrows DEF all
  <2>6. Start(f, k - 1) = Len(p)
    BY DEF Start, s
  <2> HIDE DEF p, q, u
  <2>7. PICK a \in Nat, c \in Nat : a = Len(p) /\ c = Len(q)
    BY <2>2, <2>4, BytesLen
  <2>8. Len(u) = a + c /\ \A j \in 1..(a + c) : u[j] = IF j <= a THEN p[j] ELSE q[j - a]
    BY <2>2, <2>4, <2>7, ConcatProperties DEF Bytes
  <2>9. i \in 1..c
    BY <2>3, <2>7
  <2>10. a + i \in 1..(a + c) /\ ~(a + i <= a) /\ (a + i) - a = i
    BY <2>9
  <2>11. u[a + i] = q[i]
    BY <2>8, <2>10
  <2>12. a + i \in 1..Len(u) /\ a + i \in 1..e
    BY <1>4, <2>5, <2>8, <2>10
  <2>13. all[a + i] = q[i] /\ b[a + i] = all[a + i]
    BY <1>8, <2>5, <2>11, <2>12
  <2> QED BY <2>3, <2>6, <2>7, <2>13
<1> QED BY <1>2, <1>4, <1>7, <1>9, <1>10, <1>11

-----------------------------------------------------------------------------
(* What is skipped is what is left. *)

UploadTypes ==
  /\ form \in Form /\ wire \in Bytes /\ req \in UploadT
  /\ upload \in {"read", "parse"} \cup (TakeT \ {"some", "none"})

LEMMA SkipInit == UploadInit => UploadTypes /\ SkipIsRest
<1> SUFFICES ASSUME UploadInit PROVE UploadTypes /\ SkipIsRest
  OBVIOUS
<1> DEFINE b == BodyBytes(form)
<1>1. form \in Form /\ wire = b /\ upload = "read"
      /\ req = [buff |-> <<>>, size |-> 0, length |-> Len(b), skip |-> 0,
            isWrite |-> FALSE, keys |-> "none", disk |-> <<>>, body |-> <<>>,
            files |-> 0, filesTotal |-> 0, fields |-> 0, fieldsTotal |-> 0,
            parts |-> <<>>]
  BY DEF UploadInit
<1>2. b \in Bytes
  <2>1. Len(form) \in Nat
    BY <1>1, FormTyped
  <2> QED BY <1>1, <2>1, BodyAre
<1>3. Len(b) \in Nat
  BY <1>2, BytesLen
<1> HIDE DEF b
<1>4. <<>> \in Bytes /\ <<>> \in Seq(Entry) /\ Len(<<>>) = 0
  BY DEF Bytes
<1>5. req \in UploadT
  BY <1>1, <1>3, <1>4 DEF UploadT
<1>6. req.size = 0 /\ req.buff = <<>> /\ req.length = Len(b)
  BY <1>1
<1>7. UploadTypes
  BY <1>1, <1>2, <1>5 DEF UploadTypes
<1>8. 0 + Len(<<>>) + Len(b) = Len(b)
  BY <1>3, <1>4
<1>9. SkipIsRest
  BY <1>1, <1>6, <1>8 DEF SkipIsRest
<1> QED BY <1>7, <1>9

\* A read moves bytes from the wire to the buffer.
LEMMA ReadIs ==
  ASSUME UploadTypes, NEW n \in 1..BlockSize, Read(n)
  PROVE  /\ upload = "read" /\ upload' = "parse" /\ form' = form
         /\ n \in 1..Len(wire) /\ Take(wire, n) \in Bytes /\ Len(Take(wire, n)) = n
         /\ wire' = Drop(wire, n) /\ wire' \in Bytes /\ Len(wire') = Len(wire) - n
         /\ req'.buff = req.buff \o Take(wire, n) /\ req' = [req EXCEPT !.buff = req'.buff]
         /\ req' \in UploadT /\ Len(req'.buff) = Len(req.buff) + n
         /\ req'.size = req.size /\ req'.length = req.length
<1>1. /\ upload = "read" /\ upload' = "parse" /\ form' = form /\ n <= Len(wire)
      /\ wire' = Drop(wire, n) /\ req' = [req EXCEPT !.buff = req.buff \o Take(wire, n)]
  BY DEF Read
<1>2. wire \in Bytes /\ req \in UploadT
  BY DEF UploadTypes
<1>3. PICK m \in Nat : m = Len(wire)
  BY <1>2, BytesLen
<1>4. n \in 1..m /\ n \in Int /\ n \in 0..m /\ 1 <= n
  BY <1>1, <1>3
<1> DEFINE t == Take(wire, n)
           q == req.buff \o t
<1>5. t \in Bytes /\ Len(t) = n
  BY <1>1, <1>2, <1>4, TakeIs DEF Bytes
<1>6. wire' \in Bytes /\ Len(wire') = m - n
  BY <1>1, <1>2, <1>3, <1>4, DropIs DEF Bytes
<1> HIDE DEF t
<1>7. req.buff \in Bytes
  BY <1>2, UploadTyped
<1>8. q \in Bytes /\ Len(q) = Len(req.buff) + n
  BY <1>5, <1>7, ConcatProperties DEF Bytes
<1>9. req' = [req EXCEPT !.buff = q]
  BY <1>1 DEF t
<1> HIDE DEF q
<1>10. req' \in UploadT /\ req'.buff = q /\ req'.size = req.size /\ req'.length = req.length
  BY <1>2, <1>8, <1>9, Buffer
<1> QED BY <1>1, <1>3, <1>4, <1>5, <1>6, <1>8, <1>9, <1>10 DEF q, t

LEMMA ParseIs ==
  ASSUME UploadTypes, Parse
  PROVE  LET r == ReadMultipart(req)
         IN  /\ upload = "parse" /\ upload' = IF r.tag = "none" THEN "read" ELSE r.tag
             /\ req' = r.req /\ form' = form /\ wire' = wire
             /\ Counted(r, req.size + Len(req.buff), req.length) /\ r.tag /= "some"
<1> DEFINE r == ReadMultipart(req)
<1>1. /\ upload = "parse" /\ upload' = IF r.tag = "none" THEN "read" ELSE r.tag
      /\ req' = r.req /\ form' = form /\ wire' = wire
  BY DEF Parse
<1>2. req \in UploadT
  BY DEF UploadTypes
<1> HIDE DEF r
<1>3. Counted(r, req.size + Len(req.buff), req.length) /\ r.tag /= "some"
  BY <1>2, CallCounts DEF r
<1> QED BY <1>1, <1>3 DEF r

LEMMA SkipStep == UploadTypes /\ SkipIsRest /\ [UploadNext]_uploadVars => UploadTypes' /\ SkipIsRest'
<1> SUFFICES ASSUME UploadTypes, SkipIsRest, [UploadNext]_uploadVars
             PROVE  UploadTypes' /\ SkipIsRest'
  OBVIOUS
<1>1. PICK a \in Nat, s \in Nat, l \in Nat, w \in Nat :
        a = Len(req.buff) /\ s = req.size /\ l = req.length /\ w = Len(wire)
  BY UploadTyped, BytesLen DEF UploadTypes
<1>2. ASSUME NEW n \in 1..BlockSize, Read(n) PROVE UploadTypes' /\ SkipIsRest'
  <2>1. /\ upload = "read" /\ upload' = "parse" /\ form' = form
        /\ n \in 1..Len(wire)
        /\ wire' \in Bytes /\ Len(wire') = Len(wire) - n
        /\ req' \in UploadT /\ Len(req'.buff) = Len(req.buff) + n
        /\ req'.size = req.size /\ req'.length = req.length
    BY <1>2, ReadIs
  <2>2. UploadTypes'
    BY <2>1 DEF UploadTypes
  <2>3. s + a + w = l
    BY <1>1, <2>1 DEF SkipIsRest
  <2>4. req'.size + Len(req'.buff) + Len(wire') = req'.length
    <3>1. Len(req'.buff) = a + n /\ Len(wire') = w - n /\ req'.size = s /\ req'.length = l
      BY <1>1, <2>1
    <3>2. s + (a + n) + (w - n) = l
      BY <2>3
    <3> QED BY <3>1, <3>2, Zenon
  <2> QED BY <2>1, <2>2, <2>4 DEF SkipIsRest
<1>3. ASSUME Parse PROVE UploadTypes' /\ SkipIsRest'
  <2> DEFINE r == ReadMultipart(req)
  <2>1. /\ upload = "parse" /\ upload' = IF r.tag = "none" THEN "read" ELSE r.tag
        /\ req' = r.req /\ form' = form /\ wire' = wire
        /\ Counted(r, req.size + Len(req.buff), req.length) /\ r.tag /= "some"
    BY <1>3, ParseIs
  <2> HIDE DEF r
  <2>2. UploadTypes'
    BY <2>1 DEF UploadTypes, Counted, TakeT
  <2>3. s + a + w = l
    BY <1>1, <2>1 DEF SkipIsRest
  <2>4. req' \in UploadT
    BY <2>2 DEF UploadTypes
  <2>5. PICK a1 \in Nat, s1 \in Nat : a1 = Len(req'.buff) /\ s1 = req'.size
    BY <2>4, UploadTyped
  <2>6. ASSUME upload' \in {"read", "parse", "done"}
        PROVE  req'.size + Len(req'.buff) + Len(wire') = req'.length
    <3>1. r.tag \in {"some", "none", "done"}
      BY <2>1, <2>6 DEF Counted, TakeT
    <3>2. req'.size + Len(req'.buff) = s + a /\ req'.length = l
      BY <1>1, <2>1, <3>1 DEF Counted
    <3> QED BY <1>1, <2>1, <2>3, <2>5, <3>2
  <2>7. ASSUME upload' = "refused" PROVE req'.skip = Len(req'.buff) + Len(wire')
    <3>1. r.tag = "refused"
      BY <2>1, <2>7
    <3>2. req'.skip = l - (s + a) + Len(req'.buff)
      BY <1>1, <2>1, <3>1 DEF Counted
    <3>3. l - (s + a) + a1 = a1 + w
      BY <2>3
    <3>4. Len(wire') = w
      BY <1>1, <2>1
    <3> QED BY <2>5, <3>2, <3>3, <3>4, Zenon
  <2>8. ASSUME upload' = "garbled" PROVE req'.skip = Len(wire')
    <3>1. r.tag = "garbled"
      BY <2>1, <2>8
    <3>2. req'.skip = l - (s + a)
      BY <1>1, <2>1, <3>1 DEF Counted
    <3>3. l - (s + a) = w
      BY <2>3
    <3> QED BY <1>1, <2>1, <3>2, <3>3, Zenon
  <2>9. ASSUME upload' = "unwritten" PROVE req'.size + Len(wire') = req'.length
    <3>1. r.tag = "unwritten"
      BY <2>1, <2>9
    <3>2. req'.size = s + a /\ req'.length = l
      BY <1>1, <2>1, <3>1 DEF Counted
    <3> QED BY <1>1, <2>1, <2>3, <3>2, Zenon
  <2> QED BY <2>2, <2>6, <2>7, <2>8, <2>9 DEF SkipIsRest
<1>4. CASE UNCHANGED uploadVars
  BY <1>4 DEF uploadVars, UploadTypes, SkipIsRest
<1> QED BY <1>2, <1>3, <1>4 DEF UploadNext

\* After a call, what was counted, what is in the buffer and what is still to come
\* are the whole body; after a refusal, what is skipped is what is left of it.
THEOREM SkipIsWhatIsLeft == UploadSpec => []SkipIsRest
<1>1. UploadSpec => [](UploadTypes /\ SkipIsRest)
  BY SkipInit, SkipStep, PTL DEF UploadSpec
<1> QED BY <1>1, PTL

-----------------------------------------------------------------------------
(* What the parts of a form add up to. *)

StoredSeq(f) == [k \in 1..Len(f) |-> Gives(f[k])]
KindSeq(f, file) == [k \in 1..Len(f) |-> IF f[k].file = file THEN <<f[k]>> ELSE <<>>]
DataSeq(f, file) == [k \in 1..Len(f) |-> IF f[k].file = file THEN f[k].data ELSE <<>>]

\* What the first k parts of a form give: what is stored, files, bytes of either kind.
StoredIn(f, k) == Upto(StoredSeq(f), k)
FilesIn(f, k) == Len(Upto(KindSeq(f, TRUE), k))
DataIn(f, file, k) == Len(Upto(DataSeq(f, file), k))

LEMMA FunctionIsSeq ==
  ASSUME NEW S, NEW n \in Nat, NEW q, q = [k \in 1..n |-> q[k]], \A k \in 1..n : q[k] \in S
  PROVE  q \in Seq(S) /\ Len(q) = n
<1>1. q \in [1..n -> S]
  OBVIOUS
<1>2. q \in Seq(S)
  BY <1>1, SeqDef
<1>3. DOMAIN q = 1..n
  BY <1>1
<1>4. DOMAIN q = 1..Len(q) /\ Len(q) \in Nat
  BY <1>2, LenProperties
<1>5. Len(q) = n
  BY <1>3, <1>4
<1> QED BY <1>2, <1>5

LEMMA StoredGrows ==
  ASSUME NEW f \in Form
  PROVE  /\ StoredIn(f, 0) = <<>> /\ Stored(f) = StoredIn(f, Len(f))
         /\ \A k \in 1..Len(f) :
              StoredIn(f, k) = IF f[k].file \/ ~IsBlank(f[k].data)
                               THEN Append(StoredIn(f, k - 1), [file |-> f[k].file, data |-> f[k].data])
                               ELSE StoredIn(f, k - 1)
<1> DEFINE q == StoredSeq(f)
           e(k) == [file |-> f[k].file, data |-> f[k].data]
           has(k) == f[k].file \/ ~IsBlank(f[k].data)
<1>1. PICK n \in Nat : n = Len(f)
  BY FormTyped
<1>2. \A k \in 1..n : e(k) \in Entry
  BY <1>1, FormTyped DEF Entry
<1>3. q = [k \in 1..n |-> IF has(k) THEN <<e(k)>> ELSE <<>>]
  BY <1>1 DEF StoredSeq, Gives
<1> HIDE DEF q, has, e
<1>4. \A k \in 1..n : q[k] = IF has(k) THEN <<e(k)>> ELSE <<>>
  BY <1>3
<1>5. ASSUME NEW k \in 1..n PROVE q[k] \in Seq(Entry)
  <2>1. <<e(k)>> \in Seq(Entry) /\ <<>> \in Seq(Entry)
    BY <1>2
  <2>2. q[k] = <<e(k)>> \/ q[k] = <<>>
    BY <1>4, Zenon
  <2> QED BY <2>1, <2>2, Zenon
<1>6. q \in Seq(Seq(Entry)) /\ Len(q) = n
  <2>1. q = [k \in 1..n |-> q[k]]
    BY <1>3
  <2> QED BY <1>5, <2>1, FunctionIsSeq
<1>7. /\ Upto(q, 0) = <<>> /\ FlattenSeq(q) = Upto(q, n)
      /\ \A k \in 0..n : Upto(q, k) \in Seq(Entry)
      /\ \A k \in 1..n : Upto(q, k) = Upto(q, k - 1) \o q[k]
  BY <1>6, UptoStep
<1>8. Stored(f) = FlattenSeq(q)
  BY DEF Stored, q, StoredSeq
<1>9. ASSUME NEW k \in 1..n
      PROVE  Upto(q, k) = IF has(k) THEN Append(Upto(q, k - 1), e(k)) ELSE Upto(q, k - 1)
  <2>1. k - 1 \in 0..n
    BY <1>1
  <2>2. Upto(q, k - 1) \in Seq(Entry) /\ e(k) \in Entry
    BY <1>2, <1>7, <2>1
  <2> DEFINE p == Upto(q, k - 1)
             x == e(k)
  <2>3. p \in Seq(Entry) /\ x \in Entry
    BY <2>2
  <2> HIDE DEF p, x
  <2>4. p \o <<x>> = Append(p, x) /\ p \o <<>> = p
    BY <2>3, AppendIsConcat, ConcatEmptySeq
  <2> QED BY <1>4, <1>7, <2>4 DEF p, x
<1> QED BY <1>1, <1>7, <1>8, <1>9 DEF StoredIn, q, has, e

LEMMA FilesGrow ==
  ASSUME NEW f \in Form
  PROVE  /\ FilesIn(f, 0) = 0 /\ Len(OfKind(f, TRUE)) = FilesIn(f, Len(f))
         /\ \A k \in 0..Len(f) : FilesIn(f, k) \in Nat /\ FilesIn(f, k) <= Len(OfKind(f, TRUE))
         /\ \A k \in 1..Len(f) :
              FilesIn(f, k) = FilesIn(f, k - 1) + (IF f[k].file THEN 1 ELSE 0)
<1> DEFINE q == KindSeq(f, TRUE)
           has(k) == f[k].file = TRUE
<1>1. PICK n \in Nat : n = Len(f)
  BY FormTyped
<1>2. \A k \in 1..n : f[k] \in Part /\ f[k].file \in BOOLEAN
  BY <1>1, FormTyped
<1>3. q = [k \in 1..n |-> IF has(k) THEN <<f[k]>> ELSE <<>>]
  BY <1>1 DEF KindSeq
<1>4. OfKind(f, TRUE) = FlattenSeq(q)
  BY DEF OfKind, KindSeq
<1> HIDE DEF q, has
<1>5. \A k \in 1..n : q[k] = IF has(k) THEN <<f[k]>> ELSE <<>>
  BY <1>3
<1>6. ASSUME NEW k \in 1..n PROVE q[k] \in Seq(Part) /\ Len(q[k]) = IF has(k) THEN 1 ELSE 0
  <2>1. <<f[k]>> \in Seq(Part) /\ <<>> \in Seq(Part) /\ Len(<<f[k]>>) = 1 /\ Len(<<>>) = 0
    BY <1>2
  <2>2. q[k] = IF has(k) THEN <<f[k]>> ELSE <<>>
    BY <1>5, Zenon
  <2> QED BY <2>1, <2>2, Zenon
<1>7. q \in Seq(Seq(Part)) /\ Len(q) = n
  <2>1. q = [k \in 1..n |-> q[k]]
    BY <1>3
  <2> QED BY <1>6, <2>1, FunctionIsSeq
<1>8. /\ Upto(q, 0) = <<>> /\ FlattenSeq(q) = Upto(q, n)
      /\ \A k \in 0..n : Upto(q, k) \in Seq(Part) /\ Len(Upto(q, k)) \in Nat
      /\ \A k \in 1..n : Upto(q, k) = Upto(q, k - 1) \o q[k]
  BY <1>7, UptoStep
<1>9. ASSUME NEW k \in 1..n
      PROVE  FilesIn(f, k) = FilesIn(f, k - 1) + (IF f[k].file THEN 1 ELSE 0)
  <2>1. k - 1 \in 0..n
    BY <1>1
  <2> DEFINE p == Upto(q, k - 1)
             x == q[k]
  <2>2. p \in Seq(Part) /\ x \in Seq(Part) /\ Upto(q, k) = p \o x
    BY <1>6, <1>8, <2>1
  <2> HIDE DEF p, x
  <2>3. Len(p \o x) = Len(p) + Len(x)
    BY <2>2, ConcatProperties
  <2>4. Len(x) = IF f[k].file THEN 1 ELSE 0
    BY <1>2, <1>6 DEF x, has
  <2> QED BY <2>2, <2>3, <2>4, Zenon DEF FilesIn, p, q
<1>10. ASSUME NEW k \in 0..n PROVE Len(Upto(q, k)) <= Len(Upto(q, n))
  <2>1. n \in k..Len(q) /\ k \in 0..Len(q)
    BY <1>1, <1>7
  <2> QED BY <1>7, <2>1, UptoGrows
<1>11. FilesIn(f, 0) = 0
  <2>1. Len(<<>>) = 0
    OBVIOUS
  <2> QED BY <1>8, <2>1 DEF FilesIn, q
<1> QED BY <1>1, <1>4, <1>8, <1>9, <1>10, <1>11 DEF FilesIn, q

LEMMA DataGrows ==
  ASSUME NEW f \in Form, NEW file \in BOOLEAN
  PROVE  /\ DataIn(f, file, 0) = 0 /\ Len(DataOf(f, file)) = DataIn(f, file, Len(f))
         /\ \A k \in 0..Len(f) : DataIn(f, file, k) \in Nat /\ DataIn(f, file, k) <= Len(DataOf(f, file))
         /\ \A k \in 1..Len(f) :
              DataIn(f, file, k) = DataIn(f, file, k - 1) + (IF f[k].file = file THEN Len(f[k].data) ELSE 0)
<1> DEFINE q == DataSeq(f, file)
           has(k) == f[k].file = file
<1>1. PICK n \in Nat : n = Len(f)
  BY FormTyped
<1>2. \A k \in 1..n : f[k].data \in Seq(Byte)
  BY <1>1, FormTyped DEF Bytes
<1>3. q = [k \in 1..n |-> IF has(k) THEN f[k].data ELSE <<>>]
  BY <1>1 DEF DataSeq
<1>4. DataOf(f, file) = FlattenSeq(q)
  BY DEF DataOf, DataSeq
<1> HIDE DEF q, has
<1>5. \A k \in 1..n : q[k] = IF has(k) THEN f[k].data ELSE <<>>
  BY <1>3
<1>6. ASSUME NEW k \in 1..n
      PROVE  q[k] \in Seq(Byte) /\ Len(q[k]) = IF has(k) THEN Len(f[k].data) ELSE 0
  <2>1. f[k].data \in Seq(Byte) /\ <<>> \in Seq(Byte) /\ Len(<<>>) = 0
    BY <1>2
  <2>2. q[k] = IF has(k) THEN f[k].data ELSE <<>>
    BY <1>5, Zenon
  <2> QED BY <2>1, <2>2, Zenon
<1>7. q \in Seq(Seq(Byte)) /\ Len(q) = n
  <2>1. q = [k \in 1..n |-> q[k]]
    BY <1>3
  <2> QED BY <1>6, <2>1, FunctionIsSeq
<1>8. /\ Upto(q, 0) = <<>> /\ FlattenSeq(q) = Upto(q, n)
      /\ \A k \in 0..n : Upto(q, k) \in Seq(Byte) /\ Len(Upto(q, k)) \in Nat
      /\ \A k \in 1..n : Upto(q, k) = Upto(q, k - 1) \o q[k]
  BY <1>7, UptoStep
<1>9. ASSUME NEW k \in 1..n
      PROVE  DataIn(f, file, k) = DataIn(f, file, k - 1) + (IF f[k].file = file THEN Len(f[k].data) ELSE 0)
  <2>1. k - 1 \in 0..n
    BY <1>1
  <2> DEFINE p == Upto(q, k - 1)
             x == q[k]
  <2>2. p \in Seq(Byte) /\ x \in Seq(Byte) /\ Upto(q, k) = p \o x
    BY <1>6, <1>8, <2>1
  <2> HIDE DEF p, x
  <2>3. Len(p \o x) = Len(p) + Len(x)
    BY <2>2, ConcatProperties
  <2>4. Len(x) = IF f[k].file = file THEN Len(f[k].data) ELSE 0
    BY <1>6 DEF x, has
  <2> QED BY <2>2, <2>3, <2>4, Zenon DEF DataIn, p, q
<1>10. ASSUME NEW k \in 0..n PROVE Len(Upto(q, k)) <= Len(Upto(q, n))
  <2>1. n \in k..Len(q) /\ k \in 0..Len(q)
    BY <1>1, <1>7
  <2> QED BY <1>7, <2>1, UptoGrows
<1>11. DataIn(f, file, 0) = 0
  <2>1. Len(<<>>) = 0
    OBVIOUS
  <2> QED BY <1>8, <2>1 DEF DataIn, q
<1> QED BY <1>1, <1>4, <1>8, <1>9, <1>10, <1>11 DEF DataIn, q

-----------------------------------------------------------------------------
(* Patterns in bytes. *)

\* A pattern is at a place if it is there byte by byte.
LEMMA MatchIs ==
  ASSUME NEW q \in Bytes, NEW p \in Bytes, NEW m \in Nat, m = Len(p), NEW k \in Nat, k > 0,
         k + m - 1 <= Len(q)
  PROVE  SubSeq(q, k, k + m - 1) = p <=> \A i \in 1..m : q[k + i - 1] = p[i]
<1>1. PICK l \in Nat : l = Len(q)
  BY BytesLen
<1> DEFINE e == k + m - 1
<1>2. e \in Int /\ k \in Int /\ e <= l /\ e - k + 1 = m
  BY <1>1
<1>3. \A i \in k..e : q[i] \in Byte
  <2> TAKE i \in k..e
  <2>1. i \in 1..Len(q)
    BY <1>1, <1>2
  <2> QED BY <2>1, ElementOfSeq DEF Bytes
<1> HIDE DEF e
<1>4. /\ SubSeq(q, k, e) \in Bytes
      /\ Len(SubSeq(q, k, e)) = IF k <= e THEN e - k + 1 ELSE 0
      /\ \A i \in 1..(e - k + 1) : SubSeq(q, k, e)[i] = q[k + i - 1]
  BY <1>2, <1>3, SubSeqProperties DEF Bytes
<1> DEFINE t == SubSeq(q, k, e)
<1>5. t \in Seq(Byte) /\ Len(t) = m /\ \A i \in 1..m : t[i] = q[k + i - 1]
  <2>1. (IF k <= e THEN e - k + 1 ELSE 0) = m
    BY <1>2
  <2> QED BY <1>2, <1>4, <2>1, Zenon DEF Bytes
<1> HIDE DEF t
<1>6. ASSUME \A i \in 1..m : q[k + i - 1] = p[i] PROVE t = p
  <2>1. Len(t) = Len(p) /\ \A i \in 1..Len(t) : t[i] = p[i]
    BY <1>5, <1>6
  <2> QED BY <1>5, <2>1, SeqEqual DEF Bytes
<1>7. ASSUME t = p PROVE \A i \in 1..m : q[k + i - 1] = p[i]
  BY <1>5, <1>7
<1> QED BY <1>6, <1>7 DEF e, t

\* m bytes of q, from the k-th on, are p.
Match(q, p, k, m) == SubSeq(q, k, k + m - 1) = p <=> \A i \in 1..m : q[k + i - 1] = p[i]

LEMMA MatchAt ==
  ASSUME NEW q \in Bytes, NEW p \in Bytes, NEW k \in Nat, k > 0, k + Len(p) - 1 <= Len(q)
  PROVE  Match(q, p, k, Len(p))
<1>1. PICK m \in Nat : m = Len(p)
  BY BytesLen
<1>2. k + m - 1 <= Len(q)
  BY <1>1
<1>3. Match(q, p, k, m)
  BY <1>1, <1>2, MatchIs DEF Match
<1> QED BY <1>1, <1>3

\* p, of m bytes, is in q from the k-th on.
Here(q, k, p, m) == \A i \in 1..m : q[k + i - 1] = p[i]

LEMMA FindAt ==
  ASSUME NEW q \in Bytes, NEW p \in Bytes, NEW m \in Nat, m = Len(p), NEW from \in Nat, from > 0,
         NEW k \in Nat, from <= k, k + m - 1 <= Len(q),
         Here(q, k, p, m), \A j \in from..(k - 1) : ~Here(q, j, p, m)
  PROVE  Find(q, p, from) = k
<1>1. PICK l \in Nat : l = Len(q)
  BY BytesLen
<1>2. k > 0 /\ k \in from..(l - m + 1)
  BY <1>1
<1>3. SubSeq(q, k, k + m - 1) = p
  BY <1>2, MatchIs DEF Here
<1>4. ASSUME NEW j \in from..(k - 1) PROVE SubSeq(q, j, j + m - 1) /= p
  <2>1. j \in Nat /\ j > 0 /\ j + m - 1 <= Len(q)
    BY <1>1, <1>2
  <2>2. SubSeq(q, j, j + m - 1) = p <=> \A i \in 1..m : q[j + i - 1] = p[i]
    <3>1. j + Len(p) - 1 <= Len(q)
      BY <2>1
    <3>2. Match(q, p, j, Len(p))
      BY <2>1, <3>1, MatchAt
    <3> QED BY <3>2 DEF Match
  <2> QED BY <2>2 DEF Here
<1> DEFINE z == Find(q, p, from)
<1>10. FindGives(q, p, from, Len(q), Len(p), z)
  BY FindIs
<1>11. FindGives(q, p, from, l, m, z)
  <2> HIDE DEF z
  <2> QED BY <1>1, <1>10, Zenon
<1>5. \/ /\ z = 0 /\ \A j \in from..(l - m + 1) : SubSeq(q, j, j + m - 1) /= p
      \/ \E x \in from..(l - m + 1) :
           /\ z = x /\ SubSeq(q, x, x + m - 1) = p
           /\ \A j \in from..(x - 1) : SubSeq(q, j, j + m - 1) /= p
  BY <1>11 DEF FindGives
<1> HIDE DEF z
<1>6. PICK x \in from..(l - m + 1) :
           /\ z = x /\ SubSeq(q, x, x + m - 1) = p
           /\ \A j \in from..(x - 1) : SubSeq(q, j, j + m - 1) /= p
  BY <1>2, <1>3, <1>5, Zenon
<1>7. ~(x < k)
  <2>1. x < k => x \in from..(k - 1)
    BY <1>1
  <2> QED BY <1>4, <1>6, <2>1
<1>8. ~(k < x)
  <2>1. k < x => k \in from..(x - 1)
    BY <1>1
  <2> QED BY <1>3, <1>6, <2>1
<1>9. x = k
  BY <1>1, <1>7, <1>8
<1> QED BY <1>6, <1>9 DEF z

LEMMA FindNone ==
  ASSUME NEW q \in Bytes, NEW p \in Bytes, NEW m \in Nat, m = Len(p), NEW from \in Nat, from > 0,
         \A j \in from..(Len(q) - m + 1) : \E i \in 1..m : q[j + i - 1] /= p[i]
  PROVE  Find(q, p, from) = 0
<1>1. PICK l \in Nat : l = Len(q)
  BY BytesLen
<1>2. ASSUME NEW j \in from..(l - m + 1) PROVE SubSeq(q, j, j + m - 1) /= p
  <2>1. j \in Nat /\ j > 0 /\ j + m - 1 <= Len(q)
    BY <1>1
  <2>2. SubSeq(q, j, j + m - 1) = p <=> \A i \in 1..m : q[j + i - 1] = p[i]
    BY <2>1, MatchIs
  <2>3. \E i \in 1..m : q[j + i - 1] /= p[i]
    BY <1>1
  <2> QED BY <2>2, <2>3
<1> DEFINE z == Find(q, p, from)
<1>10. FindGives(q, p, from, Len(q), Len(p), z)
  BY FindIs
<1>11. FindGives(q, p, from, l, m, z)
  <2> HIDE DEF z
  <2> QED BY <1>1, <1>10, Zenon
<1>3. \/ z = 0
      \/ \E x \in from..(l - m + 1) : z = x /\ SubSeq(q, x, x + m - 1) = p
  BY <1>11 DEF FindGives
<1> HIDE DEF z
<1> QED BY <1>2, <1>3 DEF z

LEMMA PrefixIs ==
  ASSUME NEW s \in Bytes, NEW t \in Bytes, NEW m \in Nat, m = Len(s), m > 0
  PROVE  IsPrefix(s, t) <=> m <= Len(t) /\ \A i \in 1..m : t[i] = s[i]
<1>1. SubSeq(s, 1, m) = s
  BY SubSeqFull DEF Bytes
<1>2. ASSUME m <= Len(t) PROVE SubSeq(t, 1, m) = s <=> \A i \in 1..m : t[i] = s[i]
  <2>1. 1 \in Nat /\ 1 > 0 /\ 1 + m - 1 = m /\ \A i \in 1..m : 1 + i - 1 = i
    OBVIOUS
  <2>2. SubSeq(t, 1, 1 + m - 1) = s <=> \A i \in 1..m : t[1 + i - 1] = s[i]
    <3>1. 1 + m - 1 <= Len(t)
      BY <1>2, <2>1
    <3> QED BY <2>1, <3>1, MatchIs
  <2> QED BY <2>1, <2>2
<1> QED BY <1>1, <1>2 DEF IsPrefix

LEMMA ReverseIs ==
  ASSUME NEW t \in Bytes, NEW l \in Nat, l = Len(t)
  PROVE  /\ Reverse(t) \in Bytes /\ Len(Reverse(t)) = l
         /\ \A i \in 1..l : Reverse(t)[i] = t[(l - i) + 1]
<1> DEFINE rt == [i \in 1..l |-> t[(l - i) + 1]]
<1>1. Reverse(t) = rt
  BY DEF Reverse
<1>2. ASSUME NEW i \in 1..l PROVE rt[i] \in Byte
  <2>1. (l - i) + 1 \in 1..Len(t)
    BY SMT
  <2> QED BY <2>1, ElementOfSeq DEF Bytes
<1>3. rt = [i \in 1..l |-> rt[i]] /\ \A i \in 1..l : rt[i] = t[(l - i) + 1]
  OBVIOUS
<1> HIDE DEF rt
<1>4. rt \in Bytes /\ Len(rt) = l
  BY <1>2, <1>3, FunctionIsSeq DEF Bytes
<1> QED BY <1>1, <1>3, <1>4

LEMMA SuffixIf ==
  ASSUME NEW s \in Bytes, NEW t \in Bytes, NEW m \in Nat, m = Len(s), m > 0,
         NEW l \in Nat, l = Len(t), m <= l, \A i \in 1..m : t[l - m + i] = s[i]
  PROVE  IsSuffix(s, t)
<1> DEFINE rs == Reverse(s)
           rt == Reverse(t)
<1>1. /\ rs \in Bytes /\ Len(rs) = m /\ \A i \in 1..m : rs[i] = s[(m - i) + 1]
      /\ rt \in Bytes /\ Len(rt) = l /\ \A i \in 1..l : rt[i] = t[(l - i) + 1]
  BY ReverseIs
<1> HIDE DEF rs, rt
<1>2. ASSUME NEW i \in 1..m PROVE rt[i] = rs[i]
  <2>1. i \in 1..l /\ (m - i) + 1 \in 1..m /\ l - m + ((m - i) + 1) = (l - i) + 1
    OBVIOUS
  <2>2. t[l - m + ((m - i) + 1)] = s[(m - i) + 1]
    BY <2>1
  <2> QED BY <1>1, <2>1, <2>2
<1>3. IsPrefix(rs, rt)
  BY <1>1, <1>2, PrefixIs
<1> QED BY <1>3 DEF IsSuffix, rs, rt

\* A suffix ends like what it is a suffix of.
LEMMA SuffixLast ==
  ASSUME NEW s \in Bytes, NEW t \in Bytes, NEW m \in Nat, m = Len(s), m > 0,
         NEW l \in Nat, l = Len(t), IsSuffix(s, t)
  PROVE  l > 0 /\ t[l] = s[m]
<1> DEFINE rs == Reverse(s)
           rt == Reverse(t)
<1>1. /\ rs \in Bytes /\ Len(rs) = m /\ \A i \in 1..m : rs[i] = s[(m - i) + 1]
      /\ rt \in Bytes /\ Len(rt) = l /\ \A i \in 1..l : rt[i] = t[(l - i) + 1]
  BY ReverseIs
<1>2. IsPrefix(rs, rt)
  BY DEF IsSuffix
<1> HIDE DEF rs, rt
<1>3. m <= Len(rt) /\ \A i \in 1..m : rt[i] = rs[i]
  BY <1>1, <1>2, PrefixIs
<1>4. m <= l /\ 1 \in 1..m /\ 1 \in 1..l /\ (m - 1) + 1 = m /\ (l - 1) + 1 = l
  BY <1>1, <1>3
<1> QED BY <1>1, <1>3, <1>4

-----------------------------------------------------------------------------
(* Where the boundaries of a body are. *)

\* Where what is in the body b of a form.
Laid(f, b) ==
  /\ b \in Bytes /\ Len(b) = Start(f, Len(f)) + Width + 4
  /\ \A k \in 0..Len(f) : \A i \in 1..Width : b[Start(f, k) + i] = Boundary[i]
  /\ \A k \in 1..Len(f) :
       LET s == Start(f, k - 1) + Width
       IN  /\ b[s + 1] = "cr" /\ b[s + 2] = "lf" /\ b[s + 3] = Header(f[k])
           /\ b[s + 4] = "cr" /\ b[s + 5] = "lf" /\ b[s + 6] = "cr" /\ b[s + 7] = "lf"
           /\ \A i \in 1..Len(f[k].data) : b[s + 7 + i] = f[k].data[i]
           /\ b[s + 7 + Len(f[k].data) + 1] = "cr" /\ b[s + 7 + Len(f[k].data) + 2] = "lf"
  /\ LET s == Start(f, Len(f)) + Width
     IN  b[s + 1] = "-" /\ b[s + 2] = "-" /\ b[s + 3] = "cr" /\ b[s + 4] = "lf"

LEMMA BodyLaid ==
  ASSUME NEW f \in Form
  PROVE  Laid(f, BodyBytes(f))
<1> DEFINE b == BodyBytes(f)
<1>0. Width \in Nat /\ Width > 0
  BY WidthIs
<1>1. PICK n \in Nat : n = Len(f)
  BY FormTyped
<1>2. /\ b \in Bytes /\ Len(b) = Start(f, n) + Width + 4
      /\ \A k \in 1..n : \A i \in 1..Len(PartBytes(f[k])) :
           b[Start(f, k - 1) + i] = PartBytes(f[k])[i]
      /\ \A i \in 1..Width : b[Start(f, n) + i] = Boundary[i]
      /\ \A i \in 1..4 : b[Start(f, n) + Width + i] = Final[i]
  BY <1>1, BodyAre
<1> HIDE DEF b
<1>3. ASSUME NEW k \in 1..n
      PROVE  /\ \A i \in 1..Width : b[Start(f, k - 1) + i] = Boundary[i]
             /\ LET s == Start(f, k - 1) + Width
                IN  /\ b[s + 1] = "cr" /\ b[s + 2] = "lf" /\ b[s + 3] = Header(f[k])
                    /\ b[s + 4] = "cr" /\ b[s + 5] = "lf" /\ b[s + 6] = "cr" /\ b[s + 7] = "lf"
                    /\ \A i \in 1..Len(f[k].data) : b[s + 7 + i] = f[k].data[i]
                    /\ b[s + 7 + Len(f[k].data) + 1] = "cr" /\ b[s + 7 + Len(f[k].data) + 2] = "lf"
  <2> DEFINE p == PartBytes(f[k])
             a == Start(f, k - 1)
  <2>1. PICK d \in Nat : d = Len(f[k].data)
    BY <1>1, FormTyped
  <2>2. f[k] \in Part
    BY <1>1, FormTyped
  <2>3. /\ p \in Bytes /\ Len(p) = Width + 7 + d + 2
        /\ \A i \in 1..Width : p[i] = Boundary[i]
        /\ p[Width + 1] = "cr" /\ p[Width + 2] = "lf"
        /\ p[Width + 3] = Header(f[k])
        /\ p[Width + 4] = "cr" /\ p[Width + 5] = "lf" /\ p[Width + 6] = "cr" /\ p[Width + 7] = "lf"
        /\ \A i \in 1..d : p[Width + 7 + i] = f[k].data[i]
        /\ p[Width + 7 + d + 1] = "cr" /\ p[Width + 7 + d + 2] = "lf"
    BY <2>1, <2>2, PartBytesAre
  <2>4. a \in Nat
    <3>1. k - 1 \in 0..Len(f)
      BY <1>1
    <3> QED BY <3>1, Starts
  <2>5. \A i \in 1..Len(p) : b[a + i] = p[i]
    BY <1>2
  <2> HIDE DEF p, a
  <2>6. \A i \in 1..(Width + 7 + d + 2) : b[a + i] = p[i]
    BY <2>3, <2>5
  <2>7. \A i \in 1..Width : b[a + i] = Boundary[i]
    <3>1. \A i \in 1..Width : i \in 1..(Width + 7 + d + 2)
      BY <1>0
    <3> QED BY <2>3, <2>6, <3>1
  <2>8. \A i \in 1..7 : Width + i \in 1..(Width + 7 + d + 2) /\ a + (Width + i) = (a + Width) + i
    BY <1>0, <2>4
  <2>9. \A i \in 1..7 : b[(a + Width) + i] = p[Width + i]
    BY <2>6, <2>8
  <2>10. ASSUME NEW i \in 1..(d + 2) PROVE b[a + Width + 7 + i] = p[Width + 7 + i]
    <3>1. Width + 7 + i \in 1..(Width + 7 + d + 2) /\ a + (Width + 7 + i) = a + Width + 7 + i
      BY <1>0, <2>4
    <3> QED BY <2>6, <3>1
  <2>11. \A i \in 1..d : i \in 1..(d + 2)
    OBVIOUS
  <2>12. \A i \in 1..d : b[a + Width + 7 + i] = f[k].data[i]
    BY <2>3, <2>10, <2>11
  <2>13. b[a + Width + 7 + d + 1] = "cr" /\ b[a + Width + 7 + d + 2] = "lf"
    <3>1. /\ a + Width + 7 + (d + 1) = a + Width + 7 + d + 1 /\ a + Width + 7 + (d + 2) = a + Width + 7 + d + 2
          /\ Width + 7 + (d + 1) = Width + 7 + d + 1 /\ Width + 7 + (d + 2) = Width + 7 + d + 2
          /\ d + 1 \in 1..(d + 2) /\ d + 2 \in 1..(d + 2)
      BY <1>0, <2>4
    <3>2. b[a + Width + 7 + (d + 1)] = p[Width + 7 + (d + 1)] /\ b[a + Width + 7 + (d + 2)] = p[Width + 7 + (d + 2)]
      BY <2>10, <3>1, Zenon
    <3> QED BY <2>3, <3>1, <3>2, Zenon
  <2>14. \A i \in 1..7 : b[a + Width + i] = p[Width + i]
    BY <2>9
  <2>15. /\ b[a + Width + 1] = "cr" /\ b[a + Width + 2] = "lf" /\ b[a + Width + 3] = Header(f[k])
         /\ b[a + Width + 4] = "cr" /\ b[a + Width + 5] = "lf" /\ b[a + Width + 6] = "cr" /\ b[a + Width + 7] = "lf"
    <3>1. 1 \in 1..7 /\ 2 \in 1..7 /\ 3 \in 1..7 /\ 4 \in 1..7 /\ 5 \in 1..7 /\ 6 \in 1..7 /\ 7 \in 1..7
      OBVIOUS
    <3> QED BY <2>3, <2>14, <3>1, Zenon
  <2> QED BY <2>1, <2>7, <2>12, <2>13, <2>15, Zenon DEF a
<1>4. \A k \in 0..n : \A i \in 1..Width : b[Start(f, k) + i] = Boundary[i]
  <2> TAKE k \in 0..n
  <2>1. CASE k = n
    BY <1>2, <2>1
  <2>2. CASE k /= n
    <3>1. k + 1 \in 1..n /\ (k + 1) - 1 = k
      BY <2>2
    <3>2. \A i \in 1..Width : b[Start(f, (k + 1) - 1) + i] = Boundary[i]
      BY <1>3, <3>1
    <3> QED BY <3>1, <3>2
  <2> QED BY <2>1, <2>2
<1>5. LET s == Start(f, n) + Width
      IN  b[s + 1] = "-" /\ b[s + 2] = "-" /\ b[s + 3] = "cr" /\ b[s + 4] = "lf"
  <2>1. Final[1] = "-" /\ Final[2] = "-" /\ Final[3] = "cr" /\ Final[4] = "lf"
    BY Bounds
  <2>2. 1 \in 1..4 /\ 2 \in 1..4 /\ 3 \in 1..4 /\ 4 \in 1..4
    OBVIOUS
  <2> QED BY <1>2, <2>1, <2>2, Zenon
<1> QED BY <1>1, <1>2, <1>3, <1>4, <1>5, SMTT(30) DEF Laid, b

\* p and a line break stand in b behind the s-th byte; p has no boundary in it.
Follows(b, s, p) ==
  /\ \A i \in 1..Len(p) : b[s + i] = p[i]
  /\ b[s + Len(p) + 1] = "cr" /\ b[s + Len(p) + 2] = "lf"
Foreign(p) ==
  \A i \in 1..(Len(p) - Len(Boundary) + 1) : SubSeq(p, i, i + Len(Boundary) - 1) /= Boundary

LEMMA Unmatched ==
  ASSUME NEW data \in Bytes, NEW s \in Nat, NEW o \in Nat, o <= Len(data) + 1, Foreign(data),
         NEW b, Follows(b, s, data)
  PROVE  \E i \in 1..Width : b[s + o + i] /= Boundary[i]
<1>0. Width \in Nat /\ Width > 0 /\ Len(Boundary) = Width /\ Boundary \in Bytes
  BY WidthIs, Bounds
<1>1. PICK d \in Nat : Len(data) = d
  BY BytesLen
<1>2. o <= d + 1
  BY <1>1
<1>3. /\ \A i \in 1..d : b[s + i] = data[i]
      /\ b[s + d + 1] = "cr" /\ b[s + d + 2] = "lf"
      /\ \A i \in 1..(d - Width + 1) : SubSeq(data, i, i + Width - 1) /= Boundary
  <2>1. \A w : w = Len(Boundary) => \A i \in 1..(d - w + 1) : SubSeq(data, i, i + w - 1) /= Boundary
    BY <1>1 DEF Foreign
  <2> QED BY <1>0, <1>1, <2>1 DEF Follows
<1>4. \A i \in 1..Width : Boundary[i] /= "cr" /\ Boundary[i] /= "lf"
  <2>1. \A i \in 1..Len(Boundary) : Boundary[i] \notin {"cr", "lf"}
    BY MultipartAssumption
  <2> QED BY <1>0, <2>1
<1>5. CASE o + Width <= d
  <2>1. o + 1 \in 1..(d - Width + 1) /\ o + 1 \in Nat /\ o + 1 > 0 /\ (o + 1) + Width - 1 <= d
    BY <1>0, <1>5
  <2>2. SubSeq(data, o + 1, (o + 1) + Width - 1) /= Boundary
    BY <1>3, <2>1
  <2>3. SubSeq(data, o + 1, (o + 1) + Width - 1) = Boundary
          <=> \A i \in 1..Width : data[(o + 1) + i - 1] = Boundary[i]
    <3>1. PICK j \in Nat : j = o + 1 /\ j > 0
      BY <2>1
    <3>2. j + Len(Boundary) - 1 <= Len(data)
      BY <1>0, <1>1, <2>1, <3>1
    <3>3. Match(data, Boundary, j, Len(Boundary))
      BY <1>0, <3>1, <3>2, MatchAt
    <3>4. Match(data, Boundary, j, Width)
      BY <1>0, <3>3
    <3>5. SubSeq(data, j, j + Width - 1) = Boundary
            <=> \A i \in 1..Width : data[j + i - 1] = Boundary[i]
      BY <3>4 DEF Match
    <3> QED BY <3>1, <3>5, Zenon
  <2>4. PICK i \in 1..Width : data[(o + 1) + i - 1] /= Boundary[i]
    BY <2>2, <2>3
  <2>5. (o + 1) + i - 1 = o + i /\ o + i \in 1..d /\ s + o + i = s + (o + i)
    BY <1>0, <1>5
  <2>6. b[s + o + i] = data[o + i]
    BY <1>3, <2>5
  <2> QED BY <2>4, <2>5, <2>6
<1>6. CASE ~(o + Width <= d) /\ o <= d
  <2>1. d + 1 - o \in 1..Width /\ s + o + (d + 1 - o) = s + d + 1
    BY <1>0, <1>6
  <2>2. b[s + o + (d + 1 - o)] = "cr" /\ Boundary[d + 1 - o] /= "cr"
    BY <1>3, <1>4, <2>1
  <2> QED BY <2>1, <2>2
<1>7. CASE o = d + 1
  <2>1. 1 \in 1..Width /\ s + o + 1 = s + d + 2
    BY <1>0, <1>7
  <2>2. b[s + o + 1] = "lf" /\ Boundary[1] /= "lf"
    BY <1>3, <1>4, <2>1
  <2> QED BY <2>1, <2>2
<1> QED BY <1>0, <1>2, <1>5, <1>6, <1>7

\* No boundary in the body begins in a part's data or at the line break behind it.
LEMMA NoEarly ==
  ASSUME NEW f \in Form, NEW b, Laid(f, b), NEW k \in 1..Len(f), NEW q \in Nat,
         Start(f, k - 1) + Width + 7 <= q, q < Start(f, k)
  PROVE  \E i \in 1..Width : b[q + i] /= Boundary[i]
<1>0. Width \in Nat /\ Width > 0
  BY WidthIs
<1>1. PICK n \in Nat : n = Len(f)
  BY FormTyped
<1>2. f[k].data \in Bytes
  BY FormTyped
<1>3. PICK d \in Nat : d = Len(f[k].data)
  BY <1>2, BytesLen
<1>4. PICK a \in Nat : a = Start(f, k - 1)
  <2>1. k - 1 \in 0..Len(f)
    BY <1>1
  <2> QED BY <2>1, Starts
<1>5. Start(f, k) = a + Width + 9 + d
  BY <1>3, <1>4, Starts
<1>6. PICK s \in Nat : s = a + Width + 7
  <2>1. a + Width + 7 \in Nat
    BY <1>0
  <2> QED BY <2>1
<1>7. s <= q /\ q < s + d + 2
  <2>1. a + Width + 7 <= q /\ q < a + Width + 9 + d
    BY <1>4, <1>5, Zenon
  <2> QED BY <1>0, <1>6, <2>1
<1>8. PICK o \in Nat : q = s + o /\ o <= d + 1
  <2>1. q - s \in Nat /\ q = s + (q - s) /\ q - s <= d + 1
    BY <1>7
  <2> QED BY <2>1, Zenon
<1>9. /\ \A i \in 1..d : b[s + i] = f[k].data[i]
      /\ b[s + d + 1] = "cr" /\ b[s + d + 2] = "lf"
  BY <1>3, <1>4, <1>6, Zenon DEF Laid
<1>10. \A i \in 1..(d - Len(Boundary) + 1) :
         SubSeq(f[k].data, i, i + Len(Boundary) - 1) /= Boundary
  BY <1>3, MultipartAssumption
<1>11. \E i \in 1..Width : b[s + o + i] /= Boundary[i]
  <2> DEFINE p == f[k].data
  <2>1. p \in Bytes /\ o <= Len(p) + 1
    BY <1>2, <1>3, <1>8
  <2>2. Follows(b, s, p)
    BY <1>3, <1>9, Zenon DEF Follows
  <2>3. Foreign(p)
    BY <1>3, <1>10 DEF Foreign
  <2> HIDE DEF p
  <2>4. \A bb : Follows(bb, s, p) => \E i \in 1..Width : bb[s + o + i] /= Boundary[i]
    BY <2>1, <2>3, Unmatched
  <2> QED BY <2>2, <2>4
<1> QED BY <1>8, <1>11

-----------------------------------------------------------------------------
(* The buffer is a window on the body. *)

\* The bytes q of b from the s-th on, the s-th not included, up to the e-th.
Window(q, b, s, e) ==
  /\ q \in Bytes /\ s \in Nat /\ e \in Nat /\ s <= e /\ e <= Len(b)
  /\ Len(q) = e - s
  /\ \A i \in 1..(e - s) : q[i] = b[s + i]

\* p, of m bytes, stands in b behind the s-th byte.
At(b, s, p, m) == \A i \in 1..m : b[s + i] = p[i]

Sized(p, m) == m \in Nat /\ m = Len(p) /\ p \in Bytes

LEMMA WindowDrop ==
  ASSUME NEW b \in Bytes, NEW q, NEW s, NEW e, Window(q, b, s, e), NEW n \in Nat, s + n <= e
  PROVE  Window(Drop(q, n), b, s + n, e)
<1>1. PICK l \in Nat : l = Len(b)
  BY BytesLen
<1>2. /\ q \in Bytes /\ s \in Nat /\ e \in Nat /\ s <= e /\ e <= l /\ Len(q) = e - s
      /\ \A i \in 1..(e - s) : q[i] = b[s + i]
  BY <1>1 DEF Window
<1> DEFINE t == Drop(q, n)
<1>3. n \in 0..Len(q)
  BY <1>2
<1>4. t \in Bytes /\ Len(t) = Len(q) - n /\ \A i \in 1..(Len(q) - n) : t[i] = q[n + i]
  BY ZenonT(40), <1>2, <1>3, DropIs DEF Bytes
<1> HIDE DEF t
<1>5. Len(t) = e - (s + n) /\ s + n \in Nat /\ Len(q) - n = e - (s + n)
  BY <1>2, <1>4
<1>6. ASSUME NEW i \in 1..(e - (s + n)) PROVE t[i] = b[(s + n) + i]
  <2>1. n + i \in 1..(e - s) /\ s + (n + i) = (s + n) + i
    BY <1>2
  <2>2. t[i] = q[n + i]
    BY <1>4, <1>5
  <2> QED BY <1>2, <2>1, <2>2
<1> QED BY <1>1, <1>2, <1>4, <1>5, <1>6 DEF Window, t

LEMMA WindowNone ==
  ASSUME NEW b \in Bytes, NEW e \in Nat, e <= Len(b)
  PROVE  Window(<<>>, b, e, e)
<1>1. <<>> \in Bytes /\ Len(<<>>) = 0
  BY DEF Bytes
<1>2. e - e = 0 /\ e <= e /\ \A i \in 1..(e - e) : FALSE
  OBVIOUS
<1> QED BY <1>1, <1>2 DEF Window

LEMMA WindowWhole ==
  ASSUME NEW b \in Bytes
  PROVE  Window(b, b, 0, Len(b))
<1>1. PICK l \in Nat : l = Len(b)
  BY BytesLen
<1>2. l - 0 = l /\ 0 <= l /\ \A i \in 1..l : 0 + i = i
  OBVIOUS
<1> QED BY <1>1, <1>2 DEF Window

\* Bytes of the wire put behind those of the buffer.
LEMMA WindowMore ==
  ASSUME NEW b \in Bytes, NEW q, NEW s, NEW e, Window(q, b, s, e),
         NEW w, NEW l, Window(w, b, e, l), NEW n \in 1..(l - e)
  PROVE  Window(q \o Take(w, n), b, s, e + n)
<1>1. /\ q \in Bytes /\ s \in Nat /\ e \in Nat /\ s <= e /\ Len(q) = e - s
      /\ \A i \in 1..(e - s) : q[i] = b[s + i]
  BY DEF Window
<1>2. /\ w \in Bytes /\ l \in Nat /\ e <= l /\ l <= Len(b) /\ Len(w) = l - e
      /\ \A i \in 1..(l - e) : w[i] = b[e + i]
  BY DEF Window
<1>3. PICK a \in Nat, c \in Nat, d \in Nat : a = e - s /\ c = l - e /\ d = Len(b)
  <2>1. e - s \in Nat /\ l - e \in Nat /\ Len(b) \in Nat
    BY <1>1, <1>2, BytesLen
  <2> QED BY <2>1
<1>4. n \in Int /\ n <= c /\ 1 <= n
  BY <1>3
<1> DEFINE t == Take(w, n)
           u == q \o t
<1>5. t \in Bytes /\ Len(t) = n /\ \A i \in 1..n : t[i] = w[i]
  <2>1. n <= Len(w)
    BY <1>2, <1>3, <1>4
  <2> QED BY <1>2, <1>4, <2>1, TakeIs DEF Bytes
<1> HIDE DEF t
<1>6. /\ u \in Bytes /\ Len(u) = Len(q) + Len(t)
      /\ \A i \in 1..(Len(q) + Len(t)) : u[i] = IF i <= Len(q) THEN q[i] ELSE t[i - Len(q)]
  BY <1>1, <1>5, ConcatProperties DEF Bytes
<1> HIDE DEF u
<1>7. Len(u) = a + n /\ \A i \in 1..(a + n) : u[i] = IF i <= a THEN q[i] ELSE t[i - a]
  BY <1>1, <1>3, <1>5, <1>6
<1>8. (e + n) - s = a + n /\ e + n \in Nat /\ s <= e + n /\ e + n <= d
  BY <1>1, <1>2, <1>3, <1>4
<1>9. ASSUME NEW i \in 1..(a + n) PROVE u[i] = b[s + i]
  <2>1. CASE i <= a
    <3>1. i \in 1..(e - s)
      BY <1>3, <2>1
    <3> QED BY <1>1, <1>7, <2>1, <3>1
  <2>2. CASE ~(i <= a)
    <3>1. i - a \in 1..n /\ i - a \in 1..(l - e) /\ e + (i - a) = s + i
      BY <1>1, <1>2, <1>3, <1>4, <2>2
    <3> QED BY <1>2, <1>5, <1>7, <2>2, <3>1
  <2> QED BY <2>1, <2>2
<1> QED BY <1>1, <1>3, <1>6, <1>7, <1>8, <1>9 DEF Window, u, t

\* The places of p in a window, counted from its first byte or from b's.
LEMMA AtWindow ==
  ASSUME NEW b, NEW q, NEW s, NEW e, Window(q, b, s, e), NEW p, NEW m \in Nat,
         NEW j \in Nat, j > 0, s + (j - 1) + m <= e
  PROVE  Here(q, j, p, m) <=> At(b, s + (j - 1), p, m)
<1>1. s \in Nat /\ e \in Nat /\ \A i \in 1..(e - s) : q[i] = b[s + i]
  BY DEF Window
<1>2. ASSUME NEW i \in 1..m PROVE q[j + i - 1] = b[s + (j - 1) + i]
  <2>1. j + i - 1 \in 1..(e - s) /\ s + (j + i - 1) = s + (j - 1) + i
    BY <1>1
  <2> QED BY <1>1, <2>1
<1> QED BY <1>2 DEF At, Here

LEMMA SeenAt ==
  ASSUME NEW b, NEW q, NEW s, NEW e, Window(q, b, s, e), NEW p, NEW m, Sized(p, m),
         NEW from \in Nat, from > 0, NEW k \in Nat, from <= k, s + (k - 1) + m <= e,
         At(b, s + (k - 1), p, m),
         \A j \in from..(k - 1) : ~At(b, s + (j - 1), p, m)
  PROVE  Find(q, p, from) = k
<1>1. q \in Bytes /\ s \in Nat /\ e \in Nat /\ Len(q) = e - s
  BY DEF Window
<1>2. m \in Nat /\ m = Len(p) /\ p \in Bytes
  BY DEF Sized
<1>3. k > 0 /\ k + m - 1 <= e - s
  BY <1>1, <1>2
<1>4. Here(q, k, p, m)
  BY <1>2, <1>3, AtWindow
<1>5. ASSUME NEW j \in from..(k - 1) PROVE ~Here(q, j, p, m)
  <2>1. j \in Nat /\ j > 0 /\ s + (j - 1) + m <= e
    BY <1>1, <1>2, <1>3
  <2>2. Here(q, j, p, m) <=> At(b, s + (j - 1), p, m)
    BY <1>2, <2>1, AtWindow
  <2> QED BY <2>2
<1>6. k + m - 1 <= Len(q)
  BY <1>1, <1>3
<1> QED BY <1>1, <1>2, <1>3, <1>4, <1>5, <1>6, FindAt

LEMMA SeenNone ==
  ASSUME NEW b, NEW q, NEW s, NEW e, Window(q, b, s, e), NEW p, NEW m, Sized(p, m),
         NEW from \in Nat, from > 0,
         \A j \in from..(e - s - m + 1) : ~At(b, s + (j - 1), p, m)
  PROVE  Find(q, p, from) = 0
<1>1. q \in Bytes /\ s \in Nat /\ e \in Nat /\ Len(q) = e - s
  BY DEF Window
<1>2. m \in Nat /\ m = Len(p) /\ p \in Bytes
  BY DEF Sized
<1>3. ASSUME NEW j \in from..(Len(q) - m + 1) PROVE \E i \in 1..m : q[j + i - 1] /= p[i]
  <2>1. j \in Nat /\ j > 0 /\ s + (j - 1) + m <= e /\ j \in from..(e - s - m + 1)
    BY <1>1, <1>2
  <2>2. Here(q, j, p, m) <=> At(b, s + (j - 1), p, m)
    BY <1>2, <2>1, AtWindow
  <2> QED BY <2>1, <2>2 DEF Here
<1> QED BY <1>1, <1>2, <1>3, FindNone

LEMMA SizedBoundary == Sized(Boundary, Width)
BY WidthIs, Bounds DEF Sized

\* Where the boundary behind part k is looked for and found.
LEMMA FirstWithin ==
  ASSUME NEW f \in Form, NEW b, Laid(f, b), NEW q, NEW s, NEW e, Window(q, b, s, e),
         NEW k \in 1..Len(f), Start(f, k - 1) + Width + 7 <= s, s <= Start(f, k)
  PROVE  /\ Start(f, k) + Width <= e => Find(q, Boundary, 1) = Start(f, k) - s + 1
         /\ e < Start(f, k) + Width => Find(q, Boundary, 1) = 0
<1>0. Width \in Nat /\ Width > 0
  BY WidthIs
<1>1. PICK n \in Nat : n = Len(f)
  BY FormTyped
<1>2. PICK t \in Nat : t = Start(f, k)
  <2>1. k \in 0..Len(f)
    BY <1>1
  <2> QED BY <2>1, Starts
<1>3. PICK a \in Nat : a = Start(f, k - 1) + Width + 7
  <2>1. k - 1 \in 0..Len(f)
    BY <1>1
  <2>2. Start(f, k - 1) \in Nat
    BY <2>1, Starts
  <2> QED BY <1>0, <2>2
<1>4. s \in Nat /\ e \in Nat /\ s <= e /\ a <= s /\ s <= t
  BY <1>2, <1>3 DEF Window
<1>5. ASSUME NEW y \in s..(t - 1) PROVE ~At(b, y, Boundary, Width)
  <2>1. y \in Nat /\ Start(f, k - 1) + Width + 7 <= y /\ y < Start(f, k)
    BY <1>2, <1>3, <1>4
  <2> QED BY <2>1, NoEarly DEF At
<1>6. At(b, t, Boundary, Width)
  <2>1. k \in 0..Len(f)
    BY <1>1
  <2> QED BY <1>2, <2>1 DEF At, Laid
<1>7. ASSUME t + Width <= e PROVE Find(q, Boundary, 1) = t - s + 1
  <2>1. PICK z \in Nat : z = t - s + 1 /\ z >= 1 /\ s + (z - 1) = t /\ s + (z - 1) + Width <= e
    <3>1. t - s + 1 \in Nat /\ t - s + 1 >= 1 /\ s + ((t - s + 1) - 1) = t
      BY <1>4
    <3> QED BY <1>7, <3>1
  <2>2. ASSUME NEW j \in 1..(z - 1) PROVE ~At(b, s + (j - 1), Boundary, Width)
    <3>1. s + (j - 1) \in s..(t - 1)
      BY <1>4, <2>1
    <3> QED BY <1>5, <3>1
  <2>3. At(b, s + (z - 1), Boundary, Width)
    BY <1>6, <2>1
  <2>4. 1 \in Nat /\ 1 > 0 /\ 1 <= z
    BY <2>1
  <2> QED BY <2>1, <2>2, <2>3, <2>4, SizedBoundary, SeenAt
<1>8. ASSUME e < t + Width PROVE Find(q, Boundary, 1) = 0
  <2>1. ASSUME NEW j \in 1..(e - s - Width + 1) PROVE ~At(b, s + (j - 1), Boundary, Width)
    <3>1. s + (j - 1) \in s..(t - 1)
      BY <1>0, <1>4, <1>8
    <3> QED BY <1>5, <3>1
  <2>2. 1 \in Nat /\ 1 > 0
    OBVIOUS
  <2> QED BY <2>1, <2>2, SizedBoundary, SeenNone
<1> QED BY <1>2, <1>7, <1>8

LEMMA FirstBefore ==
  ASSUME NEW f \in Form, NEW b, Laid(f, b), NEW q, NEW s, NEW e, Window(q, b, s, e),
         NEW k \in 0..Len(f), s = Start(f, k), Start(f, k) + Width <= e
  PROVE  Find(q, Boundary, 1) = 1
<1>1. At(b, s, Boundary, Width)
  BY DEF At, Laid
<1>2. s \in Nat
  BY DEF Window
<1>3. s + (1 - 1) = s /\ 1 \in Nat /\ 1 > 0 /\ 1 <= 1 /\ \A j \in 1..(1 - 1) : FALSE
  BY <1>2
<1>4. s + (1 - 1) + Width <= e
  BY <1>3
<1>5. At(b, s + (1 - 1), Boundary, Width) /\ \A j \in 1..(1 - 1) : ~At(b, s + (j - 1), Boundary, Width)
  BY <1>1, <1>3
<1> QED BY <1>3, <1>4, <1>5, SizedBoundary, SeenAt

-----------------------------------------------------------------------------
(* Boundaries that are cut in two. *)

LEMMA TakeBoundary ==
  ASSUME NEW i \in 1..(Width - 1)
  PROVE  /\ Take(Boundary, i) \in Bytes /\ Len(Take(Boundary, i)) = i /\ i \in Nat /\ i > 0
         /\ \A j \in 1..i : Take(Boundary, i)[j] = Boundary[j]
<1>1. Width \in Nat /\ Width = Len(Boundary) /\ Boundary \in Bytes
  BY WidthIs, Bounds
<1>2. i \in Int /\ 1 <= i /\ i <= Width /\ i \in Nat
  BY <1>1
<1>3. i <= Len(Boundary)
  BY <1>1, <1>2
<1> QED BY SMTT(30), <1>1, <1>2, <1>3, TakeIs DEF Bytes

LEMMA Cut ==
  ASSUME NEW f \in Form, NEW b, Laid(f, b), NEW q, NEW s, NEW e, Window(q, b, s, e),
         NEW k \in 0..Len(f), s <= Start(f, k), Start(f, k) < e, e < Start(f, k) + Width
  PROVE  MayBeBoundary(q)
<1>0. Width \in Nat /\ Width > 0 /\ Width = Len(Boundary)
  BY WidthIs
<1>1. PICK t \in Nat : t = Start(f, k)
  BY Starts
<1>2. /\ q \in Bytes /\ s \in Nat /\ e \in Nat /\ s <= e /\ Len(q) = e - s
      /\ \A i \in 1..(e - s) : q[i] = b[s + i]
  BY DEF Window
<1>3. s <= t /\ t < e /\ e < t + Width
  BY <1>1
<1>4. PICK m \in Nat : m = e - t /\ m \in 1..(Width - 1)
  <2>1. e - t \in Nat /\ e - t \in 1..(Width - 1)
    BY <1>0, <1>2, <1>3
  <2> QED BY <2>1
<1> DEFINE p == Take(Boundary, m)
<1>5. p \in Bytes /\ Len(p) = m /\ m > 0 /\ \A j \in 1..m : p[j] = Boundary[j]
  BY <1>4, TakeBoundary
<1> HIDE DEF p
<1>6. PICK l \in Nat : l = e - s /\ l = Len(q) /\ m <= l
  <2>1. e - s \in Nat /\ m <= e - s
    BY <1>2, <1>3, <1>4
  <2> QED BY <1>2, <2>1
<1>7. ASSUME NEW i \in 1..m PROVE q[l - m + i] = p[i]
  <2>1. l - m + i \in 1..(e - s) /\ s + (l - m + i) = t + i /\ i \in 1..Width
    BY <1>0, <1>2, <1>4, <1>6
  <2>2. b[t + i] = Boundary[i]
    BY <1>1, <2>1 DEF Laid
  <2> QED BY <1>2, <1>5, <2>1, <2>2
<1>8. IsSuffix(p, q)
  BY <1>2, <1>5, <1>6, <1>7, SuffixIf
<1>9. m \in 1..(Len(Boundary) - 1)
  BY <1>0, <1>4
<1> QED BY <1>8, <1>9 DEF MayBeBoundary, p

\* A body does not end like a boundary begins.
LEMMA NotCut ==
  ASSUME NEW f \in Form, NEW b, Laid(f, b), NEW q, NEW s, NEW e, Window(q, b, s, e),
         MayBeBoundary(q)
  PROVE  e < Len(b)
<1>0. Width \in Nat /\ Width > 0 /\ Width = Len(Boundary)
  BY WidthIs
<1>1. PICK n \in Nat : n = Len(f)
  BY FormTyped
<1>2. /\ q \in Bytes /\ s \in Nat /\ e \in Nat /\ s <= e /\ e <= Len(b) /\ Len(q) = e - s
      /\ \A i \in 1..(e - s) : q[i] = b[s + i]
  BY DEF Window
<1>3. PICK t \in Nat : t = Start(f, n)
  <2>1. n \in 0..Len(f)
    BY <1>1
  <2> QED BY <2>1, Starts
<1>4. Len(b) = t + Width + 4 /\ b[t + Width + 4] = "lf"
  BY <1>1, <1>3 DEF Laid
<1>5. SUFFICES ASSUME e = t + Width + 4 PROVE FALSE
  BY <1>0, <1>2, <1>4
<1>6. PICK m \in 1..(Len(Boundary) - 1) : IsSuffix(Take(Boundary, m), q)
  BY DEF MayBeBoundary
<1> DEFINE p == Take(Boundary, m)
<1>7. m \in 1..(Width - 1)
  BY <1>0, <1>6
<1>8. p \in Bytes /\ Len(p) = m /\ m \in Nat /\ m > 0 /\ \A j \in 1..m : p[j] = Boundary[j]
  BY <1>7, TakeBoundary
<1>9. IsSuffix(p, q)
  BY <1>6
<1> HIDE DEF p
<1>10. PICK l \in Nat : l = Len(q) /\ l = e - s
  BY <1>2
<1>11. l > 0 /\ q[l] = p[m]
  BY SMTT(30), <1>2, <1>8, <1>9, <1>10, SuffixLast
<1>12. l \in 1..(e - s) /\ s + l = t + Width + 4
  BY <1>0, <1>2, <1>5, <1>10, <1>11
<1>13. q[l] = "lf"
  BY <1>2, <1>4, <1>12
<1>14. m \in 1..Len(Boundary)
  BY <1>0, <1>7
<1>15. p[m] /= "lf"
  <2>1. \A i \in 1..Len(Boundary) : Boundary[i] \notin {"cr", "lf"}
    BY MultipartAssumption
  <2>2. m \in 1..m
    BY <1>8
  <2> QED BY <1>8, <1>14, <2>1, <2>2
<1> QED BY <1>11, <1>13, <1>15

-----------------------------------------------------------------------------
(* What is seen at a boundary. *)

\* The boundary behind part k begins behind the s-th byte.
Begins(f, k, s) == s = Start(f, k)

LEMMA SizedEnds ==
  /\ Sized(Break, 2) /\ Sized(Break \o Break, 4)
  /\ Break[1] = "cr" /\ Break[2] = "lf"
  /\ (Break \o Break)[1] = "cr" /\ (Break \o Break)[2] = "lf"
  /\ (Break \o Break)[3] = "cr" /\ (Break \o Break)[4] = "lf"
BY Bounds, Ends DEF Sized

LEMMA LastIs ==
  /\ Boundary \o Final \in Bytes /\ Len(Boundary \o Final) = Width + 4
  /\ \A i \in 1..Width : (Boundary \o Final)[i] = Boundary[i]
  /\ (Boundary \o Final)[Width + 1] = "-" /\ (Boundary \o Final)[Width + 2] = "-"
  /\ (Boundary \o Final)[Width + 3] = "cr" /\ (Boundary \o Final)[Width + 4] = "lf"
<1> DEFINE z == Boundary \o Final
<1>1. /\ Boundary \in Bytes /\ Final \in Bytes /\ Len(Final) = 4 /\ Len(Boundary) = Width
      /\ Final[1] = "-" /\ Final[2] = "-" /\ Final[3] = "cr" /\ Final[4] = "lf"
      /\ Width \in Nat
  BY Bounds, WidthIs
<1>2. /\ z \in Bytes /\ Len(z) = Len(Boundary) + Len(Final)
      /\ \A i \in 1..(Len(Boundary) + Len(Final)) :
           z[i] = IF i <= Len(Boundary) THEN Boundary[i] ELSE Final[i - Len(Boundary)]
  BY <1>1, ConcatProperties DEF Bytes
<1> HIDE DEF z
<1>3. Len(z) = Width + 4 /\ \A i \in 1..(Width + 4) :
           z[i] = IF i <= Width THEN Boundary[i] ELSE Final[i - Width]
  BY <1>1, <1>2
<1>4. ASSUME NEW i \in 1..Width PROVE z[i] = Boundary[i]
  <2>1. i \in 1..(Width + 4) /\ i <= Width
    BY <1>1
  <2> QED BY <1>3, <2>1
<1>5. ASSUME NEW i \in 1..4 PROVE z[Width + i] = Final[i]
  <2>1. Width + i \in 1..(Width + 4) /\ ~(Width + i <= Width) /\ (Width + i) - Width = i
    BY <1>1
  <2> QED BY <1>3, <2>1
<1>6. 1 \in 1..4 /\ 2 \in 1..4 /\ 3 \in 1..4 /\ 4 \in 1..4
  OBVIOUS
<1>7. z[Width + 1] = "-" /\ z[Width + 2] = "-" /\ z[Width + 3] = "cr" /\ z[Width + 4] = "lf"
  BY <1>1, <1>5, <1>6, Zenon
<1> QED BY <1>2, <1>3, <1>4, <1>7 DEF z

\* No line break begins in a boundary.
LEMMA Unbroken ==
  ASSUME NEW f \in Form, NEW b, Laid(f, b), NEW k \in 0..Len(f), NEW s, Begins(f, k, s),
         NEW j \in 1..Width
  PROVE  ~At(b, s + (j - 1), Break, 2)
<1>1. s \in Nat /\ Width \in Nat
  BY Starts, WidthIs DEF Begins
<1>2. s + (j - 1) + 1 = s + j /\ 1 \in 1..2
  BY <1>1
<1>3. b[s + j] = Boundary[j]
  BY DEF Laid, Begins
<1>4. Boundary[j] /= "cr"
  <2>1. \A i \in 1..Len(Boundary) : Boundary[i] \notin {"cr", "lf"}
    BY MultipartAssumption
  <2>2. j \in 1..Len(Boundary)
    BY WidthIs
  <2> QED BY <2>1, <2>2
<1> QED BY <1>2, <1>3, <1>4, SizedEnds DEF At

\* What AtBoundary sees of the header of part k.
LEMMA HeaderSeen ==
  ASSUME NEW f \in Form, NEW b, Laid(f, b), NEW q, NEW s, NEW e, Window(q, b, s, e),
         NEW k \in 1..Len(f), Begins(f, k - 1, s), s + Width <= e
  PROVE  /\ ~IsPrefix(Boundary \o Final, q)
         /\ s + Width + 7 <= e =>
              /\ Find(q, Break, 1) = Width + 1 /\ Find(q, Break \o Break, (Width + 1) + 2) = Width + 4
              /\ q[(Width + 1) + 2] = Header(f[k])
         /\ e < s + Width + 7 =>
              \/ Find(q, Break, 1) = 0
              \/ Find(q, Break, 1) = Width + 1 /\ Find(q, Break \o Break, (Width + 1) + 2) = 0
<1>0. Width \in Nat /\ Width > 0
  BY WidthIs
<1>1. PICK n \in Nat : n = Len(f)
  BY FormTyped
<1>2. /\ q \in Bytes /\ s \in Nat /\ e \in Nat /\ Len(q) = e - s
      /\ \A i \in 1..(e - s) : q[i] = b[s + i]
  BY DEF Window
<1>3. /\ b[s + Width + 1] = "cr" /\ b[s + Width + 2] = "lf" /\ b[s + Width + 3] = Header(f[k])
      /\ b[s + Width + 4] = "cr" /\ b[s + Width + 5] = "lf"
      /\ b[s + Width + 6] = "cr" /\ b[s + Width + 7] = "lf"
  BY DEF Laid, Begins
<1>4. Header(f[k]) /= "cr"
  BY FormTyped, HeaderIs
<1>5. ASSUME NEW j \in 1..Width PROVE ~At(b, s + (j - 1), Break, 2)
  <2>1. k - 1 \in 0..Len(f)
    BY <1>1
  <2> QED BY <2>1, Unbroken
<1>6. At(b, s + Width, Break, 2)
  <2>1. \A i \in 1..2 : b[s + Width + i] = Break[i]
    <3>1. \A i \in 1..2 : i = 1 \/ i = 2
      OBVIOUS
    <3> QED BY <1>3, <3>1, SizedEnds, Zenon
  <2> QED BY <2>1 DEF At
<1>7. ~IsPrefix(Boundary \o Final, q)
  <2> DEFINE p == Boundary \o Final
  <2>1. PICK m \in Nat : m = Width + 4
    BY <1>0
  <2>2. p \in Bytes /\ Len(p) = m /\ p[Width + 1] = "-"
    BY <2>1, LastIs
  <2> HIDE DEF p
  <2>3. SUFFICES ASSUME IsPrefix(p, q) PROVE FALSE
    BY DEF p
  <2>4. m > 0
    BY <1>0, <2>1
  <2>5. m <= Len(q) /\ \A i \in 1..m : q[i] = p[i]
    BY <1>2, <2>2, <2>3, <2>4, PrefixIs
  <2>6. Width + 1 \in 1..m /\ Width + 1 \in 1..(e - s) /\ s + (Width + 1) = s + Width + 1
    BY <1>0, <1>2, <2>1, <2>5
  <2>7. q[Width + 1] = "-" /\ q[Width + 1] = "cr"
    BY <1>2, <1>3, <2>2, <2>5, <2>6
  <2> QED BY <2>7
<1>8. ASSUME s + Width + 2 <= e PROVE Find(q, Break, 1) = Width + 1
  <2>1. PICK z \in Nat : z = Width + 1
    BY <1>0
  <2>2. s + (z - 1) = s + Width /\ s + (z - 1) + 2 <= e /\ 1 <= z /\ 1 \in Nat /\ 1 > 0
        /\ 1..(z - 1) = 1..Width
    BY <1>0, <1>2, <1>8, <2>1
  <2>3. At(b, s + (z - 1), Break, 2) /\ \A j \in 1..(z - 1) : ~At(b, s + (j - 1), Break, 2)
    BY <1>5, <1>6, <2>2
  <2>4. Sized(Break, 2)
    BY SizedEnds
  <2> QED BY <2>1, <2>2, <2>3, <2>4, SeenAt
<1>9. ASSUME e < s + Width + 2 PROVE Find(q, Break, 1) = 0
  <2>1. ASSUME NEW j \in 1..(e - s - 2 + 1) PROVE ~At(b, s + (j - 1), Break, 2)
    <3>1. j \in 1..Width
      BY <1>0, <1>2, <1>9
    <3> QED BY <1>5, <3>1
  <2>2. Sized(Break, 2) /\ 1 \in Nat /\ 1 > 0
    BY SizedEnds
  <2> QED BY <2>1, <2>2, SeenNone
<1>10. PICK c \in Nat : c = Width + 3 /\ c = (Width + 1) + 2 /\ s + (c - 1) = s + Width + 2 /\ c > 0
  <2>1. Width + 3 \in Nat /\ Width + 3 = (Width + 1) + 2 /\ s + ((Width + 3) - 1) = s + Width + 2
        /\ Width + 3 > 0
    BY <1>0, <1>2
  <2> QED BY <2>1
<1>11. ~At(b, s + (c - 1), Break \o Break, 4)
  <2>1. s + (c - 1) + 1 = s + Width + 3 /\ 1 \in 1..4
    BY <1>0, <1>2, <1>10
  <2> QED BY <1>3, <1>4, <2>1, SizedEnds DEF At
<1>12. ASSUME s + Width + 7 <= e PROVE Find(q, Break \o Break, c) = Width + 4
  <2>1. PICK z \in Nat : z = Width + 4
    BY <1>0
  <2>2. s + (z - 1) = s + Width + 3 /\ s + (z - 1) + 4 <= e /\ c <= z
    BY <1>0, <1>2, <1>10, <1>12, <2>1
  <2>3. At(b, s + (z - 1), Break \o Break, 4)
    <3>1. \A i \in 1..4 : b[s + Width + 3 + i] = (Break \o Break)[i]
      <4>1. s + Width + 3 + 1 = s + Width + 4 /\ s + Width + 3 + 2 = s + Width + 5
            /\ s + Width + 3 + 3 = s + Width + 6 /\ s + Width + 3 + 4 = s + Width + 7
        BY <1>0, <1>2
      <4>2. \A i \in 1..4 : i = 1 \/ i = 2 \/ i = 3 \/ i = 4
        OBVIOUS
      <4> QED BY <1>3, <4>1, <4>2, SizedEnds, Zenon
    <3> QED BY <2>2, <3>1 DEF At
  <2>4. ASSUME NEW j \in c..(z - 1) PROVE ~At(b, s + (j - 1), Break \o Break, 4)
    <3>1. j = c
      BY <1>0, <1>10, <2>1
    <3> QED BY <1>11, <3>1
  <2>5. Sized(Break \o Break, 4)
    BY SizedEnds
  <2>6. c > 0 /\ c <= z /\ s + (z - 1) + 4 <= e
    BY <1>10, <2>2
  <2>7. Find(q, Break \o Break, c) = z
    BY <2>3, <2>4, <2>5, <2>6, SeenAt
  <2> QED BY <2>1, <2>7
<1>13. ASSUME e < s + Width + 7 PROVE Find(q, Break \o Break, c) = 0
  <2>1. ASSUME NEW j \in c..(e - s - 4 + 1) PROVE ~At(b, s + (j - 1), Break \o Break, 4)
    <3>1. j = c
      BY <1>0, <1>2, <1>10, <1>13
    <3> QED BY <1>11, <3>1
  <2>2. Sized(Break \o Break, 4)
    BY SizedEnds
  <2> QED BY <1>10, <2>1, <2>2, SeenNone
<1>14. ASSUME s + Width + 7 <= e PROVE s + Width + 2 <= e /\ q[c] = Header(f[k])
  <2>1. PICK w \in Nat : w = Width
    BY <1>0
  <2>2. s \in Nat /\ e \in Nat
    BY <1>2
  <2>3. c \in Nat /\ c = w + 3 /\ s + w + 7 <= e
    BY <1>10, <1>14, <2>1
  <2>4. s + w + 2 <= e /\ c \in 1..(e - s) /\ s + c = s + w + 3
    BY <2>2, <2>3
  <2>5. s + Width + 2 <= e /\ c \in 1..(e - s) /\ s + c = s + Width + 3
    BY <2>1, <2>4
  <2>6. q[c] = b[s + c]
    BY <1>2, <2>5
  <2> QED BY <1>3, <2>5, <2>6
<1>15. s + Width + 2 <= e \/ e < s + Width + 2
  BY <1>0, <1>2
<1> QED BY <1>7, <1>8, <1>9, <1>10, <1>12, <1>13, <1>14, <1>15

\* What it sees of the end of the body.
LEMMA FinalSeen ==
  ASSUME NEW f \in Form, NEW b, Laid(f, b), NEW q, NEW s, NEW e, Window(q, b, s, e),
         Begins(f, Len(f), s), s + Width <= e
  PROVE  /\ IsPrefix(Boundary \o Final, q) => e = Len(b)
         /\ ~IsPrefix(Boundary \o Final, q) => e < Len(b) /\ Find(q, Break, 1) = 0
<1>0. Width \in Nat /\ Width > 0
  BY WidthIs
<1>1. PICK n \in Nat : n = Len(f)
  BY FormTyped
<1>2. /\ q \in Bytes /\ s \in Nat /\ e \in Nat /\ Len(q) = e - s /\ e <= Len(b)
      /\ \A i \in 1..(e - s) : q[i] = b[s + i]
  BY DEF Window
<1>3. /\ Len(b) = s + Width + 4
      /\ \A i \in 1..Width : b[s + i] = Boundary[i]
      /\ b[s + Width + 1] = "-" /\ b[s + Width + 2] = "-"
      /\ b[s + Width + 3] = "cr" /\ b[s + Width + 4] = "lf"
  <2>1. n \in 0..Len(f)
    BY <1>1
  <2> QED BY <1>1, <2>1 DEF Laid, Begins
<1> DEFINE p == Boundary \o Final
<1>4. PICK m \in Nat : m = Width + 4 /\ m > 0
  BY <1>0
<1>5. /\ p \in Bytes /\ Len(p) = m /\ \A i \in 1..Width : p[i] = Boundary[i]
      /\ p[Width + 1] = "-" /\ p[Width + 2] = "-" /\ p[Width + 3] = "cr" /\ p[Width + 4] = "lf"
  BY <1>4, LastIs
<1> HIDE DEF p
<1>6. IsPrefix(p, q) <=> m <= Len(q) /\ \A i \in 1..m : q[i] = p[i]
  BY <1>2, <1>4, <1>5, PrefixIs
<1>7. e <= s + Width + 4
  BY <1>2, <1>3
<1>8. ASSUME IsPrefix(p, q) PROVE e = Len(b)
  BY <1>0, <1>2, <1>3, <1>4, <1>6, <1>7, <1>8
<1>9. ASSUME e = s + Width + 4 PROVE IsPrefix(p, q)
  <2>1. e - s = m
    BY <1>0, <1>2, <1>4, <1>9
  <2>2. ASSUME NEW i \in 1..m PROVE q[i] = p[i]
    <3>1. q[i] = b[s + i]
      BY <1>2, <2>1
    <3>2. i \in 1..Width \/ i = Width + 1 \/ i = Width + 2 \/ i = Width + 3 \/ i = Width + 4
      BY <1>0, <1>4
    <3>3. s + (Width + 1) = s + Width + 1 /\ s + (Width + 2) = s + Width + 2
          /\ s + (Width + 3) = s + Width + 3 /\ s + (Width + 4) = s + Width + 4
      BY <1>0, <1>2
    <3> QED BY <1>3, <1>5, <3>1, <3>2, <3>3, Zenon
  <2>3. m <= Len(q)
    BY <1>2, <1>4, <2>1
  <2> QED BY <1>6, <2>2, <2>3
<1>10. ASSUME ~IsPrefix(p, q) PROVE e < Len(b) /\ Find(q, Break, 1) = 0
  <2>0. e /= s + Width + 4
    BY <1>9, <1>10
  <2>1. e < s + Width + 4
    BY <1>0, <1>2, <1>7, <2>0
  <2>2. ASSUME NEW j \in 1..(e - s - 2 + 1) PROVE ~At(b, s + (j - 1), Break, 2)
    <3>1. j \in 1..Width \/ j = Width + 1 \/ j = Width + 2
      BY <1>0, <1>2, <2>1
    <3>2. CASE j \in 1..Width
      <4>1. n \in 0..Len(f)
        BY <1>1
      <4> QED BY <1>1, <3>2, <4>1, Unbroken
    <3>3. CASE j = Width + 1 \/ j = Width + 2
      <4>1. s + (j - 1) + 1 = s + Width + 1 \/ s + (j - 1) + 1 = s + Width + 2
        BY <1>0, <1>2, <3>3
      <4>2. b[s + (j - 1) + 1] = "-" /\ 1 \in 1..2
        BY <1>3, <4>1
      <4> QED BY <4>2, SizedEnds DEF At
    <3> QED BY <3>1, <3>2, <3>3
  <2>3. Sized(Break, 2) /\ 1 \in Nat /\ 1 > 0
    BY SizedEnds
  <2>4. Find(q, Break, 1) = 0
    BY <2>2, <2>3, SeenNone
  <2> QED BY <1>3, <2>1, <2>4
<1> QED BY <1>8, <1>10 DEF p

-----------------------------------------------------------------------------
(* How far a form has been read. *)

\* Nothing in a part is to be refused.
Fine(part) ==
  /\ part.file => Len(part.data) <= MaxFileSize /\ (AllowEmpty \/ part.data /= <<>>)
  /\ part.file \/ ~IsBlank(part.data) => part.keys = "array"
  /\ ~part.file => IsText(part.data)
  /\ part.keys /= "panic"

\* The first k parts of a form have been taken, and nothing of them was refused.
Accepted(f, r, k) ==
  /\ r.parts = StoredIn(f, k)
  /\ \A j \in 1..k : Fine(f[j])
  /\ r.filesTotal <= MaxFilesTotal /\ r.fieldsTotal <= MaxFieldsTotal /\ r.filesTotal <= DiskSpace
  /\ r.files <= MaxFiles /\ r.fields <= MaxFields

\* What is next is the boundary behind part k.
Before(f, r, k) ==
  /\ Accepted(f, r, k)
  /\ r.filesTotal = DataIn(f, TRUE, k) /\ r.fieldsTotal = DataIn(f, FALSE, k)
  /\ r.files = FilesIn(f, k) /\ r.fields = k
  /\ r.size = Start(f, k) /\ ~r.isWrite

\* What is next is data of part k, of which d bytes have been taken.
Within(f, r, k, d) ==
  /\ Accepted(f, r, k - 1)
  /\ r.filesTotal = DataIn(f, TRUE, k - 1) + (IF f[k].file THEN d ELSE 0)
  /\ r.fieldsTotal = DataIn(f, FALSE, k - 1) + (IF f[k].file THEN 0 ELSE d)
  /\ r.files = FilesIn(f, k) /\ r.fields = k
  /\ r.size = Start(f, k - 1) + Width + 7 + d
  /\ r.isWrite <=> f[k].file
  /\ r.keys = KeysOf(Header(f[k])) /\ f[k].keys /= "panic"
  /\ f[k].file => r.disk = Take(f[k].data, d)
  /\ ~f[k].file => r.body = Take(f[k].data, d) /\ IsText(r.body)
  /\ d > 0 => d < Len(f[k].data)

Progress(f, r) ==
  \/ \E k \in 0..Len(f) : Before(f, r, k)
  \/ \E k \in 1..Len(f) : \E d \in 0..Len(f[k].data) : Within(f, r, k, d)

\* The buffer has what comes behind what was counted, up to the e-th byte of the body.
Holds(f, r, e) ==
  r.length = Len(BodyBytes(f)) /\ Window(r.buff, BodyBytes(f), r.size, e)

\* Every boundary not yet taken is in the buffer, or not a byte of it or of the line
\* break before it is.
Settled(f, s, e) ==
  \A k \in 0..Len(f) : s <= Start(f, k) => e < Start(f, k) - 2 \/ Start(f, k) + Width <= e

\* What a result y does to a request that holds the body up to the e-th byte and has
\* counted s bytes.
Moves(f, e, s, y) ==
  /\ y.tag \in {"some", "none"} =>
       y.req \in UploadT /\ Progress(f, y.req) /\ Holds(f, y.req, e) /\ s <= y.req.size
  /\ y.tag = "none" => e < Len(BodyBytes(f))
  /\ y.tag = "done" => y.req.parts = Stored(f) /\ ~Refusable(f) /\ ~Panics(f)
  /\ y.tag = "refused" => Refusable(f)
  /\ y.tag = "garbled" => Breakable(f)
  /\ y.tag = "unwritten" => Len(DataOf(f, TRUE)) > DiskSpace
  /\ y.tag = "panicked" => Panics(f)
  /\ y.tag \in {"some", "none", "done", "refused", "garbled", "unwritten", "panicked"}

-----------------------------------------------------------------------------
(* What is refused. *)

LEMMA Above == \A x \in Nat : \A y \in Nat : \A m \in Nat : x <= y /\ x > m => y > m
OBVIOUS

LEMMA NotAbove == \A x \in Nat : \A m \in Nat : x <= m => ~(x > m)
OBVIOUS

LEMMA RefusedBytes ==
  ASSUME NEW f \in Form, NEW k \in 0..Len(f)
  PROVE  /\ DataIn(f, TRUE, k) > MaxFilesTotal => Refusable(f)
         /\ DataIn(f, FALSE, k) > MaxFieldsTotal => Refusable(f)
         /\ DataIn(f, TRUE, k) > DiskSpace => Refusable(f) /\ Len(DataOf(f, TRUE)) > DiskSpace
         /\ FilesIn(f, k) > MaxFiles => Refusable(f)
         /\ k > MaxFields => Refusable(f)
<1>1. PICK n \in Nat : n = Len(f) /\ n \in 0..Len(f)
  BY FormTyped
<1>2. MaxFilesTotal \in Nat /\ MaxFieldsTotal \in Nat /\ MaxFiles \in Nat /\ MaxFields \in Nat
      /\ DiskSpace \in Nat
  BY MultipartAssumption
<1>3. ASSUME DataIn(f, TRUE, k) > MaxFilesTotal PROVE Refusable(f)
  <2>1. DataIn(f, TRUE, k) \in Nat /\ DataIn(f, TRUE, k) <= Len(DataOf(f, TRUE))
    BY DataGrows
  <2>2. Len(DataOf(f, TRUE)) \in Nat
    BY <1>1, DataGrows
  <2>3. Len(DataOf(f, TRUE)) > MaxFilesTotal
    BY <1>2, <1>3, <2>1, <2>2, Above, Zenon
  <2> QED BY <2>3 DEF Refusable
<1>4. ASSUME DataIn(f, FALSE, k) > MaxFieldsTotal PROVE Refusable(f)
  <2>1. DataIn(f, FALSE, k) \in Nat /\ DataIn(f, FALSE, k) <= Len(DataOf(f, FALSE))
    BY DataGrows
  <2>2. Len(DataOf(f, FALSE)) \in Nat
    BY <1>1, DataGrows
  <2>3. Len(DataOf(f, FALSE)) > MaxFieldsTotal
    BY <1>2, <1>4, <2>1, <2>2, Above, Zenon
  <2> QED BY <2>3 DEF Refusable
<1>5. ASSUME FilesIn(f, k) > MaxFiles PROVE Refusable(f)
  <2>1. FilesIn(f, k) \in Nat /\ FilesIn(f, k) <= Len(OfKind(f, TRUE))
    BY FilesGrow
  <2>2. Len(OfKind(f, TRUE)) \in Nat
    BY <1>1, FilesGrow
  <2>3. Len(OfKind(f, TRUE)) > MaxFiles
    BY <1>2, <1>5, <2>1, <2>2, Above, Zenon
  <2> QED BY <2>3 DEF Refusable
<1>6. ASSUME k > MaxFields PROVE Refusable(f)
  <2>1. n > MaxFields
    BY <1>1, <1>2, <1>6
  <2> QED BY <1>1, <2>1 DEF Refusable
<1>7. ASSUME DataIn(f, TRUE, k) > DiskSpace PROVE Refusable(f) /\ Len(DataOf(f, TRUE)) > DiskSpace
  <2>1. DataIn(f, TRUE, k) \in Nat /\ DataIn(f, TRUE, k) <= Len(DataOf(f, TRUE))
    BY DataGrows
  <2>2. Len(DataOf(f, TRUE)) \in Nat
    BY <1>1, DataGrows
  <2>3. Len(DataOf(f, TRUE)) > DiskSpace
    BY <1>2, <1>7, <2>1, <2>2, Above, Zenon
  <2> QED BY <2>3 DEF Refusable
<1> QED BY <1>3, <1>4, <1>5, <1>6, <1>7

LEMMA AcceptedAll ==
  ASSUME NEW f \in Form, NEW r \in UploadT, Before(f, r, Len(f))
  PROVE  r.parts = Stored(f) /\ ~Refusable(f) /\ ~Panics(f)
<1>1. PICK n \in Nat : n = Len(f)
  BY FormTyped
<1>2. r.parts = Stored(f)
  BY StoredGrows DEF Before, Accepted
<1>3. ASSUME NEW k \in 1..n
      PROVE  /\ f[k].file => ~(Len(f[k].data) > MaxFileSize) /\ (AllowEmpty \/ f[k].data /= <<>>)
             /\ Gives(f[k]) /= <<>> => f[k].keys = "array"
             /\ ~f[k].file => IsText(f[k].data)
             /\ f[k].keys /= "panic"
  <2>1. Fine(f[k])
    BY <1>1, <1>3, Zenon DEF Before, Accepted
  <2>2. PICK d \in Nat : d = Len(f[k].data)
    BY <1>1, FormTyped
  <2>3. MaxFileSize \in Nat
    BY MultipartAssumption
  <2>4. d <= MaxFileSize => ~(d > MaxFileSize)
    BY <2>2, <2>3
  <2>5. f[k].file => ~(Len(f[k].data) > MaxFileSize) /\ (AllowEmpty \/ f[k].data /= <<>>)
    BY <2>1, <2>2, <2>4, Zenon DEF Fine
  <2> QED BY <2>1, <2>5, Zenon DEF Fine, Gives
<1>4. DiskSpace \in Nat /\ MaxFilesTotal \in Nat /\ MaxFieldsTotal \in Nat /\ MaxFiles \in Nat /\ MaxFields \in Nat
  BY MultipartAssumption
<1>5. PICK a \in Nat, c \in Nat, h \in Nat :
        a = Len(DataOf(f, TRUE)) /\ c = Len(DataOf(f, FALSE)) /\ h = Len(OfKind(f, TRUE))
        /\ a <= MaxFilesTotal /\ c <= MaxFieldsTotal /\ h <= MaxFiles /\ n <= MaxFields
        /\ a <= DiskSpace
  <2>1. n \in 0..Len(f) /\ n = Len(f)
    BY <1>1
  <2>2. DataIn(f, TRUE, n) \in Nat /\ DataIn(f, FALSE, n) \in Nat /\ FilesIn(f, n) \in Nat
    BY <2>1, DataGrows, FilesGrow
  <2>3. /\ Len(DataOf(f, TRUE)) = DataIn(f, TRUE, n) /\ Len(DataOf(f, FALSE)) = DataIn(f, FALSE, n)
        /\ Len(OfKind(f, TRUE)) = FilesIn(f, n)
    BY <2>1, DataGrows, FilesGrow
  <2>4. /\ DataIn(f, TRUE, n) <= MaxFilesTotal /\ DataIn(f, FALSE, n) <= MaxFieldsTotal
        /\ FilesIn(f, n) <= MaxFiles /\ n <= MaxFields /\ DataIn(f, TRUE, n) <= DiskSpace
    BY <2>1, Zenon DEF Before, Accepted
  <2> QED BY <2>2, <2>3, <2>4
<1>6. ~(a > DiskSpace) /\ ~(a > MaxFilesTotal) /\ ~(c > MaxFieldsTotal) /\ ~(h > MaxFiles) /\ ~(n > MaxFields)
  BY <1>4, <1>5, NotAbove, Zenon
<1> QED BY <1>1, <1>2, <1>3, <1>5, <1>6, Zenon DEF Refusable, Panics

-----------------------------------------------------------------------------
(* Data. *)

LEMMA TakeEnds ==
  ASSUME NEW p \in Bytes
  PROVE  Take(p, 0) = <<>> /\ Take(p, Len(p)) = p
<1>1. PICK l \in Nat : l = Len(p)
  BY BytesLen
<1>2. 0 <= Len(p) /\ 0 \in Int /\ p \in Seq(Byte)
  BY <1>1 DEF Bytes
<1>3. Take(p, 0) \in Seq(Byte) /\ Len(Take(p, 0)) = IF 1 <= 0 THEN 0 ELSE 0
  BY <1>2, TakeIs
<1>4. Take(p, 0) = <<>>
  BY <1>3, EmptySeq
<1>5. Take(p, Len(p)) = p
  BY <1>2, SubSeqFull DEF Take
<1> QED BY <1>4, <1>5

\* Bytes that follow a beginning of the data.
LEMMA Chunk ==
  ASSUME NEW p \in Bytes, NEW d \in Nat, NEW q \in Bytes, d + Len(q) <= Len(p),
         \A i \in 1..Len(q) : q[i] = p[d + i]
  PROVE  /\ Take(p, d) \o q = Take(p, d + Len(q))
         /\ Len(Take(p, d) \o q) = d + Len(q)
<1>1. PICK l \in Nat, m \in Nat : l = Len(p) /\ m = Len(q)
  BY BytesLen
<1>2. d + m <= l /\ d \in Int /\ d <= l /\ d + m \in Int /\ d + m \in Nat
  BY <1>1
<1>3. \A i \in 1..m : q[i] = p[d + i]
  BY <1>1
<1> DEFINE t == Take(p, d)
           u == Take(p, d + m)
           z == t \o q
<1>4. t \in Bytes /\ Len(t) = d /\ \A i \in 1..d : t[i] = p[i]
  <2>1. t \in Seq(Byte) /\ Len(t) = (IF 1 <= d THEN d ELSE 0) /\ \A i \in 1..d : t[i] = p[i]
    BY <1>1, <1>2, TakeIs DEF Bytes
  <2> QED BY <1>2, <2>1 DEF Bytes
<1>5. u \in Bytes /\ Len(u) = d + m /\ \A i \in 1..(d + m) : u[i] = p[i]
  <2>1. u \in Seq(Byte) /\ Len(u) = (IF 1 <= d + m THEN d + m ELSE 0) /\ \A i \in 1..(d + m) : u[i] = p[i]
    BY <1>1, <1>2, TakeIs DEF Bytes
  <2> HIDE DEF u
  <2>2. (IF 1 <= d + m THEN d + m ELSE 0) = d + m
    BY <1>2
  <2> QED BY <2>1, <2>2 DEF Bytes
<1> HIDE DEF t, u
<1>6. /\ z \in Bytes /\ Len(z) = Len(t) + Len(q)
      /\ \A i \in 1..(Len(t) + Len(q)) : z[i] = IF i <= Len(t) THEN t[i] ELSE q[i - Len(t)]
  BY <1>4, ConcatProperties DEF Bytes
<1> HIDE DEF z
<1>7. Len(z) = d + m /\ \A i \in 1..(d + m) : z[i] = IF i <= d THEN t[i] ELSE q[i - d]
  BY <1>1, <1>4, <1>6
<1>8. ASSUME NEW i \in 1..(d + m) PROVE z[i] = u[i]
  <2>1. CASE i <= d
    <3>1. i \in 1..d
      BY <2>1
    <3> QED BY <1>4, <1>5, <1>7, <2>1, <3>1
  <2>2. CASE ~(i <= d)
    <3>1. i - d \in 1..m /\ d + (i - d) = i
      BY <2>2
    <3> QED BY <1>3, <1>5, <1>7, <2>2, <3>1
  <2> QED BY <2>1, <2>2
<1>9. z = u
  <2>1. Len(z) = Len(u) /\ \A i \in 1..Len(z) : z[i] = u[i]
    BY <1>5, <1>7, <1>8
  <2> QED BY <1>5, <1>6, <2>1, SeqEqual DEF Bytes
<1> QED BY <1>1, <1>7, <1>9 DEF t, u, z

-----------------------------------------------------------------------------
(* What a header, the end of a part and data do to that. *)

LEMMA PlusNone == \A x \in Nat : x = x + 0
OBVIOUS

LEMMA HoldsIs ==
  ASSUME NEW f \in Form, NEW r, NEW e, Holds(f, r, e)
  PROVE  /\ Window(r.buff, BodyBytes(f), r.size, e) /\ r.length = Len(BodyBytes(f))
         /\ r.size \in Nat /\ e \in Nat /\ r.size <= e /\ e <= Len(BodyBytes(f))
         /\ Len(r.buff) = e - r.size /\ r.buff \in Bytes
BY DEF Holds, Window

\* Taking n bytes off the buffer.
LEMMA HoldsDrop ==
  ASSUME NEW f \in Form, NEW r, NEW e, Holds(f, r, e), NEW n \in Nat, r.size + n <= e,
         NEW t, t.length = r.length, t.size = r.size + n, t.buff = Drop(r.buff, n)
  PROVE  Holds(f, t, e)
<1>1. BodyBytes(f) \in Bytes
  BY BodyLaid DEF Laid
<1>2. Window(r.buff, BodyBytes(f), r.size, e) /\ r.length = Len(BodyBytes(f))
  BY DEF Holds
<1>3. Window(Drop(r.buff, n), BodyBytes(f), r.size + n, e)
  BY <1>1, <1>2, WindowDrop
<1> QED BY <1>2, <1>3, Zenon DEF Holds

\* The bytes of a part stand before those of the next, and of the end.
LEMMA Behind ==
  ASSUME NEW f \in Form, NEW k \in 1..Len(f)
  PROVE  /\ Start(f, k - 1) \in Nat /\ Start(f, k) \in Nat
         /\ Start(f, k) = Start(f, k - 1) + Width + 9 + Len(f[k].data)
         /\ Start(f, k) + Width + 4 <= Len(BodyBytes(f))
         /\ k \in 0..Len(f) /\ k - 1 \in 0..Len(f) /\ Len(f[k].data) \in Nat
<1>1. PICK n \in Nat : n = Len(f)
  BY FormTyped
<1>2. k \in 0..n /\ k - 1 \in 0..n /\ n \in 0..n /\ k \in 0..n /\ k \in 1..n
  BY <1>1
<1>3. Start(f, k - 1) \in Nat /\ Start(f, k) \in Nat /\ Start(f, n) \in Nat
      /\ Start(f, k) <= Start(f, n)
  BY <1>1, <1>2, Starts
<1>4. Len(BodyBytes(f)) = Start(f, n) + Width + 4
  BY <1>1, BodyLaid DEF Laid
<1>5. PICK a \in Nat, c \in Nat : a = Start(f, k) /\ c = Start(f, n)
  BY <1>3
<1>6. a + Width + 4 <= c + Width + 4
  <2>1. a <= c /\ Width \in Nat
    BY <1>3, <1>5, WidthIs
  <2> QED BY <2>1
<1>7. Start(f, k) + Width + 4 <= Len(BodyBytes(f))
  BY <1>4, <1>5, <1>6, Zenon
<1>8. Start(f, k) = Start(f, k - 1) + Width + 9 + Len(f[k].data)
  BY Starts
<1>9. Len(f[k].data) \in Nat
  BY FormTyped
<1> QED BY <1>1, <1>2, <1>3, <1>7, <1>8, <1>9, Zenon

\* A result that asks for more bytes.
LEMMA MovesNone ==
  ASSUME NEW f \in Form, NEW r \in UploadT, NEW e, Progress(f, r), Holds(f, r, e),
         NEW y, y = Result("none", r), e < Len(BodyBytes(f)), NEW s, s <= r.size
  PROVE  Moves(f, e, s, y)
<1>1. y.tag = "none" /\ y.req = r
  BY DEF Result
<1> QED BY <1>1 DEF Moves

LEMMA MovesRefused ==
  ASSUME NEW f, NEW e, NEW s, NEW y, y.tag = "refused", Refusable(f)
  PROVE  Moves(f, e, s, y)
BY DEF Moves

\* What ReadMeta makes of the header of part k.
LEMMA HeaderMoves ==
  ASSUME NEW f \in Form, NEW k \in 1..Len(f), NEW r \in UploadT, NEW e,
         Before(f, r, k - 1), Holds(f, r, e), r.size + Width + 7 <= e, NEW n \in Nat, n = Width + 7,
         NEW y, y = ReadMeta([r EXCEPT !.size = @ + n], n, Header(f[k]))
  PROVE  Moves(f, e, r.size, y)
<1> DEFINE t == [r EXCEPT !.size = @ + n]
           h == Header(f[k])
           files == IF h \in OfFile THEN t.files + 1 ELSE t.files
<1>1. /\ t \in UploadT /\ t.size = r.size + n /\ t.buff = r.buff /\ t.length = r.length
      /\ t.isWrite = r.isWrite /\ t.files = r.files /\ t.filesTotal = r.filesTotal
      /\ t.fields = r.fields /\ t.fieldsTotal = r.fieldsTotal /\ t.parts = r.parts
  BY Size
<1> HIDE DEF t
<1>2. r.size \in Nat /\ e \in Nat /\ r.size <= e /\ Len(r.buff) = e - r.size
  BY HoldsIs
<1>3. n > 0 /\ r.size + n <= e
  BY <1>2, WidthIs
<1>4. n \in 1..Len(t.buff)
  BY <1>1, <1>2, <1>3
<1>5. /\ f[k].file \in BOOLEAN /\ (h \in OfFile <=> f[k].file) /\ f[k].data \in Bytes
      /\ h \in OfPanic <=> f[k].keys = "panic"
  BY FormTyped, HeaderIs
<1>6. PICK c : c = files
  OBVIOUS
<1>7. ReadMetaGives(t, n, h, c, y)
  <2>1. y = ReadMeta(t, n, h)
    BY DEF t
  <2> HIDE DEF h
  <2> QED BY <1>1, <1>4, <1>6, <2>1, ReadMetaIs
<1>8. c = FilesIn(f, k)
  <2>1. FilesIn(f, k) = FilesIn(f, k - 1) + (IF f[k].file THEN 1 ELSE 0)
    BY FilesGrow
  <2>2. t.files = FilesIn(f, k - 1) /\ t.files \in Nat
    BY <1>1, UploadTyped DEF Before
  <2>3. c = t.files + (IF f[k].file THEN 1 ELSE 0)
    BY <1>5, <1>6, <2>2
  <2> QED BY <2>1, <2>2, <2>3, Zenon
<1>9. t.fields + 1 = k
  <2>1. t.fields = k - 1
    BY <1>1 DEF Before
  <2>2. (k - 1) + 1 = k
    OBVIOUS
  <2> QED BY <2>1, <2>2, Zenon
<1> HIDE DEF h
<1>10. CASE y.tag = "refused" /\ (t.fields + 1 > MaxFields \/ c > MaxFiles)
  <2>1. k \in 0..Len(f)
    BY Behind
  <2>2. Refusable(f)
    BY <1>8, <1>9, <1>10, <2>1, RefusedBytes
  <2> QED BY <1>10, <2>2, MovesRefused
<1>11. CASE /\ y.tag = "some" /\ y.req \in UploadT /\ y.req.length = t.length
            /\ y.req.size = t.size /\ y.req.buff = Drop(t.buff, n)
            /\ y.req.fields = t.fields + 1 /\ y.req.fields <= MaxFields
            /\ y.req.files = c /\ y.req.files <= MaxFiles
            /\ y.req.parts = t.parts
            /\ y.req.filesTotal = t.filesTotal /\ y.req.fieldsTotal = t.fieldsTotal
            /\ h \notin OfPanic /\ y.req.keys = KeysOf(h)
            /\ h \in OfFile => y.req.isWrite /\ y.req.disk = <<>>
            /\ h \notin OfFile => y.req.isWrite = t.isWrite /\ y.req.body = <<>>
  <2> DEFINE u == y.req
  <2>1. Holds(f, u, e)
    BY <1>1, <1>3, <1>11, HoldsDrop
  <2>2. /\ u.parts = r.parts /\ u.filesTotal = r.filesTotal /\ u.fieldsTotal = r.fieldsTotal
        /\ u.files = FilesIn(f, k) /\ u.fields = k /\ u.size = r.size + n
        /\ u.files <= MaxFiles /\ u.fields <= MaxFields
        /\ u.keys = KeysOf(h) /\ f[k].keys /= "panic"
        /\ f[k].file => u.isWrite /\ u.disk = <<>>
        /\ ~f[k].file => ~u.isWrite /\ u.body = <<>>
    BY <1>1, <1>5, <1>8, <1>9, <1>11, ZenonT(40) DEF Before
  <2> HIDE DEF u
  <2>3. Accepted(f, u, k - 1)
    BY <2>2, Zenon DEF Before, Accepted
  <2>4. u.filesTotal = DataIn(f, TRUE, k - 1) + 0 /\ u.fieldsTotal = DataIn(f, FALSE, k - 1) + 0
    <3>1. k - 1 \in 0..Len(f)
      BY Behind
    <3>2. DataIn(f, TRUE, k - 1) \in Nat /\ DataIn(f, FALSE, k - 1) \in Nat
      BY <3>1, DataGrows
    <3>3. u.filesTotal = DataIn(f, TRUE, k - 1) /\ u.fieldsTotal = DataIn(f, FALSE, k - 1)
      BY <2>2, Zenon DEF Before
    <3>4. DataIn(f, TRUE, k - 1) = DataIn(f, TRUE, k - 1) + 0
          /\ DataIn(f, FALSE, k - 1) = DataIn(f, FALSE, k - 1) + 0
      BY <3>2, PlusNone, Zenon
    <3> QED BY <3>3, <3>4, Zenon
  <2>5. u.size = Start(f, k - 1) + Width + 7 + 0
    <3>1. PICK a \in Nat : a = Start(f, k - 1)
      BY Behind
    <3>2. a + (Width + 7) = a + Width + 7 + 0
      BY WidthIs
    <3>3. r.size = a
      BY <3>1, Zenon DEF Before
    <3> QED BY <2>2, <3>1, <3>2, <3>3, Zenon
  <2>6. Take(f[k].data, 0) = <<>>
    BY <1>5, TakeEnds
  <2>7. ~(0 > 0) /\ (IF f[k].file THEN 0 ELSE 0) = 0 /\ IsText(<<>>)
    BY DEF IsText
  <2>8. Within(f, u, k, 0)
    BY <1>5, <2>2, <2>3, <2>4, <2>5, <2>6, <2>7, Zenon DEF Within, h
  <2>9. 0 \in 0..Len(f[k].data)
    BY Behind
  <2>10. Progress(f, u)
    BY <2>8, <2>9, Zenon DEF Progress
  <2>11. r.size <= u.size
    BY <1>2, <2>2
  <2> QED BY <1>11, <2>1, <2>10, <2>11 DEF Moves, u
<1>12. CASE y.tag = "panicked" /\ h \in OfPanic
  <2>1. Panics(f)
    BY <1>5, <1>12 DEF Panics
  <2>2. "panicked" \notin {"some", "none", "done", "refused", "garbled", "unwritten"}
    OBVIOUS
  <2> QED BY <1>12, <2>1, <2>2, Zenon DEF Moves
<1> QED BY <1>7, <1>10, <1>11, <1>12, Zenon DEF ReadMetaGives

\* What AtBoundary does at the boundary before part k.
LEMMA AtHeader ==
  ASSUME NEW f \in Form, NEW k \in 1..Len(f), NEW r \in UploadT, NEW e,
         Before(f, r, k - 1), Holds(f, r, e), r.size + Width <= e,
         NEW y, y = AtBoundary(r)
  PROVE  Moves(f, e, r.size, y)
<1> DEFINE q == r.buff
           s == r.size
           b == BodyBytes(f)
           bb == Break \o Break
<1>1. Laid(f, b) /\ Window(q, b, s, e) /\ r.length = Len(b) /\ Begins(f, k - 1, s)
  BY BodyLaid, HoldsIs DEF Before, Begins
<1>2. s \in Nat /\ e \in Nat /\ s <= e /\ e <= Len(b) /\ Width \in Nat /\ Len(q) = e - s
  BY HoldsIs, WidthIs
<1>3. PICK l \in Nat : l = Len(b)
  <2>1. b \in Bytes
    BY <1>1 DEF Laid
  <2> QED BY <2>1, BytesLen
<1>4. s + Width + 9 <= l
  <2>1. PICK a \in Nat, c \in Nat, d \in Nat :
          a = Start(f, k - 1) /\ c = Start(f, k) /\ d = Len(f[k].data)
    BY Behind
  <2>2. c = a + Width + 9 + d /\ c + Width + 4 <= l /\ s = a
    BY <1>1, <1>3, <2>1, Behind, Zenon DEF Begins
  <2> HIDE DEF s, b
  <2> QED BY <1>2, <2>2
<1>5. /\ ~IsPrefix(Boundary \o Final, q)
      /\ s + Width + 7 <= e =>
           /\ Find(q, Break, 1) = Width + 1 /\ Find(q, bb, (Width + 1) + 2) = Width + 4
           /\ q[(Width + 1) + 2] = Header(f[k])
      /\ e < s + Width + 7 =>
           \/ Find(q, Break, 1) = 0
           \/ Find(q, Break, 1) = Width + 1 /\ Find(q, bb, (Width + 1) + 2) = 0
  <2> HIDE DEF q, s, b
  <2> QED BY <1>1, HeaderSeen DEF s
<1>6. AtBoundaryGives(r, y)
  BY AtBoundaryIs
<1>7. CASE e < s + Width + 7
  <2>1. y = Result("none", r)
    <3> DEFINE lineEnd == Find(q, Break, 1)
               metaEnd == Find(q, bb, lineEnd + 2)
    <3>1. lineEnd = 0 \/ metaEnd = 0
      BY <1>5, <1>7
    <3>2. lineEnd > 0 /\ metaEnd > 0 => y = Result("none", r)
      <4>1. ~(0 > 0)
        OBVIOUS
      <4> QED BY <3>1, <4>1
    <3> HIDE DEF lineEnd, metaEnd
    <3> QED BY <1>5, <1>6, <3>2 DEF AtBoundaryGives, lineEnd, metaEnd
  <2>2. e < l
    <3> HIDE DEF s
    <3> QED BY <1>2, <1>4, <1>7
  <2>3. Progress(f, r)
    BY Behind, Zenon DEF Progress
  <2>4. s <= r.size
    BY <1>2
  <2> QED BY <1>3, <2>1, <2>2, <2>3, <2>4, MovesNone
<1>8. CASE s + Width + 7 <= e
  <2>1. PICK n \in Nat : n = Width + 7 /\ n = (Width + 4) + 3
    BY <1>2
  <2>2. ~(s + n >= l) /\ Width + 4 /= 0 /\ Width + 1 /= 0
    <3> HIDE DEF s
    <3> QED BY <1>2, <1>4, <2>1
  <2>3. y = ReadMeta([r EXCEPT !.size = @ + n], n, Header(f[k]))
    <3> DEFINE lineEnd == Find(q, Break, 1)
               metaEnd == Find(q, bb, lineEnd + 2)
    <3>1. lineEnd = Width + 1 /\ metaEnd = Width + 4 /\ q[lineEnd + 2] = Header(f[k])
      BY <1>5, <1>8
    <3>2. lineEnd /= 0 /\ metaEnd /= 0 /\ metaEnd + 3 = n /\ ~(r.size + (metaEnd + 3) >= r.length)
      BY <1>1, <1>3, <2>1, <2>2, <3>1, Zenon
    <3> HIDE DEF lineEnd, metaEnd
    <3>3. y = ReadMeta([r EXCEPT !.size = @ + (metaEnd + 3)], metaEnd + 3, q[lineEnd + 2])
      BY <1>5, <1>6, <3>2, Zenon DEF AtBoundaryGives, lineEnd, metaEnd
    <3> QED BY <3>1, <3>2, <3>3, Zenon
  <2>4. r.size + Width + 7 <= e
    BY <1>8
  <2> QED BY <2>1, <2>3, <2>4, HeaderMoves
<1> QED BY <1>2, <1>7, <1>8

\* What it does at the last one.
LEMMA AtLast ==
  ASSUME NEW f \in Form, NEW r \in UploadT, NEW e,
         Before(f, r, Len(f)), Holds(f, r, e), r.size + Width <= e,
         NEW y, y = AtBoundary(r)
  PROVE  Moves(f, e, r.size, y)
<1> DEFINE q == r.buff
           s == r.size
           b == BodyBytes(f)
<1>1. Laid(f, b) /\ Window(q, b, s, e) /\ r.length = Len(b) /\ Begins(f, Len(f), s)
  BY BodyLaid, HoldsIs DEF Before, Begins
<1>2. s \in Nat /\ e \in Nat /\ s <= e /\ e <= Len(b) /\ Width \in Nat
  BY HoldsIs, WidthIs
<1>3. /\ IsPrefix(Boundary \o Final, q) => e = Len(b)
      /\ ~IsPrefix(Boundary \o Final, q) => e < Len(b) /\ Find(q, Break, 1) = 0
  <2> HIDE DEF q, s, b
  <2> QED BY <1>1, FinalSeen DEF s
<1>4. AtBoundaryGives(r, y)
  BY AtBoundaryIs
<1>5. Len(b) = s + (Len(Boundary) + 4)
  <2>1. PICK a \in Nat : a = s
    BY <1>2
  <2>2. Len(b) = a + Width + 4
    BY <1>1, <2>1, Zenon DEF Laid, Begins
  <2>3. a + Width + 4 = a + (Width + 4)
    BY <1>2
  <2> QED BY <2>1, <2>2, <2>3, WidthIs, Zenon
<1>6. CASE IsPrefix(Boundary \o Final, q)
  <2>1. ~(s + (Len(Boundary) + 4) > r.length)
    <3>1. PICK a \in Nat : a = Len(b)
      <4>1. b \in Bytes
        BY <1>1 DEF Laid
      <4> QED BY <4>1, BytesLen
    <3>2. ~(a > a)
      OBVIOUS
    <3> QED BY <1>1, <1>5, <3>1, <3>2, Zenon
  <2>2. y.tag = "done" /\ y.req.parts = r.parts
    BY <1>4, <1>6, <2>1, Zenon DEF AtBoundaryGives
  <2>3. r.parts = Stored(f) /\ ~Refusable(f) /\ ~Panics(f)
    BY AcceptedAll
  <2> QED BY <2>2, <2>3 DEF Moves
<1>7. CASE ~IsPrefix(Boundary \o Final, q)
  <2>1. y = Result("none", r)
    <3> DEFINE lineEnd == Find(q, Break, 1)
    <3>1. lineEnd = 0 /\ ~(lineEnd > 0)
      BY <1>3, <1>7
    <3> HIDE DEF lineEnd
    <3> QED BY <1>4, <1>7, <3>1, Zenon DEF AtBoundaryGives, lineEnd
  <2>2. Len(f) \in 0..Len(f)
    BY FormTyped
  <2>3. Progress(f, r)
    BY <2>2, Zenon DEF Progress
  <2>4. s <= r.size
    BY <1>2
  <2> QED BY <1>3, <1>7, <2>1, <2>3, <2>4, MovesNone
<1> QED BY <1>6, <1>7

\* Bytes of the buffer that are data of part k.
LEMMA Piece ==
  ASSUME NEW f \in Form, NEW k \in 1..Len(f), NEW d \in Nat, NEW r,
         NEW e, Within(f, r, k, d), Holds(f, r, e),
         NEW m \in Nat, d + m <= Len(f[k].data), r.size + m <= e
  PROVE  /\ Take(r.buff, m) \in Bytes /\ Len(Take(r.buff, m)) = m
         /\ \A i \in 1..m : Take(r.buff, m)[i] = f[k].data[d + i]
<1> DEFINE q == r.buff
           b == BodyBytes(f)
<1>1. PICK a \in Nat, l \in Nat, s \in Nat, h \in Nat :
        a = Start(f, k - 1) /\ l = Len(f[k].data) /\ s = r.size /\ h = e
  BY Behind, HoldsIs
<1>2. q \in Bytes /\ Len(q) = h - s /\ s <= h /\ \A i \in 1..(h - s) : q[i] = b[s + i]
  BY <1>1 DEF Holds, Window
<1>3. \A i \in 1..l : b[a + Width + 7 + i] = f[k].data[i]
  BY <1>1, BodyLaid DEF Laid
<1>4. s = a + Width + 7 + d
  BY <1>1, Zenon DEF Within
<1>5. d + m <= l /\ s + m <= h
  BY <1>1
<1> HIDE DEF q, b
<1>6. m \in Int /\ m <= Len(q) /\ q \in Seq(Byte)
  BY <1>2, <1>5 DEF Bytes
<1>7. Take(q, m) \in Seq(Byte) /\ Len(Take(q, m)) = (IF 1 <= m THEN m ELSE 0)
      /\ \A i \in 1..m : Take(q, m)[i] = q[i]
  BY <1>6, TakeIs
<1>8. ASSUME NEW i \in 1..m PROVE Take(q, m)[i] = f[k].data[d + i]
  <2>1. i \in 1..(h - s) /\ d + i \in 1..l /\ s + i = a + Width + 7 + (d + i)
    BY <1>4, <1>5, WidthIs
  <2>2. Take(q, m)[i] = b[s + i]
    BY <1>2, <1>7, <2>1
  <2>3. b[a + Width + 7 + (d + i)] = f[k].data[d + i]
    BY <1>3, <2>1
  <2> QED BY <2>1, <2>2, <2>3, Zenon
<1>9. (IF 1 <= m THEN m ELSE 0) = m
  OBVIOUS
<1> QED BY <1>7, <1>8, <1>9 DEF Bytes, q

\* What is behind the data taken is the data up to there.
LEMMA Joined ==
  ASSUME NEW f \in Form, NEW k \in 1..Len(f), NEW d \in Nat, NEW r,
         NEW e, Within(f, r, k, d), Holds(f, r, e),
         NEW m \in Nat, d + m <= Len(f[k].data), r.size + m <= e
  PROVE  /\ Take(r.buff, m) \in Bytes /\ Len(Take(r.buff, m)) = m
         /\ Take(f[k].data, d) \o Take(r.buff, m) = Take(f[k].data, d + m)
         /\ Len(Take(f[k].data, d + m)) = d + m
<1> DEFINE p == f[k].data
           q == Take(r.buff, m)
<1>1. q \in Bytes /\ Len(q) = m /\ \A i \in 1..m : q[i] = p[d + i]
  BY Piece
<1>2. p \in Bytes
  BY FormTyped
<1> HIDE DEF q
<1> HIDE DEF p
<1>3. d + m <= Len(p)
  BY DEF p
<1>4. d + Len(q) <= Len(p) /\ \A i \in 1..Len(q) : q[i] = p[d + i]
  BY <1>1, <1>3
<1>5. Take(p, d) \o q = Take(p, d + Len(q)) /\ Len(Take(p, d) \o q) = d + Len(q)
  BY <1>1, <1>2, <1>4, Chunk
<1> QED BY <1>1, <1>5, Zenon DEF p, q

\* Text behind text is text, and so is what is behind text in a text.
LEMMA TextMore ==
  ASSUME NEW p \in Bytes, NEW q \in Bytes, IsText(p)
  PROVE  IsText(q) <=> IsText(p \o q)
<1> DEFINE z == p \o q
<1>1. PICK m \in Nat, n \in Nat : m = Len(p) /\ n = Len(q)
  BY BytesLen
<1>2. Len(z) = m + n /\ \A i \in 1..(m + n) : z[i] = IF i <= m THEN p[i] ELSE q[i - m]
  BY <1>1, ConcatProperties DEF Bytes
<1> HIDE DEF z
<1>3. \A i \in 1..m : z[i] = p[i]
  BY <1>2
<1>4. \A i \in 1..n : z[m + i] = q[i]
  <2> TAKE i \in 1..n
  <2>1. m + i \in 1..(m + n) /\ ~(m + i <= m) /\ (m + i) - m = i
    OBVIOUS
  <2> QED BY <1>2, <2>1
<1>5. \A i \in 1..m : /\ p[i] \in Lead => i < m /\ p[i + 1] \in Trail
                      /\ p[i] \in Trail => i > 1 /\ p[i - 1] \in Lead
  BY <1>1 DEF IsText
<1>6. ASSUME IsText(q) PROVE IsText(z)
  <2>1. \A i \in 1..n : /\ q[i] \in Lead => i < n /\ q[i + 1] \in Trail
                        /\ q[i] \in Trail => i > 1 /\ q[i - 1] \in Lead
    BY <1>1, <1>6 DEF IsText
  <2>2. ASSUME NEW i \in 1..(m + n)
        PROVE  /\ z[i] \in Lead => i < m + n /\ z[i + 1] \in Trail
               /\ z[i] \in Trail => i > 1 /\ z[i - 1] \in Lead
    <3>1. CASE i <= m
      <4>1. i \in 1..m
        BY <3>1
      <4>2. z[i] \in Lead => i < m + n /\ z[i + 1] \in Trail
        <5>1. SUFFICES ASSUME z[i] \in Lead PROVE i < m + n /\ z[i + 1] \in Trail
          OBVIOUS
        <5>2. i < m /\ p[i + 1] \in Trail
          BY <1>3, <1>5, <4>1, <5>1
        <5>3. i + 1 \in 1..m
          BY <5>2
        <5> QED BY <1>3, <5>2, <5>3
      <4>3. z[i] \in Trail => i > 1 /\ z[i - 1] \in Lead
        <5>1. SUFFICES ASSUME z[i] \in Trail PROVE i > 1 /\ z[i - 1] \in Lead
          OBVIOUS
        <5>2. i > 1 /\ p[i - 1] \in Lead
          BY <1>3, <1>5, <4>1, <5>1
        <5>3. i - 1 \in 1..m
          BY <4>1, <5>2
        <5> QED BY <1>3, <5>2, <5>3
      <4> QED BY <4>2, <4>3
    <3>2. CASE ~(i <= m)
      <4>1. PICK j \in 1..n : i = m + j
        <5>1. i - m \in 1..n /\ i = m + (i - m)
          BY <3>2
        <5> QED BY <5>1
      <4>2. z[i] = q[j]
        BY <1>4, <4>1
      <4>3. z[i] \in Lead => i < m + n /\ z[i + 1] \in Trail
        <5>1. SUFFICES ASSUME z[i] \in Lead PROVE i < m + n /\ z[i + 1] \in Trail
          OBVIOUS
        <5>2. j < n /\ q[j + 1] \in Trail
          BY <2>1, <4>2, <5>1
        <5>3. j + 1 \in 1..n /\ m + (j + 1) = i + 1
          BY <4>1, <5>2
        <5>4. z[m + (j + 1)] = q[j + 1]
          BY <1>4, <5>3
        <5> QED BY <4>1, <5>2, <5>3, <5>4
      <4>4. z[i] \in Trail => i > 1 /\ z[i - 1] \in Lead
        <5>1. SUFFICES ASSUME z[i] \in Trail PROVE i > 1 /\ z[i - 1] \in Lead
          OBVIOUS
        <5>2. j > 1 /\ q[j - 1] \in Lead
          BY <2>1, <4>2, <5>1
        <5>3. j - 1 \in 1..n /\ m + (j - 1) = i - 1
          BY <4>1, <5>2
        <5>4. z[m + (j - 1)] = q[j - 1]
          BY <1>4, <5>3
        <5> QED BY <4>1, <5>2, <5>3, <5>4
      <4> QED BY <4>3, <4>4
    <3> QED BY <3>1, <3>2
  <2> QED BY <1>2, <2>2 DEF IsText
<1>7. ASSUME IsText(z) PROVE IsText(q)
  <2>1. \A i \in 1..(m + n) : /\ z[i] \in Lead => i < m + n /\ z[i + 1] \in Trail
                              /\ z[i] \in Trail => i > 1 /\ z[i - 1] \in Lead
    BY <1>2, <1>7 DEF IsText
  <2>2. ASSUME NEW i \in 1..n
        PROVE  /\ q[i] \in Lead => i < n /\ q[i + 1] \in Trail
               /\ q[i] \in Trail => i > 1 /\ q[i - 1] \in Lead
    <3>1. m + i \in 1..(m + n) /\ z[m + i] = q[i]
      BY <1>4
    <3>2. q[i] \in Lead => i < n /\ q[i + 1] \in Trail
      <4>1. SUFFICES ASSUME q[i] \in Lead PROVE i < n /\ q[i + 1] \in Trail
        OBVIOUS
      <4>2. m + i < m + n /\ z[m + i + 1] \in Trail
        BY <2>1, <3>1, <4>1
      <4>3. i < n /\ i + 1 \in 1..n /\ m + i + 1 = m + (i + 1)
        BY <4>2
      <4> QED BY <1>4, <4>2, <4>3
    <3>3. q[i] \in Trail => i > 1 /\ q[i - 1] \in Lead
      <4>1. SUFFICES ASSUME q[i] \in Trail PROVE i > 1 /\ q[i - 1] \in Lead
        OBVIOUS
      <4>2. m + i > 1 /\ z[m + i - 1] \in Lead
        BY <2>1, <3>1, <4>1
      <4>3. CASE i > 1
        <5>1. i - 1 \in 1..n /\ m + i - 1 = m + (i - 1)
          BY <4>3
        <5> QED BY <1>4, <4>2, <4>3, <5>1
      <4>4. CASE ~(i > 1)
        <5>1. m \in 1..m /\ m + i - 1 = m
          BY <4>2, <4>4
        <5>2. p[m] \in Lead
          BY <1>3, <4>2, <5>1
        <5>3. m < m
          BY <1>5, <5>1, <5>2
        <5> QED BY <5>3
      <4> QED BY <4>3, <4>4
    <3> QED BY <3>2, <3>3
  <2> QED BY <1>1, <2>2 DEF IsText
<1> QED BY <1>6, <1>7 DEF z

\* The totals when the last bytes of part k are taken, those behind the d-th.
TotalsAre(f, r, k, d) ==
  \A m \in Nat : d + m = Len(f[k].data) =>
    /\ f[k].file => r.filesTotal + m = DataIn(f, TRUE, k) /\ r.fieldsTotal = DataIn(f, FALSE, k)
    /\ ~f[k].file => r.fieldsTotal + m = DataIn(f, FALSE, k) /\ r.filesTotal = DataIn(f, TRUE, k)

LEMMA Totals ==
  ASSUME NEW f \in Form, NEW k \in 1..Len(f), NEW d \in Nat, NEW r, Within(f, r, k, d)
  PROVE  TotalsAre(f, r, k, d)
<1> USE DEF TotalsAre
<1> TAKE m \in Nat
<1> HAVE d + m = Len(f[k].data)
<1>1. PICK t \in Nat, u \in Nat, l \in Nat :
        t = DataIn(f, TRUE, k - 1) /\ u = DataIn(f, FALSE, k - 1) /\ l = Len(f[k].data)
  BY Behind, DataGrows
<1>2. r.filesTotal = t + (IF f[k].file THEN d ELSE 0) /\ r.fieldsTotal = u + (IF f[k].file THEN 0 ELSE d)
  BY <1>1, Zenon DEF Within
<1>3. /\ DataIn(f, TRUE, k) = t + (IF f[k].file = TRUE THEN l ELSE 0)
      /\ DataIn(f, FALSE, k) = u + (IF f[k].file = FALSE THEN l ELSE 0)
  <2>1. TRUE \in BOOLEAN /\ FALSE \in BOOLEAN
    OBVIOUS
  <2> QED BY <1>1, <2>1, DataGrows, Zenon
<1>4. f[k].file \in BOOLEAN
  BY FormTyped
<1>5. d + m = l
  BY <1>1
<1>6. CASE f[k].file
  <2>1. f[k].file = TRUE /\ ~(f[k].file = FALSE)
    BY <1>4, <1>6
  <2>2. r.filesTotal = t + d /\ r.fieldsTotal = u + 0 /\ DataIn(f, TRUE, k) = t + l /\ DataIn(f, FALSE, k) = u + 0
    BY <1>2, <1>3, <1>6, <2>1, Zenon
  <2>3. (t + d) + m = t + l
    BY <1>5
  <2> QED BY <1>6, <2>2, <2>3, Zenon
<1>7. CASE ~f[k].file
  <2>1. ~(f[k].file = TRUE) /\ f[k].file = FALSE
    BY <1>4, <1>7
  <2>2. r.filesTotal = t + 0 /\ r.fieldsTotal = u + d /\ DataIn(f, TRUE, k) = t + 0 /\ DataIn(f, FALSE, k) = u + l
    BY <1>2, <1>3, <1>7, <2>1, Zenon
  <2>3. (u + d) + m = u + l
    BY <1>5
  <2> QED BY <1>7, <2>2, <2>3, Zenon
<1> QED BY <1>6, <1>7

LEMMA PartEnds ==
  ASSUME NEW f \in Form, NEW k \in 1..Len(f), NEW d \in Nat, d <= Len(f[k].data),
         NEW r \in UploadT, NEW e, Within(f, r, k, d), Holds(f, r, e),
         Start(f, k) + Width <= e,
         NEW n \in Nat, r.size + n = Start(f, k), NEW y, y = EndPart(r, n)
  PROVE  \/ y.tag = "refused" /\ Refusable(f)
         \/ /\ y.tag = "some" /\ y.req \in UploadT /\ Before(f, y.req, k) /\ Holds(f, y.req, e)
            /\ r.size <= y.req.size
<1> DEFINE p == f[k].data
           chunk == Take(r.buff, n - 2)
<1>1. PICK a \in Nat, c \in Nat, l \in Nat, s \in Nat, h \in Nat, o \in Nat :
        /\ a = Start(f, k - 1) /\ c = Start(f, k) /\ l = Len(p) /\ s = r.size /\ h = e
        /\ o = r.length
  BY Behind, HoldsIs, UploadTyped
<1>2. /\ s = a + Width + 7 + d /\ c = a + Width + 9 + l /\ d <= l /\ s + n = c /\ c + Width <= h
      /\ Len(r.buff) = h - s /\ c + Width + 4 <= o
  <2>1. s = a + Width + 7 + d
    BY <1>1, Zenon DEF Within
  <2>2. c = a + Width + 9 + l /\ c + Width + 4 <= o
    <3>1. r.length = Len(BodyBytes(f))
      BY HoldsIs
    <3> QED BY <1>1, <3>1, Behind, Zenon
  <2>3. Len(r.buff) = h - s
    BY <1>1, HoldsIs, Zenon
  <2> QED BY <1>1, <2>1, <2>2, <2>3
<1>3. PICK m \in Nat : m = n - 2 /\ d + m = l /\ s + m <= h /\ n \in 1..(h - s) /\ s + n < o /\ n >= 2 /\ s <= c /\ s + n <= h
  <2>1. n - 2 = l - d
    BY <1>2, WidthIs
  <2>2. n - 2 \in Nat
    BY <1>2, <2>1
  <2> QED BY <1>2, <2>1, <2>2, WidthIs
<1>4. chunk \in Bytes /\ Len(chunk) = m /\ Take(p, d) \o chunk = p
  <2>1. d + m <= Len(f[k].data) /\ r.size + m <= e
    BY <1>1, <1>2, <1>3
  <2>2. /\ Take(r.buff, m) \in Bytes /\ Len(Take(r.buff, m)) = m
        /\ Take(p, d) \o Take(r.buff, m) = Take(p, d + m)
    BY <2>1, Joined
  <2>3. p \in Bytes
    BY FormTyped
  <2>4. Take(p, Len(p)) = p
    BY <2>3, TakeEnds
  <2> QED BY <1>1, <1>3, <2>2, <2>4, Zenon
<1> HIDE DEF p
<1>5. EndPartGives(r, n, chunk, y)
  <2>1. n \in 1..Len(r.buff)
    BY <1>2, <1>3, Zenon
  <2> QED BY <2>1, EndPartIs
<1> HIDE DEF chunk
<1>6. /\ r.isWrite <=> f[k].file
      /\ r.keys = KeysOf(Header(f[k])) /\ f[k].keys /= "panic"
      /\ f[k].file => r.disk \o chunk = p
      /\ ~f[k].file => r.body \o chunk = p
  BY <1>4, Zenon DEF Within, p
<1>13. /\ f[k].file => (r.keys = "file" <=> f[k].keys = "array")
       /\ ~f[k].file => (r.keys = "field" <=> f[k].keys = "array")
  <2>1. f[k] \in Part
    BY FormTyped
  <2> QED BY <1>6, <2>1, HeaderIs, Zenon
<1>14. ~f[k].file => (IsText(chunk) <=> IsText(p))
  <2>1. ASSUME ~f[k].file PROVE IsText(chunk) <=> IsText(p)
    <3>1. IsText(r.body) /\ r.body \in Bytes
      BY <2>1, UploadTyped, Zenon DEF Within
    <3>2. IsText(chunk) <=> IsText(r.body \o chunk)
      BY <1>4, <3>1, TextMore
    <3> QED BY <1>6, <2>1, <3>2, Zenon
  <2> QED BY <2>1
<1>7. /\ f[k].file => r.filesTotal + Len(chunk) = DataIn(f, TRUE, k) /\ r.fieldsTotal = DataIn(f, FALSE, k)
      /\ ~f[k].file => r.fieldsTotal + Len(chunk) = DataIn(f, FALSE, k) /\ r.filesTotal = DataIn(f, TRUE, k)
  <2>1. d + m = Len(f[k].data)
    BY <1>1, <1>3 DEF p
  <2>2. TotalsAre(f, r, k, d)
    BY Totals
  <2> QED BY <1>4, <2>1, <2>2, Zenon DEF TotalsAre
<1>8. chunk = <<>> => p = <<>>
  <2>1. ASSUME chunk = <<>> PROVE p = <<>>
    <3>1. m = 0
      BY <1>4, <2>1
    <3>2. d > 0 => d < l
      BY <1>1, Zenon DEF Within, p
    <3>3. l = 0
      BY <1>3, <3>1, <3>2
    <3>4. p \in Seq(Byte)
      BY FormTyped DEF p, Bytes
    <3> QED BY <1>1, <3>3, <3>4, EmptySeq
  <2> QED BY <2>1
<1>9. ~(r.size + n >= r.length) /\ ~(n < 2)
  <2>1. ~(s + n >= o) /\ ~(n < 2)
    BY <1>3
  <2> QED BY <1>1, <2>1, Zenon
<1>10. k \in 0..Len(f)
  BY Behind
<1>11. CASE y.tag = "refused"
  <2>1. /\ r.isWrite =>
             \/ (~AllowEmpty /\ chunk = <<>>) \/ r.keys /= "file"
             \/ Len(r.disk \o chunk) > MaxFileSize \/ r.filesTotal + Len(chunk) > MaxFilesTotal
             \/ r.filesTotal + Len(chunk) > DiskSpace
        /\ ~r.isWrite =>
             \/ r.fieldsTotal + Len(chunk) > MaxFieldsTotal \/ ~IsText(chunk)
             \/ ~IsBlank(r.body \o chunk) /\ r.keys /= "field"
    <3>1. "refused" /= "some"
      OBVIOUS
    <3> QED BY <1>5, <1>9, <1>11, <3>1, Zenon DEF EndPartGives
  <2>2. CASE f[k].file
    <3>1. \/ ~AllowEmpty /\ p = <<>>
          \/ Len(p) > MaxFileSize
          \/ DataIn(f, TRUE, k) > MaxFilesTotal \/ DataIn(f, TRUE, k) > DiskSpace
          \/ Gives(f[k]) /= <<>> /\ f[k].keys /= "array"
      <4>1. Gives(f[k]) /= <<>>
        BY <2>2 DEF Gives
      <4> QED BY <1>6, <1>7, <1>8, <1>13, <2>1, <2>2, <4>1, Zenon
    <3>2. Refusable(f)
      BY <1>10, <2>2, <3>1, RefusedBytes, Zenon DEF Refusable, p
    <3> QED BY <1>11, <3>2
  <2>3. CASE ~f[k].file
    <3>1. \/ DataIn(f, FALSE, k) > MaxFieldsTotal \/ ~IsText(p)
          \/ Gives(f[k]) /= <<>> /\ f[k].keys /= "array"
      <4>1. ~IsBlank(p) => Gives(f[k]) /= <<>>
        BY DEF Gives, p
      <4> QED BY <1>6, <1>7, <1>13, <1>14, <2>1, <2>3, <4>1, Zenon
    <3>2. Refusable(f)
      BY <1>10, <2>3, <3>1, RefusedBytes, Zenon DEF Refusable, p
    <3> QED BY <1>11, <3>2
  <2> QED BY <2>2, <2>3
<1>12. CASE y.tag /= "refused"
  <2> DEFINE u == y.req
  <2>1. /\ y.tag = "some"
        /\ u \in UploadT /\ u.length = r.length
        /\ u.size = r.size + n /\ u.buff = Drop(r.buff, n) /\ ~u.isWrite
        /\ u.files = r.files /\ u.fields = r.fields
        /\ f[k].file =>
             /\ u.parts = Append(r.parts, [file |-> TRUE, data |-> p])
             /\ AllowEmpty \/ p /= <<>>
             /\ Len(p) <= MaxFileSize /\ r.keys = "file" /\ u.filesTotal <= DiskSpace
             /\ u.filesTotal = DataIn(f, TRUE, k) /\ u.fieldsTotal = DataIn(f, FALSE, k)
             /\ u.filesTotal <= MaxFilesTotal
             /\ u.fieldsTotal = r.fieldsTotal
        /\ ~f[k].file =>
             /\ u.parts = IF IsBlank(p) THEN r.parts ELSE Append(r.parts, [file |-> FALSE, data |-> p])
             /\ IsText(p) /\ (IsBlank(p) \/ r.keys = "field")
             /\ u.filesTotal = DataIn(f, TRUE, k) /\ u.fieldsTotal = DataIn(f, FALSE, k)
             /\ u.fieldsTotal <= MaxFieldsTotal
             /\ u.filesTotal = r.filesTotal
    <3>1. /\ y.tag = "some"
          /\ u \in UploadT /\ u.length = r.length
          /\ u.size = r.size + n /\ u.buff = Drop(r.buff, n) /\ ~u.isWrite
          /\ u.files = r.files /\ u.fields = r.fields
          /\ r.isWrite =>
               /\ u.parts = Append(r.parts, [file |-> TRUE, data |-> r.disk \o chunk])
               /\ AllowEmpty \/ chunk /= <<>>
               /\ r.keys = "file" /\ Len(r.disk \o chunk) <= MaxFileSize /\ u.filesTotal <= DiskSpace
               /\ u.filesTotal = r.filesTotal + Len(chunk)
               /\ u.filesTotal <= MaxFilesTotal /\ u.fieldsTotal = r.fieldsTotal
          /\ ~r.isWrite =>
               /\ u.parts = IF IsBlank(r.body \o chunk) THEN r.parts
                                  ELSE Append(r.parts, [file |-> FALSE, data |-> r.body \o chunk])
               /\ IsText(chunk) /\ (IsBlank(r.body \o chunk) \/ r.keys = "field")
               /\ u.fieldsTotal = r.fieldsTotal + Len(chunk)
               /\ u.fieldsTotal <= MaxFieldsTotal /\ u.filesTotal = r.filesTotal
      BY <1>5, <1>9, <1>12, Zenon DEF EndPartGives
    <3> HIDE DEF u
    <3>2. AllowEmpty \/ chunk /= <<>> => AllowEmpty \/ p /= <<>>
      <4>1. p = <<>> => chunk = <<>>
        <5>1. ASSUME p = <<>> PROVE chunk = <<>>
          <6>1. l = 0
            BY <1>1, <5>1
          <6>2. m = 0
            BY <1>3, <6>1
          <6> QED BY <1>4, <6>2, EmptySeq DEF Bytes
        <5> QED BY <5>1
      <4> QED BY <4>1
    <3> QED BY <1>6, <1>7, <1>14, <3>1, <3>2, Zenon
  <2>2. u.parts = StoredIn(f, k)
    <3>1. r.parts = StoredIn(f, k - 1)
      BY DEF Within, Accepted
    <3>2. StoredIn(f, k) = IF f[k].file \/ ~IsBlank(p)
                               THEN Append(StoredIn(f, k - 1), [file |-> f[k].file, data |-> p])
                               ELSE StoredIn(f, k - 1)
      BY StoredGrows DEF p
    <3>3. f[k].file \in BOOLEAN
      BY FormTyped
    <3> HIDE DEF u
    <3>5. CASE f[k].file
      <4>1. f[k].file = TRUE
        BY <3>3, <3>5
      <4>2. [file |-> f[k].file, data |-> p] = [file |-> TRUE, data |-> p]
        BY <4>1
      <4> QED BY <2>1, <3>1, <3>2, <3>5, <4>2, Zenon
    <3>6. CASE ~f[k].file
      <4>1. f[k].file = FALSE
        BY <3>3, <3>6
      <4>2. [file |-> f[k].file, data |-> p] = [file |-> FALSE, data |-> p]
        BY <4>1
      <4> QED BY <2>1, <3>1, <3>2, <3>6, <4>2, Zenon
    <3> QED BY <3>5, <3>6
  <2> HIDE DEF u
  <2>3. ASSUME NEW j \in 1..k PROVE Fine(f[j])
    <3>1. CASE j = k
      <4>1. f[k].file \/ ~IsBlank(p) => f[k].keys = "array"
        BY <1>13, <2>1, Zenon
      <4>2. Fine(f[k])
        BY <1>6, <2>1, <4>1, Zenon DEF Fine, p
      <4> QED BY <3>1, <4>2, Zenon
    <3>2. CASE j /= k
      <4>1. j \in 1..(k - 1)
        <5>1. k \in Int
          OBVIOUS
        <5> QED BY <3>2, <5>1
      <4> QED BY <4>1, Zenon DEF Within, Accepted
    <3> QED BY <3>1, <3>2
  <2>4. u.filesTotal <= MaxFilesTotal /\ u.fieldsTotal <= MaxFieldsTotal /\ u.filesTotal <= DiskSpace
    BY <2>1, Zenon DEF Within, Accepted
  <2>5. /\ u.files <= MaxFiles /\ u.fields <= MaxFields
        /\ u.files = FilesIn(f, k) /\ u.fields = k
    BY <2>1, Zenon DEF Within, Accepted
  <2>6. u.size = Start(f, k) /\ r.size + n <= e /\ r.size <= u.size
    <3>1. u.size = Start(f, k)
      BY <2>1
    <3>2. r.size + n <= e /\ s <= c
      BY <1>1, <1>3
    <3> QED BY <1>1, <3>1, <3>2, Zenon
  <2>7. Accepted(f, u, k)
    BY <2>2, <2>3, <2>4, <2>5 DEF Accepted
  <2>8. u.filesTotal = DataIn(f, TRUE, k) /\ u.fieldsTotal = DataIn(f, FALSE, k)
    BY <2>1, Zenon
  <2>9. Before(f, u, k)
    BY <2>1, <2>5, <2>6, <2>7, <2>8, Zenon DEF Before
  <2>10. Holds(f, u, e)
    BY <2>1, <2>6, HoldsDrop
  <2> QED BY <2>1, <2>6, <2>9, <2>10 DEF u
<1> QED BY <1>11, <1>12

\* The totals when n more bytes of part k are taken.
LEMMA TotalsMore ==
  ASSUME NEW f \in Form, NEW k \in 1..Len(f), NEW d \in Nat, NEW r, Within(f, r, k, d)
  PROVE  \A n \in Nat : d + n <= Len(f[k].data) =>
           /\ f[k].file =>
                /\ r.filesTotal + n = DataIn(f, TRUE, k - 1) + (IF f[k].file THEN d + n ELSE 0)
                /\ r.fieldsTotal = DataIn(f, FALSE, k - 1) + (IF f[k].file THEN 0 ELSE d + n)
                /\ r.filesTotal + n > MaxFilesTotal => DataIn(f, TRUE, k) > MaxFilesTotal
                /\ r.filesTotal + n > DiskSpace => DataIn(f, TRUE, k) > DiskSpace
           /\ ~f[k].file =>
                /\ r.fieldsTotal + n = DataIn(f, FALSE, k - 1) + (IF f[k].file THEN 0 ELSE d + n)
                /\ r.filesTotal = DataIn(f, TRUE, k - 1) + (IF f[k].file THEN d + n ELSE 0)
                /\ r.fieldsTotal + n > MaxFieldsTotal => DataIn(f, FALSE, k) > MaxFieldsTotal
<1> TAKE n \in Nat
<1> HAVE d + n <= Len(f[k].data)
<1>1. PICK t \in Nat, u \in Nat, l \in Nat :
        t = DataIn(f, TRUE, k - 1) /\ u = DataIn(f, FALSE, k - 1) /\ l = Len(f[k].data)
  BY Behind, DataGrows
<1>2. r.filesTotal = t + (IF f[k].file THEN d ELSE 0) /\ r.fieldsTotal = u + (IF f[k].file THEN 0 ELSE d)
  BY <1>1, Zenon DEF Within
<1>3. /\ DataIn(f, TRUE, k) = t + (IF f[k].file = TRUE THEN l ELSE 0)
      /\ DataIn(f, FALSE, k) = u + (IF f[k].file = FALSE THEN l ELSE 0)
  <2>1. TRUE \in BOOLEAN /\ FALSE \in BOOLEAN
    OBVIOUS
  <2> QED BY <1>1, <2>1, DataGrows, Zenon
<1>4. f[k].file \in BOOLEAN
  BY FormTyped
<1>5. d + n <= l
  BY <1>1
<1>6. DiskSpace \in Nat /\ MaxFilesTotal \in Nat /\ MaxFieldsTotal \in Nat
  BY MultipartAssumption
<1>7. CASE f[k].file
  <2>1. f[k].file = TRUE /\ ~(f[k].file = FALSE)
    BY <1>4, <1>7
  <2>2. r.filesTotal = t + d /\ r.fieldsTotal = u + 0 /\ DataIn(f, TRUE, k) = t + l
    BY <1>2, <1>3, <1>7, <2>1, Zenon
  <2>3. (t + d) + n = t + (d + n) /\ (t + d) + n \in Nat /\ t + l \in Nat /\ (t + d) + n <= t + l
    BY <1>5
  <2>4. /\ (t + d) + n > MaxFilesTotal => t + l > MaxFilesTotal
        /\ (t + d) + n > DiskSpace => t + l > DiskSpace
    BY <1>6, <2>3, Above, Zenon
  <2> QED BY <1>1, <1>7, <2>2, <2>3, <2>4, Zenon
<1>8. CASE ~f[k].file
  <2>1. ~(f[k].file = TRUE) /\ f[k].file = FALSE
    BY <1>4, <1>8
  <2>2. r.filesTotal = t + 0 /\ r.fieldsTotal = u + d /\ DataIn(f, FALSE, k) = u + l
    BY <1>2, <1>3, <1>8, <2>1, Zenon
  <2>3. (u + d) + n = u + (d + n) /\ (u + d) + n \in Nat /\ u + l \in Nat /\ (u + d) + n <= u + l
    BY <1>5
  <2>4. (u + d) + n > MaxFieldsTotal => u + l > MaxFieldsTotal
    BY <1>6, <2>3, Above, Zenon
  <2> QED BY <1>1, <1>8, <2>2, <2>3, <2>4, Zenon
<1> QED BY <1>7, <1>8

\* What Data makes of data of part k.
LEMMA PartData ==
  ASSUME NEW f \in Form, NEW k \in 1..Len(f), NEW d \in Nat,
         NEW r \in UploadT, NEW e, Within(f, r, k, d), Holds(f, r, e),
         e < Start(f, k) - 2, NEW y, y = Data(r)
  PROVE  Moves(f, e, r.size, y)
<1> DEFINE p == f[k].data
<1>1. PICK a \in Nat, c \in Nat, l \in Nat, s \in Nat, h \in Nat, o \in Nat :
        /\ a = Start(f, k - 1) /\ c = Start(f, k) /\ l = Len(p) /\ s = r.size /\ h = e
        /\ o = r.length /\ o = Len(BodyBytes(f))
  BY Behind, HoldsIs, UploadTyped
<1>2. /\ s = a + Width + 7 + d /\ c = a + Width + 9 + l /\ s <= h /\ h < c - 2
      /\ Len(r.buff) = h - s /\ c + Width + 4 <= o
  <2>1. s = a + Width + 7 + d
    BY <1>1, Zenon DEF Within
  <2>2. c = a + Width + 9 + l /\ c + Width + 4 <= o
    BY <1>1, Behind, Zenon
  <2>3. Len(r.buff) = h - s
    BY <1>1, HoldsIs, Zenon
  <2>4. s <= h
    BY <1>1, HoldsIs, Zenon
  <2> QED BY <1>1, <2>1, <2>2, <2>3, <2>4
<1>3. PICK n \in Nat : n = h - s /\ d + n < l /\ d + n <= l /\ s + n = h /\ s + n < o /\ h < o
  <2>1. h - s \in Nat /\ d + (h - s) < l /\ d + (h - s) <= l /\ s + (h - s) = h /\ s + (h - s) < o /\ h < o
    BY <1>2, WidthIs
  <2> QED BY <2>1, Zenon
<1>4. k \in 0..Len(f)
  BY Behind
<1>5. Progress(f, r) /\ e < Len(BodyBytes(f)) /\ r.size <= r.size
  <2>1. d \in 0..l
    BY <1>3
  <2>2. Progress(f, r)
    BY <1>1, <2>1, Zenon DEF Progress
  <2>3. s <= s
    OBVIOUS
  <2> QED BY <1>1, <1>3, <2>2, <2>3, Zenon
<1>6. CASE n = 0
  <2>1. y = Result("none", r)
    <3>1. Len(r.buff) = 0
      BY <1>2, <1>3, <1>6
    <3> QED BY <3>1 DEF Data
  <2> QED BY <1>5, <2>1, MovesNone
<1>7. CASE n > 0
  <2>1. DataGives(r, n, y)
    <3>1. n = Len(r.buff)
      BY <1>2, <1>3
    <3> QED BY <3>1, DataIs
  <2>2. n /= 0 /\ ~(r.size + n >= r.length)
    <3>1. ~(s + n >= o) /\ n /= 0
      BY <1>3, <1>7
    <3> QED BY <1>1, <3>1, Zenon
  <2>3. Take(p, d) \o r.buff = Take(p, d + n) /\ Len(Take(p, d + n)) = d + n
    <3>1. d + n <= Len(f[k].data) /\ r.size + n <= e
      BY <1>1, <1>3
    <3>2. Take(p, d) \o Take(r.buff, n) = Take(p, d + n) /\ Len(Take(p, d + n)) = d + n
      BY <3>1, Joined
    <3>3. Take(r.buff, Len(r.buff)) = r.buff
      BY HoldsIs, TakeEnds
    <3>4. n = Len(r.buff)
      BY <1>2, <1>3
    <3> QED BY <3>2, <3>3, <3>4, Zenon
  <2> HIDE DEF p
  <2>4. /\ r.isWrite <=> f[k].file
        /\ r.keys = KeysOf(Header(f[k])) /\ f[k].keys /= "panic"
        /\ f[k].file => r.disk \o r.buff = Take(p, d + n)
        /\ ~f[k].file => r.body \o r.buff = Take(p, d + n) /\ IsText(r.body)
    BY <2>3, Zenon DEF Within, p
  <2>5. /\ f[k].file =>
             /\ r.filesTotal + n = DataIn(f, TRUE, k - 1) + (IF f[k].file THEN d + n ELSE 0)
             /\ r.fieldsTotal = DataIn(f, FALSE, k - 1) + (IF f[k].file THEN 0 ELSE d + n)
             /\ r.filesTotal + n > MaxFilesTotal => DataIn(f, TRUE, k) > MaxFilesTotal
             /\ r.filesTotal + n > DiskSpace => DataIn(f, TRUE, k) > DiskSpace
        /\ ~f[k].file =>
             /\ r.fieldsTotal + n = DataIn(f, FALSE, k - 1) + (IF f[k].file THEN 0 ELSE d + n)
             /\ r.filesTotal = DataIn(f, TRUE, k - 1) + (IF f[k].file THEN d + n ELSE 0)
             /\ r.fieldsTotal + n > MaxFieldsTotal => DataIn(f, FALSE, k) > MaxFieldsTotal
    <3>1. d + n <= Len(f[k].data)
      BY <1>1, <1>3 DEF p
    <3> QED BY <3>1, TotalsMore, Zenon
  <2>6. CASE y.tag = "refused"
    <3>1. /\ r.isWrite => \/ Len(r.disk \o r.buff) > MaxFileSize
                         \/ r.filesTotal + n > MaxFilesTotal
          /\ ~r.isWrite => r.fieldsTotal + n > MaxFieldsTotal
      <4>1. "refused" \notin {"none", "unwritten", "garbled"} /\ "refused" /= "none"
            /\ "refused" /= "unwritten" /\ "refused" /= "garbled"
        OBVIOUS
      <4> QED BY <2>1, <2>2, <2>6, <4>1, Zenon DEF DataGives
    <3>2. d + n > MaxFileSize => Len(f[k].data) > MaxFileSize
      <4>1. MaxFileSize \in Nat /\ d + n \in Nat
        BY MultipartAssumption
      <4>2. d + n > MaxFileSize => l > MaxFileSize
        BY <1>3, <4>1, Above, Zenon
      <4> QED BY <1>1, <4>2, Zenon DEF p
    <3>3. Refusable(f)
      <4>1. CASE f[k].file
        BY <1>4, <2>3, <2>4, <2>5, <3>1, <3>2, <4>1, RefusedBytes, Zenon DEF Refusable
      <4>2. CASE ~f[k].file
        BY <1>4, <2>4, <2>5, <3>1, <4>2, RefusedBytes, Zenon
      <4> QED BY <4>1, <4>2
    <3> QED BY <2>6, <3>3, MovesRefused
  <2>8. CASE y.tag = "unwritten"
    <3>1. r.isWrite /\ r.filesTotal + n > DiskSpace
      <4>1. "unwritten" /= "none" /\ "unwritten" /= "refused" /\ "unwritten" /= "garbled"
        OBVIOUS
      <4> QED BY <2>1, <2>2, <2>8, <4>1, Zenon DEF DataGives
    <3>2. DataIn(f, TRUE, k) > DiskSpace
      BY <2>4, <2>5, <3>1, Zenon
    <3>3. Len(DataOf(f, TRUE)) > DiskSpace
      BY <1>4, <3>2, RefusedBytes, Zenon
    <3>4. "unwritten" \notin {"some", "none", "done", "refused", "garbled", "panicked"}
      OBVIOUS
    <3> QED BY <2>8, <3>3, <3>4, Zenon DEF Moves
  <2>9. CASE y.tag = "garbled"
    <3>1. ~r.isWrite /\ ~IsText(r.buff)
      <4>1. "garbled" /= "none" /\ "garbled" /= "refused" /\ "garbled" /= "unwritten"
        OBVIOUS
      <4> QED BY <2>1, <2>2, <2>9, <4>1, Zenon DEF DataGives
    <3>2. r.buff \in Bytes /\ Len(r.buff) = n /\ \A i \in 1..n : r.buff[i] = p[d + i]
      <4>1. d + n <= Len(f[k].data) /\ r.size + n <= e
        BY <1>1, <1>3 DEF p
      <4>2. Len(Take(r.buff, n)) = n /\ \A i \in 1..n : Take(r.buff, n)[i] = p[d + i]
        BY <4>1, Piece DEF p
      <4>3. Take(r.buff, Len(r.buff)) = r.buff /\ r.buff \in Bytes
        BY HoldsIs, TakeEnds
      <4>4. n = Len(r.buff)
        BY <1>2, <1>3
      <4> QED BY <4>2, <4>3, <4>4, Zenon
    <3>3. SubSeq(p, d + 1, d + n) = r.buff
      <4>1. p \in Seq(Byte) /\ Len(p) = l /\ d + n <= l
        BY <1>1, <1>3, FormTyped DEF p, Bytes
      <4>2. \A i \in (d + 1)..(d + n) : p[i] \in Byte
        BY <4>1, ElementOfSeq
      <4>3. /\ SubSeq(p, d + 1, d + n) \in Seq(Byte) /\ Len(SubSeq(p, d + 1, d + n)) = n
            /\ \A i \in 1..n : SubSeq(p, d + 1, d + n)[i] = p[d + i]
        <5> DEFINE v == SubSeq(p, d + 1, d + n)
        <5>1. d + 1 \in Int /\ d + n \in Int
          OBVIOUS
        <5>2. /\ v \in Seq(Byte)
              /\ Len(v) = IF d + 1 <= d + n THEN (d + n) - (d + 1) + 1 ELSE 0
              /\ \A i \in 1..((d + n) - (d + 1) + 1) : v[i] = p[(d + 1) + i - 1]
          BY <4>1, <4>2, <5>1, SubSeqProperties
        <5>3. d + 1 <= d + n /\ (d + n) - (d + 1) + 1 = n
          BY <1>7
        <5>4. \A i \in 1..n : (d + 1) + i - 1 = d + i
          OBVIOUS
        <5> HIDE DEF v
        <5> QED BY <5>2, <5>3, <5>4 DEF v
      <4> QED BY <3>2, <4>3, SeqEqual DEF Bytes
    <3>4. d \in 0..Len(f[k].data) /\ d + n \in 0..Len(f[k].data)
      <4>1. d \in 0..l /\ d + n \in 0..l
        BY <1>3
      <4> QED BY <1>1, <4>1, Zenon DEF p
    <3>5. ~IsText(SubSeq(f[k].data, d + 1, d + n)) /\ ~f[k].file
      BY <2>4, <3>1, <3>3, Zenon DEF p
    <3>6. Breakable(f)
      BY <3>4, <3>5 DEF Breakable
    <3>7. "garbled" \notin {"some", "none", "done", "refused", "unwritten", "panicked"}
      OBVIOUS
    <3> QED BY <2>9, <3>6, <3>7, Zenon DEF Moves
  <2>7. CASE y.tag \notin {"refused", "unwritten", "garbled"}
    <3> DEFINE u == y.req
    <3>1. /\ y.tag = "none" /\ u \in UploadT /\ u.length = r.length
          /\ u.size = r.size + n /\ u.buff = <<>>
          /\ u.keys = r.keys /\ u.isWrite = r.isWrite
          /\ u.files = r.files /\ u.fields = r.fields
          /\ u.parts = r.parts
          /\ r.isWrite =>
               /\ u.disk = r.disk \o r.buff
               /\ u.filesTotal = r.filesTotal + n
               /\ u.filesTotal <= MaxFilesTotal /\ u.fieldsTotal = r.fieldsTotal
               /\ u.filesTotal <= DiskSpace
          /\ ~r.isWrite =>
               /\ u.body = r.body \o r.buff /\ IsText(r.buff)
               /\ u.fieldsTotal = r.fieldsTotal + n
               /\ u.fieldsTotal <= MaxFieldsTotal /\ u.filesTotal = r.filesTotal
      BY <2>1, <2>2, <2>7, Zenon DEF DataGives
    <3> HIDE DEF u
    <3>2. u.filesTotal <= MaxFilesTotal /\ u.fieldsTotal <= MaxFieldsTotal /\ u.filesTotal <= DiskSpace
      BY <3>1, Zenon DEF Within, Accepted
    <3>3. Accepted(f, u, k - 1)
      BY <3>1, <3>2, Zenon DEF Within, Accepted
    <3>4. u.size = Start(f, k - 1) + Width + 7 + (d + n)
      <4>1. s + n = a + Width + 7 + (d + n)
        BY <1>2, WidthIs
      <4> QED BY <1>1, <3>1, <4>1, Zenon
    <3>5. /\ u.filesTotal = DataIn(f, TRUE, k - 1) + (IF f[k].file THEN d + n ELSE 0)
          /\ u.fieldsTotal = DataIn(f, FALSE, k - 1) + (IF f[k].file THEN 0 ELSE d + n)
      BY <2>4, <2>5, <3>1, Zenon
    <3>6. d + n < Len(f[k].data)
      BY <1>1, <1>3 DEF p
    <3>12. ~f[k].file => IsText(u.body)
      <4>1. r.body \in Bytes /\ r.buff \in Bytes
        BY UploadTyped
      <4>2. ~f[k].file => IsText(r.body) /\ IsText(r.buff) /\ u.body = r.body \o r.buff
        BY <2>4, <3>1, Zenon
      <4> QED BY <4>1, <4>2, TextMore
    <3>7. Within(f, u, k, d + n)
      BY <2>4, <3>1, <3>3, <3>4, <3>5, <3>6, <3>12, Zenon DEF Within, p
    <3>8. d + n \in 0..Len(f[k].data)
      <4>1. d + n \in 0..l
        BY <1>3
      <4> QED BY <1>1, <4>1, Zenon DEF p
    <3>9. Progress(f, u)
      BY <3>7, <3>8, Zenon DEF Progress
    <3>10. Holds(f, u, e)
      <4>1. BodyBytes(f) \in Bytes
        BY BodyLaid DEF Laid
      <4>2. e \in Nat /\ e <= Len(BodyBytes(f)) /\ u.length = Len(BodyBytes(f))
        BY <1>1, <3>1, HoldsIs, Zenon
      <4>3. Window(<<>>, BodyBytes(f), e, e)
        BY <4>1, <4>2, WindowNone
      <4>4. u.size = e
        BY <1>1, <1>3, <3>1, Zenon
      <4> QED BY <3>1, <4>2, <4>3, <4>4, Zenon DEF Holds
    <3>11. r.size <= u.size
      <4>1. s <= s + n
        BY <1>7
      <4> QED BY <1>1, <3>1, <4>1, Zenon
    <3> QED BY <1>5, <3>1, <3>9, <3>10, <3>11 DEF Moves, u
  <2> QED BY <2>6, <2>7, <2>8, <2>9
<1> QED BY <1>6, <1>7

-----------------------------------------------------------------------------
(* What a call does to it. *)

\* What is done at the boundary behind part k.
LEMMA BoundaryMoves ==
  ASSUME NEW f \in Form, NEW k \in 0..Len(f), NEW r \in UploadT, NEW e,
         Before(f, r, k), Holds(f, r, e), Start(f, k) + Width <= e,
         NEW y, y = AtBoundary(r)
  PROVE  Moves(f, e, r.size, y)
<1>1. PICK n \in Nat : n = Len(f)
  BY FormTyped
<1>2. r.size + Width <= e
  BY Zenon DEF Before
<1>3. CASE k = n
  <2>1. Before(f, r, Len(f))
    BY <1>1, <1>3, Zenon
  <2> QED BY <1>2, <2>1, AtLast
<1>4. CASE k /= n
  <2>1. k + 1 \in 1..n /\ (k + 1) - 1 = k
    BY <1>1, <1>4
  <2>2. PICK j \in 1..Len(f) : j - 1 = k
    BY <1>1, <2>1
  <2>3. Before(f, r, j - 1)
    BY <2>2, Zenon
  <2> QED BY <1>2, <2>3, AtHeader
<1> QED BY <1>3, <1>4

LEMMA MovesFrom ==
  ASSUME NEW f, NEW e, NEW s \in Nat, NEW t \in Nat, NEW y, s <= t, Moves(f, e, t, y)
  PROVE  Moves(f, e, s, y)
<1>1. y.tag \in {"some", "none"} => s <= y.req.size
  <2>1. SUFFICES ASSUME y.tag \in {"some", "none"} PROVE s <= y.req.size
    OBVIOUS
  <2>2. t <= y.req.size /\ y.req.size \in Nat
    BY <2>1, UploadTyped, Zenon DEF Moves
  <2> QED BY <2>2
<1> QED BY <1>1, Zenon DEF Moves

LEMMA RoundMoves ==
  ASSUME NEW f \in Form, NEW r \in UploadT, NEW e, Progress(f, r), Holds(f, r, e),
         Settled(f, r.size, e), NEW y, y = Round(r)
  PROVE  Moves(f, e, r.size, y)
<1> DEFINE q == r.buff
           b == BodyBytes(f)
           start == Find(q, Boundary, 1)
           ended == IF start > 1 THEN EndPart(r, start - 1) ELSE Result("some", r)
<1>1. Laid(f, b) /\ Window(q, b, r.size, e) /\ r.size \in Nat /\ e \in Nat /\ r.size <= e
  BY BodyLaid, HoldsIs
<1>2. y = IF start = 0 THEN Data(r) ELSE IF ended.tag = "some" THEN AtBoundary(ended.req) ELSE ended
  BY DEF Round
<1>3. ASSUME NEW k \in 0..Len(f), Before(f, r, k)
      PROVE  Moves(f, e, r.size, y)
  <2>1. PICK c \in Nat : c = Start(f, k)
    BY Starts
  <2>2. r.size = c
    BY <1>3, <2>1, Zenon DEF Before
  <2>3. c + Width <= e
    <3>1. r.size <= Start(f, k) => e < Start(f, k) - 2 \/ Start(f, k) + Width <= e
      BY DEF Settled
    <3>2. c <= c /\ (c <= e => ~(e < c - 2))
      BY <1>1
    <3> QED BY <1>1, <2>1, <2>2, <3>1, <3>2, Zenon
  <2>4. start = 1
    <3>1. Window(q, b, Start(f, k), e) /\ Start(f, k) + Width <= e
      BY <1>1, <2>1, <2>2, <2>3, Zenon
    <3> HIDE DEF q, b
    <3> QED BY <1>1, <3>1, FirstBefore
  <2>5. y = AtBoundary(r)
    <3>1. start /= 0 /\ ~(start > 1)
      BY <2>4
    <3> HIDE DEF start
    <3>2. ended.tag = "some" /\ ended.req = r
      BY <3>1 DEF Result
    <3> QED BY <1>2, <3>1, <3>2, Zenon
  <2>6. Start(f, k) + Width <= e
    BY <2>1, <2>3, Zenon
  <2> QED BY <1>3, <2>5, <2>6, BoundaryMoves
<1>4. ASSUME NEW k \in 1..Len(f), NEW d \in 0..Len(f[k].data), Within(f, r, k, d)
      PROVE  Moves(f, e, r.size, y)
  <2>1. PICK a \in Nat, c \in Nat, l \in Nat, s \in Nat, h \in Nat :
          /\ a = Start(f, k - 1) /\ c = Start(f, k) /\ l = Len(f[k].data) /\ s = r.size /\ h = e
          /\ c = a + Width + 9 + l /\ k \in 0..Len(f)
    BY <1>1, Behind
  <2>2. s = a + Width + 7 + d
    BY <1>4, <2>1, Zenon DEF Within
  <2>3. d \in Nat /\ d <= l
    BY <2>1
  <2>4. a + Width + 7 <= s /\ s <= c /\ s + 2 <= c
    <3>1. \A w \in Nat : \A x \in Nat : x <= l =>
            /\ a + w + 7 <= a + w + 7 + x /\ a + w + 7 + x <= a + w + 9 + l
            /\ (a + w + 7 + x) + 2 <= a + w + 9 + l
      OBVIOUS
    <3> QED BY <2>1, <2>2, <2>3, <3>1, WidthIs, Zenon
  <2>5. h < c - 2 \/ c + Width <= h
    BY <2>1, <2>4, Zenon DEF Settled
  <2>6. /\ Start(f, k) + Width <= e => start = Start(f, k) - r.size + 1
        /\ e < Start(f, k) + Width => start = 0
    <3>1. Start(f, k - 1) + Width + 7 <= r.size /\ r.size <= Start(f, k)
      BY <2>1, <2>4, Zenon
    <3> HIDE DEF q, b
    <3> QED BY <1>1, <3>1, FirstWithin
  <2> HIDE DEF start
  <2>7. CASE h < c - 2
    <3>1. h < c + Width
      BY <2>1, <2>7, WidthIs
    <3>2. start = 0
      BY <2>1, <2>6, <3>1, Zenon
    <3>3. y = Data(r)
      BY <1>2, <3>2, Zenon
    <3>4. e < Start(f, k) - 2
      BY <2>1, <2>7, Zenon
    <3> QED BY <1>4, <2>3, <3>3, <3>4, PartData
  <2>8. CASE c + Width <= h
    <3>1. PICK n \in Nat : n = c - s /\ s + n = c /\ n > 0
      <4>1. c - s \in Nat /\ s + (c - s) = c /\ c - s > 0
        BY <2>4
      <4> QED BY <4>1, Zenon
    <3>2. start = n + 1
      BY <2>1, <2>6, <2>8, <3>1, Zenon
    <3>3. start /= 0 /\ start > 1 /\ start - 1 = n
      BY <3>1, <3>2
    <3> HIDE DEF ended
    <3>4. ended = EndPart(r, n)
      BY <3>3, Zenon DEF ended
    <3>5. r.size + n = Start(f, k) /\ d <= Len(f[k].data) /\ Start(f, k) + Width <= e
      BY <2>1, <2>3, <2>8, <3>1, Zenon
    <3>6. \/ ended.tag = "refused" /\ Refusable(f)
          \/ /\ ended.tag = "some" /\ ended.req \in UploadT /\ Before(f, ended.req, k)
             /\ Holds(f, ended.req, e) /\ r.size <= ended.req.size
      BY <1>4, <2>3, <3>4, <3>5, PartEnds
    <3>7. CASE ended.tag = "refused" /\ Refusable(f)
      <4>1. y = ended
        BY <1>2, <3>3, <3>7
      <4> QED BY <3>7, <4>1, MovesRefused
    <3>8. CASE /\ ended.tag = "some" /\ ended.req \in UploadT /\ Before(f, ended.req, k)
               /\ Holds(f, ended.req, e) /\ r.size <= ended.req.size
      <4>1. y = AtBoundary(ended.req)
        BY <1>2, <3>3, <3>8, Zenon
      <4>2. Moves(f, e, ended.req.size, y)
        BY <2>1, <3>5, <3>8, <4>1, BoundaryMoves
      <4>3. ended.req.size \in Nat
        BY <3>8, UploadTyped
      <4> QED BY <1>1, <3>8, <4>2, <4>3, MovesFrom
    <3> QED BY <3>6, <3>7, <3>8
  <2> QED BY <2>5, <2>7, <2>8
<1> QED BY <1>3, <1>4 DEF Progress

\* The body is not cut at the line break before a boundary that is still to be taken.
Clean(f, s, e) ==
  /\ e > 0
  /\ \A k \in 1..Len(f) : s <= Start(f, k) => e < Start(f, k) - 2 \/ Start(f, k) < e

LEMMA SettledFrom ==
  ASSUME NEW f \in Form, NEW s \in Nat, NEW t \in Nat, NEW e, s <= t, Settled(f, s, e)
  PROVE  Settled(f, t, e)
<1> SUFFICES ASSUME NEW k \in 0..Len(f), t <= Start(f, k)
             PROVE  e < Start(f, k) - 2 \/ Start(f, k) + Width <= e
  BY Zenon DEF Settled
<1>1. PICK c \in Nat : c = Start(f, k)
  BY Starts
<1>2. s <= c
  BY <1>1
<1> QED BY <1>1, <1>2, Zenon DEF Settled

LEMMA PartsMoves ==
  ASSUME NEW f \in Form, NEW r \in UploadT, NEW e, Progress(f, r), Holds(f, r, e),
         Settled(f, r.size, e)
  PROVE  Moves(f, e, r.size, Parts(r))
<1> DEFINE s == r.size
           n == Len(r.buff) + 1
<1>1. PICK g : n \in Nat /\ Rounds(r, g, n) /\ Parts(r) = g[n]
  BY PartsAreRounds
<1>2. s \in Nat
  BY UploadTyped
<1> HIDE DEF n
<1> DEFINE Ok(k) == Moves(f, e, s, g[k])
           W == {k \in 0..n : Ok(k)}
<1>3. 0 \in W
  <2>1. g[0] = Result("some", r)
    BY <1>1 DEF Rounds
  <2>2. g[0].tag = "some" /\ g[0].req = r
    BY <2>1 DEF Result
  <2>3. s <= r.size
    BY <1>2
  <2>4. Ok(0)
    <3>1. /\ "some" /= "none" /\ "some" /= "done" /\ "some" /= "refused"
          /\ "some" /= "garbled" /\ "some" /= "unwritten" /\ "some" /= "panicked"
      OBVIOUS
    <3> QED BY <2>2, <2>3, <3>1 DEF Moves
  <2> HIDE DEF Ok
  <2>5. 0 \in 0..n
    BY <1>1
  <2> QED BY <2>4, <2>5
<1>4. ASSUME NEW k \in 1..n, k - 1 \in W PROVE k \in W
  <2> DEFINE x == g[k - 1]
             y == g[k]
  <2>1. y = IF x.tag = "some" THEN Round(x.req) ELSE x
    BY <1>1 DEF Rounds
  <2>2. Moves(f, e, s, x)
    <3>1. Ok(k - 1)
      <4> HIDE DEF Ok
      <4> QED BY <1>4
    <3> QED BY <3>1
  <2>3. k \in 0..n
    BY <1>1
  <2> HIDE DEF x, y
  <2>4. Moves(f, e, s, y)
    <3>1. CASE x.tag = "some"
      <4> DEFINE q == x.req
      <4>1. q \in UploadT /\ Progress(f, q) /\ Holds(f, q, e) /\ s <= q.size
        BY <2>2, <3>1 DEF Moves
      <4>2. y = Round(q)
        BY <2>1, <3>1
      <4> HIDE DEF q
      <4>3. q.size \in Nat
        BY <4>1, UploadTyped
      <4>4. Settled(f, q.size, e)
        BY <1>2, <4>1, <4>3, SettledFrom
      <4>5. Moves(f, e, q.size, y)
        BY <4>1, <4>2, <4>4, RoundMoves
      <4> QED BY <1>2, <4>1, <4>3, <4>5, MovesFrom
    <3>2. CASE x.tag /= "some"
      BY <2>1, <2>2, <3>2
    <3> QED BY <3>1, <3>2
  <2>5. Ok(k)
    BY <2>4 DEF y
  <2> HIDE DEF Ok
  <2> QED BY <2>3, <2>5
<1>5. \A k \in 0..n : k \in W
  <2> HIDE DEF W
  <2> QED BY <1>1, <1>3, <1>4, Climb
<1>6. Ok(n)
  <2>1. n \in 0..n
    BY <1>1
  <2>2. n \in W
    BY <1>5, <2>1, Zenon
  <2> HIDE DEF Ok
  <2> QED BY <2>2
<1> QED BY <1>1, <1>6

\* What a call makes of a buffer that does not end at the line break before a boundary.
LEMMA CallMoves ==
  ASSUME NEW f \in Form, NEW r \in UploadT, NEW e, Progress(f, r), Holds(f, r, e),
         Clean(f, r.size, e), NEW y, y = ReadMultipart(r)
  PROVE  Moves(f, e, r.size, y)
<1> DEFINE q == r.buff
           b == BodyBytes(f)
<1>1. Laid(f, b) /\ Window(q, b, r.size, e) /\ r.size \in Nat /\ e \in Nat /\ r.size <= e
  BY BodyLaid, HoldsIs
<1>2. CASE MayBeBoundary(q)
  <2>1. e < Len(b)
    <3> HIDE DEF q, b
    <3> QED BY <1>1, <1>2, NotCut
  <2>2. y = Result("none", r)
    BY <1>2 DEF ReadMultipart
  <2>3. r.size <= r.size
    BY <1>1
  <2> QED BY <2>1, <2>2, <2>3, MovesNone
<1>3. CASE ~MayBeBoundary(q)
  <2>1. ASSUME NEW k \in 0..Len(f), r.size <= Start(f, k)
        PROVE  e < Start(f, k) - 2 \/ Start(f, k) + Width <= e
    <3>1. PICK c \in Nat, h \in Nat : c = Start(f, k) /\ h = e
      BY <1>1, Starts
    <3>2. ~(c < h /\ h < c + Width)
      <4>1. SUFFICES ASSUME c < h, h < c + Width PROVE FALSE
        OBVIOUS
      <4>2. Start(f, k) < e /\ e < Start(f, k) + Width
        BY <3>1, <4>1, Zenon
      <4> HIDE DEF q, b
      <4> QED BY <1>1, <1>3, <2>1, <4>2, Cut
    <3>3. h < c - 2 \/ c < h
      <4>1. CASE k = 0
        <5>1. c = 0 /\ h > 0
          BY <3>1, <4>1, Starts, Zenon DEF Clean
        <5> QED BY <5>1
      <4>2. CASE k /= 0
        <5>1. k \in 1..Len(f)
          BY <4>2
        <5>2. e < Start(f, k) - 2 \/ Start(f, k) < e
          BY <2>1, <5>1, Zenon DEF Clean
        <5> QED BY <3>1, <5>2, Zenon
      <4> QED BY <4>1, <4>2
    <3>4. h < c - 2 \/ c + Width <= h
      BY <3>2, <3>3, WidthIs
    <3> QED BY <3>1, <3>4, Zenon
  <2>2. Settled(f, r.size, e)
    BY <2>1, Zenon DEF Settled
  <2>3. y = Parts(r)
    BY <1>3 DEF ReadMultipart
  <2> QED BY <2>2, <2>3, PartsMoves
<1> QED BY <1>2, <1>3

-----------------------------------------------------------------------------
(* What a read does to it. *)

LEMMA SuffixNone ==
  ASSUME NEW t \in Bytes
  PROVE  IsSuffix(<<>>, t)
<1>1. <<>> \in Bytes /\ Len(<<>>) = 0
  BY DEF Bytes
<1>2. PICK l \in Nat : l = Len(t)
  BY BytesLen
<1> DEFINE rs == Reverse(<<>>)
           rt == Reverse(t)
<1>3. rs \in Bytes /\ Len(rs) = 0 /\ rt \in Bytes /\ Len(rt) = l
  BY <1>1, <1>2, ReverseIs
<1> HIDE DEF rs, rt
<1>4. Take(rs, 0) = <<>> /\ Take(rt, 0) = <<>>
  BY <1>3, TakeEnds
<1>5. SubSeq(rs, 1, Len(rs)) = SubSeq(rt, 1, Len(rs)) /\ Len(rs) <= Len(rt)
  <2>1. 0 <= l
    OBVIOUS
  <2> QED BY <1>3, <1>4, <2>1, Zenon DEF Take
<1>6. IsPrefix(rs, rt)
  BY <1>5, Zenon DEF IsPrefix
<1> QED BY <1>6, Zenon DEF IsSuffix, rs, rt

\* The line break before the boundary behind part k, and that boundary.
LEMMA BreakIs ==
  ASSUME NEW f \in Form, NEW b, Laid(f, b), NEW k \in 1..Len(f), NEW g \in Nat, g + 2 = Start(f, k)
  PROVE  /\ \A j \in 1..2 : b[g + j] = Break[j]
         /\ \A j \in 1..Width : b[g + 2 + j] = Boundary[j]
<1>1. PICK a \in Nat, c \in Nat, l \in Nat, w \in Nat :
        /\ a = Start(f, k - 1) /\ c = Start(f, k) /\ l = Len(f[k].data) /\ w = Width
        /\ c = a + w + 9 + l /\ k \in 0..Len(f)
  BY Behind, WidthIs
<1>2. g + 1 = a + w + 7 + l + 1 /\ g + 2 = a + w + 7 + l + 2 /\ g + 2 = c
  <2>1. g + 2 = c
    BY <1>1
  <2>2. \A z \in Nat : z + 2 = a + w + 9 + l => z + 1 = a + w + 7 + l + 1 /\ z + 2 = a + w + 7 + l + 2
    OBVIOUS
  <2> QED BY <1>1, <2>1, <2>2, Zenon
<1>3. b[a + w + 7 + l + 1] = "cr" /\ b[a + w + 7 + l + 2] = "lf"
  BY <1>1, Zenon DEF Laid
<1>4. b[g + 1] = Break[1] /\ b[g + 2] = Break[2]
  BY <1>2, <1>3, SizedEnds, Zenon
<1>5. \A j \in 1..2 : b[g + j] = Break[j]
  <2>1. \A j \in 1..2 : j = 1 \/ j = 2
    OBVIOUS
  <2> QED BY <1>4, <2>1
<1>6. \A j \in 1..Width : b[c + j] = Boundary[j]
  BY <1>1, Zenon DEF Laid
<1>7. g + 2 = c
  BY <1>2
<1> QED BY <1>5, <1>6, <1>7, Zenon

\* What is behind a cut after i bytes of that line break.
LEMMA RestPrefix ==
  ASSUME NEW f \in Form, NEW b, Laid(f, b), NEW k \in 1..Len(f), NEW g \in Nat, g + 2 = Start(f, k),
         NEW i \in 0..2, NEW w, NEW e, e = g + i, Window(w, b, e, Len(b)), g + 2 + Width <= Len(b)
  PROVE  IsPrefix(SubSeq(Break, i + 1, 2) \o Boundary, w)
<1> DEFINE p == Drop(Break, i)
           t == p \o Boundary
<1>1. /\ \A j \in 1..2 : b[g + j] = Break[j]
      /\ \A j \in 1..Width : b[g + 2 + j] = Boundary[j]
  BY BreakIs
<1>2. Break \in Bytes /\ Len(Break) = 2 /\ Boundary \in Bytes /\ Len(Boundary) = Width /\ Width \in Nat /\ Width > 0
  BY SizedEnds, SizedBoundary, WidthIs DEF Sized
<1>3. p = SubSeq(Break, i + 1, 2)
  BY <1>2, Zenon DEF Drop
<1>4. p \in Bytes /\ Len(p) = 2 - i /\ \A j \in 1..(2 - i) : p[j] = Break[i + j]
  <2>1. i \in 0..Len(Break) /\ Break \in Seq(Byte)
    BY <1>2 DEF Bytes
  <2>2. p \in Seq(Byte) /\ Len(p) = Len(Break) - i
        /\ \A j \in 1..(Len(Break) - i) : p[j] = Break[i + j]
    BY <2>1, DropIs
  <2> QED BY <1>2, <2>2, Zenon DEF Bytes
<1> HIDE DEF p
<1>5. /\ t \in Bytes /\ Len(t) = Len(p) + Len(Boundary)
      /\ \A j \in 1..(Len(p) + Len(Boundary)) : t[j] = IF j <= Len(p) THEN p[j] ELSE Boundary[j - Len(p)]
  BY SMTT(30), <1>2, <1>4, ConcatProperties DEF Bytes
<1> HIDE DEF t
<1>6. PICK v \in Nat : v = Width /\ v > 0
  BY <1>2
<1>7. PICK x \in 0..2 : x = 2 - i /\ i + x = 2
  OBVIOUS
<1>8. PICK m \in Nat : m = x + v /\ m > 0
  BY <1>6
<1>9. Len(t) = m /\ \A j \in 1..m : t[j] = IF j <= x THEN p[j] ELSE Boundary[j - x]
  BY <1>2, <1>4, <1>5, <1>6, <1>7, <1>8
<1>10. PICK l \in Nat : l = Len(b)
  <2>1. b \in Bytes
    BY DEF Laid
  <2> QED BY <2>1, BytesLen
<1>11. w \in Bytes /\ Len(w) = l - e /\ \A j \in 1..(l - e) : w[j] = b[e + j]
  BY <1>10 DEF Window
<1>12. m <= l - e
  BY <1>6, <1>7, <1>8, <1>10
<1>13. ASSUME NEW j \in 1..m PROVE w[j] = t[j]
  <2>1. j \in 1..(l - e)
    BY <1>10, <1>12
  <2>2. w[j] = b[e + j]
    BY <1>11, <2>1, Zenon
  <2>3. CASE j <= x
    <3>1. j \in 1..(2 - i) /\ i + j \in 1..2 /\ e + j = g + (i + j)
      BY <1>7, <2>3
    <3>2. b[g + (i + j)] = Break[i + j]
      BY <1>1, <3>1
    <3> QED BY <1>4, <1>9, <2>2, <2>3, <3>1, <3>2, Zenon
  <2>4. CASE ~(j <= x)
    <3>1. j - x \in 1..v /\ e + j = g + 2 + (j - x)
      BY <1>7, <1>8, <2>4
    <3>2. b[g + 2 + (j - x)] = Boundary[j - x]
      BY <1>1, <1>6, <3>1
    <3> QED BY <1>9, <2>2, <2>4, <3>1, <3>2, Zenon
  <2> QED BY <2>3, <2>4
<1>14. IsPrefix(t, w)
  <2>1. m <= Len(w) /\ \A j \in 1..m : w[j] = t[j]
    BY <1>11, <1>12, <1>13
  <2> QED BY <1>5, <1>8, <1>9, <1>11, <2>1, PrefixIs
<1> QED BY <1>3, <1>14, Zenon DEF t

\* What is before it.
LEMMA CutSuffix ==
  ASSUME NEW f \in Form, NEW b, Laid(f, b), NEW k \in 1..Len(f), NEW g \in Nat, g + 2 = Start(f, k),
         NEW i \in 0..2, NEW q, NEW s, NEW e, e = g + i, Window(q, b, s, e), s <= g
  PROVE  IsSuffix(Take(Break, i), q)
<1>1. \A j \in 1..2 : b[g + j] = Break[j]
  BY BreakIs
<1>2. Break \in Bytes /\ Len(Break) = 2
  BY SizedEnds DEF Sized
<1> DEFINE p == Take(Break, i)
<1>3. p \in Bytes /\ Len(p) = i /\ \A j \in 1..i : p[j] = Break[j]
  <2>1. i \in Int /\ i <= 2
    OBVIOUS
  <2>2. p \in Seq(Byte) /\ Len(p) = (IF 1 <= i THEN i ELSE 0) /\ \A j \in 1..i : p[j] = Break[j]
    BY <1>2, <2>1, TakeIs DEF Bytes
  <2> HIDE DEF p
  <2>3. (IF 1 <= i THEN i ELSE 0) = i
    OBVIOUS
  <2> QED BY <2>2, <2>3 DEF Bytes
<1>4. q \in Bytes /\ s \in Nat /\ Len(q) = e - s /\ \A j \in 1..(e - s) : q[j] = b[s + j]
  BY DEF Window
<1>5. CASE i = 0
  <2>1. Take(Break, 0) = <<>>
    BY <1>2, TakeEnds
  <2> QED BY <1>4, <1>5, <2>1, SuffixNone
<1> HIDE DEF p
<1>6. CASE i > 0
  <2>1. PICK l \in Nat : l = e - s /\ i <= l /\ s + (l - i) = g
    <3>1. s \in Nat
      BY <1>4
    <3>2. PICK x \in Nat, y \in Nat : x = g - s /\ y = i
      BY <3>1
    <3>3. e - s = x + y /\ x + y \in Nat /\ y <= x + y /\ s + ((x + y) - y) = g
      BY <3>1, <3>2
    <3> QED BY <3>2, <3>3
  <2>2. ASSUME NEW j \in 1..i PROVE q[l - i + j] = p[j]
    <3>1. (l - i + j) \in 1..(e - s) /\ s + (l - i + j) = g + j /\ j \in 1..2
      BY <1>4, <2>1
    <3>2. b[g + j] = Break[j]
      BY <1>1, <3>1, Zenon
    <3> QED BY <1>3, <1>4, <3>1, <3>2, Zenon
  <2>3. Len(q) = l /\ i \in Nat
    BY <1>4, <2>1
  <2>4. IsSuffix(p, q)
    BY <1>3, <1>4, <1>6, <2>1, <2>2, <2>3, SuffixIf
  <2> QED BY <2>4 DEF p
<1>7. i = 0 \/ i > 0
  OBVIOUS
<1> QED BY <1>5, <1>6, <1>7

\* What was counted is not in the line break before a boundary.
LEMMA Gap ==
  ASSUME NEW f \in Form, NEW k \in 1..Len(f), NEW r, Progress(f, r), r.size < Start(f, k)
  PROVE  r.size + 2 <= Start(f, k)
<1>1. PICK c \in Nat : c = Start(f, k) /\ k \in 0..Len(f)
  BY Behind
<1>2. r.size < c
  BY <1>1
<1>3. ASSUME NEW j \in 0..Len(f), Before(f, r, j) PROVE r.size + 2 <= Start(f, k)
  <2>1. PICK a \in Nat : a = Start(f, j)
    BY Starts
  <2>2. r.size = a
    BY <1>3, <2>1, Zenon DEF Before
  <2>3. CASE j < k
    <3>1. j \in 0..(k - 1)
      BY <2>3
    <3>2. a + Width + 9 <= c
      BY <1>1, <2>1, <3>1, Starts, Zenon
    <3>3. a + 2 <= c
      BY <3>2, WidthIs
    <3> QED BY <1>1, <2>2, <3>3, Zenon
  <2>4. CASE ~(j < k)
    <3>1. k \in 0..j
      BY <2>4
    <3>2. c <= a
      BY <1>1, <2>1, <3>1, Starts, Zenon
    <3>3. a < c
      BY <1>2, <2>2, Zenon
    <3> QED BY <3>2, <3>3
  <2> QED BY <2>3, <2>4
<1>4. ASSUME NEW j \in 1..Len(f), NEW d \in 0..Len(f[j].data), Within(f, r, j, d)
      PROVE  r.size + 2 <= Start(f, k)
  <2>1. PICK a \in Nat, t \in Nat, l \in Nat :
          /\ a = Start(f, j - 1) /\ t = Start(f, j) /\ l = Len(f[j].data)
          /\ t = a + Width + 9 + l /\ j \in 0..Len(f) /\ j - 1 \in 0..Len(f)
    BY Behind
  <2>2. r.size = a + Width + 7 + d
    BY <1>4, <2>1, Zenon DEF Within
  <2>3. d \in Nat /\ d <= l
    BY <2>1
  <2>4. \A w \in Nat : \A x \in Nat : x <= l =>
           a + w + 7 + x \in Nat /\ (a + w + 7 + x) + 2 <= a + w + 9 + l
    OBVIOUS
  <2>5. PICK s \in Nat : s = r.size /\ s + 2 <= t
    <3>1. a + Width + 7 + d \in Nat /\ (a + Width + 7 + d) + 2 <= a + Width + 9 + l
      BY <2>3, <2>4, WidthIs
    <3>2. r.size \in Nat /\ r.size + 2 <= t
      BY <2>1, <2>2, <3>1, Zenon
    <3> QED BY <3>2, Zenon
  <2>6. CASE j <= k
    <3>1. j \in 0..k
      BY <2>6
    <3>2. t <= c
      BY <1>1, <2>1, <3>1, Starts, Zenon
    <3>3. s + 2 <= c
      BY <2>5, <3>2
    <3> QED BY <1>1, <2>5, <3>3, Zenon
  <2>7. CASE ~(j <= k)
    <3>1. k \in 0..(j - 1)
      BY <2>7
    <3>2. c <= a
      BY <1>1, <2>1, <3>1, Starts, Zenon
    <3>3. a <= s
      <4>1. \A w \in Nat : \A x \in Nat : a <= a + w + 7 + x
        OBVIOUS
      <4> QED BY <2>2, <2>3, <2>5, <4>1, WidthIs, Zenon
    <3>4. s < c
      BY <1>2, <2>5, Zenon
    <3> QED BY <3>2, <3>3, <3>4
  <2> QED BY <2>6, <2>7
<1> QED BY <1>3, <1>4 DEF Progress

\* Where a request that is being read stands: e bytes of the body have been read.
Standing(f, r, w, e) ==
  Progress(f, r) /\ Holds(f, r, e) /\ Window(w, BodyBytes(f), e, Len(BodyBytes(f)))

LEMMA StandingRead ==
  ASSUME CleanReads, UploadTypes, NEW n \in 1..BlockSize, Read(n), NEW e,
         Standing(form, req, wire, e)
  PROVE  Standing(form, req', wire', e + n) /\ Clean(form, req'.size, e + n)
<1> DEFINE b == BodyBytes(form)
           q == req'.buff
<1>1. /\ n \in 1..Len(wire) /\ wire' = Drop(wire, n)
      /\ q = req.buff \o Take(wire, n) /\ req' = [req EXCEPT !.buff = req'.buff]
      /\ req' \in UploadT
      /\ req'.size = req.size /\ req'.length = req.length
  BY ReadIs
<1>2. form \in Form /\ req \in UploadT
  BY DEF UploadTypes
<1>3. /\ Laid(form, b) /\ b \in Bytes /\ Window(req.buff, b, req.size, e) /\ Window(wire, b, e, Len(b))
      /\ req.length = Len(b)
  BY <1>2, BodyLaid DEF Standing, Holds, Laid
<1>4. PICK s \in Nat, h \in Nat, l \in Nat :
        s = req.size /\ h = e /\ l = Len(b) /\ s <= h /\ h <= l /\ Len(wire) = l - h
  BY <1>2, <1>3, UploadTyped, BytesLen DEF Window
<1> HIDE DEF b
<1>5. n \in 1..(l - h) /\ n \in Nat /\ h + n <= l /\ h + n \in Nat /\ s < h + n /\ h + n > 0
  BY <1>1, <1>4
<1>6. Window(q, b, s, h + n)
  <2>1. Window(req.buff, b, s, h) /\ Window(wire, b, h, l)
    BY <1>3, <1>4, Zenon
  <2>2. Window(req.buff \o Take(wire, n), b, s, h + n)
    BY <1>3, <1>5, <2>1, WindowMore
  <2> QED BY <1>1, <2>2, Zenon
<1>7. Window(wire', b, h + n, l)
  <2>1. Window(wire, b, h, l)
    BY <1>3, <1>4, Zenon
  <2> QED BY <1>1, <1>3, <1>5, <2>1, WindowDrop, Zenon
<1>8. Progress(form, req')
  <2>1. /\ req'.isWrite = req.isWrite /\ req'.keys = req.keys /\ req'.disk = req.disk
        /\ req'.body = req.body /\ req'.files = req.files /\ req'.filesTotal = req.filesTotal
        /\ req'.fields = req.fields /\ req'.fieldsTotal = req.fieldsTotal /\ req'.parts = req.parts
    BY <1>1, <1>2 DEF UploadT
  <2>2. Progress(form, req)
    BY DEF Standing
  <2> QED BY <1>1, <2>1, <2>2, ZenonT(40) DEF Progress, Before, Within, Accepted
<1>9. Standing(form, req', wire', e + n)
  BY <1>1, <1>3, <1>4, <1>6, <1>7, <1>8, Zenon DEF Standing, Holds, b
<1>10. ASSUME NEW k \in 1..Len(form), s <= Start(form, k)
       PROVE  h + n < Start(form, k) - 2 \/ Start(form, k) < h + n
  <2>1. PICK c \in Nat : c = Start(form, k) /\ c + Width + 4 <= l
    BY <1>2, <1>4, Behind, Zenon DEF b
  <2>2. SUFFICES ASSUME c - 2 <= h + n, h + n <= c PROVE FALSE
    BY <1>5, <2>1
  <2>3. s < c
    BY <1>5, <2>2
  <2>4. s + 2 <= c
    <3>1. req.size < Start(form, k) /\ Progress(form, req)
      BY <1>4, <2>1, <2>3, Zenon DEF Standing
    <3>2. req.size + 2 <= Start(form, k)
      BY <1>2, <3>1, Gap
    <3> QED BY <1>4, <2>1, <3>2, Zenon
  <2>5. PICK g \in Nat : g + 2 = c /\ s <= g
    <3>1. c - 2 \in Nat /\ (c - 2) + 2 = c /\ s <= c - 2
      BY <2>4
    <3> QED BY <3>1, Zenon
  <2>6. PICK i \in 0..2 : h + n = g + i
    <3>1. (h + n) - g \in 0..2 /\ h + n = g + ((h + n) - g)
      BY <1>5, <2>2, <2>5
    <3> QED BY <3>1, Zenon
  <2>7. g + 2 = Start(form, k) /\ g + 2 + Width <= Len(b)
    <3>1. c + Width <= l
      BY <1>4, <2>1, WidthIs
    <3> QED BY <1>4, <2>1, <2>5, <3>1, Zenon
  <2>8. Window(wire', b, h + n, Len(b))
    BY <1>4, <1>7, Zenon
  <2>9. IsPrefix(SubSeq(Break, i + 1, 2) \o Boundary, wire')
    BY <1>2, <1>3, <2>6, <2>7, <2>8, RestPrefix
  <2>10. IsSuffix(Take(Break, i), q)
    BY <1>2, <1>3, <1>6, <2>5, <2>6, <2>7, CutSuffix
  <2>11. EndsAtBreak(n)
    BY <1>1, <2>9, <2>10, Zenon DEF EndsAtBreak
  <2> QED BY <2>11, Zenon DEF Read
<1>11. Clean(form, s, h + n)
  BY <1>5, <1>10, Zenon DEF Clean
<1> QED BY <1>1, <1>4, <1>9, <1>11, Zenon

-----------------------------------------------------------------------------
(* Forms are read whole, or refused. *)

\* A form is being read, or its reading came out right.
FormRead ==
  /\ UploadTypes
  /\ upload \in {"read", "parse"} =>
       \E e : /\ Standing(form, req, wire, e)
              /\ upload = "parse" => Clean(form, req.size, e)
              /\ upload = "read" => e < Len(BodyBytes(form))
  /\ FormIsWhole /\ FormIsRead

LEMMA FormInit == UploadInit => FormRead
<1> SUFFICES ASSUME UploadInit PROVE FormRead
  OBVIOUS
<1> DEFINE b == BodyBytes(form)
<1>1. UploadTypes /\ form \in Form
  BY SkipInit DEF UploadTypes
<1>2. /\ wire = b /\ upload = "read"
      /\ req = [buff |-> <<>>, size |-> 0, length |-> Len(b), skip |-> 0,
            isWrite |-> FALSE, keys |-> "none", disk |-> <<>>, body |-> <<>>,
            files |-> 0, filesTotal |-> 0, fields |-> 0, fieldsTotal |-> 0,
            parts |-> <<>>]
  BY DEF UploadInit
<1>3. Laid(form, b) /\ b \in Bytes
  BY <1>1, BodyLaid DEF Laid
<1>4. PICK l \in Nat, n \in Nat, t \in Nat :
        l = Len(b) /\ n = Len(form) /\ t = Start(form, n) /\ l = t + Width + 4 /\ 0 \in 0..Len(form)
  <2>1. PICK n \in Nat : n = Len(form)
    BY <1>1, FormTyped
  <2>2. n \in 0..Len(form) /\ 0 \in 0..Len(form)
    BY <2>1
  <2>3. Start(form, n) \in Nat
    BY <1>1, <2>2, Starts
  <2>4. Len(b) = Start(form, n) + Width + 4
    BY <1>3, <2>1 DEF Laid
  <2>5. Len(b) \in Nat
    BY <1>3, BytesLen
  <2> HIDE DEF b
  <2> QED BY <2>1, <2>2, <2>3, <2>4, <2>5, Zenon
<1>5. 0 < l /\ 0 <= l /\ 0 \in Nat
  BY <1>4, WidthIs
<1> HIDE DEF b
<1>6. Window(<<>>, b, 0, 0) /\ Window(b, b, 0, Len(b))
  <2>1. 0 <= Len(b)
    BY <1>4, <1>5
  <2> QED BY <1>3, <1>5, <2>1, WindowNone, WindowWhole
<1>7. Holds(form, req, 0)
  <2>1. req.length = Len(b) /\ req.buff = <<>> /\ req.size = 0
    BY <1>2
  <2> QED BY <1>6, <2>1, Zenon DEF Holds, b
<1>8. Before(form, req, 0)
  <2>1. /\ req.parts = <<>> /\ req.filesTotal = 0 /\ req.fieldsTotal = 0 /\ req.files = 0
        /\ req.fields = 0 /\ req.size = 0 /\ ~req.isWrite
    BY <1>2
  <2>2. StoredIn(form, 0) = <<>> /\ FilesIn(form, 0) = 0 /\ Start(form, 0) = 0
    BY <1>1, StoredGrows, FilesGrow, Starts
  <2>3. DataIn(form, TRUE, 0) = 0 /\ DataIn(form, FALSE, 0) = 0
    BY <1>1, DataGrows
  <2>4. 0 <= DiskSpace /\ 0 <= MaxFilesTotal /\ 0 <= MaxFieldsTotal /\ 0 <= MaxFiles /\ 0 <= MaxFields
    BY MultipartAssumption
  <2>5. 1..0 = {}
    OBVIOUS
  <2>6. Accepted(form, req, 0)
    BY <2>1, <2>2, <2>4, <2>5, Zenon DEF Accepted
  <2> QED BY <2>1, <2>2, <2>3, <2>6, Zenon DEF Before
<1>9. Progress(form, req)
  BY <1>4, <1>8, Zenon DEF Progress
<1>10. Standing(form, req, wire, 0)
  BY <1>2, <1>6, <1>7, <1>9, Zenon DEF Standing, b
<1>11. 0 < Len(b)
  BY <1>4, <1>5, Zenon
<1>12. wire /= <<>>
  <2>1. Len(<<>>) = 0 /\ ~(0 < 0)
    OBVIOUS
  <2> QED BY <1>2, <1>11, <2>1, Zenon
<1>13. FormIsWhole /\ FormIsRead
  BY <1>2, <1>12 DEF FormIsWhole, FormIsRead
<1>14. "read" /= "parse"
  OBVIOUS
<1> QED BY <1>1, <1>2, <1>10, <1>11, <1>13, <1>14, Zenon DEF FormRead, b

LEMMA FormStep ==
  ASSUME CleanReads
  PROVE  FormRead /\ [UploadNext]_uploadVars => FormRead'
<1> SUFFICES ASSUME FormRead, [UploadNext]_uploadVars PROVE FormRead'
  OBVIOUS
<1>1. UploadTypes /\ form \in Form /\ req \in UploadT
  BY DEF FormRead, UploadTypes
<1>2. ASSUME NEW n \in 1..BlockSize, Read(n) PROVE FormRead'
  <2>1. /\ upload = "read" /\ upload' = "parse" /\ form' = form
        /\ wire' \in Bytes /\ req' \in UploadT
    BY <1>1, <1>2, ReadIs
  <2>2. UploadTypes'
    BY <1>1, <2>1 DEF UploadTypes
  <2>3. PICK e : Standing(form, req, wire, e)
    BY <2>1 DEF FormRead
  <2>4. Standing(form, req', wire', e + n) /\ Clean(form, req'.size, e + n)
    BY <1>1, <1>2, <2>3, StandingRead
  <2>5. Standing(form', req', wire', e + n) /\ Clean(form', req'.size, e + n)
    BY <2>1, <2>4
  <2>6. /\ "parse" /= "read" /\ "parse" /= "done" /\ "parse" /= "refused" /\ "parse" /= "garbled"
        /\ "parse" /= "unwritten" /\ "parse" /= "panicked" /\ "parse" /= "invalid"
    OBVIOUS
  <2>7. FormIsWhole' /\ FormIsRead'
    BY <2>1, <2>6, Zenon DEF FormIsWhole, FormIsRead
  <2> QED BY <2>1, <2>2, <2>5, <2>6, <2>7, Zenon DEF FormRead
<1>3. ASSUME Parse PROVE FormRead'
  <2> DEFINE y == ReadMultipart(req)
             b == BodyBytes(form)
  <2>1. /\ upload = "parse" /\ upload' = IF y.tag = "none" THEN "read" ELSE y.tag
        /\ req' = y.req /\ form' = form /\ wire' = wire
        /\ Counted(y, req.size + Len(req.buff), req.length) /\ y.tag /= "some"
    BY <1>1, <1>3, ParseIs
  <2>2. PICK e : Standing(form, req, wire, e) /\ Clean(form, req.size, e)
    BY <2>1 DEF FormRead
  <2>3. Moves(form, e, req.size, y)
    <3> HIDE DEF y
    <3> QED BY <1>1, <2>2, CallMoves DEF Standing, y
  <2> HIDE DEF y
  <2>4. UploadTypes'
    BY <1>1, <2>1 DEF UploadTypes, Counted, TakeT
  <2>5. CASE y.tag = "none"
    <3>1. upload' = "read" /\ Standing(form', req', wire', e) /\ e < Len(BodyBytes(form'))
      BY <2>1, <2>2, <2>3, <2>5 DEF Moves, Standing
    <3>2. wire' /= <<>>
      <4>1. Window(wire, b, e, Len(b)) /\ e < Len(b) /\ wire' = wire
        BY <2>1, <2>2, <3>1 DEF Standing
      <4>2. PICK l \in Nat, h \in Nat : l = Len(b) /\ h = e
        BY <4>1 DEF Window
      <4> HIDE DEF b
      <4>3. Len(wire) = l - h /\ h < l
        BY <4>1, <4>2 DEF Window
      <4>4. Len(<<>>) = 0 /\ l - h /= 0
        BY <4>3
      <4> QED BY <4>1, <4>3, <4>4, Zenon
    <3>3. /\ "read" /= "parse" /\ "read" /= "done" /\ "read" /= "refused" /\ "read" /= "garbled"
          /\ "read" /= "unwritten" /\ "read" /= "panicked" /\ "read" /= "invalid"
      OBVIOUS
    <3>4. FormIsWhole' /\ FormIsRead'
      BY <3>1, <3>2, <3>3, Zenon DEF FormIsWhole, FormIsRead
    <3> QED BY <2>4, <3>1, <3>3, <3>4, Zenon DEF FormRead
  <2>6. CASE y.tag /= "none"
    <3>1. upload' = y.tag /\ upload' \in {"done", "refused", "garbled", "unwritten", "panicked"}
      BY <2>1, <2>3, <2>6 DEF Moves
    <3>2. upload' = "done" => req'.parts = Stored(form') /\ ~Refusable(form') /\ ~Panics(form')
      BY <2>1, <2>3, <3>1 DEF Moves
    <3>3. /\ upload' = "refused" => Refusable(form')
          /\ upload' = "garbled" => Breakable(form')
          /\ upload' = "unwritten" => Len(DataOf(form', TRUE)) > DiskSpace
          /\ upload' = "panicked" => Panics(form')
      BY <2>1, <2>3, <3>1, Zenon DEF Moves
    <3>4. FormIsWhole' /\ FormIsRead' /\ upload' \notin {"read", "parse"}
      BY <3>1, <3>2, <3>3 DEF FormIsWhole, FormIsRead
    <3> QED BY <2>4, <3>4, Zenon DEF FormRead
  <2> QED BY <2>5, <2>6
<1>4. CASE UNCHANGED uploadVars
  <2>1. form' = form /\ wire' = wire /\ req' = req /\ upload' = upload
    BY <1>4 DEF uploadVars
  <2> QED BY <2>1, Zenon DEF FormRead, UploadTypes, FormIsWhole, FormIsRead
<1> QED BY <1>2, <1>3, <1>4 DEF UploadNext

\* As long as no read ends at the line break before a boundary, the handler gets every
\* file of the form that was sent and every field that is more than white space, each
\* with its bytes, wherever the reads end: no boundary that is cut in two, no header
\* that comes in pieces and no limit changes it.
THEOREM FormsArriveWhole == CleanReads => (UploadSpec => []FormIsWhole)
<1> SUFFICES ASSUME CleanReads PROVE UploadSpec => []FormIsWhole
  OBVIOUS
<1>1. FormRead /\ [UploadNext]_uploadVars => FormRead'
  BY FormStep
<1>2. FormRead => FormIsWhole
  BY DEF FormRead
<1> QED BY <1>1, <1>2, FormInit, PTL DEF UploadSpec

\* And a form that has something to be refused, by an option, its names, the disk or its
\* encoding, is never read to its end, nor is one with a name that set_keys panics on.
\* No other form is refused unless a read cut a character of a field, the reader
\* never waits for more than the body has, panics on nothing but a name, and takes no
\* body for invalid.
THEOREM FormsAreReadOrRefused == CleanReads => (UploadSpec => []FormIsRead)
<1> SUFFICES ASSUME CleanReads PROVE UploadSpec => []FormIsRead
  OBVIOUS
<1>1. FormRead /\ [UploadNext]_uploadVars => FormRead'
  BY FormStep
<1>2. FormRead => FormIsRead
  BY DEF FormRead
<1> QED BY <1>1, <1>2, FormInit, PTL DEF UploadSpec

=============================================================================
