-------------------------------- MODULE WtProofs --------------------------------
(***************************************************************************)
(* Proofs about WtConn, for any capacity of the channel and any number of  *)
(* messages and operations.                                                *)
(*                                                                         *)
(* Both rest on the READ TASK doing one thing at a time.  The registry     *)
(* holds a stream only while its handler blocks the task (OneStream), so   *)
(* what is looked up is of the message whose topic the connection's stream *)
(* has (HeldIsOwn).  And the parser leaves a message behind only when it   *)
(* has been handled, or when it, or one before it, may trip it (Row).      *)
(***************************************************************************)
EXTENDS WtConn, SequenceTheorems, TLAPS

Operation == [n : Nat, kind : {"data", "close"}]
Output == [kind : {"data", "close", "pong"}, n : Nat, topic : Nat]

Typed ==
  /\ at \in {"none", "read", "parse", "spin", "handler", "ended"}
  /\ sent \in Seq(Kinds) /\ got \in Nat /\ done \in Nat
  /\ part \in BOOLEAN /\ astray \in BOOLEAN
  /\ topic \in Nat /\ handled \in Seq(Nat)
  /\ toRust \in Seq(Operation) /\ held \in Operation \cup {Idle}
  /\ chan \in Seq(Output)

\* There is no READ TASK before the session is accepted.
NotYet == link = "new" => at = "none"

\* The stream of a message is registered while its handler blocks the READ TASK.
OneStream == streams = IF at = "handler" THEN {topic} ELSE {}

\* What was looked up is of the message being handled, or its handler returned since.
HeldIsOwn == held /= Idle => held.n \in raced \/ (at = "handler" /\ held.n = topic)

\* The messages left behind, those read and those sent, a part being of the next.
Bounds == done <= got /\ got <= Len(sent) /\ (part => got < Len(sent))

\* The messages left behind are handled, in order, up to the first that trips the parser.
Increasing ==
  /\ \A k \in 1..Len(handled) : handled[k] \in 1..done
  /\ \A j, k \in 1..Len(handled) : j < k => handled[j] < handled[k]
Kept == \A n \in 1..done : Good(n) => \E k \in 1..Len(handled) : handled[k] = n

\* A parser is astray only at or behind a message it may trip over.
Trips(m) == sent[m] \notin {"call", "unknown"}
WhyAstray == astray => \E m \in 1..Len(sent) : m <= done + 1 /\ Trips(m)

\* A task that is about to read has parsed all it has.
ReadsWhenEmpty == at \in {"none", "read"} => done = got /\ ~part

Row == Bounds /\ Increasing /\ Kept /\ WhyAstray /\ ReadsWhenEmpty

IInv ==
  /\ Typed /\ NotYet
  /\ OneStream /\ HeldIsOwn /\ AnswersOwnTopic
  /\ Row

-----------------------------------------------------------------------------
(* Type correctness. *)

LEMMA TrySendType ==
  ASSUME Typed, NEW msg \in Output, TrySend(msg)
  PROVE  chan' \in Seq(Output)
BY DEF Typed, TrySend

\* The WRITE TASK takes the first message of the channel, or leaves it as it is, or
\* ends and drops them all.
LEMMA Written ==
  ASSUME Write \/ WriteFails \/ WriterDone \/ Finished
  PROVE  /\ UNCHANGED <<readVars, sent, bridgeVars>>
         /\ (chan /= <<>> /\ chan' = Tail(chan)) \/ chan' = chan \/ chan' = <<>>
BY DEF Write, WriteFails, WriterDone, Finish, Finished

LEMMA BadMetaType ==
  ASSUME Typed, Bounds, ParseBadMeta
  PROVE  sent' \in Seq(Kinds) /\ Len(sent') = Len(sent) /\ \A m \in 1..got : sent'[m] = sent[m]
<1>1. PICK kind \in Kinds : sent' = IF part THEN [sent EXCEPT ![got + 1] = kind] ELSE sent
  BY DEF ParseBadMeta
<1>2. CASE part
  <2>1. got + 1 \in 1..Len(sent)
    BY <1>2 DEF Typed, Bounds
  <2>2. sent' \in Seq(Kinds) /\ Len(sent') = Len(sent)
    BY <1>1, <1>2, <2>1, ExceptSeq DEF Typed
  <2>3. ASSUME NEW m \in 1..got PROVE sent'[m] = sent[m]
    BY <1>1, <1>2, <2>1, <2>3, ExceptSeq DEF Typed
  <2> QED BY <2>2, <2>3
<1>3. CASE ~part
  BY <1>1, <1>3 DEF Typed
<1> QED BY <1>2, <1>3

LEMMA TypeStep ==
  ASSUME Typed, Bounds, [Next]_vars
  PROVE  Typed'
<1> USE DEF Typed, parserVars, readVars, bridgeVars, writeVars, pongVars
<1>1. ASSUME Open \/ OpenFails PROVE Typed'
  BY <1>1 DEF Open, OpenFails
<1>2. ASSUME NEW kind \in Kinds, ClientSend(kind) PROVE Typed'
  BY <1>2 DEF ClientSend
<1>3. ASSUME NEW k \in got..Len(sent), NEW more \in BOOLEAN, Read(k, more) PROVE Typed'
  BY <1>3 DEF Read
<1>4. ASSUME ReadEnds \/ Spin PROVE Typed'
  BY <1>4 DEF ReadEnds, Spin
<1>5. CASE ParseCall
  <2>1. done + 1 \in Nat
    OBVIOUS
  <2> QED BY <1>5, <2>1 DEF ParseCall
<1>6. CASE ParseUnknown
  <2>1. done + 1 \in Nat
    OBVIOUS
  <2> QED BY <1>6, <2>1 DEF ParseUnknown, Again
<1>7. ASSUME ParsePing PROVE Typed'
  BY <1>7 DEF ParsePing
<1>16. ASSUME ParseBadMeta \/ ParseBadJson \/ ParseAstray PROVE Typed'
  <2>1. Clear /\ astray' \in BOOLEAN /\ (ParseBadMeta \/ UNCHANGED sent)
    BY <1>16 DEF ParseBadMeta, ParseBadJson, ParseAstray
  <2>2. sent' \in Seq(Kinds)
    BY <2>1, BadMetaType
  <2> QED BY <2>1, <2>2 DEF Clear
<1>8. ASSUME HandlerWoken \/ HandlerTimeout PROVE Typed'
  BY <1>8 DEF HandlerWoken, HandlerTimeout, HandlerReturns, Again
<1>9. ASSUME NEW n \in N, NEW kind \in {"data", "close"}, PyIssue(n, kind) PROVE Typed'
  <2>1. [n |-> n, kind |-> kind] \in Operation
    BY WtAssumption DEF WtAssumption, N, Operation
  <2> QED BY <1>9, <2>1 DEF PyIssue
<1>10. CASE Lookup
  <2>1. Head(toRust) \in Operation /\ toRust' \in Seq(Operation)
    BY <1>10 DEF Lookup
  <2> QED BY <1>10, <2>1 DEF Lookup
<1>11. CASE Apply
  <2>1. Answer(held) \in Output
    BY <1>11 DEF Apply, Answer, Operation, Output
  <2>2. chan' \in Seq(Output)
    BY <1>11, <2>1, TrySendType DEF Apply
  <2> QED BY <1>11, <2>2 DEF Apply
<1>12. ASSUME Write \/ WriteFails \/ WriterDone \/ Finished PROVE Typed'
  <2>1. (chan /= <<>> /\ chan' = Tail(chan)) \/ chan' = chan \/ chan' = <<>>
    BY <1>12, Written
  <2>2. chan' \in Seq(Output)
    <3>1. CASE chan /= <<>> /\ chan' = Tail(chan)
      <4>1. Tail(chan) \in Seq(Output)
        BY <3>1, HeadTailProperties
      <4> QED BY <3>1, <4>1
    <3>2. CASE chan' = chan
      BY <3>2
    <3>3. CASE chan' = <<>>
      BY <3>3
    <3> QED BY <2>1, <3>1, <3>2, <3>3
  <2>3. UNCHANGED <<readVars, sent, bridgeVars>>
    BY <1>12, Written
  <2> QED BY <2>2, <2>3
<1>13. CASE Pong
  <2>1. [kind |-> "pong", n |-> 0, topic |-> 0] \in Output
    BY DEF Output
  <2>2. chan' \in Seq(Output)
    BY <1>13, <2>1, TrySendType DEF Pong
  <2> QED BY <1>13, <2>2 DEF Pong
<1>14. ASSUME PongEnds \/ Age PROVE Typed'
  BY <1>14 DEF PongEnds, Age
<1>15. ASSUME UNCHANGED vars PROVE Typed'
  BY <1>15 DEF vars
<1> QED BY <1>1, <1>2, <1>3, <1>4, <1>5, <1>6, <1>7, <1>8, <1>9, <1>10, <1>11, <1>12, <1>13,
           <1>14, <1>15, <1>16 DEF Next, Reads

-----------------------------------------------------------------------------
(* The registry, and what is looked up in it. *)

LEMMA NotYetStep ==
  ASSUME NotYet, [Next]_vars
  PROVE  NotYet'
<1> USE DEF NotYet, readVars, writeVars
<1>1. ASSUME Open \/ OpenFails \/ Finished PROVE NotYet'
  BY <1>1 DEF Open, OpenFails, Finished
<1>2. ASSUME \/ ReadEnds \/ ParseCall \/ ParseUnknown \/ HandlerWoken \/ HandlerTimeout
             \/ ParseBadMeta \/ ParseBadJson \/ ParseAstray \/ Spin
             \/ \E k \in got..Len(sent), more \in BOOLEAN : Read(k, more)
      PROVE  NotYet'
  BY <1>2 DEF ReadEnds, Read, ParseCall, ParseUnknown, Parses, HandlerWoken, HandlerTimeout,
              HandlerReturns, ParseBadMeta, ParseBadJson, ParseAstray, Clear, Spin
<1>3. ASSUME \/ ParsePing \/ Lookup \/ Apply
             \/ \E kind \in Kinds : ClientSend(kind)
             \/ \E n \in N, kind \in {"data", "close"} : PyIssue(n, kind)
             \/ Write \/ WriteFails \/ WriterDone \/ Pong \/ PongEnds \/ Age
             \/ UNCHANGED vars
      PROVE  UNCHANGED <<link, at>>
  BY <1>3 DEF ParsePing, Lookup, Apply, ClientSend, PyIssue, Write, WriteFails, WriterDone, Finish,
              Pong, PongEnds, Age, vars
<1> QED BY <1>1, <1>2, <1>3 DEF Next, Reads

LEMMA OneStreamStep ==
  ASSUME Typed, NotYet, OneStream, [Next]_vars
  PROVE  OneStream'
<1> USE DEF OneStream, readVars
<1>1. CASE ParseCall
  BY <1>1 DEF ParseCall, Parses
<1>2. CASE ParseUnknown
  BY <1>2 DEF ParseUnknown, Parses, Again
<1>3. ASSUME HandlerWoken \/ HandlerTimeout PROVE OneStream'
  BY <1>3 DEF HandlerWoken, HandlerTimeout, HandlerReturns, Again
<1>4. ASSUME \/ Open \/ ReadEnds \/ ParseBadMeta \/ ParseBadJson \/ ParseAstray \/ Spin
             \/ \E k \in got..Len(sent), more \in BOOLEAN : Read(k, more)
      PROVE  OneStream'
  BY <1>4 DEF NotYet, Open, ReadEnds, Read, ParseBadMeta, ParseBadJson, ParseAstray, Clear, Spin,
              Parses
<1>5. ASSUME \/ OpenFails \/ ParsePing \/ Lookup \/ Apply
             \/ \E kind \in Kinds : ClientSend(kind)
             \/ \E n \in N, kind \in {"data", "close"} : PyIssue(n, kind)
             \/ Write \/ WriteFails \/ WriterDone \/ Finished \/ Pong \/ PongEnds \/ Age
             \/ UNCHANGED vars
      PROVE  UNCHANGED <<streams, at, topic>>
  BY <1>5 DEF OpenFails, ParsePing, Lookup, Apply, ClientSend, PyIssue, Write, WriteFails,
              WriterDone, Finish, Finished, Pong, PongEnds, Age, vars
<1> QED BY <1>1, <1>2, <1>3, <1>4, <1>5 DEF Next, Reads

LEMMA HeldIsOwnStep ==
  ASSUME Typed, NotYet, OneStream, HeldIsOwn, [Next]_vars
  PROVE  HeldIsOwn'
<1> USE DEF HeldIsOwn, readVars, bridgeVars
<1>1. CASE Lookup
  BY <1>1 DEF Lookup, OneStream
<1>2. CASE Apply
  BY <1>2 DEF Apply
<1>3. ASSUME HandlerWoken \/ HandlerTimeout PROVE HeldIsOwn'
  BY <1>3 DEF HandlerWoken, HandlerTimeout, HandlerReturns
<1>4. ASSUME \/ Open \/ ReadEnds \/ ParseCall \/ ParseUnknown
             \/ ParseBadMeta \/ ParseBadJson \/ ParseAstray \/ Spin
             \/ \E k \in got..Len(sent), more \in BOOLEAN : Read(k, more)
      PROVE  at /= "handler" /\ UNCHANGED <<held, raced>>
  BY <1>4 DEF NotYet, Open, ReadEnds, Read, ParseCall, ParseUnknown, ParseBadMeta, ParseBadJson,
              ParseAstray, Clear, Spin, Parses
<1>5. ASSUME \/ OpenFails \/ ParsePing
             \/ \E kind \in Kinds : ClientSend(kind)
             \/ \E n \in N, kind \in {"data", "close"} : PyIssue(n, kind)
             \/ Write \/ WriteFails \/ WriterDone \/ Finished \/ Pong \/ PongEnds \/ Age
             \/ UNCHANGED vars
      PROVE  UNCHANGED <<held, raced, at, topic>>
  BY <1>5 DEF OpenFails, ParsePing, ClientSend, PyIssue, Write, WriteFails,
              WriterDone, Finish, Finished, Pong, PongEnds, Age, vars
<1> QED BY <1>1, <1>2, <1>3, <1>4, <1>5 DEF Next, Reads

LEMMA AnswersStep ==
  ASSUME Typed, HeldIsOwn, AnswersOwnTopic, [Next]_vars
  PROVE  AnswersOwnTopic'
<1> DEFINE Own(m, r) == m.kind = "data" => m.topic = m.n \/ m.n \in r
<1> USE DEF readVars, bridgeVars, writeVars
<1>0. chan \in Seq(Output) /\ \A k \in 1..Len(chan) : Own(chan[k], raced)
  BY DEF Typed, AnswersOwnTopic
<1>1. ASSUME NEW msg, TrySend(msg), Own(msg, raced), UNCHANGED raced PROVE AnswersOwnTopic'
  <2>1. chan' = chan \/ chan' = Append(chan, msg)
    BY <1>1 DEF TrySend
  <2>2. \A k \in 1..Len(chan') : Own(chan'[k], raced)
    BY <1>0, <1>1, <2>1
  <2> QED BY <1>1, <2>2 DEF AnswersOwnTopic
<1>2. ASSUME UNCHANGED chan, raced \subseteq raced' PROVE AnswersOwnTopic'
  BY <1>0, <1>2 DEF AnswersOwnTopic
<1>3. CASE Apply
  <2>1. TrySend(Answer(held)) /\ UNCHANGED raced
    BY <1>3 DEF Apply
  <2>2. Own(Answer(held), raced)
    BY <1>3 DEF Apply, Answer, HeldIsOwn
  <2> QED BY <1>1, <2>1, <2>2
<1>4. CASE Pong
  <2>1. TrySend([kind |-> "pong", n |-> 0, topic |-> 0]) /\ UNCHANGED raced
    BY <1>4 DEF Pong
  <2> QED BY <1>1, <2>1
<1>5. ASSUME Write \/ WriteFails \/ WriterDone \/ Finished PROVE AnswersOwnTopic'
  <2>1. UNCHANGED raced /\ ((chan /= <<>> /\ chan' = Tail(chan)) \/ chan' = chan \/ chan' = <<>>)
    BY <1>5, Written DEF bridgeVars
  <2>2. CASE chan /= <<>> /\ chan' = Tail(chan)
    <3>1. /\ Len(chan') = Len(chan) - 1
          /\ \A k \in 1..Len(chan') : chan'[k] = chan[k + 1] /\ k + 1 \in 1..Len(chan)
      BY <1>0, <2>2, HeadTailProperties
    <3>2. \A k \in 1..Len(chan') : Own(chan'[k], raced)
      BY <1>0, <3>1
    <3> QED BY <2>1, <3>2 DEF AnswersOwnTopic
  <2>3. CASE chan' = <<>>
    BY <2>3 DEF AnswersOwnTopic
  <2> QED BY <1>2, <2>1, <2>2, <2>3
<1>6. ASSUME HandlerWoken \/ HandlerTimeout PROVE UNCHANGED chan /\ raced \subseteq raced'
  BY <1>6 DEF HandlerWoken, HandlerTimeout, HandlerReturns
<1>7. ASSUME \/ Open \/ OpenFails \/ ReadEnds \/ ParseCall \/ ParseUnknown \/ ParsePing
             \/ ParseBadMeta \/ ParseBadJson \/ ParseAstray \/ Spin \/ Lookup
             \/ \E k \in got..Len(sent), more \in BOOLEAN : Read(k, more)
             \/ \E kind \in Kinds : ClientSend(kind)
             \/ \E n \in N, kind \in {"data", "close"} : PyIssue(n, kind)
             \/ PongEnds \/ Age \/ UNCHANGED vars
      PROVE  UNCHANGED <<chan, raced>>
  BY <1>7 DEF Open, OpenFails, ReadEnds, ParseCall, ParseUnknown, ParsePing, ParseBadMeta,
              ParseBadJson, ParseAstray, Clear, Spin, Lookup, Read, ClientSend, PyIssue, PongEnds,
              Age, vars
<1> QED BY <1>2, <1>3, <1>4, <1>5, <1>6, <1>7 DEF Next, Reads

-----------------------------------------------------------------------------
(* The row of messages. *)

\* Goodness is of the messages up to n.
LEMMA SameGood ==
  ASSUME NEW n \in Nat, \A m \in 1..n : sent'[m] = sent[m]
  PROVE  Good(n)' <=> Good(n)
BY DEF Good

\* A whole message is left behind and handled.
LEMMA RowHandle ==
  ASSUME Typed, Row, NEW kind \in {"call", "bytes", "unknown"}, Parses(kind),
         done' = done + 1, handled' = Append(handled, done + 1),
         UNCHANGED <<got, part, astray, sent>>, at' \in {"handler", Again(done + 1)}
  PROVE  Row'
<1>1. /\ done \in Nat /\ got \in Nat /\ handled \in Seq(Nat) /\ Len(handled) \in Nat
      /\ done < got /\ sent[done + 1] = kind /\ ~astray
  BY DEF Typed, Parses
<1>2. /\ Len(handled') = Len(handled) + 1
      /\ \A k \in 1..Len(handled) : handled'[k] = handled[k]
      /\ handled'[Len(handled) + 1] = done + 1
  BY <1>1
<1>3. Increasing'
  BY <1>1, <1>2 DEF Row, Increasing
<1>4. ASSUME NEW n \in 1..done', Good(n)' PROVE \E k \in 1..Len(handled') : handled'[k] = n
  <2>1. CASE n = done + 1
    BY <1>1, <1>2, <2>1
  <2>2. CASE n \in 1..done
    <3>1. Good(n)
      BY <1>4 DEF Good
    <3>2. PICK k \in 1..Len(handled) : handled[k] = n
      BY <2>2, <3>1 DEF Row, Kept
    <3> QED BY <1>1, <1>2, <3>2
  <2> QED BY <1>1, <2>1, <2>2
<1>5. Bounds' /\ WhyAstray' /\ ReadsWhenEmpty'
  BY <1>1 DEF Row, Bounds, WhyAstray, ReadsWhenEmpty, Again
<1> QED BY <1>3, <1>4, <1>5 DEF Row, Kept

\* An error clears the buffer, at or behind a message the parser may trip over.
LEMMA RowClear ==
  ASSUME Typed, Row, Clear, ParseBadMeta \/ UNCHANGED sent,
         NEW m \in 1..Len(sent), m <= done + 1, m <= got \/ UNCHANGED sent, Trips(m),
         astray' => UNCHANGED sent
  PROVE  Row'
<1>1. /\ done \in Nat /\ got \in Nat /\ done <= got /\ got <= Len(sent)
      /\ done' = got /\ part' = FALSE /\ at' = "read" /\ UNCHANGED <<got, handled>>
      /\ handled \in Seq(Nat)
  BY DEF Typed, Row, Bounds, Clear
<1>2. Len(sent') = Len(sent) /\ \A i \in 1..got : sent'[i] = sent[i]
  BY <1>1, BadMetaType DEF Row, Typed
<1>3. \A n \in Nat : n > done /\ n <= got => ~Good(n)'
  BY <1>1, <1>2 DEF Good, Trips
<1>4. ASSUME NEW n \in 1..done', Good(n)' PROVE \E k \in 1..Len(handled') : handled'[k] = n
  <2>1. n \in 1..done
    BY <1>1, <1>3, <1>4
  <2>2. Good(n)
    BY <1>1, <1>2, <1>4, <2>1, SameGood
  <2> QED BY <1>1, <2>1, <2>2 DEF Row, Kept
<1>5. WhyAstray'
  BY <1>1, <1>2 DEF WhyAstray, Trips
<1>6. Increasing'
  BY <1>1 DEF Row, Increasing
<1>7. Bounds' /\ ReadsWhenEmpty'
  BY <1>1, <1>2 DEF Bounds, ReadsWhenEmpty
<1> QED BY <1>4, <1>5, <1>6, <1>7 DEF Row, Kept

LEMMA RowStep ==
  ASSUME Typed, NotYet, Row, [Next]_vars
  PROVE  Row'
<1> USE DEF readVars, parserVars
<1>1. ASSUME UNCHANGED <<handled, parserVars, sent>>,
             at' \in {"spin", "ended"} \/ at' = at \/ at' = Again(done) \/ at \in {"none", "read"}
      PROVE  Row'
  BY <1>1 DEF Row, Bounds, Increasing, Kept, Good, WhyAstray, Trips, ReadsWhenEmpty, Again
<1>2. ASSUME NEW kind \in Kinds, ClientSend(kind) PROVE Row'
  <2>1. /\ sent \in Seq(Kinds) /\ sent' = Append(sent, kind) /\ UNCHANGED readVars
        /\ done \in Nat /\ got \in Nat /\ done <= got /\ got <= Len(sent)
    BY <1>2 DEF ClientSend, Typed, Row, Bounds
  <2>2. Len(sent') = Len(sent) + 1 /\ \A m \in 1..Len(sent) : sent'[m] = sent[m]
    BY <2>1
  <2>3. \A n \in 0..done : Good(n)' <=> Good(n)
    BY <2>1, <2>2 DEF Good
  <2>4. Bounds' /\ ReadsWhenEmpty' /\ Increasing'
    BY <2>1, <2>2 DEF Row, Bounds, ReadsWhenEmpty, Increasing
  <2>5. Kept' /\ WhyAstray'
    BY <2>1, <2>2, <2>3 DEF Row, Kept, WhyAstray, Trips
  <2> QED BY <2>4, <2>5 DEF Row
<1>3. ASSUME NEW k \in got..Len(sent), NEW more \in BOOLEAN, Read(k, more) PROVE Row'
  <2>1. /\ got' = k /\ part' = more /\ at' = "parse" /\ UNCHANGED <<done, astray, handled, sent>>
        /\ more => k < Len(sent)
        /\ done \in Nat /\ got \in Nat /\ Len(sent) \in Nat
    BY <1>3 DEF Read, Typed
  <2>2. Bounds'
    BY <2>1 DEF Row, Bounds
  <2>3. Increasing' /\ Kept' /\ WhyAstray' /\ ReadsWhenEmpty'
    BY <2>1 DEF Row, Increasing, Kept, Good, WhyAstray, Trips, ReadsWhenEmpty
  <2> QED BY <2>2, <2>3 DEF Row
<1>4. CASE ParseCall
  BY <1>4, RowHandle DEF ParseCall
<1>5. CASE ParseUnknown
  BY <1>5, RowHandle DEF ParseUnknown
<1>6. CASE ParseBadMeta
  <2>1. Clear /\ ~astray /\ ~astray' /\ done + 1 \in 1..got /\ sent[done + 1] = "meta"
    BY <1>6 DEF ParseBadMeta, Parses, Typed
  <2>2. done + 1 \in 1..Len(sent) /\ done + 1 <= got /\ Trips(done + 1)
    BY <2>1 DEF Typed, Row, Bounds, Trips
  <2> QED BY <1>6, <2>1, <2>2, RowClear
<1>11. CASE ParseBadJson
  <2>1. /\ Clear /\ UNCHANGED sent
        /\ (done < got /\ sent[done + 1] = "json") \/ (part /\ done = got /\ sent[done + 1] = "bytes")
    BY <1>11 DEF ParseBadJson, Parses
  <2>2. done + 1 \in 1..Len(sent) /\ Trips(done + 1)
    BY <2>1 DEF Typed, Row, Bounds, Trips
  <2> QED BY <2>1, <2>2, RowClear
<1>7. CASE ParseAstray
  <2>1. Clear /\ astray /\ UNCHANGED sent
    BY <1>7 DEF ParseAstray
  <2>2. PICK m \in 1..Len(sent) : m <= done + 1 /\ Trips(m)
    BY <2>1 DEF Row, WhyAstray
  <2> QED BY <2>1, <2>2, RowClear
<1>8. ASSUME HandlerWoken \/ HandlerTimeout PROVE Row'
  <2>1. UNCHANGED <<handled, parserVars, sent>> /\ at' = Again(done)
    BY <1>8 DEF HandlerWoken, HandlerTimeout, HandlerReturns
  <2> QED BY <1>1, <2>1
<1>9. ASSUME Write \/ WriteFails \/ WriterDone \/ Finished PROVE Row'
  BY <1>1, <1>9, Written
<1>10. ASSUME \/ Open \/ OpenFails \/ ReadEnds \/ ParsePing \/ Spin \/ Lookup \/ Apply
              \/ \E n \in N, kind \in {"data", "close"} : PyIssue(n, kind)
              \/ Pong \/ PongEnds \/ Age \/ UNCHANGED vars
       PROVE  Row'
  <2>1. /\ UNCHANGED <<handled, parserVars, sent>>
        /\ at' \in {"spin", "ended"} \/ at' = at \/ at \in {"none", "read"}
    BY <1>10 DEF NotYet, Open, OpenFails, ReadEnds, ParsePing, Spin, Lookup, Apply, PyIssue, Pong,
                 PongEnds, Age, vars
  <2> QED BY <1>1, <2>1
<1> QED BY <1>2, <1>3, <1>4, <1>5, <1>6, <1>7, <1>8, <1>9, <1>10, <1>11 DEF Next, Reads

-----------------------------------------------------------------------------
(* The invariant, and the theorems. *)

LEMMA Initially ==
  ASSUME Init
  PROVE  IInv
<1>1. Typed
  <2>1. <<>> \in Seq(Kinds) /\ <<>> \in Seq(Nat) /\ <<>> \in Seq(Operation) /\ <<>> \in Seq(Output)
    OBVIOUS
  <2> QED BY <2>1 DEF Init, Typed
<1>2. NotYet /\ OneStream /\ HeldIsOwn /\ AnswersOwnTopic
  BY DEF Init, NotYet, OneStream, HeldIsOwn, AnswersOwnTopic
<1>3. Row
  BY DEF Init, Row, Bounds, Increasing, Kept, WhyAstray, ReadsWhenEmpty
<1> QED BY <1>1, <1>2, <1>3 DEF IInv

LEMMA Inductive == Spec => []IInv
<1>1. ASSUME IInv, [Next]_vars PROVE IInv'
  BY <1>1, TypeStep, NotYetStep, OneStreamStep, HeldIsOwnStep, AnswersStep, RowStep
     DEF IInv, Row
<1> QED BY Initially, <1>1, PTL DEF Spec

\* Every answer goes out under the topic of its own message unless its handler
\* returned while the answer was between Lookup and Apply: the registry holds a
\* stream no longer than its handler blocks the READ TASK.
THEOREM OwnTopics == Spec => []AnswersOwnTopic
BY Inductive, PTL DEF IInv

\* Messages are handled at most once each and in order, and what came before the first
\* that trips the parser and was not handled is still to be read or parsed, however the reads
\* cut what the client sends and whatever the parser throws away.
THEOREM InOrder == Spec => []HandledInOrder
<1>1. ASSUME IInv PROVE HandledInOrder
  BY <1>1 DEF IInv, Typed, Row, Bounds, Increasing, Kept, ReadsWhenEmpty, HandledInOrder
<1> QED BY Inductive, <1>1, PTL

=============================================================================
