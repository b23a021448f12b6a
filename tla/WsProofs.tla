------------------------------- MODULE WsProofs -------------------------------
(***************************************************************************)
(* Proofs about WsServer, for any connections, addresses, limit, capacity  *)
(* and number of messages.                                                 *)
(*                                                                         *)
(* Two facts carry them.  A READ TASK that runs belongs to a connection    *)
(* that is open, or whose WRITE TASK has ended (ReaderIsHeld): select!     *)
(* ends a connection with the first of the two.  And the numbers of the    *)
(* messages grow along their way: what is on the wire is not older than    *)
(* the stream's topic, and what is with Python or on its way back is not   *)
(* newer (Numbers).                                                        *)
(***************************************************************************)
EXTENDS WsServer, TLAPS, FiniteSetTheorems, SequenceTheorems

Phase == {"new", "counted", "open", "over", "refused", "failed", "lost"}
TaskState == {"none", "run", "ended"}
Message == [kind : {"frame", "unknown", "bad", "close"}, n : Nat]
Task == [client : Client, n : Nat]
Answer == [client : Client, n : Nat, kind : {"push", "close"}]

Typed ==
  /\ phase \in [Client -> Phase]
  /\ wire \in [Client -> Seq(Message)]
  /\ sent \in [Client -> Nat] /\ lastArgs \in [Client -> Nat] /\ topic \in [Client -> Nat]
  /\ reader \in [Client -> TaskState] /\ writer \in [Client -> TaskState]
  /\ told \subseteq Client /\ streams \subseteq Client
  /\ tasks \subseteq Task /\ toRust \in Seq(Answer)

\* The READ TASK of a connection that is over is the one select! left behind.
ReaderIsHeld ==
  \A c \in Client : reader[c] = "run" => phase[c] = "open" \/ writer[c] = "ended"

\* "_disconnect" is called at the end of a connection.
ToldAreOver == \A c \in told : phase[c] = "over"

\* A stream is entered by a message, or by the user's "_connect".
StreamsAreNamed == \A c \in streams : lastArgs[c] > 0 \/ UserConnect

\* Messages are numbered from 1 in the order they are sent; a close is no message.
Wired ==
  \A c \in Client : \A k \in 1..Len(wire[c]) :
    /\ wire[c][k].n \in topic[c]..sent[c]
    /\ wire[c][k].kind /= "close" => wire[c][k].n > 0
    /\ \A l \in k..Len(wire[c]) : wire[c][k].n <= wire[c][l].n

Asked == \A t \in tasks : t.n <= topic[t.client]
Answered == \A k \in 1..Len(toRust) : toRust[k].n <= topic[toRust[k].client]

Numbers ==
  /\ \A c \in Client : topic[c] <= sent[c]
  /\ Wired /\ Asked /\ Answered

\* What a channel may hold.
Fresh == {m \in [kind : {"data", "close", "ping"}, n : Nat, topic : Nat] : m.topic >= m.n}
Channels == chan \in [Client -> Seq(Fresh)]

IInv ==
  /\ Typed
  /\ ReaderIsHeld /\ ToldAreOver
  /\ StreamsAreNamed /\ StreamsAreLive
  /\ Numbers /\ Channels
  /\ SlotsAreHeld

-----------------------------------------------------------------------------
(* Type correctness. *)

\* What is taken from the wire is its first message, which leaves it.
LEMMA Taken ==
  ASSUME Typed, NEW c \in Client, NEW kind, Takes(c, kind)
  PROVE  /\ Len(wire[c]) > 0 /\ Head(wire[c]) = wire[c][1]
         /\ wire[c][1] \in Message /\ wire[c][1].kind = kind
         /\ wire' \in [Client -> Seq(Message)]
         /\ Len(wire'[c]) = Len(wire[c]) - 1
         /\ \A k \in 1..Len(wire'[c]) : wire'[c][k] = wire[c][k + 1]
         /\ \A d \in Client \ {c} : wire'[d] = wire[d]
<1>1. wire[c] \in Seq(Message) /\ wire[c] /= <<>> /\ wire' = [wire EXCEPT ![c] = Tail(@)]
  BY DEF Typed, Takes
<1>2. Len(wire[c]) > 0 /\ Head(wire[c]) = wire[c][1] /\ wire[c][1] \in Message
  BY <1>1
<1>3. wire'[c] = Tail(wire[c]) /\ Tail(wire[c]) \in Seq(Message)
  BY <1>1 DEF Typed
<1>4. /\ Len(Tail(wire[c])) = Len(wire[c]) - 1
      /\ \A k \in 1..Len(Tail(wire[c])) : Tail(wire[c])[k] = wire[c][k + 1]
  BY <1>1, HeadTailProperties
<1> QED BY <1>1, <1>2, <1>3, <1>4 DEF Typed, Takes

\* A message has a number, which no topic or later message on the wire exceeds.
LEMMA TakenNumber ==
  ASSUME Typed, Wired, NEW c \in Client, NEW kind, Takes(c, kind)
  PROVE  /\ Head(wire[c]).n \in Nat /\ Head(wire[c]).n \in topic[c]..sent[c]
         /\ kind /= "close" => Head(wire[c]).n > 0
         /\ \A l \in 1..Len(wire[c]) : Head(wire[c]).n <= wire[c][l].n
<1>1. Len(wire[c]) > 0 /\ Head(wire[c]) = wire[c][1]
      /\ wire[c][1] \in Message /\ wire[c][1].kind = kind
  BY Taken
<1>2. Len(wire[c]) \in Nat
  BY DEF Typed
<1>3. 1 \in 1..Len(wire[c])
  BY <1>1, <1>2
<1>4. wire[c][1].n \in Nat
  BY <1>1 DEF Message
<1> QED BY <1>1, <1>3, <1>4 DEF Wired

LEMMA TypeStep ==
  ASSUME Typed, [Next]_vars
  PROVE  Typed'
<1> USE DEF Typed, connVars, taskVars, bridgeVars
<1>1. ASSUME NEW c \in Client, Check(c) PROVE Typed'
  BY <1>1 DEF Check, Admit, Phase
<1>2. ASSUME NEW c \in Client, HandshakeFails(c) PROVE Typed'
  BY <1>2 DEF HandshakeFails, Phase
<1>3. ASSUME NEW c \in Client, Open(c) PROVE Typed'
  <2>1. [client |-> c, n |-> 0] \in Task
    BY DEF Task
  <2>2. UNCHANGED toRust /\ tasks' \subseteq Task /\ streams' \subseteq Client
    BY <1>3, <2>1 DEF Open, Bridged
  <2> QED BY <1>3, <2>2 DEF Open, Phase, TaskState
<1>4. ASSUME NEW c \in Client, NEW kind \in {"frame", "unknown", "bad", "close"}, Sends(c, kind),
             sent' \in [Client -> Nat]
      PROVE  Typed'
  <2>1. [kind |-> kind, n |-> sent'[c]] \in Message
    BY <1>4 DEF Message
  <2> HIDE DEF Message
  <2>2. wire' \in [Client -> Seq(Message)]
    BY <1>4, <2>1 DEF Sends
  <2> QED BY <1>4, <2>2 DEF Sends
<1>5. ASSUME NEW c \in Client, NEW kind \in {"frame", "unknown", "bad"}, ClientSend(c, kind)
      PROVE  Typed'
  <2>1. Sends(c, kind) /\ sent' \in [Client -> Nat]
    BY <1>5 DEF ClientSend
  <2> QED BY <1>4, <2>1
<1>6. ASSUME NEW c \in Client, ClientClose(c) PROVE Typed'
  BY <1>4, <1>6 DEF ClientClose
<1>7. ASSUME NEW c \in Client, ReadFrame(c) PROVE Typed'
  <2>1. wire[c][1] \in Message /\ wire' \in [Client -> Seq(Message)] /\ Head(wire[c]) = wire[c][1]
    BY <1>7, Taken DEF ReadFrame
  <2>2. wire[c][1].n \in Nat /\ [client |-> c, n |-> wire[c][1].n] \in Task
    BY <2>1 DEF Message, Task
  <2> QED BY <1>7, <2>1, <2>2 DEF ReadFrame, Handles, Bridged
<1>8. ASSUME NEW c \in Client, ReadUnknown(c) PROVE Typed'
  <2>1. wire[c][1] \in Message /\ wire' \in [Client -> Seq(Message)] /\ Head(wire[c]) = wire[c][1]
    BY <1>8, Taken DEF ReadUnknown
  <2>2. wire[c][1].n \in Nat
    BY <2>1 DEF Message
  <2> QED BY <1>8, <2>1, <2>2 DEF ReadUnknown, Handles
<1>9. ASSUME NEW c \in Client, ReadEnds(c) PROVE Typed'
  <2>1. wire' \in [Client -> Seq(Message)]
    BY <1>9, Taken DEF ReadEnds
  <2> QED BY <1>9, <2>1 DEF ReadEnds, TaskState
<1>10. ASSUME NEW c \in Client, ReadClose(c) PROVE Typed'
  <2>1. wire' \in [Client -> Seq(Message)]
    BY <1>10, Taken DEF ReadClose
  <2> QED BY <1>10, <2>1 DEF ReadClose, TaskState
<1>11. ASSUME NEW c \in Client, Write(c) \/ Ping(c) PROVE Typed'
  BY <1>11 DEF Write, Ping
<1>12. ASSUME NEW c \in Client, WriteTimeout(c) \/ WriterDone(c) PROVE Typed'
  BY <1>12 DEF WriteTimeout, WriterDone, TaskState
<1>13. ASSUME NEW c \in Client, PingGivesUp(c) PROVE Typed'
  BY <1>13 DEF PingGivesUp
<1>14. ASSUME NEW c \in Client, Finish(c) PROVE Typed'
  BY <1>14 DEF Finish, End, Disconnect, Unregister, Phase
<1>15. CASE Apply
  BY <1>15 DEF Apply
<1>16. ASSUME NEW t \in tasks, NEW closes \in BOOLEAN, PyAnswer(t, closes) PROVE Typed'
  <2>1. /\ [client |-> t.client, n |-> t.n, kind |-> "push"] \in Answer
        /\ [client |-> t.client, n |-> t.n, kind |-> "close"] \in Answer
    BY DEF Task, Answer
  <2>2. toRust' \in Seq(Answer)
    BY <1>16, <2>1 DEF PyAnswer
  <2> QED BY <1>16, <2>2 DEF PyAnswer
<1>17. CASE UNCHANGED vars
  BY <1>17 DEF vars
<1> QED BY <1>1, <1>2, <1>3, <1>5, <1>6, <1>7, <1>8, <1>9, <1>10, <1>11, <1>12, <1>13, <1>14,
           <1>15, <1>16, <1>17 DEF Next, Reads

-----------------------------------------------------------------------------
(* Connections, their READ TASKS and their streams. *)

LEMMA HeldStep ==
  ASSUME Typed, ReaderIsHeld, ToldAreOver, StreamsAreNamed, StreamsAreLive, Wired, [Next]_vars
  PROVE  ReaderIsHeld' /\ ToldAreOver' /\ StreamsAreNamed' /\ StreamsAreLive'
<1> DEFINE Held == ReaderIsHeld /\ ToldAreOver /\ StreamsAreNamed /\ StreamsAreLive
<1> USE DEF ReaderIsHeld, ToldAreOver, StreamsAreNamed, StreamsAreLive, Typed,
            connVars, taskVars, bridgeVars
<1>1. ASSUME NEW c \in Client, Check(c) PROVE Held'
  BY <1>1 DEF Check, Admit
<1>2. ASSUME NEW c \in Client, HandshakeFails(c) PROVE Held'
  BY <1>2 DEF HandshakeFails
<1>3. ASSUME NEW c \in Client, Open(c) PROVE Held'
  <2>1. ReaderIsHeld'
    BY <1>3 DEF Open, TaskState
  <2>2. ToldAreOver'
    BY <1>3 DEF Open
  <2>3. streams' \subseteq streams \cup {c} /\ (UserConnect \/ UNCHANGED streams)
    BY <1>3, WsAssumption DEF Open, Bridged
  <2>4. StreamsAreNamed'
    BY <1>3, <2>3 DEF Open
  <2>5. StreamsAreLive'
    BY <1>3, <2>3 DEF Open, TaskState
  <2> QED BY <2>1, <2>2, <2>4, <2>5
<1>4. ASSUME NEW c \in Client, NEW kind, Sends(c, kind) PROVE Held'
  BY <1>4 DEF Sends
<1>5. ASSUME NEW c \in Client, ReadFrame(c) PROVE Held'
  <2>1. Head(wire[c]).n > 0
    BY <1>5, TakenNumber DEF ReadFrame
  <2>2. lastArgs'[c] > 0 /\ \A d \in Client \ {c} : lastArgs'[d] = lastArgs[d]
    BY <1>5, <2>1 DEF ReadFrame, Handles
  <2>3. streams' = streams \cup {c} /\ (phase[c] = "open" \/ writer[c] = "ended")
    BY <1>5 DEF ReadFrame, Bridged, Takes
  <2>4. UNCHANGED <<phase, told, reader, writer>>
    BY <1>5 DEF ReadFrame
  <2> QED BY <2>2, <2>3, <2>4
<1>6. ASSUME NEW c \in Client, ReadUnknown(c) PROVE Held'
  <2>1. Head(wire[c]).n > 0
    BY <1>6, TakenNumber DEF ReadUnknown
  <2>2. lastArgs'[c] > 0 /\ \A d \in Client \ {c} : lastArgs'[d] = lastArgs[d]
    BY <1>6, <2>1 DEF ReadUnknown, Handles
  <2>3. phase[c] = "open" \/ writer[c] = "ended"
    BY <1>6 DEF ReadUnknown, Takes
  <2>4. UNCHANGED <<phase, told, reader, writer, streams>>
    BY <1>6 DEF ReadUnknown
  <2> QED BY <2>2, <2>3, <2>4
<1>7. ASSUME NEW c \in Client, ReadEnds(c) \/ ReadClose(c) PROVE Held'
  BY <1>7 DEF ReadEnds, ReadClose, TaskState
<1>8. ASSUME NEW c \in Client, Write(c) \/ Ping(c) \/ PingGivesUp(c) PROVE Held'
  BY <1>8 DEF Write, Ping, PingGivesUp
<1>9. ASSUME NEW c \in Client, WriteTimeout(c) \/ WriterDone(c) PROVE Held'
  BY <1>9 DEF WriteTimeout, WriterDone, TaskState
<1>10. ASSUME NEW c \in Client, Finish(c) PROVE Held'
  <2>1. /\ phase[c] = "open" /\ phase'[c] = "over" /\ \A d \in Client \ {c} : phase'[d] = phase[d]
        /\ UNCHANGED <<reader, writer, lastArgs>>
        /\ reader[c] = "ended" \/ writer[c] = "ended"
    BY <1>10 DEF Finish, End, Phase
  <2>2. told' \subseteq told \cup {c} /\ streams' \subseteq streams
    BY <1>10 DEF Finish, End, Disconnect, Unregister
  <2>3. c \in streams' => lastArgs[c] = 0
    BY <1>10 DEF Finish, End, Disconnect, Unregister
  <2>4. ReaderIsHeld' /\ ToldAreOver' /\ StreamsAreNamed'
    BY <2>1, <2>2
  <2>5. StreamsAreLive'
    BY <2>1, <2>2, <2>3
  <2> QED BY <2>4, <2>5
<1>11. CASE Apply
  BY <1>11 DEF Apply
<1>12. ASSUME NEW t \in tasks, NEW closes \in BOOLEAN, PyAnswer(t, closes) PROVE Held'
  BY <1>12 DEF PyAnswer
<1>13. CASE UNCHANGED vars
  BY <1>13 DEF vars
<1> QED BY <1>1, <1>2, <1>3, <1>4, <1>5, <1>6, <1>7, <1>8, <1>9, <1>10, <1>11, <1>12, <1>13
        DEF Next, Reads, ClientSend, ClientClose

-----------------------------------------------------------------------------
(* The numbers of the messages. *)

\* A step that takes nothing from a wire and puts nothing on it.
LEMMA WiredSame ==
  ASSUME Typed, Wired, UNCHANGED <<wire, topic>>, sent' \in [Client -> Nat],
         \A c \in Client : sent[c] <= sent'[c]
  PROVE  Wired'
<1> SUFFICES ASSUME NEW c \in Client, NEW k \in 1..Len(wire[c])
             PROVE  wire[c][k].n \in topic[c]..sent'[c]
  BY DEF Wired
<1>1. wire[c][k].n \in topic[c]..sent[c] /\ sent[c] <= sent'[c]
  BY DEF Wired
<1> QED BY <1>1 DEF Typed

\* A message is put on the wire of c.
LEMMA WiredSend ==
  ASSUME Typed, Wired, NEW c \in Client,
         NEW kind \in {"frame", "unknown", "bad", "close"}, Sends(c, kind),
         topic[c] <= sent[c], sent'[c] \in Nat, sent[c] <= sent'[c],
         kind /= "close" => sent'[c] > 0,
         \A d \in Client \ {c} : sent'[d] = sent[d]
  PROVE  Wired'
<1> DEFINE m == [kind |-> kind, n |-> sent'[c]]
<1>1. /\ wire[c] \in Seq(Message) /\ topic[c] \in Nat /\ sent[c] \in Nat
      /\ wire'[c] = Append(wire[c], m) /\ \A d \in Client \ {c} : wire'[d] = wire[d]
      /\ UNCHANGED topic
  BY DEF Typed, Sends, connVars, taskVars
<1>2. m \in Message
  BY DEF Message
<1>3. /\ Len(wire'[c]) = Len(wire[c]) + 1 /\ Len(wire[c]) \in Nat
      /\ wire'[c][Len(wire[c]) + 1] = m
      /\ \A k \in 1..Len(wire[c]) : wire'[c][k] = wire[c][k]
  BY <1>1, <1>2
<1>4. SUFFICES ASSUME NEW d \in Client, NEW k \in 1..Len(wire'[d])
               PROVE  /\ wire'[d][k].n \in topic[d]..sent'[d]
                      /\ wire'[d][k].kind /= "close" => wire'[d][k].n > 0
                      /\ \A l \in k..Len(wire'[d]) : wire'[d][k].n <= wire'[d][l].n
  BY <1>1 DEF Wired
<1>5. CASE d /= c
  BY <1>1, <1>5 DEF Wired
<1>6. CASE d = c /\ k <= Len(wire[c])
  <2>1. /\ k \in 1..Len(wire[c]) /\ wire'[d][k] = wire[c][k]
    BY <1>3, <1>6
  <2>2. /\ wire[c][k].n \in topic[c]..sent[c]
        /\ wire[c][k].kind /= "close" => wire[c][k].n > 0
        /\ \A l \in k..Len(wire[c]) : wire[c][k].n <= wire[c][l].n
    BY <2>1 DEF Wired
  <2>3. ASSUME NEW l \in k..Len(wire'[c]) PROVE wire'[c][k].n <= wire'[c][l].n
    <3>1. CASE l <= Len(wire[c])
      BY <1>3, <1>6, <2>1, <2>2, <3>1
    <3>2. CASE l = Len(wire[c]) + 1
      BY <1>1, <1>3, <1>6, <2>1, <2>2, <3>2
    <3> QED BY <1>3, <1>6, <2>1, <3>1, <3>2
  <2>4. wire[c][k].n \in topic[c]..sent'[c]
    BY <1>1, <2>2
  <2> QED BY <1>1, <1>6, <2>1, <2>2, <2>3, <2>4
<1>7. CASE d = c /\ k = Len(wire[c]) + 1
  <2>1. wire'[c][k] = m /\ \A l \in k..Len(wire'[c]) : l = k
    BY <1>3, <1>7
  <2> QED BY SMTT(30), <1>1, <1>7, <2>1
<1> QED BY <1>3, <1>5, <1>6, <1>7

\* The first message of c leaves the wire; the topic becomes its number, or stays.
LEMMA WiredTake ==
  ASSUME Typed, Wired, NEW c \in Client, NEW kind, Takes(c, kind), UNCHANGED sent,
         topic'[c] \in {topic[c], Head(wire[c]).n},
         \A d \in Client \ {c} : topic'[d] = topic[d]
  PROVE  Wired'
<1>1. /\ Len(wire'[c]) = Len(wire[c]) - 1 /\ Len(wire[c]) \in Nat
      /\ \A k \in 1..Len(wire'[c]) : wire'[c][k] = wire[c][k + 1]
      /\ \A d \in Client \ {c} : wire'[d] = wire[d]
      /\ wire[c] \in Seq(Message) /\ topic[c] \in Nat /\ sent[c] \in Nat
  BY Taken DEF Typed
<1>2. Head(wire[c]).n \in Nat /\ \A l \in 1..Len(wire[c]) : Head(wire[c]).n <= wire[c][l].n
  BY TakenNumber
<1>3. SUFFICES ASSUME NEW d \in Client, NEW k \in 1..Len(wire'[d])
               PROVE  /\ wire'[d][k].n \in topic'[d]..sent[d]
                      /\ wire'[d][k].kind /= "close" => wire'[d][k].n > 0
                      /\ \A l \in k..Len(wire'[d]) : wire'[d][k].n <= wire'[d][l].n
  BY DEF Wired
<1>4. CASE d /= c
  BY <1>1, <1>4 DEF Wired
<1>5. CASE d = c
  <2>1. k + 1 \in 1..Len(wire[c]) /\ wire'[c][k] = wire[c][k + 1]
    BY <1>1, <1>5
  <2>2. /\ wire[c][k + 1].n \in topic[c]..sent[c]
        /\ wire[c][k + 1].kind /= "close" => wire[c][k + 1].n > 0
        /\ \A l \in k + 1..Len(wire[c]) : wire[c][k + 1].n <= wire[c][l].n
    BY <2>1 DEF Wired
  <2>3. topic'[c] <= wire[c][k + 1].n /\ topic'[c] \in Nat
    BY <1>1, <1>2, <2>1, <2>2
  <2>4. ASSUME NEW l \in k..Len(wire'[c]) PROVE wire'[c][k].n <= wire'[c][l].n
    <3>1. l + 1 \in k + 1..Len(wire[c]) /\ wire'[c][l] = wire[c][l + 1]
      BY <1>1, <1>5
    <3> QED BY <2>1, <2>2, <3>1
  <2> QED BY <1>1, <1>5, <2>1, <2>2, <2>3, <2>4
<1> QED BY <1>4, <1>5

\* Topics grow, and are those of messages that were sent.
LEMMA WiredStep ==
  ASSUME Typed, Numbers, [Next]_vars
  PROVE  /\ Wired'
         /\ \A c \in Client : topic[c] <= topic'[c] /\ topic'[c] <= sent'[c]
<1> DEFINE Grown == \A c \in Client : topic[c] <= topic'[c] /\ topic'[c] <= sent'[c]
<1> USE DEF Numbers, connVars, taskVars, bridgeVars
<1>0. \A c \in Client : topic[c] \in Nat /\ sent[c] \in Nat /\ topic[c] <= sent[c]
  BY DEF Typed
<1>1. ASSUME UNCHANGED <<wire, topic, sent>> PROVE Wired' /\ Grown
  <2>1. Wired'
    BY <1>1, WiredSame DEF Typed
  <2> QED BY <1>1, <2>1 DEF Typed
<1>2. ASSUME NEW c \in Client, NEW kind \in {"frame", "unknown", "bad"}, ClientSend(c, kind)
      PROVE  Wired' /\ Grown
  <2>1. Sends(c, kind) /\ sent'[c] = sent[c] + 1 /\ \A d \in Client \ {c} : sent'[d] = sent[d]
    BY <1>2 DEF ClientSend, Typed
  <2>2. UNCHANGED topic
    BY <2>1 DEF Sends
  <2>3. Wired'
    BY <1>0, <2>1, WiredSend
  <2>4. Grown
    BY <1>0, <2>1, <2>2
  <2> QED BY <2>3, <2>4
<1>3. ASSUME NEW c \in Client, ClientClose(c) PROVE Wired' /\ Grown
  <2>1. Sends(c, "close") /\ UNCHANGED <<sent, topic>>
    BY <1>3 DEF ClientClose, Sends
  <2>2. Wired'
    BY <2>1, WiredSend DEF Typed
  <2> QED BY <2>1, <2>2 DEF Typed
<1>4. ASSUME NEW c \in Client, NEW kind, Takes(c, kind), Handles(c, Head(wire[c]).n), UNCHANGED sent
      PROVE  Wired' /\ Grown
  <2>1. Head(wire[c]).n \in topic[c]..sent[c]
    BY <1>4, TakenNumber
  <2>2. topic'[c] = Head(wire[c]).n /\ \A d \in Client \ {c} : topic'[d] = topic[d]
    BY <1>4 DEF Handles, Typed
  <2>3. Wired'
    BY <1>4, <2>2, WiredTake
  <2>4. Grown
    BY <1>0, <1>4, <2>1, <2>2
  <2> QED BY <2>3, <2>4
<1>5. ASSUME NEW c \in Client, NEW kind, Takes(c, kind), UNCHANGED <<sent, topic>>
      PROVE  Wired' /\ Grown
  <2>1. Wired'
    BY <1>5, WiredTake
  <2> QED BY <1>5, <2>1 DEF Typed
<1>6. ASSUME NEW c \in Client, ReadFrame(c) \/ ReadUnknown(c) PROVE Wired' /\ Grown
  BY <1>4, <1>6 DEF ReadFrame, ReadUnknown
<1>7. ASSUME NEW c \in Client, ReadEnds(c) \/ ReadClose(c) PROVE Wired' /\ Grown
  BY <1>1, <1>5, <1>7 DEF ReadEnds, ReadClose
<1>8. ASSUME NEW c \in Client,
             \/ Check(c) \/ HandshakeFails(c) \/ Open(c) \/ Finish(c)
             \/ Write(c) \/ WriteTimeout(c) \/ WriterDone(c) \/ Ping(c) \/ PingGivesUp(c)
      PROVE  UNCHANGED <<wire, topic, sent>>
  BY <1>8 DEF Check, Admit, HandshakeFails, Open, Finish, End,
              Write, WriteTimeout, WriterDone, Ping, PingGivesUp
<1>9. ASSUME Apply \/ UNCHANGED vars PROVE UNCHANGED <<wire, topic, sent>>
  BY <1>9 DEF Apply, vars
<1>10. ASSUME NEW t \in tasks, NEW closes \in BOOLEAN, PyAnswer(t, closes)
       PROVE  UNCHANGED <<wire, topic, sent>>
  BY <1>10 DEF PyAnswer
<1> QED BY <1>1, <1>2, <1>3, <1>6, <1>7, <1>8, <1>9, <1>10 DEF Next, Reads

\* A message goes to Python at the time the stream has its topic.
LEMMA AskedStep ==
  ASSUME Typed, Numbers, [Next]_vars
  PROVE  Asked'
<1>1. /\ \A c \in Client : topic[c] <= topic'[c]
      /\ topic \in [Client -> Nat] /\ topic' \in [Client -> Nat] /\ tasks \subseteq Task
  BY WiredStep, TypeStep DEF Typed
<1>2. ASSUME NEW t \in tasks PROVE t.client \in Client /\ t.n \in Nat /\ t.n <= topic'[t.client]
  <2>1. t.client \in Client /\ t.n \in Nat
    BY <1>1 DEF Task
  <2>2. t.n <= topic[t.client]
    BY DEF Numbers, Asked
  <2> QED BY <1>1, <2>1, <2>2
<1>3. ASSUME tasks' \subseteq tasks PROVE Asked'
  BY <1>2, <1>3 DEF Asked
<1>4. ASSUME NEW c \in Client, Open(c) PROVE Asked'
  <2>1. tasks' \subseteq tasks \cup {[client |-> c, n |-> 0]}
    BY <1>4 DEF Open, Bridged, bridgeVars
  <2> QED BY <1>1, <1>2, <2>1 DEF Asked
<1>5. ASSUME NEW c \in Client, ReadFrame(c) PROVE Asked'
  <2>1. tasks' = tasks \cup {[client |-> c, n |-> Head(wire[c]).n]}
    BY <1>5 DEF ReadFrame, Bridged
  <2>2. topic'[c] = Head(wire[c]).n /\ Head(wire[c]).n \in Nat
    BY <1>5, TakenNumber DEF ReadFrame, Handles, Numbers, Typed
  <2> QED BY <1>2, <2>1, <2>2 DEF Asked
<1>6. ASSUME NEW c \in Client,
             \/ Check(c) \/ HandshakeFails(c) \/ Finish(c)
             \/ ReadUnknown(c) \/ ReadEnds(c) \/ ReadClose(c)
             \/ Write(c) \/ WriteTimeout(c) \/ WriterDone(c) \/ Ping(c) \/ PingGivesUp(c)
      PROVE  tasks' = tasks
  BY <1>6 DEF Check, Admit, HandshakeFails, Finish, End, ReadUnknown, ReadEnds, ReadClose,
              Write, WriteTimeout, WriterDone, Ping, PingGivesUp, bridgeVars
<1>7. ASSUME NEW c \in Client, NEW kind, Sends(c, kind) PROVE tasks' = tasks
  BY <1>7 DEF Sends, bridgeVars
<1>8. ASSUME Apply \/ UNCHANGED vars PROVE tasks' = tasks
  BY <1>8 DEF Apply, vars, bridgeVars
<1>9. ASSUME NEW t \in tasks, NEW closes \in BOOLEAN, PyAnswer(t, closes)
      PROVE  tasks' \subseteq tasks
  BY <1>9 DEF PyAnswer
<1> QED BY <1>3, <1>4, <1>5, <1>6, <1>7, <1>8, <1>9 DEF Next, Reads, ClientSend, ClientClose

\* An answer has the number of its message.
LEMMA AnsweredStep ==
  ASSUME Typed, Numbers, [Next]_vars
  PROVE  Answered'
<1>1. /\ \A c \in Client : topic[c] <= topic'[c]
      /\ topic \in [Client -> Nat] /\ topic' \in [Client -> Nat]
      /\ toRust \in Seq(Answer) /\ tasks \subseteq Task
  BY WiredStep, TypeStep DEF Typed
<1>2. ASSUME NEW k \in 1..Len(toRust) PROVE toRust[k].n <= topic'[toRust[k].client]
  <2>1. toRust[k] \in Answer
    BY <1>1
  <2>2. toRust[k].client \in Client /\ toRust[k].n \in Nat
    BY <2>1 DEF Answer
  <2>3. toRust[k].n <= topic[toRust[k].client]
    BY DEF Numbers, Answered
  <2> QED BY <1>1, <2>2, <2>3
<1>3. ASSUME UNCHANGED toRust PROVE Answered'
  BY <1>2, <1>3 DEF Answered
<1>4. CASE Apply
  <2>1. /\ toRust' = Tail(toRust) /\ Len(toRust') = Len(toRust) - 1
        /\ \A k \in 1..Len(toRust') : toRust'[k] = toRust[k + 1] /\ k + 1 \in 1..Len(toRust)
    BY <1>1, <1>4, HeadTailProperties DEF Apply
  <2> QED BY <1>2, <2>1 DEF Answered
<1>5. ASSUME NEW t \in tasks, NEW closes \in BOOLEAN, PyAnswer(t, closes) PROVE Answered'
  <2> DEFINE push == [client |-> t.client, n |-> t.n, kind |-> "push"]
             close == [client |-> t.client, n |-> t.n, kind |-> "close"]
             new == <<push>> \o (IF closes THEN <<close>> ELSE <<>>)
  <2>1. push \in Answer /\ close \in Answer /\ t.n <= topic[t.client] /\ UNCHANGED topic
    BY <1>1, <1>5 DEF Task, Answer, Numbers, Asked, PyAnswer, taskVars
  <2> HIDE DEF push, close
  <2>2. new \in Seq(Answer) /\ \A k \in 1..Len(new) : new[k] \in {push, close}
    <3>1. CASE closes
      <4>1. new = <<push>> \o <<close>>
        BY <3>1
      <4> QED BY <2>1, <4>1
    <3>2. CASE ~closes
      <4>1. new = <<push>>
        BY <3>2
      <4> QED BY <2>1, <4>1
    <3> QED BY <3>1, <3>2
  <2>3. toRust' = toRust \o new
    <3> DEFINE last == IF closes THEN <<close>> ELSE <<>>
    <3>1. <<push>> \in Seq(Answer) /\ last \in Seq(Answer)
      BY <2>1
    <3>2. toRust' = toRust \o <<push>> \o last
      BY <1>5 DEF PyAnswer, push, close
    <3> HIDE DEF last
    <3>3. toRust' = toRust \o (<<push>> \o last)
      BY <1>1, <3>1, <3>2, ConcatAssociative
    <3> QED BY <3>3 DEF last
  <2>4. \A k \in 1..Len(toRust') :
          (k \in 1..Len(toRust) /\ toRust'[k] = toRust[k]) \/ toRust'[k] \in {push, close}
    <3> HIDE DEF new
    <3>1. /\ Len(toRust') = Len(toRust) + Len(new) /\ Len(toRust) \in Nat /\ Len(new) \in Nat
          /\ \A k \in 1..Len(toRust') :
               toRust'[k] = IF k <= Len(toRust) THEN toRust[k] ELSE new[k - Len(toRust)]
      BY <1>1, <2>2, <2>3, ConcatProperties
    <3> QED BY <2>2, <3>1
  <2>5. push.n = t.n /\ close.n = t.n /\ push.client = t.client /\ close.client = t.client
    BY DEF push, close
  <2> QED BY <1>2, <2>1, <2>4, <2>5 DEF Answered
<1>6. ASSUME NEW c \in Client,
             \/ Check(c) \/ HandshakeFails(c) \/ Open(c) \/ Finish(c)
             \/ ReadFrame(c) \/ ReadUnknown(c) \/ ReadEnds(c) \/ ReadClose(c)
             \/ Write(c) \/ WriteTimeout(c) \/ WriterDone(c) \/ Ping(c) \/ PingGivesUp(c)
      PROVE  UNCHANGED toRust
  BY <1>6 DEF Check, Admit, HandshakeFails, Open, Bridged, Finish, End, ReadFrame, ReadUnknown,
              ReadEnds, ReadClose, Write, WriteTimeout, WriterDone, Ping, PingGivesUp, bridgeVars
<1>7. ASSUME NEW c \in Client, NEW kind, Sends(c, kind) PROVE UNCHANGED toRust
  BY <1>7 DEF Sends, bridgeVars
<1>8. ASSUME UNCHANGED vars PROVE UNCHANGED toRust
  BY <1>8 DEF vars, bridgeVars
<1> QED BY <1>3, <1>4, <1>5, <1>6, <1>7, <1>8 DEF Next, Reads, ClientSend, ClientClose

LEMMA NumbersStep ==
  ASSUME Typed, Numbers, [Next]_vars
  PROVE  Numbers'
<1>1. \A c \in Client : topic'[c] <= sent'[c]
  BY WiredStep
<1> QED BY <1>1, WiredStep, AskedStep, AnsweredStep DEF Numbers

-----------------------------------------------------------------------------
(* The channels. *)

\* A push under the topic of the stream is not older than its message.
LEMMA FreshData ==
  ASSUME NEW c \in Client, NEW n \in Nat, topic'[c] \in Nat, n <= topic'[c]
  PROVE  Data(c, n) \in Fresh /\ Close \in Fresh
BY DEF Data, Close, Fresh

LEMMA ChannelsTrySend ==
  ASSUME Channels, NEW c \in Client, NEW msgs \in Seq(Fresh), TrySend(c, msgs)
  PROVE  Channels'
<1>1. chan[c] \in Seq(Fresh) /\ chan[c] \o msgs \in Seq(Fresh)
  BY DEF Channels
<1> DEFINE s == chan[c] \o msgs
           to == IF Len(s) < Cap THEN Len(s) ELSE Cap
<1>2. Len(s) \in Nat /\ Cap \in Nat /\ to \in Int /\ \A i \in 1..to : s[i] \in Fresh
  <2> HIDE DEF s
  <2>1. s \in Seq(Fresh)
    BY <1>1 DEF s
  <2> QED BY <2>1, WsAssumption DEF WsAssumption
<1>3. SubSeq(s, 1, to) \in Seq(Fresh)
  <2> HIDE DEF s, to
  <2> QED BY <1>2, SubSeqProperties
<1> QED BY <1>1, <1>3 DEF TrySend, Channels

LEMMA ChannelsStep ==
  ASSUME Typed, Numbers, Channels, [Next]_vars
  PROVE  Channels'
<1>0. topic' \in [Client -> Nat] /\ \A c \in Client : topic[c] <= topic'[c]
  BY TypeStep, WiredStep DEF Typed
<1>1. ASSUME UNCHANGED chan PROVE Channels'
  BY <1>1 DEF Channels
<1>2. ASSUME NEW c \in Client, ReadUnknown(c) PROVE Channels'
  <2>1. Head(wire[c]).n \in Nat /\ topic'[c] = Head(wire[c]).n
    BY <1>2, TakenNumber DEF ReadUnknown, Handles, Numbers, Typed
  <2>2. Data(c, Head(wire[c]).n) \in Fresh /\ Close \in Fresh
    BY <1>0, <2>1, FreshData
  <2>3. <<Data(c, Head(wire[c]).n), Close>> \in Seq(Fresh)
    BY <2>2
  <2>4. TrySend(c, <<Data(c, Head(wire[c]).n), Close>>)
    BY <1>2 DEF ReadUnknown
  <2> QED BY <2>3, <2>4, ChannelsTrySend
<1>3. ASSUME NEW c \in Client, ReadClose(c) PROVE Channels'
  <2>1. <<Close>> \in Seq(Fresh)
    BY DEF Close, Fresh
  <2> QED BY <1>3, <2>1, ChannelsTrySend DEF ReadClose
<1>4. ASSUME NEW c \in Client, Ping(c) PROVE Channels'
  <2>1. <<[kind |-> "ping", n |-> 0, topic |-> 0]>> \in Seq(Fresh)
    BY DEF Fresh
  <2> QED BY <1>4, <2>1, ChannelsTrySend DEF Ping
<1>5. ASSUME NEW c \in Client, Write(c) PROVE Channels'
  <2>1. chan[c] \in Seq(Fresh) /\ chan[c] /= <<>> /\ chan' = [chan EXCEPT ![c] = Tail(@)]
    BY <1>5 DEF Write, Channels
  <2>2. Tail(chan[c]) \in Seq(Fresh)
    BY <2>1, HeadTailProperties
  <2> QED BY <2>1, <2>2 DEF Channels
<1>6. ASSUME NEW c \in Client, WriteTimeout(c) PROVE Channels'
  <2>1. <<>> \in Seq(Fresh) /\ chan' = [chan EXCEPT ![c] = <<>>]
    BY <1>6 DEF WriteTimeout
  <2> QED BY <2>1 DEF Channels
<1>7. CASE Apply
  <2> DEFINE op == Head(toRust)
  <2>1. op \in Answer /\ op = toRust[1] /\ 1 \in 1..Len(toRust)
    BY <1>7 DEF Apply, Typed
  <2>2. op.client \in Client /\ op.n \in Nat /\ op.n <= topic[op.client]
    BY <2>1 DEF Answer, Numbers, Answered
  <2>3. topic'[op.client] \in Nat /\ op.n <= topic'[op.client]
    BY <1>0, <1>7, <2>2 DEF Apply
  <2>4. Data(op.client, op.n) \in Fresh /\ Close \in Fresh
    BY <2>2, <2>3, FreshData
  <2> DEFINE msgs == IF op.kind = "push" THEN <<Data(op.client, op.n)>> ELSE <<Close>>
  <2>5. msgs \in Seq(Fresh)
    BY <2>4
  <2>6. UNCHANGED chan \/ TrySend(op.client, msgs)
    BY <1>7 DEF Apply
  <2> HIDE DEF op, msgs
  <2> QED BY <1>1, <2>2, <2>5, <2>6, ChannelsTrySend
<1>8. ASSUME NEW c \in Client,
             \/ Check(c) \/ HandshakeFails(c) \/ Open(c) \/ Finish(c)
             \/ ReadFrame(c) \/ ReadEnds(c) \/ WriterDone(c) \/ PingGivesUp(c)
      PROVE  UNCHANGED chan
  BY <1>8 DEF Check, Admit, HandshakeFails, Open, Finish, End, ReadFrame, ReadEnds,
              WriterDone, PingGivesUp
<1>9. ASSUME NEW c \in Client, NEW kind, Sends(c, kind) PROVE UNCHANGED chan
  BY <1>9 DEF Sends
<1>10. ASSUME NEW t \in tasks, NEW closes \in BOOLEAN, PyAnswer(t, closes) PROVE UNCHANGED chan
  BY <1>10 DEF PyAnswer
<1>11. ASSUME UNCHANGED vars PROVE UNCHANGED chan
  BY <1>11 DEF vars
<1> QED BY <1>1, <1>2, <1>3, <1>4, <1>5, <1>6, <1>7, <1>8, <1>9, <1>10, <1>11
        DEF Next, Reads, ClientSend, ClientClose

-----------------------------------------------------------------------------
(* The slots. *)

LEMMA EntryAfter ==
  ASSUME NEW ip, NEW n \in Nat, slots' = WithEntry(ip, n), NEW i
  PROVE  Entry(i)' = IF i = ip THEN n ELSE Entry(i)
BY DEF Entry, WithEntry

LEMMA HoldersFinite ==
  ASSUME NEW ip
  PROVE  IsFiniteSet(Holders(ip)) /\ Cardinality(Holders(ip)) \in Nat
BY WsAssumption, FS_Subset, FS_CardinalityType DEF WsAssumption, Holders

LEMMA SlotsStep ==
  ASSUME Typed, SlotsAreHeld, [Next]_vars
  PROVE  SlotsAreHeld'
<1> DEFINE Ips == {GetIp(c) : c \in Client}
<1>0. \A ip \in Ips : /\ Entry(ip) = Cardinality(Holders(ip))
                      /\ Entry(ip) \in Nat /\ Entry(ip) <= RateLimit
  BY HoldersFinite DEF SlotsAreHeld
<1>1. ASSUME UNCHANGED slots, \A ip \in Ips : Holders(ip)' = Holders(ip) PROVE SlotsAreHeld'
  BY <1>1 DEF SlotsAreHeld, Entry, GetIp, Header
<1>2. ASSUME UNCHANGED <<slots, phase>> PROVE SlotsAreHeld'
  BY <1>1, <1>2 DEF Holders, GetIp, Header
<1>3. ASSUME NEW c \in Client, Check(c) PROVE SlotsAreHeld'
  <2>1. CASE Entry(GetIp(c)) >= RateLimit
    <3>1. UNCHANGED slots /\ phase[c] = "new" /\ phase' = [phase EXCEPT ![c] = "refused"]
      BY <1>3, <2>1 DEF Check, Admit
    <3>2. \A ip \in Ips : Holders(ip)' = Holders(ip)
      BY <3>1 DEF Holders, Typed, GetIp, Header
    <3> QED BY <1>1, <3>1, <3>2
  <2>2. CASE ~(Entry(GetIp(c)) >= RateLimit)
    <3>1. /\ phase[c] = "new" /\ phase' = [phase EXCEPT ![c] = "counted"]
          /\ slots' = WithEntry(GetIp(c), Entry(GetIp(c)) + 1)
      BY <1>3, <2>2 DEF Check, Admit
    <3>2. ASSUME NEW ip \in Ips
          PROVE  Holders(ip)' = IF ip = GetIp(c) THEN Holders(ip) \cup {c} ELSE Holders(ip)
      BY <3>1 DEF Holders, Typed, GetIp, Header
    <3>3. \A ip \in Ips : c \notin Holders(ip)
      BY <3>1 DEF Holders
    <3>4. GetIp(c) \in Ips /\ Entry(GetIp(c)) + 1 \in Nat /\ Entry(GetIp(c)) + 1 <= RateLimit
      BY <1>0, <2>2, WsAssumption DEF WsAssumption
    <3>5. ASSUME NEW ip \in Ips
          PROVE  Entry(ip)' = Cardinality(Holders(ip)') /\ Entry(ip)' <= RateLimit
      <4>1. Entry(ip)' = IF ip = GetIp(c) THEN Entry(GetIp(c)) + 1 ELSE Entry(ip)
        BY <3>1, <3>4, EntryAfter
      <4>2. IsFiniteSet(Holders(ip)) /\ c \notin Holders(ip)
        BY <3>3, HoldersFinite
      <4>3. Cardinality(Holders(ip) \cup {c}) = Cardinality(Holders(ip)) + 1
        BY <4>2, FS_AddElement
      <4> QED BY <1>0, <3>2, <3>4, <4>1, <4>3
    <3> QED BY <3>5 DEF SlotsAreHeld, GetIp, Header
  <2> QED BY <2>1, <2>2
<1>4. ASSUME NEW c \in Client, HandshakeFails(c) \/ Open(c) PROVE SlotsAreHeld'
  <2>1. /\ UNCHANGED slots /\ \A d \in Client \ {c} : phase'[d] = phase[d]
        /\ \/ phase[c] = "new" /\ phase'[c] = "failed"
           \/ phase[c] = "counted" /\ phase'[c] \in {"open", "lost"}
    BY <1>4 DEF HandshakeFails, Open, Typed
  <2>2. \A d \in Client : phase'[d] \in {"counted", "open", "lost"}
                            <=> phase[d] \in {"counted", "open", "lost"}
    BY <2>1
  <2>3. \A ip \in Ips : Holders(ip)' = Holders(ip)
    BY <2>2 DEF Holders, GetIp, Header
  <2> QED BY <1>1, <2>1, <2>3
<1>5. ASSUME NEW c \in Client, Finish(c) PROVE SlotsAreHeld'
  <2>1. /\ phase[c] = "open" /\ phase' = [phase EXCEPT ![c] = "over"]
        /\ slots' = WithEntry(GetIp(c), Entry(GetIp(c)) - 1)
    BY <1>5 DEF Finish, End
  <2>2. ASSUME NEW ip \in Ips
        PROVE  Holders(ip)' = IF ip = GetIp(c) THEN Holders(ip) \ {c} ELSE Holders(ip)
    BY <2>1 DEF Holders, Typed, GetIp, Header
  <2>3. c \in Holders(GetIp(c)) /\ GetIp(c) \in Ips
    BY <2>1 DEF Holders
  <2>4. /\ Cardinality(Holders(GetIp(c)) \ {c}) = Cardinality(Holders(GetIp(c))) - 1
        /\ Cardinality(Holders(GetIp(c)) \ {c}) \in Nat
    BY <2>3, HoldersFinite, FS_RemoveElement, FS_CardinalityType
  <2>5. Entry(GetIp(c)) - 1 \in Nat
    BY <1>0, <2>3, <2>4
  <2>6. ASSUME NEW ip \in Ips
        PROVE  Entry(ip)' = Cardinality(Holders(ip)') /\ Entry(ip)' <= RateLimit
    <3>1. Entry(ip)' = IF ip = GetIp(c) THEN Entry(GetIp(c)) - 1 ELSE Entry(ip)
      BY <2>1, <2>5, EntryAfter
    <3> QED BY <1>0, <2>2, <2>4, <3>1, WsAssumption DEF WsAssumption
  <2> QED BY <2>6 DEF SlotsAreHeld, GetIp, Header
<1>6. ASSUME NEW c \in Client,
             \/ ReadFrame(c) \/ ReadUnknown(c) \/ ReadEnds(c) \/ ReadClose(c)
             \/ Write(c) \/ WriteTimeout(c) \/ WriterDone(c) \/ Ping(c) \/ PingGivesUp(c)
      PROVE  UNCHANGED <<slots, phase>>
  BY <1>6 DEF ReadFrame, ReadUnknown, ReadEnds, ReadClose, Write, WriteTimeout, WriterDone,
              Ping, PingGivesUp, connVars
<1>7. ASSUME NEW c \in Client, NEW kind, Sends(c, kind) PROVE UNCHANGED <<slots, phase>>
  BY <1>7 DEF Sends
<1>8. ASSUME Apply \/ UNCHANGED vars PROVE UNCHANGED <<slots, phase>>
  BY <1>8 DEF Apply, vars, connVars
<1>9. ASSUME NEW t \in tasks, NEW closes \in BOOLEAN, PyAnswer(t, closes)
      PROVE  UNCHANGED <<slots, phase>>
  BY <1>9 DEF PyAnswer, connVars
<1> QED BY <1>2, <1>3, <1>4, <1>5, <1>6, <1>7, <1>8, <1>9 DEF Next, Reads, ClientSend, ClientClose

-----------------------------------------------------------------------------
(* The invariant, and the theorems. *)

LEMMA Initially ==
  ASSUME Init
  PROVE  IInv
<1>1. Typed
  BY DEF Init, Typed, Phase, TaskState
<1>2. ReaderIsHeld /\ ToldAreOver /\ StreamsAreNamed /\ StreamsAreLive
  BY DEF Init, ReaderIsHeld, ToldAreOver, StreamsAreNamed, StreamsAreLive
<1>3. Numbers
  BY DEF Init, Numbers, Wired, Asked, Answered
<1>4. Channels
  BY DEF Init, Channels
<1>5. SlotsAreHeld
  <2>1. ASSUME NEW ip PROVE Entry(ip) = 0 /\ Cardinality(Holders(ip)) = 0
    <3>1. Holders(ip) = {}
      BY DEF Init, Holders
    <3> QED BY <3>1, FS_EmptySet DEF Init, Entry
  <2> QED BY <2>1, WsAssumption DEF SlotsAreHeld, WsAssumption
<1> QED BY <1>1, <1>2, <1>3, <1>4, <1>5 DEF IInv

LEMMA Inductive == Spec => []IInv
<1>1. ASSUME IInv, [Next]_vars PROVE IInv'
  BY <1>1, TypeStep, HeldStep, NumbersStep, ChannelsStep, SlotsStep DEF IInv, Numbers
<1> QED BY Initially, <1>1, PTL DEF Spec

\* The entry of an address in rate_limit_map is the number of its connections that
\* are counted, and never more than rate_limit: Check and Finish keep it for any
\* number of connections.
THEOREM Slots == Spec => []SlotsAreHeld
BY Inductive, PTL DEF IInv

\* WS_STREAMS holds no stream of a connection that is over, apart from the two
\* cases StreamsAreLive names: Finish takes out what ReadFrame and Open entered.
THEOREM Streams == Spec => []StreamsAreLive
BY Inductive, PTL DEF IInv

\* No answer goes out under an older topic than its message: Apply uses the topic
\* of the stream, which only ReadFrame and ReadUnknown change.
THEOREM Topics == Spec => []TopicIsNotOlder
<1>1. ASSUME IInv PROVE TopicIsNotOlder
  <2> SUFFICES ASSUME NEW c \in Client, NEW k \in 1..Len(chan[c])
               PROVE  chan[c][k].topic >= chan[c][k].n
    BY DEF TopicIsNotOlder
  <2>1. chan[c] \in Seq(Fresh)
    BY <1>1 DEF IInv, Channels
  <2>2. chan[c][k] \in Fresh
    BY <2>1
  <2> QED BY <2>2 DEF Fresh
<1> QED BY Inductive, <1>1, PTL

\* After "_disconnect" a handler is called only by a READ TASK that the write
\* timeout left behind.
THEOREM Handlers == Spec => NoHandlerAfterDisconnect
<1> DEFINE Held(c) == topic'[c] /= topic[c] => writer[c] = "ended"
<1>1. ASSUME IInv, [Next]_vars, NEW c \in told PROVE Held(c)
  <2>1. c \in Client /\ (reader[c] = "run" => writer[c] = "ended")
    BY <1>1 DEF IInv, Typed, ToldAreOver, ReaderIsHeld
  <2>2. ASSUME NEW d \in Client, ReadFrame(d) \/ ReadUnknown(d) PROVE Held(c)
    BY <1>1, <2>1, <2>2 DEF ReadFrame, ReadUnknown, Takes, Handles, IInv, Typed
  <2>3. ASSUME NEW d \in Client,
               \/ Check(d) \/ HandshakeFails(d) \/ Open(d) \/ Finish(d)
               \/ ReadEnds(d) \/ ReadClose(d)
               \/ Write(d) \/ WriteTimeout(d) \/ WriterDone(d) \/ Ping(d) \/ PingGivesUp(d)
        PROVE  UNCHANGED topic
    BY <2>3 DEF Check, Admit, HandshakeFails, Open, Finish, End, ReadEnds, ReadClose,
                Write, WriteTimeout, WriterDone, Ping, PingGivesUp, taskVars
  <2>4. ASSUME NEW d \in Client, NEW kind, Sends(d, kind) PROVE UNCHANGED topic
    BY <2>4 DEF Sends
  <2>5. ASSUME Apply \/ UNCHANGED vars PROVE UNCHANGED topic
    BY <2>5 DEF Apply, vars, taskVars
  <2>6. ASSUME NEW t \in tasks, NEW closes \in BOOLEAN, PyAnswer(t, closes) PROVE UNCHANGED topic
    BY <2>6 DEF PyAnswer, taskVars
  <2> QED BY <1>1, <2>2, <2>3, <2>4, <2>5, <2>6 DEF Next, Reads, ClientSend, ClientClose
<1>2. ASSUME IInv, [Next]_vars PROVE [\A c \in told : Held(c)]_vars
  BY <1>1, <1>2
<1> QED BY Inductive, <1>2, PTL DEF Spec, NoHandlerAfterDisconnect

=============================================================================
