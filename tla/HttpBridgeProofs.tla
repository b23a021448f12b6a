--------------------------- MODULE HttpBridgeProofs ---------------------------
(***************************************************************************)
(* Proofs about HttpBridge, for any set of worker threads and any bounds.  *)
(*                                                                         *)
(* None of the invariants of HttpBridge is inductive by itself.  The       *)
(* strengthening follows an operation on its way: an id that is known      *)
(* outside its handler has been registered and is never registered again   *)
(* (Ids, Known), so a stream that has left the registry stays out; and     *)
(* while it is in, the queue toRust holds exactly the operations of the    *)
(* stream that were issued and not yet taken up, in order (Transit).       *)
(***************************************************************************)
EXTENDS HttpBridge, SequenceTheorems, TLAPS

\* The ids that are, or have been, in the registry.
known == {i \in Id : i \in streams \/ outcome[i] /= "none"}

\* How many operations of a stream the READ TASK has taken up.
takenUp == [i \in Id |->
  IF held.at = "apply" /\ held.op.id = i THEN Len(applied[i]) + 1 ELSE Len(applied[i])]

\* The streams whose end has been applied.
ended == {i \in Id : \E k \in 1..Len(applied[i]) : applied[i][k].kind = "end"}

(* A worker's id: drawn before nextId, registered once, its wait's outcome  *)
(* set exactly between the wait and the removal.                            *)
Ids ==
  /\ \A w \in Worker : pc[w] /= "idle" => cur[w] \in Id /\ cur[w] < nextId
  /\ \A i \in known : i < nextId
  /\ \A w \in Worker : pc[w] \in {"insert", "send", "wait"} => outcome[cur[w]] = "none"
  /\ \A w \in Worker : pc[w] = "remove" => outcome[cur[w]] /= "none"
  /\ \A w \in Worker : pc[w] = "insert" => cur[w] \notin streams

(* Nothing outside the handler mentions a stream before it is known. *)
Known ==
  /\ running \subseteq known
  /\ \A k \in 1..Len(toPy) : toPy[k].topic = "http1_on" => toPy[k].id \in known
  /\ \A i \in Id : issued[i] /= <<>> => i \in known

(* What is in the queue is what was issued, in order within a stream, and  *)
(* complete for a stream that is registered.                               *)
Numbered == \A i \in Id : \A k \in 1..Len(issued[i]) :
  issued[i][k].id = i /\ issued[i][k].n = k

InTransit ==
  /\ \A k \in 1..Len(toRust) :
       /\ toRust[k].n \in 1..Len(issued[toRust[k].id])
       /\ toRust[k] = issued[toRust[k].id][toRust[k].n]
       /\ toRust[k].n > takenUp[toRust[k].id]
  /\ \A j, k \in 1..Len(toRust) :
       j < k /\ toRust[j].id = toRust[k].id => toRust[j].n < toRust[k].n

Complete ==
  \A i \in streams : \A n \in (takenUp[i] + 1)..Len(issued[i]) :
    \E k \in 1..Len(toRust) : toRust[k].id = i /\ toRust[k].n = n

HeldIsNext ==
  held.at = "apply" =>
    /\ takenUp[held.op.id] <= Len(issued[held.op.id])
    /\ held.op = issued[held.op.id][takenUp[held.op.id]]

Transit == Numbered /\ InTransit /\ Complete /\ HeldIsNext /\ AppliedInOrder

(* A wake-up is only ever sent for a stream whose end has been applied. *)
EndSeen ==
  /\ woken \subseteq ended
  /\ held.at = "signal" => held.op.id \in ended

IInv ==
  /\ TypeOK /\ RegistryIsLive /\ Ids /\ Known /\ Transit
  /\ EndSeen /\ WokenHasEnded

-----------------------------------------------------------------------------
(* Type correctness. *)

LEMMA OpsBound ==
  ASSUME NEW i \in Id
  PROVE  OpsOf[i] \in Nat /\ MaxOps \in Nat /\ OpsOf[i] <= MaxOps
BY BridgeAssumption DEF BridgeAssumption, Id

LEMMA SendDownType ==
  ASSUME NEW m \in DownMsg, toPy \in Seq(DownMsg), SendDown(m)
  PROVE  toPy' \in Seq(DownMsg)
BY AppendProperties DEF SendDown

LEMMA NextType ==
  ASSUME TypeOK, Ids, [Next]_vars
  PROVE  TypeOK'
<1> USE DEF rustVars, readerVars, pyVars
<1>0. \A w \in Worker : pc[w] /= "idle" => cur[w] \in Id
  BY DEF Ids
<1>1. ASSUME NEW w \in Worker, Alloc(w)
      PROVE  TypeOK'
  <2>1. /\ nextId' \in 1..(MaxStream + 1)
        /\ nextId \in Id
    BY <1>1, BridgeAssumption DEF Alloc, TypeOK, BridgeAssumption, Id
  <2> QED BY <1>1, <2>1 DEF Alloc, TypeOK, Waiting
<1>2. ASSUME NEW w \in Worker, Insert(w)
      PROVE  TypeOK'
  BY <1>0, <1>2 DEF Insert, TypeOK, Waiting
<1>3. ASSUME NEW w \in Worker, SendOn(w)
      PROVE  TypeOK'
  <2>1. [topic |-> "http1_on", id |-> cur[w]] \in DownMsg
    BY <1>0, <1>3 DEF SendOn, DownMsg
  <2>2. toPy' \in Seq(DownMsg)
    BY <1>3, <2>1, SendDownType DEF SendOn, TypeOK
  <2> QED BY <1>3, <2>2 DEF SendOn, TypeOK, Waiting
<1>4. ASSUME NEW w \in Worker, Wake(w)
      PROVE  TypeOK'
  BY <1>0, <1>4 DEF Wake, TypeOK, Waiting
<1>5. ASSUME NEW w \in Worker, Timeout(w)
      PROVE  TypeOK'
  <2>1. [topic |-> "http1_logger", id |-> cur[w]] \in DownMsg
    BY <1>0, <1>5 DEF Timeout, DownMsg
  <2>2. toPy' \in Seq(DownMsg)
    BY <1>5, <2>1, SendDownType DEF Timeout, TypeOK
  <2> QED BY <1>5, <2>2 DEF Timeout, TypeOK, Waiting
<1>6. ASSUME NEW w \in Worker, Remove(w)
      PROVE  TypeOK'
  BY <1>6 DEF Remove, TypeOK, Waiting
<1>7. ASSUME Lookup
      PROVE  TypeOK'
  <2>1. Head(toRust) \in Op /\ Tail(toRust) \in Seq(Op)
    BY <1>7, HeadTailProperties DEF Lookup, TypeOK
  <2>2. [topic |-> "http1_logger", id |-> Head(toRust).id] \in DownMsg
    BY <2>1 DEF Op, DownMsg
  <2>3. toPy' \in Seq(DownMsg)
    BY <1>7, <2>2, SendDownType DEF Lookup, TypeOK
  <2>4. held' \in InHand \cup {Idle}
    BY <1>7, <2>1 DEF Lookup, TypeOK, InHand
  <2> QED BY <1>7, <2>1, <2>3, <2>4 DEF Lookup, TypeOK
<1>8. ASSUME Apply
      PROVE  TypeOK'
  <2>1. held \in InHand /\ held.op \in Op /\ held.op.id \in Id
    BY <1>8 DEF Apply, TypeOK, InHand, Idle, Op
  <2>2. Append(applied[held.op.id], held.op) \in Seq(Op)
    BY <2>1, AppendProperties DEF TypeOK
  <2>3. held' \in InHand \cup {Idle}
    BY <1>8, <2>1 DEF Apply, InHand
  <2> QED BY <1>8, <2>1, <2>2, <2>3 DEF Apply, TypeOK
<1>9. ASSUME Signal
      PROVE  TypeOK'
  <2>1. held.op.id \in Id
    BY <1>9 DEF Signal, TypeOK, InHand, Idle, Op
  <2> QED BY <1>9, <2>1 DEF Signal, TypeOK
<1>10. ASSUME Dispatch
       PROVE  TypeOK'
  <2>1. Head(toPy) \in DownMsg /\ Tail(toPy) \in Seq(DownMsg)
    BY <1>10, HeadTailProperties DEF Dispatch, TypeOK
  <2>2. Head(toPy).id \in Id
    BY <2>1 DEF DownMsg
  <2> QED BY <1>10, <2>1, <2>2 DEF Dispatch, TypeOK
<1>11. ASSUME NEW i \in Id, Finish(i)
       PROVE  TypeOK'
  BY <1>11 DEF Finish, TypeOK
<1>12. ASSUME NEW i \in Id, NEW k \in Kind, Issue(i, k)
       PROVE  TypeOK'
  <2> DEFINE op == [id |-> i, n |-> Len(issued[i]) + 1, kind |-> k]
  <2>1. op \in Op
    BY <1>12, OpsBound, LenProperties DEF Issue, TypeOK, Op
  <2>2. Append(issued[i], op) \in Seq(Op) /\ Append(toRust, op) \in Seq(Op)
    BY <2>1, AppendProperties DEF TypeOK
  <2> QED BY <1>12, <2>2 DEF Issue, TypeOK
<1>13. ASSUME Accept
       PROVE  TypeOK'
  BY <1>13 DEF Accept, TypeOK
<1>14. ASSUME Close
       PROVE  TypeOK'
  BY <1>14 DEF Close, TypeOK
<1>15. CASE UNCHANGED vars
  BY <1>15 DEF vars, TypeOK
<1> QED
  BY <1>1, <1>2, <1>3, <1>4, <1>5, <1>6, <1>7, <1>8, <1>9, <1>10, <1>11, <1>12,
     <1>13, <1>14, <1>15 DEF Next, Handler, Reader, Python

-----------------------------------------------------------------------------
(* The registry. *)

LEMMA NextIds ==
  ASSUME TypeOK, RegistryIsLive, Ids, [Next]_vars
  PROVE  RegistryIsLive' /\ Ids'
<1> USE DEF rustVars, readerVars, pyVars
<1>1. ASSUME NEW w \in Worker, Alloc(w)
      PROVE  RegistryIsLive' /\ Ids'
  <2>1. /\ nextId \in Id /\ nextId' = nextId + 1 /\ nextId \in Nat
        /\ cur' = [cur EXCEPT ![w] = nextId]
        /\ pc' = [pc EXCEPT ![w] = "insert"] /\ pc[w] = "idle"
        /\ UNCHANGED <<streams, outcome>>
        /\ cur \in [Worker -> Id \cup {0}] /\ pc \in [Worker -> Waiting \cup {"idle"}]
    BY <1>1, BridgeAssumption DEF Alloc, TypeOK, BridgeAssumption, Id
  <2>2. nextId \notin known
    BY <2>1 DEF Ids
  <2>3. \A v \in Worker : pc[v] /= "idle" => cur[v] /= nextId
    BY <2>1 DEF Ids
  <2>4. RegistryIsLive'
    BY <2>1, <2>2, <2>3 DEF RegistryIsLive, Registered
  <2>5. Ids'
    BY <2>1, <2>2, <2>3 DEF Ids, known, Id
  <2> QED BY <2>4, <2>5
<1>2. ASSUME NEW w \in Worker, Insert(w)
      PROVE  RegistryIsLive' /\ Ids'
  BY <1>2 DEF Insert, RegistryIsLive, Ids, known, Registered, TypeOK
<1>3. ASSUME NEW w \in Worker, SendOn(w)
      PROVE  RegistryIsLive' /\ Ids'
  BY <1>3 DEF SendOn, RegistryIsLive, Ids, known, Registered, TypeOK
<1>4. ASSUME NEW w \in Worker, Wake(w)
      PROVE  RegistryIsLive' /\ Ids'
  BY <1>4 DEF Wake, RegistryIsLive, Ids, known, Registered, TypeOK
<1>5. ASSUME NEW w \in Worker, Timeout(w)
      PROVE  RegistryIsLive' /\ Ids'
  BY <1>5 DEF Timeout, RegistryIsLive, Ids, known, Registered, TypeOK
<1>6. ASSUME NEW w \in Worker, Remove(w)
      PROVE  RegistryIsLive' /\ Ids'
  BY <1>6 DEF Remove, RegistryIsLive, Ids, known, Registered, TypeOK
<1>7. CASE UNCHANGED <<nextId, streams, pc, cur, outcome>>
  BY <1>7 DEF RegistryIsLive, Ids, known
<1>8. CASE Reader \/ Python \/ Accept \/ Close \/ UNCHANGED vars
  BY <1>7, <1>8 DEF Reader, Lookup, Apply, Signal, Python, Dispatch, Issue, Finish,
                    Accept, Close, vars
<1> QED
  BY <1>1, <1>2, <1>3, <1>4, <1>5, <1>6, <1>8 DEF Next, Handler

-----------------------------------------------------------------------------
(* What is known outside the handler. *)

LEMMA KnownForever ==
  ASSUME TypeOK, Ids, [Next]_vars
  PROVE  known \subseteq known'
<1> USE DEF known, rustVars
<1>1. ASSUME NEW w \in Worker, Handler(w)
      PROVE  known \subseteq known'
  BY <1>1 DEF Handler, Alloc, Insert, SendOn, Wake, Timeout, Remove, TypeOK, Ids
<1>2. CASE Reader \/ Python \/ Accept \/ Close \/ UNCHANGED vars
  BY <1>2 DEF Reader, Lookup, Apply, Signal, Python, Dispatch, Issue, Finish,
              Accept, Close, vars
<1> QED
  BY <1>1, <1>2 DEF Next

LEMMA SendDownKnown ==
  ASSUME TypeOK, Ids, Known, [Next]_vars,
         NEW m \in DownMsg, SendDown(m), m.topic = "http1_on" => m.id \in known
  PROVE  \A k \in 1..Len(toPy') : toPy'[k].topic = "http1_on" => toPy'[k].id \in known'
<1> SUFFICES ASSUME NEW k \in 1..Len(toPy'), toPy'[k].topic = "http1_on"
             PROVE  toPy'[k].id \in known'
    OBVIOUS
<1>1. toPy'[k].id \in known
  <2>1. CASE link = "open"
    <3>1. /\ Len(toPy') = Len(toPy) + 1 /\ Len(toPy) \in Nat
          /\ \A j \in 1..Len(toPy) : toPy'[j] = toPy[j]
          /\ toPy'[Len(toPy) + 1] = m
      BY <2>1, AppendProperties, LenProperties DEF SendDown, TypeOK
    <3> QED BY <3>1 DEF Known
  <2>2. CASE link /= "open"
    BY <2>2 DEF SendDown, Known
  <2> QED BY <2>1, <2>2
<1>2. toPy'[k] \in DownMsg /\ toPy'[k].id \in Id
  <2>1. toPy' \in Seq(DownMsg)
    BY SendDownType DEF TypeOK
  <2>2. toPy'[k] \in DownMsg
    BY <2>1, ElementOfSeq
  <2> QED BY <2>2 DEF DownMsg
<1> QED BY <1>1, <1>2, KnownForever

LEMMA NextKnown ==
  ASSUME TypeOK, RegistryIsLive, Ids, Known, [Next]_vars
  PROVE  Known'
<1> USE DEF rustVars, readerVars, pyVars
<1>0. /\ known \subseteq known'
      /\ \A k \in 1..Len(toPy) : toPy[k].id \in Id
      /\ running \subseteq Id
  <2>1. \A k \in 1..Len(toPy) : toPy[k] \in DownMsg
    BY ElementOfSeq DEF TypeOK
  <2> QED BY <2>1, KnownForever DEF TypeOK, DownMsg
<1>1. ASSUME NEW w \in Worker, SendOn(w)
      PROVE  Known'
  <2>1. cur[w] \in Id /\ cur[w] \in known
    BY <1>1 DEF SendOn, RegistryIsLive, Registered, Ids, known
  <2>2. \A k \in 1..Len(toPy') : toPy'[k].topic = "http1_on" => toPy'[k].id \in known'
    BY <1>1, <2>1, SendDownKnown DEF SendOn, DownMsg
  <2> QED BY <1>0, <1>1, <2>2 DEF SendOn, Known
<1>2. ASSUME NEW w \in Worker, Timeout(w)
      PROVE  Known'
  <2>1. [topic |-> "http1_logger", id |-> cur[w]] \in DownMsg
    BY <1>2 DEF Timeout, Ids, DownMsg
  <2>2. \A k \in 1..Len(toPy') : toPy'[k].topic = "http1_on" => toPy'[k].id \in known'
    BY <1>2, <2>1, SendDownKnown DEF Timeout
  <2> QED BY <1>0, <1>2, <2>2 DEF Timeout, Known
<1>3. ASSUME NEW w \in Worker, Alloc(w) \/ Insert(w) \/ Wake(w) \/ Remove(w)
      PROVE  Known'
  BY <1>0, <1>3 DEF Alloc, Insert, Wake, Remove, Known
<1>4. ASSUME Lookup
      PROVE  Known'
  <2>1. Head(toRust).id \in Id
    <3>1. Head(toRust) \in Op
      BY <1>4, HeadTailProperties DEF Lookup, TypeOK
    <3> QED BY <3>1 DEF Op
  <2>2. \A k \in 1..Len(toPy') : toPy'[k].topic = "http1_on" => toPy'[k].id \in known'
    <3>1. CASE UNCHANGED toPy
      BY <1>0, <3>1 DEF Known
    <3>2. CASE SendDown([topic |-> "http1_logger", id |-> Head(toRust).id])
      BY <2>1, <3>2, SendDownKnown DEF DownMsg
    <3> QED BY <1>4, <3>1, <3>2 DEF Lookup
  <2> QED BY <1>0, <1>4, <2>2 DEF Lookup, Known
<1>5. CASE Apply \/ Signal \/ Accept \/ UNCHANGED vars
  BY <1>0, <1>5 DEF Apply, Signal, Accept, vars, Known
<1>6. ASSUME Dispatch
      PROVE  Known'
  <2>1. /\ Head(toPy) = toPy[1] /\ 1 \in 1..Len(toPy)
        /\ Tail(toPy) \in Seq(DownMsg) /\ Len(Tail(toPy)) = Len(toPy) - 1
        /\ \A k \in 1..Len(Tail(toPy)) : Tail(toPy)[k] = toPy[k + 1]
    BY <1>6, HeadTailProperties, EmptySeq DEF Dispatch, TypeOK
  <2>2. Len(toPy) \in Nat
    BY LenProperties DEF TypeOK
  <2>3. \A k \in 1..Len(toPy') : toPy'[k].topic = "http1_on" => toPy'[k].id \in known'
    BY <1>0, <1>6, <2>1, <2>2 DEF Dispatch, Known
  <2> QED BY <1>0, <1>6, <2>1, <2>3 DEF Dispatch, Known
<1>7. ASSUME NEW i \in Id, Finish(i)
      PROVE  Known'
  BY <1>0, <1>7 DEF Finish, Known
<1>8. ASSUME NEW i \in Id, NEW k \in Kind, Issue(i, k)
      PROVE  Known'
  BY <1>0, <1>8 DEF Issue, Known, TypeOK
<1>9. ASSUME Close
      PROVE  Known'
  BY <1>0, <1>9 DEF Close, Known
<1> QED
  BY <1>1, <1>2, <1>3, <1>4, <1>5, <1>6, <1>7, <1>8, <1>9
     DEF Next, Handler, Reader, Python

-----------------------------------------------------------------------------
(* Operations in transit. *)

LEMMA QueueFacts ==
  ASSUME TypeOK
  PROVE  /\ Len(toRust) \in Nat
         /\ \A k \in 1..Len(toRust) :
              toRust[k] \in Op /\ toRust[k].id \in Id /\ toRust[k].n \in Nat
         /\ \A i \in Id : Len(issued[i]) \in Nat /\ Len(applied[i]) \in Nat
         /\ \A i \in Id : takenUp[i] \in Nat
         /\ held.at = "apply" => held.op \in Op /\ held.op.id \in Id
<1>1. \A k \in 1..Len(toRust) : toRust[k] \in Op
  BY ElementOfSeq DEF TypeOK
<1>2. Len(toRust) \in Nat /\ \A i \in Id : Len(issued[i]) \in Nat /\ Len(applied[i]) \in Nat
  BY LenProperties DEF TypeOK
<1>3. held.at = "apply" => held.op \in Op /\ held.op.id \in Id
  BY DEF TypeOK, InHand, Idle, Op
<1>4. \A k \in 1..Len(toRust) : toRust[k].id \in Id /\ toRust[k].n \in Nat
  BY <1>1 DEF Op
<1>5. ASSUME NEW i \in Id
      PROVE  takenUp[i] \in Nat
  <2>1. takenUp[i] = Len(applied[i]) + 1 \/ takenUp[i] = Len(applied[i])
    BY DEF takenUp
  <2>2. Len(applied[i]) \in Nat
    BY <1>2
  <2> QED BY <2>1, <2>2
<1> QED BY <1>1, <1>2, <1>3, <1>4, <1>5

LEMMA LookupTransit ==
  ASSUME TypeOK, Transit, Lookup
  PROVE  Transit'
<1> DEFINE m == toRust[1]
           Rest == Tail(toRust)
<1>1. /\ Head(toRust) = m /\ 1 \in 1..Len(toRust) /\ toRust' = Rest
      /\ Len(Rest) = Len(toRust) - 1
      /\ \A k \in 1..Len(Rest) : Rest[k] = toRust[k + 1] /\ k + 1 \in 1..Len(toRust)
      /\ UNCHANGED <<streams, issued, applied>>
  <2>1. Len(toRust) \in Nat /\ toRust /= <<>> /\ toRust \in Seq(Op)
    BY LenProperties DEF Lookup, TypeOK
  <2>2. Len(toRust) >= 1
    BY <2>1, EmptySeq
  <2>3. Len(Rest) = Len(toRust) - 1 /\ \A k \in 1..Len(Rest) : Rest[k] = toRust[k + 1]
    BY <2>1, HeadTailProperties
  <2> QED BY <2>1, <2>2, <2>3 DEF Lookup, rustVars, pyVars
<1>2. Numbered' /\ AppliedInOrder'
  BY <1>1 DEF Transit, Numbered, AppliedInOrder
<1>3. held = Idle /\ held.at /= "apply"
  BY DEF Lookup, Idle
<1>4. CASE m.id \in streams
  <2>1. held' = [at |-> "apply", op |-> m] /\ held'.at = "apply" /\ held'.op = m
    BY <1>1, <1>4 DEF Lookup
  <2>2. m.id \in Id /\ m.n \in Nat
    BY <1>1, QueueFacts
  <2>3. \A i \in Id : takenUp'[i] = IF i = m.id THEN takenUp[i] + 1 ELSE takenUp[i]
    <3> SUFFICES ASSUME NEW i \in Id
                 PROVE  takenUp'[i] = IF i = m.id THEN takenUp[i] + 1 ELSE takenUp[i]
        OBVIOUS
    <3>1. takenUp[i] = Len(applied[i])
      BY <1>3, QueueFacts DEF takenUp
    <3>2. takenUp'[i] = IF i = m.id THEN Len(applied[i]) + 1 ELSE Len(applied[i])
      BY <1>1, <2>1 DEF takenUp
    <3> QED BY <3>1, <3>2
  <2>4. m.n = takenUp[m.id] + 1 /\ m.n <= Len(issued[m.id]) /\ m = issued[m.id][m.n]
    <3>1. /\ m.n \in 1..Len(issued[m.id]) /\ m = issued[m.id][m.n]
          /\ m.n > takenUp[m.id]
      BY <1>1 DEF Transit, InTransit
    <3>2. PICK k \in 1..Len(toRust) : toRust[k].id = m.id /\ toRust[k].n = takenUp[m.id] + 1
      <4>1. takenUp[m.id] + 1 \in (takenUp[m.id] + 1)..Len(issued[m.id])
        BY <3>1, <2>2, QueueFacts
      <4> QED BY <4>1, <1>4 DEF Transit, Complete
    <3>3. k > 1 => m.n < takenUp[m.id] + 1
      BY <3>2, <1>1 DEF Transit, InTransit
    <3>4. k = 1
      BY <3>1, <3>2, <3>3, <2>2, QueueFacts
    <3> QED BY <3>1, <3>2, <3>4, <2>2, QueueFacts
  <2>5. HeldIsNext'
    BY <1>1, <2>1, <2>2, <2>3, <2>4, QueueFacts DEF HeldIsNext
  <2>6. InTransit'
    <3>1. \A k \in 1..Len(Rest) :
            /\ Rest[k].n \in 1..Len(issued[Rest[k].id])
            /\ Rest[k] = issued[Rest[k].id][Rest[k].n]
            /\ Rest[k].n > takenUp'[Rest[k].id]
      BY SMTT(30), <1>1, <2>2, <2>3, <2>4, QueueFacts DEF Transit, InTransit
    <3>2. \A j, k \in 1..Len(Rest) :
            j < k /\ Rest[j].id = Rest[k].id => Rest[j].n < Rest[k].n
      BY <1>1, QueueFacts DEF Transit, InTransit
    <3> QED BY <1>1, <3>1, <3>2 DEF InTransit
  <2>7. Complete'
    <3> SUFFICES ASSUME NEW i \in streams, NEW n \in (takenUp'[i] + 1)..Len(issued[i])
                 PROVE  \E k \in 1..Len(Rest) : Rest[k].id = i /\ Rest[k].n = n
        BY <1>1 DEF Complete
    <3>1. i \in Id
      BY DEF TypeOK
    <3>2. n \in (takenUp[i] + 1)..Len(issued[i]) /\ (i = m.id => n /= m.n)
      BY <3>1, <2>2, <2>3, <2>4, <1>1, QueueFacts
    <3>3. PICK k \in 1..Len(toRust) : toRust[k].id = i /\ toRust[k].n = n
      BY <3>2 DEF Transit, Complete
    <3>4. k /= 1
      BY <3>2, <3>3
    <3>5. k - 1 \in 1..Len(Rest) /\ Rest[k - 1] = toRust[k]
      BY <3>4, <1>1, QueueFacts
    <3> QED BY <3>3, <3>5
  <2> QED BY <1>2, <2>5, <2>6, <2>7 DEF Transit
<1>5. CASE m.id \notin streams
  <2>1. held' = held
    BY <1>1, <1>5 DEF Lookup
  <2>2. takenUp' = takenUp
    BY <1>1, <2>1 DEF takenUp
  <2>3. HeldIsNext'
    BY <1>3, <2>1 DEF HeldIsNext
  <2>4. InTransit'
    <3>1. \A k \in 1..Len(Rest) :
            /\ Rest[k].n \in 1..Len(issued[Rest[k].id])
            /\ Rest[k] = issued[Rest[k].id][Rest[k].n]
            /\ Rest[k].n > takenUp[Rest[k].id]
      BY <1>1 DEF Transit, InTransit
    <3>2. \A j, k \in 1..Len(Rest) :
            j < k /\ Rest[j].id = Rest[k].id => Rest[j].n < Rest[k].n
      BY <1>1, QueueFacts DEF Transit, InTransit
    <3> QED BY <1>1, <2>2, <3>1, <3>2 DEF InTransit
  <2>5. Complete'
    <3> SUFFICES ASSUME NEW i \in streams, NEW n \in (takenUp[i] + 1)..Len(issued[i])
                 PROVE  \E k \in 1..Len(Rest) : Rest[k].id = i /\ Rest[k].n = n
        BY <1>1, <2>2 DEF Complete
    <3>1. PICK k \in 1..Len(toRust) : toRust[k].id = i /\ toRust[k].n = n
      BY DEF Transit, Complete
    <3>2. k /= 1
      BY <1>5, <3>1
    <3>3. k - 1 \in 1..Len(Rest) /\ Rest[k - 1] = toRust[k]
      BY <3>2, <1>1, QueueFacts
    <3> QED BY <3>1, <3>3
  <2> QED BY <1>2, <2>3, <2>4, <2>5 DEF Transit
<1> QED BY <1>4, <1>5

LEMMA ApplyTransit ==
  ASSUME TypeOK, Transit, Apply
  PROVE  Transit'
<1> DEFINE o == held.op
<1>1. /\ held.at = "apply" /\ o \in Op /\ o.id \in Id
      /\ UNCHANGED <<streams, issued, toRust>>
      /\ applied' = [applied EXCEPT ![o.id] = Append(@, o)]
      /\ held'.at /= "apply"
  <2>1. held.at = "apply" /\ held'.at /= "apply"
    BY DEF Apply, Idle
  <2> QED BY <2>1, QueueFacts DEF Apply, rustVars, pyVars
<1>2. /\ takenUp[o.id] = Len(applied[o.id]) + 1
      /\ \A i \in Id \ {o.id} : takenUp[i] = Len(applied[i])
  BY <1>1 DEF takenUp
<1>3. /\ applied'[o.id] = Append(applied[o.id], o)
      /\ Len(applied'[o.id]) = Len(applied[o.id]) + 1
      /\ \A k \in 1..Len(applied[o.id]) : applied'[o.id][k] = applied[o.id][k]
      /\ applied'[o.id][Len(applied[o.id]) + 1] = o
      /\ \A i \in Id \ {o.id} : applied'[i] = applied[i]
  <2>1. applied \in [Id -> Seq(Op)]
    BY DEF TypeOK
  <2>2. applied'[o.id] = Append(applied[o.id], o)
    BY <1>1, <2>1
  <2> QED BY <1>1, <2>1, <2>2, AppendProperties
<1>4. \A i \in Id : takenUp'[i] = takenUp[i]
  <2>1. \A i \in Id : takenUp'[i] = Len(applied'[i])
    BY <1>1 DEF takenUp
  <2> QED BY <2>1, <1>2, <1>3
<1>5. /\ takenUp[o.id] <= Len(issued[o.id])
      /\ o = issued[o.id][takenUp[o.id]]
  BY <1>1 DEF Transit, HeldIsNext
<1>6. Numbered' /\ HeldIsNext'
  BY <1>1 DEF Transit, Numbered, HeldIsNext
<1>7. InTransit'
  BY <1>1, <1>4, QueueFacts DEF Transit, InTransit
<1>8. Complete'
  <2>1. streams \subseteq Id
    BY DEF TypeOK
  <2> QED BY <1>1, <1>4, <2>1 DEF Transit, Complete
<1>9. AppliedInOrder'
  <2> SUFFICES ASSUME NEW i \in Id
               PROVE  /\ Len(applied'[i]) <= Len(issued[i])
                      /\ \A k \in 1..Len(applied'[i]) : applied'[i][k] = issued[i][k]
      BY <1>1 DEF AppliedInOrder
  <2>1. CASE i = o.id
    <3>1. /\ Len(applied[i]) \in Nat
          /\ \A k \in 1..Len(applied[i]) : applied[i][k] = issued[i][k]
      BY QueueFacts DEF Transit, AppliedInOrder
    <3> QED BY SMTT(60), <2>1, <3>1, <1>2, <1>3, <1>5
  <2>2. CASE i /= o.id
    BY <2>2, <1>3 DEF Transit, AppliedInOrder
  <2> QED BY <2>1, <2>2
<1> QED BY <1>6, <1>7, <1>8, <1>9 DEF Transit

LEMMA IssueTransit ==
  ASSUME TypeOK, Transit, NEW i \in Id, NEW k \in Kind, Issue(i, k)
  PROVE  Transit'
<1> DEFINE o == [id |-> i, n |-> Len(issued[i]) + 1, kind |-> k]
<1>1. /\ o \in Op /\ o.id = i /\ o.n = Len(issued[i]) + 1
      /\ issued' = [issued EXCEPT ![i] = Append(@, o)]
      /\ toRust' = Append(toRust, o)
      /\ UNCHANGED <<streams, held, applied>>
  <2>1. Len(issued[i]) \in Nat
    BY QueueFacts
  <2> QED BY <2>1, OpsBound DEF Issue, Op, rustVars, readerVars
<1>2. /\ issued'[i] = Append(issued[i], o)
      /\ Len(issued'[i]) = Len(issued[i]) + 1
      /\ \A n \in 1..Len(issued[i]) : issued'[i][n] = issued[i][n]
      /\ issued'[i][Len(issued[i]) + 1] = o
      /\ \A j \in Id \ {i} : issued'[j] = issued[j]
  <2>1. issued \in [Id -> Seq(Op)]
    BY DEF TypeOK
  <2>2. issued'[i] = Append(issued[i], o)
    BY <1>1, <2>1
  <2> QED BY <1>1, <2>1, <2>2, AppendProperties
<1>3. /\ Len(toRust') = Len(toRust) + 1
      /\ \A n \in 1..Len(toRust) : toRust'[n] = toRust[n]
      /\ toRust'[Len(toRust) + 1] = o
  BY <1>1, AppendProperties DEF TypeOK
<1>4. takenUp' = takenUp
  BY <1>1 DEF takenUp
<1>5. takenUp[i] <= Len(issued[i])
  <2>1. Len(applied[i]) <= Len(issued[i])
    BY DEF Transit, AppliedInOrder
  <2>2. CASE held.at = "apply" /\ held.op.id = i
    BY <2>2 DEF Transit, HeldIsNext
  <2>3. CASE ~(held.at = "apply" /\ held.op.id = i)
    BY <2>1, <2>3 DEF takenUp
  <2> QED BY <2>2, <2>3
<1>6. Numbered'
  BY <1>1, <1>2, QueueFacts DEF Transit, Numbered
<1>7. InTransit'
  <2>1. ASSUME NEW n \in 1..Len(toRust')
        PROVE  /\ toRust'[n].n \in 1..Len(issued'[toRust'[n].id])
               /\ toRust'[n] = issued'[toRust'[n].id][toRust'[n].n]
               /\ toRust'[n].n > takenUp[toRust'[n].id]
    <3>1. CASE n = Len(toRust) + 1
      BY <3>1, <1>1, <1>2, <1>3, <1>5, QueueFacts
    <3>2. CASE n \in 1..Len(toRust)
      <4>1. /\ toRust[n].n \in 1..Len(issued[toRust[n].id])
            /\ toRust[n] = issued[toRust[n].id][toRust[n].n]
            /\ toRust[n].n > takenUp[toRust[n].id]
        BY <3>2 DEF Transit, InTransit
      <4> QED BY SMTT(30), <3>2, <4>1, <1>2, <1>3, QueueFacts
    <3> QED BY <3>1, <3>2, <1>3, QueueFacts
  <2>2. ASSUME NEW j \in 1..Len(toRust'), NEW n \in 1..Len(toRust'),
               j < n, toRust'[j].id = toRust'[n].id
        PROVE  toRust'[j].n < toRust'[n].n
    <3>1. j \in 1..Len(toRust) /\ toRust'[j] = toRust[j]
      BY <2>2, <1>3, QueueFacts
    <3>2. CASE n \in 1..Len(toRust)
      BY <2>2, <3>1, <3>2, <1>3 DEF Transit, InTransit
    <3>3. CASE n = Len(toRust) + 1
      <4>1. toRust[j].n \in 1..Len(issued[i])
        BY <2>2, <3>1, <3>3, <1>1, <1>3 DEF Transit, InTransit
      <4> QED BY <3>1, <3>3, <4>1, <1>1, <1>3, QueueFacts
    <3> QED BY <3>2, <3>3, <1>3, QueueFacts
  <2> QED BY <2>1, <2>2, <1>4 DEF InTransit
<1>8. Complete'
  <2> SUFFICES ASSUME NEW j \in streams, NEW n \in (takenUp[j] + 1)..Len(issued'[j])
               PROVE  \E p \in 1..Len(toRust') : toRust'[p].id = j /\ toRust'[p].n = n
      BY <1>1, <1>4 DEF Complete
  <2>1. j \in Id
    BY DEF TypeOK
  <2>2. CASE n \in (takenUp[j] + 1)..Len(issued[j])
    <3>1. PICK p \in 1..Len(toRust) : toRust[p].id = j /\ toRust[p].n = n
      BY <2>2 DEF Transit, Complete
    <3> QED BY <3>1, <1>3, QueueFacts
  <2>3. CASE j = i /\ n = Len(issued[i]) + 1
    BY <2>3, <1>1, <1>3, QueueFacts
  <2> QED BY <2>1, <2>2, <2>3, <1>2, QueueFacts
<1>9. HeldIsNext'
  <2> SUFFICES ASSUME held.at = "apply"
               PROVE  /\ takenUp[held.op.id] <= Len(issued'[held.op.id])
                      /\ held.op = issued'[held.op.id][takenUp[held.op.id]]
      BY <1>1, <1>4 DEF HeldIsNext
  <2>1. /\ takenUp[held.op.id] <= Len(issued[held.op.id])
        /\ held.op = issued[held.op.id][takenUp[held.op.id]]
    BY DEF Transit, HeldIsNext
  <2>2. takenUp[held.op.id] = Len(applied[held.op.id]) + 1
    BY QueueFacts DEF takenUp
  <2>3. takenUp[held.op.id] \in 1..Len(issued[held.op.id])
    BY <2>1, <2>2, QueueFacts
  <2>4. held.op.id \in Id
    BY QueueFacts
  <2>5. CASE held.op.id = i
    <3>1. issued'[i][takenUp[i]] = issued[i][takenUp[i]]
      BY <2>3, <2>5, <1>2
    <3>2. takenUp[i] <= Len(issued'[i])
      BY <2>3, <2>5, <1>2, QueueFacts
    <3> QED BY <2>1, <2>5, <3>1, <3>2
  <2>6. CASE held.op.id /= i
    BY <2>1, <2>4, <2>6, <1>2
  <2> QED BY <2>5, <2>6
<1>10. AppliedInOrder'
  <2> SUFFICES ASSUME NEW j \in Id
               PROVE  /\ Len(applied[j]) <= Len(issued'[j])
                      /\ \A n \in 1..Len(applied[j]) : applied[j][n] = issued'[j][n]
      BY <1>1 DEF AppliedInOrder
  <2>1. /\ Len(applied[j]) <= Len(issued[j])
        /\ \A n \in 1..Len(applied[j]) : applied[j][n] = issued[j][n]
    BY DEF Transit, AppliedInOrder
  <2>2. CASE j = i
    <3>1. \A n \in 1..Len(applied[i]) : n \in 1..Len(issued[i])
      BY <2>1, <2>2, QueueFacts
    <3> QED BY <2>1, <2>2, <3>1, <1>2, QueueFacts
  <2>3. CASE j /= i
    BY <2>1, <2>3, <1>2
  <2> QED BY <2>2, <2>3
<1> QED BY <1>6, <1>7, <1>8, <1>9, <1>10 DEF Transit

LEMMA NextTransit ==
  ASSUME TypeOK, Ids, Known, Transit, [Next]_vars
  PROVE  Transit'
<1>1. ASSUME NEW w \in Worker, Insert(w)
      PROVE  Transit'
  <2>1. /\ cur[w] \in Id /\ cur[w] \notin known
        /\ UNCHANGED <<held, applied, issued, toRust>>
        /\ streams' = streams \cup {cur[w]}
    BY <1>1 DEF Insert, Ids, known, readerVars, pyVars
  <2>2. issued[cur[w]] = <<>> /\ Len(issued[cur[w]]) = 0
    BY <2>1, EmptySeq DEF Known
  <2>3. takenUp' = takenUp
    BY <2>1 DEF takenUp
  <2>4. Numbered' /\ InTransit' /\ HeldIsNext' /\ AppliedInOrder'
    BY <2>1, <2>3 DEF Transit, Numbered, InTransit, HeldIsNext, AppliedInOrder
  <2>5. Complete'
    BY <2>1, <2>2, <2>3, QueueFacts DEF Transit, Complete
  <2> QED BY <2>4, <2>5 DEF Transit
<1>2. ASSUME UNCHANGED <<toRust, issued, applied>>, streams' \subseteq streams,
             held' = held \/ (held.at /= "apply" /\ held'.at /= "apply")
      PROVE  Transit'
  <2>1. takenUp' = takenUp
    BY <1>2 DEF takenUp
  <2>2. HeldIsNext'
    BY <1>2, <2>1 DEF Transit, HeldIsNext
  <2> QED BY <1>2, <2>1, <2>2 DEF Transit, Numbered, InTransit, Complete, AppliedInOrder
<1>3. ASSUME NEW w \in Worker, Alloc(w) \/ SendOn(w) \/ Wake(w) \/ Timeout(w) \/ Remove(w)
      PROVE  Transit'
  BY <1>2, <1>3 DEF Alloc, SendOn, Wake, Timeout, Remove, readerVars, pyVars
<1>4. ASSUME Signal
      PROVE  Transit'
  BY <1>2, <1>4 DEF Signal, Idle, pyVars
<1>5. CASE Dispatch \/ (\E i \in Id : Finish(i)) \/ Accept \/ Close \/ UNCHANGED vars
  BY <1>2, <1>5 DEF Dispatch, Finish, Accept, Close, vars, rustVars, readerVars, pyVars
<1> QED
  BY <1>1, <1>3, <1>4, <1>5, LookupTransit, ApplyTransit, IssueTransit
     DEF Next, Handler, Reader, Python

-----------------------------------------------------------------------------
(* Ends and wake-ups. *)

LEMMA NextEnd ==
  ASSUME TypeOK, EndSeen, WokenHasEnded, [Next]_vars
  PROVE  EndSeen' /\ WokenHasEnded'
<1> USE DEF rustVars, readerVars, pyVars
<1>0. WokenHasEnded <=> \A i \in Id : outcome[i] = "ended" => i \in ended
  BY DEF WokenHasEnded, ended
<1>0a. WokenHasEnded' <=> \A i \in Id : outcome'[i] = "ended" => i \in ended'
  BY DEF WokenHasEnded, ended
<1>1. ASSUME NEW w \in Worker, Wake(w)
      PROVE  EndSeen' /\ WokenHasEnded'
  <2>1. ended' = ended
    BY <1>1 DEF Wake, ended
  <2> QED BY <1>0, <1>0a, <1>1, <2>1 DEF Wake, EndSeen, TypeOK
<1>2. ASSUME NEW w \in Worker, Timeout(w)
      PROVE  EndSeen' /\ WokenHasEnded'
  <2>1. ended' = ended
    BY <1>2 DEF Timeout, ended
  <2> QED BY <1>0, <1>0a, <1>2, <2>1 DEF Timeout, EndSeen, TypeOK
<1>3. ASSUME UNCHANGED <<woken, applied, outcome>>, held' = held \/ held'.at /= "signal"
      PROVE  EndSeen' /\ WokenHasEnded'
  BY <1>3 DEF EndSeen, WokenHasEnded, ended
<1>4. ASSUME NEW w \in Worker, Alloc(w) \/ Insert(w) \/ SendOn(w) \/ Remove(w)
      PROVE  EndSeen' /\ WokenHasEnded'
  BY <1>3, <1>4 DEF Alloc, Insert, SendOn, Remove
<1>5. ASSUME Lookup
      PROVE  EndSeen' /\ WokenHasEnded'
  BY <1>3, <1>5 DEF Lookup
<1>6. ASSUME Apply
      PROVE  EndSeen' /\ WokenHasEnded'
  <2> DEFINE o == held.op
  <2>1. o \in Op /\ o.id \in Id /\ applied \in [Id -> Seq(Op)]
    <3>1. o \in Op
      BY <1>6 DEF Apply, TypeOK, InHand, Idle
    <3> QED BY <3>1 DEF TypeOK, Op
  <2>2. /\ Len(applied'[o.id]) = Len(applied[o.id]) + 1
        /\ Len(applied[o.id]) \in Nat
        /\ \A k \in 1..Len(applied[o.id]) : applied'[o.id][k] = applied[o.id][k]
        /\ applied'[o.id][Len(applied[o.id]) + 1] = o
        /\ \A i \in Id \ {o.id} : applied'[i] = applied[i]
    <3>1. applied'[o.id] = Append(applied[o.id], o) /\ applied[o.id] \in Seq(Op)
      BY <1>6, <2>1 DEF Apply
    <3> QED BY <1>6, <2>1, <3>1, AppendProperties, LenProperties DEF Apply
  <2>3. ended \subseteq ended'
    <3> SUFFICES ASSUME NEW i \in ended
                 PROVE  i \in ended'
        OBVIOUS
    <3>1. PICK k \in 1..Len(applied[i]) : applied[i][k].kind = "end"
      BY DEF ended
    <3>2. k \in 1..Len(applied'[i]) /\ applied'[i][k] = applied[i][k]
      <4>1. i \in Id
        BY DEF ended
      <4>2. CASE i = o.id
        BY <2>2, <3>1, <4>2
      <4>3. CASE i /= o.id
        BY <2>2, <3>1, <4>1, <4>3
      <4> QED BY <4>2, <4>3
    <3> QED BY <3>1, <3>2 DEF ended
  <2>4. o.kind = "end" => o.id \in ended'
    BY <2>1, <2>2 DEF ended
  <2>5. held'.at = "signal" => held'.op.id \in ended'
    BY <1>6, <2>4 DEF Apply, Idle
  <2> QED BY <1>0, <1>0a, <1>6, <2>3, <2>5 DEF Apply, EndSeen
<1>7. ASSUME Signal
      PROVE  EndSeen' /\ WokenHasEnded'
  <2>1. ended' = ended
    BY <1>7 DEF Signal, ended
  <2> QED BY <1>0, <1>0a, <1>7, <2>1 DEF Signal, EndSeen, Idle
<1>8. CASE Python \/ Accept \/ Close \/ UNCHANGED vars
  BY <1>3, <1>8 DEF Python, Dispatch, Finish, Issue, Accept, Close, vars
<1> QED
  BY <1>1, <1>2, <1>4, <1>5, <1>6, <1>7, <1>8 DEF Next, Handler, Reader

-----------------------------------------------------------------------------
(* The inductive invariant and the theorems. *)

LEMMA InitInv == Init => IInv
<1> SUFFICES ASSUME Init PROVE IInv
    OBVIOUS
<1>1. /\ <<>> \in Seq(Op) /\ <<>> \in Seq(DownMsg) /\ Len(<<>>) = 0
  BY EmptySeq
<1>2. TypeOK
  <2>1. nextId \in 1..(MaxStream + 1)
    BY BridgeAssumption DEF Init, BridgeAssumption
  <2> QED BY <1>1, <2>1 DEF Init, TypeOK, Waiting
<1>3. RegistryIsLive /\ Ids
  BY DEF Init, RegistryIsLive, Registered, Ids, known
<1>4. Known
  BY <1>1 DEF Init, Known
<1>5. Transit
  BY <1>1 DEF Init, Transit, Numbered, InTransit, Complete, HeldIsNext, AppliedInOrder, Idle
<1>6. EndSeen /\ WokenHasEnded
  BY DEF Init, EndSeen, WokenHasEnded, Idle
<1> QED BY <1>2, <1>3, <1>4, <1>5, <1>6 DEF IInv

LEMMA NextInv == IInv /\ [Next]_vars => IInv'
BY NextType, NextIds, NextKnown, NextTransit, NextEnd DEF IInv

LEMMA Invariant == Spec => []IInv
BY InitInv, NextInv, PTL DEF Spec

\* Every variable keeps its type, for any number of threads and any bounds.
THEOREM TypeCorrect == Spec => []TypeOK
<1>1. IInv => TypeOK
  BY DEF IInv
<1> QED BY <1>1, Invariant, PTL

\* HTTP1_STREAMS is exactly the set of live requests, and no two share an id.
THEOREM RegistrySafe == Spec => []RegistryIsLive
<1>1. IInv => RegistryIsLive
  BY DEF IInv
<1> QED BY <1>1, Invariant, PTL

\* Python hears of a stream only after the registry has it.
THEOREM SentAfterRegistered == Spec => []RegisteredBeforeSent
<1>1. IInv => RegisteredBeforeSent
  BY DEF IInv, RegisteredBeforeSent, Known, known
<1> QED BY <1>1, Invariant, PTL

\* The native stream sees a prefix of what the Python handler did, in order.
THEOREM InOrder == Spec => []AppliedInOrder
<1>1. IInv => AppliedInOrder
  BY DEF IInv, Transit
<1> QED BY <1>1, Invariant, PTL

\* A handler that was woken finds the end of its response applied.
THEOREM WokenAfterEnd == Spec => []WokenHasEnded
<1>1. IInv => WokenHasEnded
  BY DEF IInv
<1> QED BY <1>1, Invariant, PTL

\* "No stream found" is only answered to a request that is over.
THEOREM Refused == Spec => RefusedOnlyWhenOver
<1>1. ASSUME IInv, [Next]_vars, NEW i \in Id,
             toRust /= <<>>, toRust' = Tail(toRust), Head(toRust).id = i, held' = held
      PROVE  outcome[i] /= "none"
  <2>1. Len(Tail(toRust)) = Len(toRust) - 1 /\ Len(toRust) \in Nat
        /\ Head(toRust) = toRust[1] /\ 1 \in 1..Len(toRust)
    <3>1. toRust \in Seq(Op)
      BY <1>1 DEF IInv, TypeOK
    <3> QED BY <1>1, <3>1, HeadTailProperties, EmptySeq
  <2>2. Lookup
    <3>1. toRust' /= toRust
      <4>1. Len(toRust') = Len(toRust) - 1
        BY <1>1, <2>1
      <4> QED BY <2>1, <4>1
    <3>2. \A j \in Id, k \in Kind : ~Issue(j, k)
      <4> SUFFICES ASSUME NEW j \in Id, NEW k \in Kind, Issue(j, k)
                   PROVE  FALSE
          OBVIOUS
      <4> DEFINE o == [id |-> j, n |-> Len(issued[j]) + 1, kind |-> k]
      <4>1. toRust' = Append(toRust, o) /\ toRust \in Seq(Op)
        BY <1>1 DEF Issue, IInv, TypeOK
      <4>2. Len(toRust') = Len(toRust) + 1
        BY <4>1
      <4> QED BY <1>1, <2>1, <4>2
    <3> QED
      BY <1>1, <3>1, <3>2
         DEF Next, Handler, Alloc, Insert, SendOn, Wake, Timeout, Remove, Reader,
             Apply, Signal, Python, Dispatch, Finish, Accept, Close, vars
  <2>3. i \notin streams
    <3>1. held = Idle /\ held.at = "idle"
      BY <2>2 DEF Lookup, Idle
    <3> QED BY <1>1, <2>2, <3>1 DEF Lookup
  <2>4. toRust[1].n \in 1..Len(issued[i])
    BY <1>1, <2>1 DEF IInv, Transit, InTransit
  <2>5. issued[i] /= <<>>
    BY <2>4, EmptySeq
  <2> QED BY <1>1, <2>3, <2>5 DEF IInv, Known, known
<1>2. IInv /\ [Next]_vars
      => [ \A i \in Id : /\ toRust /= <<>> /\ toRust' = Tail(toRust)
                         /\ Head(toRust).id = i /\ held' = held
                         => outcome[i] /= "none" ]_vars
  BY <1>1
<1> QED BY <1>2, Invariant, PTL DEF Spec, RefusedOnlyWhenOver

-----------------------------------------------------------------------------
(* Refinement: every step of the bridge is a step of HttpExchange. *)

LEMMA InitExchange == Init => Exchange!Init
BY DEF Init, Exchange!Init, Status, HandedOver, Idle

LEMMA StepExchange ==
  ASSUME IInv, IInv', [Next]_vars
  PROVE  [Exchange!Next]_(Exchange!vars)
<1> USE DEF rustVars, readerVars, pyVars
<1>1. ASSUME UNCHANGED <<streams, outcome, held, applied, issued>>
      PROVE  UNCHANGED Exchange!vars
  BY <1>1 DEF Exchange!vars, Status, HandedOver
<1>2. ASSUME NEW w \in Worker, Insert(w)
      PROVE  [Exchange!Next]_(Exchange!vars)
  <2>1. /\ cur[w] \in Id /\ cur[w] \notin streams /\ outcome[cur[w]] = "none"
        /\ streams' = streams \cup {cur[w]}
        /\ UNCHANGED <<outcome, held, applied, issued>>
    BY <1>2 DEF Insert, IInv, Ids
  <2>2. Status[cur[w]] = "new"
    BY <2>1 DEF Status
  <2>3. Status' = [Status EXCEPT ![cur[w]] = "open"]
    BY <2>1 DEF Status
  <2>4. Exchange!Open(cur[w])
    BY <2>1, <2>2, <2>3 DEF Exchange!Open, HandedOver
  <2> QED BY <2>1, <2>4 DEF Exchange!Next
<1>3. ASSUME NEW w \in Worker, Wake(w) \/ Timeout(w)
      PROVE  [Exchange!Next]_(Exchange!vars)
  <2>1. /\ cur[w] \in streams
        /\ UNCHANGED <<streams, held, applied, issued>>
        /\ \A i \in Id \ streams : outcome'[i] = outcome[i]
    BY <1>3 DEF Wake, Timeout, IInv, RegistryIsLive, Registered, TypeOK
  <2>2. Status' = Status
    BY <2>1 DEF Status
  <2> QED BY <2>1, <2>2 DEF Exchange!vars, HandedOver
<1>4. ASSUME NEW w \in Worker, Remove(w)
      PROVE  [Exchange!Next]_(Exchange!vars)
  <2>1. /\ cur[w] \in Id /\ cur[w] \in streams
        /\ outcome[cur[w]] \in {"ended", "timeout"}
        /\ streams' = streams \ {cur[w]}
        /\ UNCHANGED <<outcome, held, applied, issued>>
    BY <1>4 DEF Remove, IInv, Ids, RegistryIsLive, Registered, TypeOK
  <2>2. Status[cur[w]] = "open"
    BY <2>1 DEF Status
  <2>3. Status' = [Status EXCEPT ![cur[w]] = outcome[cur[w]]]
    BY <2>1 DEF Status
  <2>4. CASE outcome[cur[w]] = "ended"
    <3>1. Exchange!Ended(cur[w])
      BY <2>1, <2>4 DEF IInv, WokenHasEnded, Exchange!Ended
    <3>2. Exchange!CloseEnded(cur[w])
      BY <2>1, <2>2, <2>3, <2>4, <3>1 DEF Exchange!CloseEnded, HandedOver
    <3> QED BY <2>1, <3>2 DEF Exchange!Next
  <2>5. CASE outcome[cur[w]] = "timeout"
    <3>1. Exchange!CloseTimeout(cur[w])
      BY <2>1, <2>2, <2>3, <2>5 DEF Exchange!CloseTimeout, HandedOver
    <3> QED BY <2>1, <3>1 DEF Exchange!Next
  <2> QED BY <2>1, <2>4, <2>5
<1>5. ASSUME Lookup
      PROVE  [Exchange!Next]_(Exchange!vars)
  <2>1. held = Idle /\ UNCHANGED <<streams, outcome, applied, issued>>
    BY <1>5 DEF Lookup
  <2>2. CASE held' = held
    BY <1>1, <2>1, <2>2
  <2>3. CASE held' /= held
    <3> DEFINE o == Head(toRust)
    <3>1. held' = [at |-> "apply", op |-> o] /\ o.id \in streams
      BY <1>5, <2>3 DEF Lookup
    <3>2. /\ held'.at = "apply" /\ held'.op = o /\ held' /= Idle /\ held'.at /= "signal"
          /\ o.id \in Id
      BY <3>1 DEF Idle, IInv, TypeOK
    <3>3. takenUp'[o.id] = Len(applied[o.id]) + 1
      BY <2>1, <3>2 DEF takenUp
    <3>4. /\ Len(applied[o.id]) + 1 <= Len(issued[o.id])
          /\ o = issued[o.id][Len(applied[o.id]) + 1]
      BY <2>1, <3>2, <3>3 DEF IInv, Transit, HeldIsNext
    <3>5. HandedOver = <<>> /\ HandedOver' = <<o>>
      BY <2>1, <3>2 DEF HandedOver
    <3>6. Status' = Status /\ Status[o.id] = "open"
      BY <2>1, <3>1, <3>2 DEF Status
    <3>7. Len(applied[o.id]) \in Nat /\ Len(issued[o.id]) \in Nat
      BY <3>2, QueueFacts DEF IInv
    <3>8. Exchange!TakeUp(o.id)
      BY <2>1, <3>2, <3>4, <3>5, <3>6, <3>7 DEF Exchange!TakeUp
    <3> QED BY <3>2, <3>8 DEF Exchange!Next
  <2> QED BY <2>2, <2>3
<1>6. ASSUME Apply
      PROVE  [Exchange!Next]_(Exchange!vars)
  <2> DEFINE o == held.op
  <2>1. /\ held.at = "apply" /\ held /= Idle /\ o.id \in Id
        /\ applied' = [applied EXCEPT ![o.id] = Append(@, o)]
        /\ UNCHANGED <<streams, outcome, issued>>
    <3>1. held.at = "apply" /\ held /= Idle
      BY <1>6 DEF Apply, Idle
    <3> QED BY <1>6, <3>1, QueueFacts DEF Apply, IInv
  <2>2. HandedOver = <<o>>
    BY <2>1 DEF HandedOver
  <2>3. HandedOver' = <<>>
    BY <1>6 DEF Apply, HandedOver
  <2>4. Status' = Status
    BY <2>1 DEF Status
  <2>5. Exchange!Put(o.id)
    BY <2>1, <2>2, <2>3, <2>4 DEF Exchange!Put
  <2> QED BY <2>1, <2>5 DEF Exchange!Next
<1>7. ASSUME Signal
      PROVE  [Exchange!Next]_(Exchange!vars)
  <2>1. HandedOver' = HandedOver
    BY <1>7 DEF Signal, HandedOver
  <2>2. Status' = Status
    BY <1>7 DEF Signal, Status
  <2> QED BY <1>7, <2>1, <2>2 DEF Signal, Exchange!vars
<1>8. ASSUME NEW i \in Id, NEW k \in Kind, Issue(i, k)
      PROVE  [Exchange!Next]_(Exchange!vars)
  <2> DEFINE o == [id |-> i, n |-> Len(issued[i]) + 1, kind |-> k]
  <2>1. /\ o \in Op /\ o.id = i /\ issued' = [issued EXCEPT ![i] = Append(@, o)]
        /\ UNCHANGED <<streams, outcome, held, applied>>
    <3>1. Len(issued[i]) \in Nat
      BY QueueFacts DEF IInv
    <3> QED BY <1>8, <3>1, OpsBound DEF Issue, Op
  <2>2. Status[i] /= "new"
    BY <1>8 DEF Issue, IInv, TypeOK, Known, known, Status
  <2>3. Status' = Status /\ HandedOver' = HandedOver
    BY <2>1 DEF Status, HandedOver
  <2>4. Exchange!Ask(i)
    BY <2>1, <2>2, <2>3 DEF Exchange!Ask
  <2> QED BY <2>4 DEF Exchange!Next
<1>9. CASE \/ \E w \in Worker : Alloc(w) \/ SendOn(w)
           \/ Dispatch \/ (\E i \in Id : Finish(i)) \/ Accept \/ Close \/ UNCHANGED vars
  BY <1>1, <1>9 DEF Alloc, SendOn, Dispatch, Finish, Accept, Close, vars
<1> QED
  BY <1>2, <1>3, <1>4, <1>5, <1>6, <1>7, <1>8, <1>9 DEF Next, Handler, Reader, Python

\* The bridge implements the exchange: opened once, operations taken up one by
\* one in order, closed once, at most the operation in hand landing later.
THEOREM Implements == Spec => ExchangeSpec
<1>1. Init => Exchange!Init
  BY InitExchange
<1>2. IInv /\ IInv' /\ [Next]_vars => [Exchange!Next]_(Exchange!vars)
  BY StepExchange
<1> QED BY <1>1, <1>2, Invariant, PTL DEF Spec, ExchangeSpec, Exchange!Spec

=============================================================================
