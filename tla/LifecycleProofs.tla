---------------------------- MODULE LifecycleProofs ----------------------------
(***************************************************************************)
(* Proofs about Lifecycle, for any servers in any processes and any number *)
(* of starts.                                                              *)
(*                                                                         *)
(* The invariants of Lifecycle rest on one mechanism: start_ipc blocks the *)
(* main thread of its process from the check of the path to the bind, so   *)
(* of all servers of a process one at most is between the two (Blocking).  *)
(* Whoever takes the path away from it in that time is therefore of        *)
(* another process (PathIsRaced), and its object connects to the socket    *)
(* that it has bound itself or to another process's (PathIsOwn).           *)
(***************************************************************************)
EXTENDS Lifecycle, TLAPS

\* The main thread is blocked by a server that is starting, and a server that is
\* not through with the path blocks it.
Blocking ==
  /\ \A p \in Process : main[p] /= NoServer => Proc[main[p]] = p /\ py[main[p]] = "binding"
  /\ \A s \in Server : ipc[s] \in {"check", "remove", "bind"} => main[Proc[s]] = s
  /\ \A s \in Server : main[Proc[s]] = s => ipc[s] /= "told"

\* The path names another socket than that of the server whose object is about to
\* connect only if that socket is of another process.
PathIsOwn ==
  \A s \in Server :
    main[Proc[s]] = s /\ ipc[s] \in {"accepting", "turning"} /\ file /= NoServer
      => file = s \/ Proc[file] /= Proc[s]

\* Some server of a process other than p was started.
Elsewhere(p) == \E t \in Server : Proc[t] /= p /\ py[t] /= "new"

\* The path is not as the check and the removal left it only if there is one.
PathIsRaced ==
  \A s \in Server :
    \/ ipc[s] = "remove" /\ file = NoServer
    \/ ipc[s] = "bind" /\ file /= NoServer
    => Elsewhere(Proc[s])

\* UDS_STREAMS was created for a peer that is still in it.
OpenedFor == \A p \in Process : opened[p] => \E t \in Server : Proc[t] = p /\ entry[t] /= NoServer

\* A server that was not started again has one thread at most, and none before its
\* object has come to it.
Threads ==
  \A s \in Server \ again :
    /\ starting[s] <= 1
    /\ starting[s] = 1 => native[s] = "off"
    /\ py[s] \in {"new", "binding", "connected"} => starting[s] = 0 /\ native[s] = "off"

\* What was never started has no port.
Unstarted == \A s \in Server : py[s] = "new" => starting[s] = 0 /\ native[s] = "off"

\* A process is ended by one of its servers.
OwnExit ==
  \A p \in Process : exit[p] = NoExit \/ (exit[p].by \in Server /\ Proc[exit[p].by] = p)

\* A destroyed server is out of its map.
Silent ==
  \A s \in Server \ Wt : py[s] = "destroyed" => s \notin known

IInv ==
  /\ TypeOK /\ Blocking
  /\ PathIsOwn /\ CrossedBetweenProcesses
  /\ PathIsRaced /\ OpenedFor /\ Threads /\ Unstarted /\ OwnExit /\ ExitsAreRaces
  /\ Silent

-----------------------------------------------------------------------------
(* Type correctness. *)

ExitRecord == [by : Server \cup {NoServer}, why : {"none", "remove", "bind", "send", "port"}]

LEMMA ExitsType ==
  ASSUME TypeOK, NEW s \in Server, NEW why \in {"remove", "bind", "send", "port"},
         Exits(s, why) \/ UNCHANGED exit
  PROVE  exit' \in [Process -> ExitRecord]
<1>1. [by |-> s, why |-> why] \in ExitRecord
  BY DEF ExitRecord
<1>2. exit \in [Process -> ExitRecord]
  BY DEF TypeOK, ExitRecord
<1> QED BY <1>1, <1>2 DEF Exits

LEMMA ExitsAt ==
  ASSUME TypeOK, NEW s \in Server, NEW why, Exits(s, why)
  PROVE  /\ exit'[Proc[s]] = [by |-> s, why |-> why]
         /\ \A p \in Process \ {Proc[s]} : exit'[p] = exit[p]
BY LifecycleAssumption DEF LifecycleAssumption, TypeOK, Exits

LEMMA TypeStep ==
  ASSUME TypeOK, [Next]_vars
  PROVE  TypeOK'
<1> USE LifecycleAssumption DEF LifecycleAssumption, TypeOK
<1>1. ASSUME NEW s \in Server, StartIpc(s)
      PROVE  TypeOK'
  BY <1>1 DEF StartIpc
<1>2. ASSUME NEW s \in Server, CheckPath(s)
      PROVE  TypeOK'
  BY <1>2 DEF CheckPath
<1>3. ASSUME NEW s \in Server, RemoveFile(s)
      PROVE  TypeOK'
  <2>1. exit' \in [Process -> ExitRecord]
    BY <1>3, ExitsType DEF RemoveFile
  <2> QED BY <1>3, <2>1 DEF RemoveFile, ExitRecord
<1>4. ASSUME NEW s \in Server, Bind(s)
      PROVE  TypeOK'
  <2>1. exit' \in [Process -> ExitRecord]
    BY <1>4, ExitsType DEF Bind
  <2>2. ipc' \in [Server -> {"off", "check", "remove", "bind", "accepting", "told", "turning"}]
    BY <1>4 DEF Bind
  <2>3. backlog' \in [Server -> SUBSET Server] /\ file' \in Server \cup {NoServer}
    BY <1>4 DEF Bind
  <2> QED BY <1>4, <2>1, <2>2, <2>3 DEF Bind, ExitRecord
<1>5. ASSUME NEW s \in Server, Connect(s)
      PROVE  TypeOK'
  BY <1>5 DEF Connect, Reach
<1>6. ASSUME NEW s \in Server, Accept(s)
      PROVE  TypeOK'
  BY <1>6 DEF Accept, Listening
<1>7. ASSUME NEW s \in Server, StartNative(s)
      PROVE  TypeOK'
  BY <1>7 DEF StartNative
<1>8. ASSUME NEW s \in Server, Announce(s)
      PROVE  TypeOK'
  <2>1. exit' \in [Process -> ExitRecord]
    BY <1>8, ExitsType DEF Announce, Send
  <2> QED BY <1>8, <2>1 DEF Announce, ExitRecord
<1>9. ASSUME NEW s \in Server, Say(s)
      PROVE  TypeOK'
  <2>1. exit' \in [Process -> ExitRecord]
    BY <1>9, ExitsType DEF Say, Send
  <2> QED BY <1>9, <2>1 DEF Say, ExitRecord
<1>10. ASSUME NEW s \in Server, Stop(s)
      PROVE  TypeOK'
  BY <1>10 DEF Stop
<1>11. ASSUME NEW s \in Server, Destroy(s)
      PROVE  TypeOK'
  BY <1>11 DEF Destroy
<1>12. ASSUME NEW s \in Server, PortInUse(s)
      PROVE  TypeOK'
  <2>1. exit' \in [Process -> ExitRecord]
    BY <1>12, ExitsType DEF PortInUse
  <2> QED BY <1>12, <2>1 DEF PortInUse, ExitRecord
<1>13. ASSUME NEW s \in Server, Turn(s) \/ LeaveIpc(s) \/ LeavePort(s)
      PROVE  TypeOK'
  <2>1. CASE Turn(s)
    BY <2>1 DEF Turn
  <2>2. CASE LeaveIpc(s)
    BY <2>2 DEF LeaveIpc
  <2>3. CASE LeavePort(s)
    BY <2>3 DEF LeavePort
  <2> QED BY <1>13, <2>1, <2>2, <2>3
<1>14. CASE UNCHANGED vars
  BY <1>14 DEF vars
<1> QED BY <1>1, <1>2, <1>3, <1>4, <1>5, <1>6, <1>7, <1>8, <1>9, <1>10, <1>11, <1>12, <1>13, <1>14
        DEF Next, Ipc, Native, Object

-----------------------------------------------------------------------------
(* The mechanism: who is between the check of the path and the bind. *)

LEMMA BlockingStep ==
  ASSUME TypeOK, Blocking, [Next]_vars
  PROVE  Blocking'
<1> USE LifecycleAssumption DEF LifecycleAssumption, TypeOK, Blocking
<1>1. ASSUME NEW s \in Server, StartIpc(s)
      PROVE  Blocking'
  BY <1>1 DEF StartIpc, Free, Up
<1>2. ASSUME NEW s \in Server, CheckPath(s)
      PROVE  Blocking'
  BY <1>2 DEF CheckPath, Up
<1>3. ASSUME NEW s \in Server, RemoveFile(s)
      PROVE  Blocking'
  BY <1>3 DEF RemoveFile, Exits, Up
<1>4. ASSUME NEW s \in Server, Bind(s)
      PROVE  Blocking'
  BY <1>4 DEF Bind, Exits, Up
<1>5. ASSUME NEW s \in Server, Connect(s)
      PROVE  Blocking'
  BY <1>5 DEF Connect, Reach, Up, Listening
<1>6. ASSUME NEW s \in Server, StartNative(s)
      PROVE  Blocking'
  BY <1>6 DEF StartNative, Free, Up
<1>7. ASSUME NEW s \in Server, Stop(s)
      PROVE  Blocking'
  BY <1>7 DEF Stop, Free, Up
<1>8. ASSUME NEW s \in Server, Destroy(s)
      PROVE  Blocking'
  BY <1>8 DEF Destroy, Free, Up
<1>9. ASSUME NEW s \in Server, Accept(s) \/ Turn(s) \/ LeaveIpc(s)
      PROVE  Blocking'
  BY <1>9 DEF Accept, Turn, LeaveIpc, Up
<1>10. CASE UNCHANGED <<main, py, ipc>>
  BY <1>10
<1> QED BY <1>1, <1>2, <1>3, <1>4, <1>5, <1>6, <1>7, <1>8, <1>9, <1>10
        DEF Next, Ipc, Native, Object, Announce, PortInUse, Say, LeavePort, vars

LEMMA PathIsOwnStep ==
  ASSUME TypeOK, Blocking, PathIsOwn, [Next]_vars
  PROVE  PathIsOwn'
<1> USE LifecycleAssumption DEF LifecycleAssumption, TypeOK, Blocking, PathIsOwn
<1>1. ASSUME NEW s \in Server, StartIpc(s)
      PROVE  PathIsOwn'
  BY <1>1 DEF StartIpc, Free, Up
<1>2. ASSUME NEW s \in Server, CheckPath(s)
      PROVE  PathIsOwn'
  BY <1>2 DEF CheckPath, Up
<1>3. ASSUME NEW s \in Server, RemoveFile(s)
      PROVE  PathIsOwn'
  BY <1>3 DEF RemoveFile, Exits, Up
<1>4. ASSUME NEW s \in Server, Bind(s)
      PROVE  PathIsOwn'
  BY <1>4 DEF Bind, Exits, Up
<1>5. ASSUME NEW s \in Server, Connect(s)
      PROVE  PathIsOwn'
  BY <1>5 DEF Connect, Reach, Up, Listening
<1>6. ASSUME NEW s \in Server, Stop(s)
      PROVE  PathIsOwn'
  BY <1>6 DEF Stop, Free, Up
<1>7. ASSUME NEW s \in Server, Accept(s) \/ Turn(s) \/ LeaveIpc(s)
      PROVE  PathIsOwn'
  BY <1>7 DEF Accept, Turn, LeaveIpc, Up
<1>8. CASE UNCHANGED <<main, ipc, file>>
  BY <1>8
<1> QED BY <1>1, <1>2, <1>3, <1>4, <1>5, <1>6, <1>7, <1>8
        DEF Next, Ipc, Native, Object, StartNative, Announce, PortInUse, Say, LeavePort, Destroy, vars

LEMMA CrossedStep ==
  ASSUME TypeOK, Blocking, PathIsOwn, CrossedBetweenProcesses, [Next]_vars
  PROVE  CrossedBetweenProcesses'
<1> USE LifecycleAssumption DEF LifecycleAssumption, TypeOK, PathIsOwn, CrossedBetweenProcesses
<1>1. ASSUME NEW s \in Server, Bind(s)
      PROVE  CrossedBetweenProcesses'
  BY <1>1 DEF Bind, Exits, Up
<1>2. ASSUME NEW s \in Server, Connect(s)
      PROVE  CrossedBetweenProcesses'
  BY <1>2 DEF Connect, Reach, Up, Listening, Blocking
<1>3. ASSUME NEW s \in Server, Accept(s)
      PROVE  CrossedBetweenProcesses'
  BY <1>3 DEF Accept, Listening
<1>4. CASE UNCHANGED <<backlog, entry>>
  BY <1>4
<1> QED BY <1>1, <1>2, <1>3, <1>4
        DEF Next, Ipc, Native, Object, StartIpc, CheckPath, RemoveFile, Turn, LeaveIpc, StartNative, Announce,
            PortInUse, Say, LeavePort, Stop, Destroy, vars

LEMMA PathIsRacedStep ==
  ASSUME TypeOK, Blocking, PathIsRaced, [Next]_vars
  PROVE  PathIsRaced'
<1> USE LifecycleAssumption DEF LifecycleAssumption, TypeOK, Blocking, PathIsRaced, Elsewhere
<1>1. ASSUME NEW s \in Server, StartIpc(s)
      PROVE  PathIsRaced'
  BY <1>1 DEF StartIpc, Free, Up
<1>2. ASSUME NEW s \in Server, CheckPath(s)
      PROVE  PathIsRaced'
  BY <1>2 DEF CheckPath, Up
<1>3. ASSUME NEW s \in Server, RemoveFile(s)
      PROVE  PathIsRaced'
  BY SMTT(30), <1>3 DEF RemoveFile, Exits, Up
<1>4. ASSUME NEW s \in Server, Bind(s)
      PROVE  PathIsRaced'
  BY <1>4 DEF Bind, Exits, Up
<1>5. ASSUME NEW s \in Server, Connect(s)
      PROVE  PathIsRaced'
  BY <1>5 DEF Connect, Reach, Up, Listening
<1>6. ASSUME NEW s \in Server, StartNative(s)
      PROVE  PathIsRaced'
  BY <1>6 DEF StartNative, Free, Up
<1>7. ASSUME NEW s \in Server, Stop(s)
      PROVE  PathIsRaced'
  BY <1>7 DEF Stop, Free, Up
<1>8. ASSUME NEW s \in Server, Destroy(s)
      PROVE  PathIsRaced'
  BY <1>8 DEF Destroy, Free, Up
<1>9. ASSUME NEW s \in Server, Accept(s) \/ Turn(s) \/ LeaveIpc(s)
      PROVE  PathIsRaced'
  BY <1>9 DEF Accept, Turn, LeaveIpc, Up
<1>10. CASE UNCHANGED <<py, ipc, file>>
  BY <1>10
<1> QED BY <1>1, <1>2, <1>3, <1>4, <1>5, <1>6, <1>7, <1>8, <1>9, <1>10
        DEF Next, Ipc, Native, Object, Announce, PortInUse, Say, LeavePort, vars

LEMMA OpenedForStep ==
  ASSUME TypeOK, OpenedFor, [Next]_vars
  PROVE  OpenedFor'
<1> USE LifecycleAssumption DEF LifecycleAssumption, TypeOK, OpenedFor
<1>1. ASSUME NEW s \in Server, Accept(s)
      PROVE  OpenedFor'
  BY <1>1 DEF Accept, Listening
<1>2. CASE UNCHANGED <<opened, entry>>
  BY <1>2
<1> QED BY <1>1, <1>2
        DEF Next, Ipc, Native, Object, StartIpc, CheckPath, RemoveFile, Bind, Turn, LeaveIpc, Connect, StartNative,
            Announce, PortInUse, Say, LeavePort, Stop, Destroy, vars

LEMMA ThreadsStep ==
  ASSUME TypeOK, Blocking, Threads, Unstarted, [Next]_vars
  PROVE  Threads' /\ Unstarted'
<1> USE LifecycleAssumption DEF LifecycleAssumption, TypeOK, Threads, Unstarted
<1>1. ASSUME NEW s \in Server, StartIpc(s)
      PROVE  Threads' /\ Unstarted'
  BY <1>1 DEF StartIpc, Free, Up
<1>2. ASSUME NEW s \in Server, Connect(s)
      PROVE  Threads' /\ Unstarted'
  <2>1. py[s] = "binding"
    BY <1>2 DEF Connect, Blocking
  <2> QED BY <1>2, <2>1 DEF Connect
<1>3. ASSUME NEW s \in Server, StartNative(s)
      PROVE  Threads' /\ Unstarted'
  BY <1>3 DEF StartNative, Free, Up
<1>4. ASSUME NEW s \in Server, Announce(s)
      PROVE  Threads' /\ Unstarted'
  BY <1>4 DEF Announce, Up
<1>5. ASSUME NEW s \in Server, Stop(s)
      PROVE  Threads' /\ Unstarted'
  BY <1>5 DEF Stop, Free, Up
<1>6. ASSUME NEW s \in Server, Destroy(s)
      PROVE  Threads' /\ Unstarted'
  BY <1>6 DEF Destroy, Free, Up
<1>7. ASSUME NEW s \in Server, PortInUse(s)
      PROVE  Threads' /\ Unstarted'
  BY <1>7 DEF PortInUse, Up
<1>8. ASSUME NEW s \in Server, Say(s) \/ LeavePort(s)
      PROVE  Threads' /\ Unstarted'
  BY <1>8 DEF Say, LeavePort, Up
<1>9. CASE UNCHANGED <<py, starting, native, again>>
  BY <1>9
<1> QED BY <1>1, <1>2, <1>3, <1>4, <1>5, <1>6, <1>7, <1>8, <1>9
        DEF Next, Ipc, Native, Object, CheckPath, RemoveFile, Bind, Accept, Turn, LeaveIpc, vars

LEMMA OwnExitStep ==
  ASSUME TypeOK, OwnExit, [Next]_vars
  PROVE  OwnExit'
<1> USE LifecycleAssumption DEF LifecycleAssumption, TypeOK, OwnExit
<1>1. ASSUME NEW s \in Server, NEW why, Exits(s, why)
      PROVE  OwnExit'
  <2>1. SUFFICES ASSUME NEW p \in Process
                 PROVE  exit'[p] = NoExit \/ (exit'[p].by \in Server /\ Proc[exit'[p].by] = p)
    OBVIOUS
  <2>2. CASE p = Proc[s]
    <3>1. exit'[p] = [by |-> s, why |-> why]
      BY <1>1, <2>2, ExitsAt
    <3>2. exit'[p].by = s
      BY <3>1
    <3> QED BY <2>2, <3>2
  <2>3. CASE p /= Proc[s]
    <3>1. exit'[p] = exit[p]
      BY <1>1, <2>3, ExitsAt
    <3> QED BY <3>1
  <2> QED BY <2>2, <2>3
<1>2. CASE UNCHANGED exit
  BY <1>2
<1>3. ASSUME NEW s \in Server, NEW why, Exits(s, why) \/ UNCHANGED exit
      PROVE  OwnExit'
  BY <1>1, <1>2, <1>3
<1>4. ASSUME NEW s \in Server, RemoveFile(s)
      PROVE  OwnExit'
  BY <1>3, <1>4 DEF RemoveFile
<1>5. ASSUME NEW s \in Server, Bind(s)
      PROVE  OwnExit'
  BY <1>3, <1>5 DEF Bind
<1>6. ASSUME NEW s \in Server, PortInUse(s)
      PROVE  OwnExit'
  BY <1>3, <1>6 DEF PortInUse
<1>7. ASSUME NEW s \in Server, Announce(s)
      PROVE  OwnExit'
  BY <1>3, <1>7 DEF Announce, Send
<1>8. ASSUME NEW s \in Server, Say(s)
      PROVE  OwnExit'
  BY <1>3, <1>8 DEF Say, Send
<1> QED BY <1>2, <1>4, <1>5, <1>6, <1>7, <1>8
        DEF Next, Ipc, Native, Object, StartIpc, CheckPath, Connect, Accept, Turn, LeaveIpc, StartNative,
            LeavePort, Stop, Destroy, vars

LEMMA SilentStep ==
  ASSUME TypeOK, Blocking, Silent, [Next]_vars
  PROVE  Silent'
<1> USE LifecycleAssumption DEF LifecycleAssumption, TypeOK, Blocking, Silent
<1>1. ASSUME NEW s \in Server, StartIpc(s)
      PROVE  Silent'
  BY <1>1 DEF StartIpc, Free, Up
<1>2. ASSUME NEW s \in Server, Connect(s)
      PROVE  Silent'
  BY <1>2 DEF Connect, Reach, Up, Listening
<1>3. ASSUME NEW s \in Server, StartNative(s)
      PROVE  Silent'
  BY <1>3 DEF StartNative, Free, Up
<1>4. ASSUME NEW s \in Server, Stop(s)
      PROVE  Silent'
  BY <1>4 DEF Stop, Free, Up
<1>5. ASSUME NEW s \in Server, Destroy(s)
      PROVE  Silent'
  BY <1>5 DEF Destroy, Free, Up
<1>6. CASE UNCHANGED <<py, known>>
  BY <1>6
<1> QED BY <1>1, <1>2, <1>3, <1>4, <1>5, <1>6
        DEF Next, Ipc, Native, Object, CheckPath, RemoveFile, Bind, Accept, Turn, LeaveIpc, Announce, PortInUse,
            Say, LeavePort, vars

\* What ExitsAreRaces says of the exit e of a process p.
Race(p, e) ==
  /\ e.why \in {"remove", "bind"} => p \in Barred \/ Elsewhere(p)
  /\ e.why = "send" => \E t \in Server \ {e.by} : Proc[t] = p /\ entry[t] /= NoServer
  /\ e.why = "port" =>
       \/ Port[e.by] \in Foreign \/ e.by \in again
       \/ \E t \in Server \ {e.by} : Port[t] = Port[e.by] /\ py[t] /= "new"

LEMMA SendRace ==
  ASSUME TypeOK, OpenedFor, NEW s \in Server, Send(s)
  PROVE  \/ UNCHANGED exit
         \/ Exits(s, "send") /\ Race(Proc[s], [by |-> s, why |-> "send"])
<1>1. CASE s \in known /\ opened[Proc[s]] /\ entry[s] = NoServer
  <2>1. Proc[s] \in Process
    BY LifecycleAssumption DEF LifecycleAssumption
  <2>2. PICK t \in Server : Proc[t] = Proc[s] /\ entry[t] /= NoServer
    BY <1>1, <2>1 DEF OpenedFor
  <2>3. t \in Server \ {s}
    BY <1>1, <2>2
  <2>4. Exits(s, "send")
    BY <1>1 DEF Send
  <2> QED BY <2>2, <2>3, <2>4 DEF Race
<1>2. CASE ~(s \in known /\ opened[Proc[s]] /\ entry[s] = NoServer)
  BY <1>2 DEF Send
<1> QED BY <1>1, <1>2

\* A step that ends a process in a race, and leaves alone what made it one.
LEMMA RaceStep ==
  ASSUME TypeOK, ExitsAreRaces, UNCHANGED entry, again \subseteq again',
         \A t \in Server : py[t] /= "new" => py'[t] /= "new",
         NEW s \in Server, NEW why,
         \/ UNCHANGED exit
         \/ Exits(s, why) /\ Race(Proc[s], [by |-> s, why |-> why])
  PROVE  ExitsAreRaces'
<1>1. SUFFICES ASSUME NEW p \in Process
               PROVE  Race(p, exit[p])'
  BY DEF ExitsAreRaces, Race, Elsewhere
<1>2. Race(p, exit[p])
  BY DEF ExitsAreRaces, Race, Elsewhere
<1>3. \/ exit'[p] = exit[p]
      \/ p = Proc[s] /\ Race(p, exit'[p])
  BY ExitsAt
<1>4. Race(p, exit'[p])
  BY <1>2, <1>3
<1> QED BY <1>4 DEF Race, Elsewhere

LEMMA ExitsStep ==
  ASSUME TypeOK, Blocking, PathIsRaced, OpenedFor, Threads, Unstarted, ExitsAreRaces, [Next]_vars
  PROVE  ExitsAreRaces'
<1>1. ASSUME NEW s \in Server, StartIpc(s)
      PROVE  ExitsAreRaces'
  BY <1>1, RaceStep DEF StartIpc, TypeOK
<1>2. ASSUME NEW s \in Server, RemoveFile(s)
      PROVE  ExitsAreRaces'
  <2>1. \/ UNCHANGED exit
        \/ Exits(s, "remove") /\ Race(Proc[s], [by |-> s, why |-> "remove"])
    BY <1>2 DEF RemoveFile, Denied, PathIsRaced, Race
  <2> QED BY <1>2, <2>1, RaceStep DEF RemoveFile
<1>3. ASSUME NEW s \in Server, Bind(s)
      PROVE  ExitsAreRaces'
  <2>1. \/ UNCHANGED exit
        \/ Exits(s, "bind") /\ Race(Proc[s], [by |-> s, why |-> "bind"])
    BY <1>3 DEF Bind, Denied, PathIsRaced, Race
  <2> QED BY <1>3, <2>1, RaceStep DEF Bind
<1>4. ASSUME NEW s \in Server, Connect(s)
      PROVE  ExitsAreRaces'
  BY <1>4, RaceStep DEF Connect, TypeOK
<1>5. ASSUME NEW s \in Server, Accept(s)
      PROVE  ExitsAreRaces'
  <2>1. PICK c \in backlog[s] : entry' = [entry EXCEPT ![s] = c]
    BY <1>5 DEF Accept
  <2>2. c /= NoServer
    BY <2>1, LifecycleAssumption DEF LifecycleAssumption, TypeOK
  <2>3. \A t \in Server : entry[t] /= NoServer => entry'[t] /= NoServer
    BY <2>1, <2>2 DEF TypeOK
  <2>4. UNCHANGED <<py, again, exit>>
    BY <1>5 DEF Accept
  <2> QED BY <2>3, <2>4 DEF ExitsAreRaces
<1>6. ASSUME NEW s \in Server, StartNative(s)
      PROVE  ExitsAreRaces'
  BY <1>6, RaceStep DEF StartNative, TypeOK
<1>7. ASSUME NEW s \in Server, Announce(s)
      PROVE  ExitsAreRaces'
  BY <1>7, SendRace, RaceStep DEF Announce
<1>8. ASSUME NEW s \in Server, Say(s)
      PROVE  ExitsAreRaces'
  BY <1>8, SendRace, RaceStep DEF Say
<1>9. ASSUME NEW s \in Server, PortInUse(s)
      PROVE  ExitsAreRaces'
  <2>1. Race(Proc[s], [by |-> s, why |-> "port"])
    <3>1. CASE Port[s] \in Foreign \/ s \in again
      BY <3>1 DEF Race
    <3>2. CASE Held(s) /\ s \notin again
      <4>1. PICK t \in Server : Port[t] = Port[s] /\ native[t] /= "off"
        BY <3>2 DEF Held
      <4>2. starting[s] = 1 /\ native[s] = "off"
        BY <1>9, <3>2 DEF PortInUse, Threads, TypeOK
      <4>3. t \in Server \ {s} /\ py[t] /= "new"
        BY <4>1, <4>2 DEF Unstarted
      <4> QED BY <4>1, <4>3 DEF Race
    <3> QED BY <1>9, <3>1, <3>2 DEF PortInUse
  <2> QED BY <1>9, <2>1, RaceStep DEF PortInUse
<1>10. ASSUME NEW s \in Server, Stop(s) \/ Destroy(s)
      PROVE  ExitsAreRaces'
  BY <1>10, RaceStep DEF Stop, Destroy, TypeOK
<1>11. CASE UNCHANGED <<py, entry, again, exit>>
  BY <1>11 DEF ExitsAreRaces
<1> QED BY <1>1, <1>2, <1>3, <1>4, <1>5, <1>6, <1>7, <1>8, <1>9, <1>10, <1>11
        DEF Next, Ipc, Native, Object, CheckPath, Turn, LeaveIpc, LeavePort, vars

-----------------------------------------------------------------------------
(* The theorems. *)

LEMMA InitIInv ==
  ASSUME Init
  PROVE  IInv
<1> USE LifecycleAssumption DEF LifecycleAssumption, Init, NoExit
<1>1. TypeOK
  BY DEF TypeOK
<1>2. Blocking /\ PathIsOwn /\ PathIsRaced /\ OpenedFor /\ Threads /\ Unstarted /\ OwnExit /\ Silent
  BY DEF Blocking, PathIsOwn, PathIsRaced, OpenedFor, Threads, Unstarted, OwnExit, Silent
<1>3. CrossedBetweenProcesses
  BY DEF CrossedBetweenProcesses
<1>4. ExitsAreRaces
  BY DEF ExitsAreRaces
<1> QED BY <1>1, <1>2, <1>3, <1>4 DEF IInv

LEMMA NextIInv ==
  ASSUME IInv, [Next]_vars
  PROVE  IInv'
BY TypeStep, BlockingStep, PathIsOwnStep, CrossedStep, PathIsRacedStep, OpenedForStep,
   ThreadsStep, OwnExitStep, SilentStep, ExitsStep
   DEF IInv

LEMMA Invariance == Spec => []IInv
<1>1. Init => IInv
  BY InitIInv
<1>2. IInv /\ [Next]_vars => IInv'
  BY NextIInv
<1> QED BY <1>1, <1>2, PTL DEF Spec

\* The state is well typed: every entry of the maps of accepted peers, every owner
\* of the path and every process's end is one of the servers or none.
THEOREM TypeCorrect == Spec => []TypeOK
<1>1. IInv => TypeOK
  BY DEF IInv
<1> QED BY Invariance, <1>1, PTL

\* No two servers of one process are ever crossed on the path of the socket that
\* all servers share. (main.py start, lib.rs start_ipc, uds.rs start.)
THEOREM Crossed == Spec => []CrossedBetweenProcesses
<1>1. IInv => CrossedBetweenProcesses
  BY DEF IInv
<1> QED BY Invariance, <1>1, PTL

\* What ends a process is a race of its servers, or a port or a directory that is kept
\* from it. (process::exit in uds.rs start and send, and in <x>_start.)
THEOREM Races == Spec => []ExitsAreRaces
<1>1. IInv => ExitsAreRaces
  BY DEF IInv
<1> QED BY Invariance, <1>1, PTL

\* A server that was destroyed, is not WebTransport's and has no thread on its way to
\* the port ends its process no more. (<x>_destroy, lib.rs.)
THEOREM Destroyed == Spec => DestroyedIsSilent
<1>1. IInv /\ [Next]_vars
      => [\A s \in Server : py[s] = "destroyed" /\ s \notin Wt /\ starting[s] = 0
            => exit'[Proc[s]] = exit[Proc[s]] \/ exit'[Proc[s]].by /= s]_vars
  <2>1. ASSUME IInv, Next, NEW s \in Server \ Wt, py[s] = "destroyed", starting[s] = 0
        PROVE  exit'[Proc[s]] = exit[Proc[s]] \/ exit'[Proc[s]].by /= s
    <3>1. TypeOK /\ Blocking /\ Silent
      BY <2>1 DEF IInv
    <3>2. PICK t \in Server : Ipc(t) \/ Native(t) \/ Connect(t) \/ StartNative(t) \/ Say(t) \/ Object(t)
      BY <2>1 DEF Next
    <3>3. s \notin known
      BY <2>1, <3>1 DEF Silent
    <3>4. ipc[s] \notin {"remove", "bind"}
      <4>1. SUFFICES ASSUME ipc[s] \in {"remove", "bind"}
                     PROVE  FALSE
        OBVIOUS
      <4>2. main[Proc[s]] = s
        BY <3>1, <4>1 DEF Blocking
      <4>3. Proc[s] \in Process /\ s /= NoServer
        BY LifecycleAssumption DEF LifecycleAssumption
      <4>4. py[s] = "binding"
        BY <3>1, <4>2, <4>3 DEF Blocking
      <4> QED BY <2>1, <4>4
    <3>5. ASSUME NEW why, t /= s, Exits(t, why)
          PROVE  exit'[Proc[s]] = exit[Proc[s]] \/ exit'[Proc[s]].by /= s
      <4>1. Proc[s] \in Process
        BY LifecycleAssumption DEF LifecycleAssumption
      <4>2. \/ Proc[s] = Proc[t] /\ exit'[Proc[s]] = [by |-> t, why |-> why]
            \/ exit'[Proc[s]] = exit[Proc[s]]
        BY <3>1, <3>2, <3>5, <4>1, ExitsAt
      <4> QED BY <3>5, <4>2
    <3>6. \/ UNCHANGED exit
          \/ t /= s /\ \E why \in {"remove", "bind", "port", "send"} : Exits(t, why)
      <4>1. CASE RemoveFile(t) \/ Bind(t)
        BY <3>4, <4>1 DEF RemoveFile, Bind
      <4>2. CASE PortInUse(t)
        BY <2>1, <4>2 DEF PortInUse
      <4>3. CASE Announce(t) \/ Say(t)
        BY <3>3, <4>3 DEF Announce, Say, Send
      <4>4. CASE StartIpc(t) \/ CheckPath(t) \/ Connect(t) \/ Accept(t) \/ Stop(t) \/ Destroy(t)
        BY <4>4 DEF StartIpc, CheckPath, Connect, Accept, Stop, Destroy
      <4>5. CASE Turn(t) \/ LeaveIpc(t) \/ StartNative(t) \/ LeavePort(t)
        BY <4>5 DEF Turn, LeaveIpc, StartNative, LeavePort
      <4> QED BY <3>2, <4>1, <4>2, <4>3, <4>4, <4>5 DEF Ipc, Native, Object
    <3> QED BY <3>5, <3>6
  <2> QED BY <2>1
<1> QED BY Invariance, <1>1, PTL DEF Spec, DestroyedIsSilent

=============================================================================
