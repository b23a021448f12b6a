------------------------------- MODULE Lifecycle -------------------------------
(***************************************************************************)
(* Creation, start, stop and end of the servers: <x>_create, <x>_start_ipc,*)
(* <x>_start, <x>_stop and <x>_destroy of src/lib.rs (five times the same  *)
(* code for http1, http2, http3, ws and wt, but for one difference), start,*)
(* stop, send and acceptor of src/ipc/uds.rs, and the Python classes that  *)
(* call them.                                                              *)
(*                                                                         *)
(* A server is two listeners and a Python object: a Unix socket, on which  *)
(* the object is to be the only peer, and the network's.  All servers of a *)
(* machine share the path of the socket, all of a process the map          *)
(* UDS_STREAMS of accepted peers.  The main thread of a process runs the   *)
(* objects, as tasks of one asyncio loop; each native listener has a       *)
(* thread of its own.  A start or a port can also fail for what is outside *)
(* of the servers: a process without the right to the directory of the     *)
(* path, another program on the port.                                      *)
(***************************************************************************)
EXTENDS Naturals

CONSTANTS
  Server,      \* the servers of the machine
  Process,     \* the processes of the machine
  Proc,        \* the process of each server
  Wt,          \* those that are WebTransport's
  Http3,       \* those that are of HTTP 3.0
  Port,        \* the port of each server, with its protocol
  Foreign,     \* the ports that may be refused: another program has them
  Barred,      \* the processes that may be denied the directory of the path
  NoServer,    \* none of them
  MaxStarts    \* bound: how many starts there are

ASSUME LifecycleAssumption ==
  /\ NoServer \notin Server
  /\ Wt \subseteq Server /\ Http3 \subseteq Server
  /\ DOMAIN Port = Server
  /\ Proc \in [Server -> Process] /\ Barred \subseteq Process
  /\ MaxStarts \in Nat

VARIABLES
  py,          \* per server, how far its object is: "new", "binding",
               \* "connected", "started", "stopped", "destroyed"
  starts,      \* how many starts there were
  main,        \* per process, the server whose start_ipc blocks its main thread
  ipc,         \* per server, its uds.start: "off", "check", "remove", "bind",
               \* "accepting", "told" of a stop, "turning" to its next round
  file,        \* the server whose socket the path names
  backlog,     \* per server, the peers that its socket has not accepted yet
  opened,      \* per process, UDS_STREAMS has been created
  entry,       \* per server, the peer UDS_STREAMS has for it, or NoServer
  known,       \* the servers whose <X>_UDS_MAP entry is there
  crypto,      \* the processes in which an http3 server was started
  starting,    \* per server, how many threads of its start have no port yet
  native,      \* per server, the thread that has its port: "off", "running",
               \* "told" of a stop, "leaving" with the port free
  again,       \* history: the servers that were started again after a stop
  exit         \* per process, the server that ended it, and why

vars == <<py, starts, main, ipc, file, backlog, opened, entry, known, crypto,
          starting, native, again, exit>>

NoExit == [by |-> NoServer, why |-> "none"]

Init ==
  /\ py = [s \in Server |-> "new"] /\ starts = 0
  /\ main = [p \in Process |-> NoServer]
  /\ ipc = [s \in Server |-> "off"] /\ file = NoServer
  /\ backlog = [s \in Server |-> {}]
  /\ opened = [p \in Process |-> FALSE]
  /\ entry = [s \in Server |-> NoServer]
  /\ known = Server /\ crypto = {}
  /\ starting = [s \in Server |-> 0]
  /\ native = [s \in Server |-> "off"] /\ again = {}
  /\ exit = [p \in Process |-> NoExit]

Up(s) == exit[Proc[s]] = NoExit

\* process::exit(1).
Exits(s, why) == exit' = [exit EXCEPT ![Proc[s]] = [by |-> s, why |-> why]]

\* The object of s can run.
Free(s) == Up(s) /\ main[Proc[s]] = NoServer

-----------------------------------------------------------------------------
(* start: the Unix socket and its one peer. *)

\* start_ipc spawns the thread of uds.start and waits for its on_start.  A start
\* of a server whose socket still listens is left out.
StartIpc(s) ==
  /\ Free(s) /\ py[s] \in {"new", "stopped"} /\ ipc[s] = "off"
  /\ starts < MaxStarts
  /\ py' = [py EXCEPT ![s] = "binding"]
  /\ starts' = starts + 1
  /\ main' = [main EXCEPT ![Proc[s]] = s]
  /\ ipc' = [ipc EXCEPT ![s] = "check"]
  /\ again' = IF py[s] = "stopped" THEN again \cup {s} ELSE again
  /\ UNCHANGED <<file, backlog, opened, entry, known, crypto, starting, native, exit>>

CheckPath(s) ==
  /\ Up(s) /\ ipc[s] = "check"
  /\ ipc' = [ipc EXCEPT ![s] = IF file = NoServer THEN "bind" ELSE "remove"]
  /\ UNCHANGED <<py, crypto, starts, main, file, backlog, opened, entry, known, starting, native, again, exit>>

\* The directory does not let this process remove or create the file.
Denied(s) == Proc[s] \in Barred

RemoveFile(s) ==
  /\ Up(s) /\ ipc[s] = "remove"
  /\ \/ /\ file = NoServer \/ Denied(s)
        /\ Exits(s, "remove")
        /\ UNCHANGED <<ipc, file>>
     \/ /\ file /= NoServer
        /\ ipc' = [ipc EXCEPT ![s] = "bind"] /\ file' = NoServer
        /\ UNCHANGED exit
  /\ UNCHANGED <<py, starts, main, backlog, opened, entry, known, crypto, starting, native, again>>

Bind(s) ==
  /\ Up(s) /\ ipc[s] = "bind"
  /\ \/ /\ file /= NoServer \/ Denied(s)
        /\ Exits(s, "bind")
        /\ UNCHANGED <<ipc, file, backlog>>
     \/ /\ file = NoServer
        /\ ipc' = [ipc EXCEPT ![s] = "accepting"] /\ file' = s
        /\ backlog' = [backlog EXCEPT ![s] = {}]
        /\ UNCHANGED exit
  /\ UNCHANGED <<py, starts, main, opened, entry, known, crypto, starting, native, again>>

\* The loop of uds.start goes on: its socket is there.
Listening(t) == Up(t) /\ ipc[t] \in {"accepting", "told", "turning"}

\* What connecting to the path does: nothing if nobody listens there.
Reach(s) ==
  backlog' = IF file /= NoServer /\ Listening(file)
               THEN [backlog EXCEPT ![file] = @ \cup {s}] ELSE backlog

\* Mutation of Connect: start_ipc does not wait for on_start.
ConnectAtOnce(s) ==
  /\ Up(s) /\ main[Proc[s]] = s
  /\ Reach(s)
  /\ main' = [main EXCEPT ![Proc[s]] = NoServer]
  /\ py' = [py EXCEPT ![s] = "connected"]
  /\ UNCHANGED <<crypto, starts, ipc, file, opened, entry, known, starting, native, again, exit>>

\* Mutation of Connect: on_start is called for the first peer.
ConnectAccepted(s) ==
  /\ main[Proc[s]] = s /\ Listening(s) /\ entry[s] /= NoServer
  /\ Reach(s)
  /\ main' = [main EXCEPT ![Proc[s]] = NoServer]
  /\ py' = [py EXCEPT ![s] = "connected"]
  /\ UNCHANGED <<crypto, starts, ipc, file, opened, entry, known, starting, native, again, exit>>

\* start_ipc returns, and open_unix_connection connects before the loop turns.
Connect(s) ==
  /\ main[Proc[s]] = s /\ Listening(s)
  /\ Reach(s)
  /\ main' = [main EXCEPT ![Proc[s]] = NoServer]
  /\ py' = [py EXCEPT ![s] = "connected"]
  /\ UNCHANGED <<crypto, starts, ipc, file, opened, entry, known, starting, native, again, exit>>

\* acceptor: from now on what s sends goes to this peer.  select! takes any
\* branch that is ready, so that a peer can be preferred to a stop.
Accept(s) ==
  /\ Up(s) /\ ipc[s] \in {"accepting", "told"}
  /\ \E c \in backlog[s] :
       /\ backlog' = [backlog EXCEPT ![s] = @ \ {c}]
       /\ entry' = [entry EXCEPT ![s] = c]
  /\ opened' = [opened EXCEPT ![Proc[s]] = TRUE]
  /\ ipc' = [ipc EXCEPT ![s] = "turning"]
  /\ UNCHANGED <<py, starts, main, file, known, crypto, starting, native, again, exit>>

\* The loop waits again, for a stop as well.
Turn(s) ==
  /\ Up(s) /\ ipc[s] = "turning"
  /\ ipc' = [ipc EXCEPT ![s] = "accepting"]
  /\ UNCHANGED <<py, starts, main, file, backlog, opened, entry, known, crypto, starting, native,
                 again, exit>>

\* The loop hears of its stop, and its socket is gone.
LeaveIpc(s) ==
  /\ Up(s) /\ ipc[s] = "told"
  /\ ipc' = [ipc EXCEPT ![s] = "off"]
  /\ UNCHANGED <<py, starts, main, file, backlog, opened, entry, known, crypto, starting, native,
                 again, exit>>

-----------------------------------------------------------------------------
(* start: the server itself, and what it has to say. *)

\* install_default().unwrap(): the second thread of http3 in a process panics.
Panics(s) == s \in Http3 /\ Proc[s] \in crypto

\* A thread for the server's start.
StartNative(s) ==
  /\ Free(s) /\ py[s] = "connected"
  /\ py' = [py EXCEPT ![s] = "started"]
  /\ crypto' = IF s \in Http3 THEN crypto \cup {Proc[s]} ELSE crypto
  /\ starting' = IF Panics(s) THEN starting ELSE [starting EXCEPT ![s] = @ + 1]
  /\ UNCHANGED <<starts, main, ipc, file, backlog, opened, entry, known, native, again, exit>>

\* Mutation of Send: UDS_STREAMS is created with the process.
SendEager(s) ==
  IF s \in known /\ entry[s] = NoServer THEN Exits(s, "send") ELSE UNCHANGED exit

\* uds.send, by way of <X>_UDS_MAP: lost if no peer was ever accepted in this
\* process, the end of the process if only those of other servers were.
Send(s) ==
  IF s \in known /\ opened[Proc[s]] /\ entry[s] = NoServer THEN Exits(s, "send")
                                                            ELSE UNCHANGED exit

\* A server of this machine has the port of s: another one, or s by a thread that
\* has not left it.
Held(s) == \E t \in Server : Up(t) /\ Port[t] = Port[s] /\ native[t] \in {"running", "told"}

\* A thread of s gets its port, says so, and enters its loop.
Announce(s) ==
  /\ Up(s) /\ starting[s] > 0 /\ ~Held(s)
  /\ starting' = [starting EXCEPT ![s] = @ - 1]
  /\ native' = [native EXCEPT ![s] = "running"]
  /\ Send(s)
  /\ UNCHANGED <<py, starts, main, ipc, file, backlog, opened, entry, known, crypto, again>>

PortInUse(s) ==
  /\ Up(s) /\ starting[s] > 0
  /\ Held(s) \/ Port[s] \in Foreign
  /\ starting' = [starting EXCEPT ![s] = @ - 1]
  /\ Exits(s, "port")
  /\ UNCHANGED <<py, starts, main, ipc, file, backlog, opened, entry, known, crypto, native, again>>

\* A request comes in, or something is logged, by a handler that outlives the loop,
\* too; and a client that is accepted can be preferred to a stop.
Say(s) ==
  /\ Up(s) /\ native[s] /= "off"
  /\ \E preferred \in BOOLEAN :
       native' = [native EXCEPT ![s] = IF @ = "told" /\ preferred THEN "running" ELSE @]
  /\ Send(s)
  /\ UNCHANGED <<py, starts, main, ipc, file, backlog, opened, entry, known, crypto, starting, again>>

\* The loop hears of its stop, and the port is free; then its last handler ends.
LeavePort(s) ==
  /\ Up(s) /\ native[s] \in {"told", "leaving"}
  /\ native' = [native EXCEPT ![s] = IF @ = "told" THEN "leaving" ELSE "off"]
  /\ UNCHANGED <<py, starts, main, ipc, file, backlog, opened, entry, known, crypto, starting, again,
                 exit>>

-----------------------------------------------------------------------------
(* stop and destroy. *)

\* Another task of the loop calls stop: both loops are told with notify_waiters,
\* which reaches only one that waits.  That of the Unix socket does but while it
\* turns, that of the server but while a client is accepted; a thread that has no
\* port yet does not, and if start has not come to it yet it will be started all the
\* same.  Then the object closes its end of the connection.
Stop(s) ==
  /\ Free(s) /\ py[s] \in {"connected", "started"}
  /\ ipc' = [ipc EXCEPT ![s] = IF @ = "accepting" THEN "told" ELSE @]
  /\ \E waits \in BOOLEAN :
       native' = [native EXCEPT ![s] = IF @ = "running" /\ waits THEN "told" ELSE @]
  /\ py' = [py EXCEPT ![s] = IF @ = "started" THEN "stopped" ELSE @]
  /\ UNCHANGED <<starts, main, file, backlog, opened, entry, known, crypto, starting, again, exit>>

\* Mutation of Destroy: every server's socket is left behind.
DestroyServer(s) ==
  /\ Free(s) /\ py[s] \in {"new", "connected", "started", "stopped"}
  /\ py' = [py EXCEPT ![s] = "destroyed"]
  /\ UNCHANGED <<starts, main, ipc, file, backlog, opened, entry, known, crypto, starting, native,
                 again, exit>>

\* __del__, with or without a stop: the server goes from both maps; wt_destroy
\* leaves WT_UDS_MAP alone.
Destroy(s) ==
  /\ Free(s) /\ py[s] \in {"new", "connected", "started", "stopped"}
  /\ py' = [py EXCEPT ![s] = "destroyed"]
  /\ known' = IF s \in Wt THEN known ELSE known \ {s}
  /\ UNCHANGED <<starts, main, ipc, file, backlog, opened, entry, crypto, starting, native, again,
                 exit>>

-----------------------------------------------------------------------------
\* The thread of uds.start, and those of <X>::start.
Ipc(s) == CheckPath(s) \/ RemoveFile(s) \/ Bind(s) \/ Accept(s) \/ Turn(s) \/ LeaveIpc(s)
Native(s) == Announce(s) \/ PortInUse(s) \/ LeavePort(s)
Object(s) == StartIpc(s) \/ Stop(s) \/ Destroy(s)

Next ==
  \E s \in Server : Ipc(s) \/ Native(s) \/ Connect(s) \/ StartNative(s) \/ Say(s) \/ Object(s)

Spec == Init /\ [][Next]_vars

\* Threads run, and a start that has begun goes on; nobody has to start or stop a
\* server.
FairSpec ==
  /\ Spec
  /\ \A s \in Server : WF_vars(Ipc(s)) /\ WF_vars(Native(s)) /\ WF_vars(Connect(s) \/ StartNative(s))

-----------------------------------------------------------------------------
(* What is promised. *)

TypeOK ==
  /\ py \in [Server -> {"new", "binding", "connected", "started", "stopped", "destroyed"}]
  /\ starts \in 0..MaxStarts
  /\ main \in [Process -> Server \cup {NoServer}]
  /\ ipc \in [Server -> {"off", "check", "remove", "bind", "accepting", "told", "turning"}]
  /\ file \in Server \cup {NoServer}
  /\ backlog \in [Server -> SUBSET Server]
  /\ opened \in [Process -> BOOLEAN]
  /\ entry \in [Server -> Server \cup {NoServer}]
  /\ known \subseteq Server /\ crypto \subseteq Process
  /\ starting \in [Server -> Nat]
  /\ native \in [Server -> {"off", "running", "told", "leaving"}]
  /\ again \subseteq Server
  /\ exit \in [Process -> [by : Server \cup {NoServer},
                           why : {"none", "remove", "bind", "send", "port"}]]

\* The peer that a server sends to is its own object, or that of a server of
\* another process: the one path that five classes share lets no two servers of
\* one process be crossed, as start_ipc blocks the loop until the path is bound.
\* (main.py start, lib.rs http1_start_ipc, uds.rs start.)
CrossedBetweenProcesses ==
  \A t \in Server : \A s \in backlog[t] \cup ({entry[t]} \ {NoServer}) :
    s = t \/ Proc[s] /= Proc[t]

\* What ends a process, other than a port or a directory that others keep from it,
\* is a race of its servers: with a start in another process for the path; with
\* the peers of the same process, by speaking before the own one is accepted; for
\* the port with a server that was given the same one, or with the thread of its own
\* that an earlier start has left behind.  A server that is started once, on a port
\* of its own, is never told that its port is in use.
ExitsAreRaces ==
  \A p \in Process : LET e == exit[p] IN
    /\ e.why \in {"remove", "bind"} =>
         p \in Barred \/ \E t \in Server : Proc[t] /= p /\ py[t] /= "new"
    /\ e.why = "send" => \E t \in Server \ {e.by} : Proc[t] = p /\ entry[t] /= NoServer
    /\ e.why = "port" =>
         \/ Port[e.by] \in Foreign \/ e.by \in again
         \/ \E t \in Server \ {e.by} : Port[t] = Port[e.by] /\ py[t] /= "new"

\* A destroyed server ends nothing any more by what it says, but for WebTransport's,
\* which can still be heard and end the process when it is (wt_destroy,
\* lib.rs:2656); it does so only by a thread of its start that comes late to its
\* port.
DestroyedIsSilent ==
  [][\A s \in Server : py[s] = "destroyed" /\ s \notin Wt /\ starting[s] = 0
       => exit'[Proc[s]] = exit[Proc[s]] \/ exit'[Proc[s]].by /= s]_vars

\* start_ipc, which blocks the loop of its process, returns.
StartReturns ==
  \A s \in Server : main[Proc[s]] = s ~> main[Proc[s]] /= s \/ ~Up(s)

=============================================================================
