------------------------------ MODULE MCLifecycle ------------------------------
(* Lifecycle for TLC: a server and a WebTransport server of one process, and *)
(* an HTTP 3.0 server of another, the last two on one port.                  *)
EXTENDS Lifecycle

MCProc == [s \in Server |-> IF s = "http3" THEN 2 ELSE 1]
MCPort == [s \in Server |-> IF s = "http" THEN "tcp" ELSE "udp"]

=============================================================================
