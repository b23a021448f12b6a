------------------------------ MODULE MCWsServer ------------------------------
(* WsServer for TLC: clients from two addresses, the first of which sends. *)
EXTENDS WsServer, TLC

CONSTANTS c1, c2

MCIp == c1 :> "10.0.0.1" @@ c2 :> "10.0.0.2"
MCMaxSent == c1 :> 2 @@ c2 :> 0

=============================================================================
