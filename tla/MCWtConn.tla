------------------------------- MODULE MCWtConn -------------------------------
(* WtConn for TLC. *)
EXTENDS WtConn
=============================================================================
