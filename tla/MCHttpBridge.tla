---------------------------- MODULE MCHttpBridge ----------------------------
(* HttpBridge for TLC: one operation on the first stream, two on the second. *)
EXTENDS HttpBridge

MCOpsOf == <<1, 2>>

=============================================================================
