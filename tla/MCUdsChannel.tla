----------------------------- MODULE MCUdsChannel -----------------------------
(* UdsChannel for TLC: a message without and messages with a binary part, one   *)
(* of them larger than a client may send, and one without topic and payload.    *)
EXTENDS UdsChannel

MCJsonLen == [s \in Shape |-> 2]
MCBinLen ==
  [s \in Shape |-> CASE s \in {"text", "bare"} -> 0 [] s = "short" -> 1
                     [] s = "long" -> 3 [] s = "huge" -> 4]

=============================================================================
