------------------------------- MODULE MCMuxConn -------------------------------
(* MuxConn for TLC: a request of every body type, one of every kind of fault,  *)
(* bodies without a length and of another length, an upload that does not fit  *)
(* the window of h2, frames that end where it matters, and responses that      *)
(* overflow the channel.                                                       *)
EXTENDS MuxConn

MCBodyType == [s \in Shape |->
  CASE s \in {"get", "lost", "badquery", "querykeys", "badlength"} -> "none"
    [] s \in {"json", "large", "nojson", "longer"} -> "json"
    [] s \in {"form", "noform", "badform", "shorter", "formkeys"} -> "form"
    [] s \in {"upload", "badfile", "nofile", "nodisk", "nolength", "cutchar",
              "cutbare", "cuttorn"} -> "multipart"
    [] s = "text" -> "other"]

MCChunks == [s \in Shape |->
  CASE MCBodyType[s] = "none" \/ s = "nofile" -> 0
    [] s \in {"upload", "nodisk", "cutchar"} -> 3
    [] s \in {"text", "large", "nojson", "formkeys"} -> 1
    [] OTHER -> 2]

MCLength == [s \in Shape |->
  CASE s \in {"noform", "nojson", "nolength", "text"} -> 0
    [] s = "longer" -> 3
    [] s = "shorter" -> 1
    [] OTHER -> MCChunks[s]]

MCFault == [s \in Shape |->
  CASE s = "lost" -> "path"
    [] s = "badquery" -> "query"
    [] s = "querykeys" -> "querykeys"
    [] s = "badlength" -> "length"
    [] s = "large" -> "large"
    [] s \in {"badfile", "badform"} -> "body"
    [] s = "formkeys" -> "bodykeys"
    [] s = "nofile" -> "unclosed"
    [] s = "nodisk" -> "disk"
    [] OTHER -> "none"]

MCCut == [s \in Shape |-> [c \in Cuts |->
  CASE s = "upload" /\ c = "held" -> {1}
    [] s = "cutchar" /\ c = "char" -> {2}
    [] s = "cutbare" /\ c = "bare" -> {1}
    [] s = "cuttorn" /\ c = "torn" -> {1}
    [] OTHER -> {}]]

MCOpsOf == [r \in 1..MaxReqs |-> IF r = 1 THEN 3 ELSE 1]

MCOp == {[kind |-> "push", attach |-> FALSE], [kind |-> "file", attach |-> TRUE],
         [kind |-> "code", attach |-> FALSE], [kind |-> "end", attach |-> FALSE]}

=============================================================================
