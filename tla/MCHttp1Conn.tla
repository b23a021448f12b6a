------------------------------ MODULE MCHttp1Conn ------------------------------
(* Http1Conn for TLC: requests without faults of every body type, and one of   *)
(* every kind of fault.  The body "dashed" ends in a dash.                     *)
EXTENDS Http1Conn

MCBodyType == [s \in Shape |->
  CASE s \in {"get", "badquery", "badkeys", "badcookie", "chunked"} -> "none"
    [] s \in {"json", "large", "badjson"} -> "json"
    [] s \in {"form", "badform", "badtext", "badnames"} -> "form"
    [] s \in {"multipart", "badfile"} -> "multipart"
    [] s = "dashed" -> "other"]

MCBodyLen == [s \in Shape |->
  CASE MCBodyType[s] = "none" -> 0
    [] s \in {"dashed", "large"} -> 1
    [] s = "multipart" -> 6
    [] OTHER -> 2]

MCFault == [s \in Shape |->
  CASE s = "badquery" -> "query"
    [] s = "badkeys" -> "querykeys"
    [] s = "badcookie" -> "cookie"
    [] s = "chunked" -> "chunked"
    [] s = "large" -> "large"
    [] s = "badnames" -> "bodykeys"
    [] s = "badtext" -> "utf8"
    [] s \in {"badjson", "badform", "badfile"} -> "body"
    [] OTHER -> "none"]

\* The multipart body: the head of its part, a character of two bytes, the line
\* break, the closing boundary.
MCCut == [s \in Shape |->
  [held |-> IF s = "dashed" THEN {1} ELSE {},
   char |-> IF s = "multipart" THEN {2} ELSE {},
   torn |-> IF s = "multipart" THEN {4} ELSE {},
   broken |-> IF s = "multipart" THEN {5} ELSE {}]]

=============================================================================
