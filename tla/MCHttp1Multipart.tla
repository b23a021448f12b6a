---------------------------- MODULE MCHttp1Multipart ----------------------------
(* Http1Multipart for TLC: forms of up to three parts, files and fields, empty, *)
(* blank, short, over each limit, with a character of two bytes, with a byte in *)
(* their data that a boundary begins with, and with names that are in the way   *)
(* of others.                                                                   *)
EXTENDS Http1Multipart

File(data) == [file |-> TRUE, keys |-> "array", data |-> data]
Field(data) == [file |-> FALSE, keys |-> "array", data |-> data]
Named(keys, part) == [part EXCEPT !.keys = keys]

MCByte == {"cr", "lf", "-", "x", "a", "b", "c", "d", "e", " ", "l", "t"} \cup Headers
MCBoundary == <<"-", "x">>

Some == {File(<<"a", "b", "c">>), File(<<"a", "-">>), File(<<>>),
         Field(<<"d", "e">>), Field(<<>>), Field(<<"l", "t", "d">>), Field(<<" ">>)}
Others == {File([k \in 1..4 |-> "a"]), File([k \in 1..5 |-> "a"]), Field(<<"d", "d", "d", "d">>)}
          \cup {Named(keys, p) : keys \in {"object", "panic"},
                                p \in {File(<<"a">>), Field(<<"d">>), Field(<<" ">>)}}

MCForm == {<<p>> : p \in Some} \cup {<<p, q>> : p \in Some, q \in Some \cup Others}
          \cup {<<Field(<<"d">>), Field(<<"e">>), p>> : p \in Some}

=============================================================================
