---------------------------- MODULE MCHttp1Response ----------------------------
(* Http1Response for TLC: a body as an attachment or not, a file that fits the *)
(* channel and one that does not, a file that is not there, a status code    *)
(* known and unknown, the end.                                                *)
EXTENDS Http1Response

Push(attach) == [kind |-> "push", size |-> 1, attach |-> attach]
File(blocks) == [kind |-> "file", size |-> blocks, attach |-> FALSE]
Missing == [kind |-> "missing", size |-> 0, attach |-> FALSE]
Code(n) == [kind |-> "code", size |-> n, attach |-> FALSE]
End == [kind |-> "end", size |-> 0, attach |-> FALSE]

MCOp == {Push(TRUE), Push(FALSE), File(2), File(4), Missing, Code(200), Code(999), End}

=============================================================================
