----------------------------- MODULE Http1Multipart -----------------------------
(***************************************************************************)
(* read_multipart of src/tcp1/http1.rs: the reader of multipart/form-data  *)
(* bodies.  A body is                                                      *)
(*                                                                         *)
(*   boundary CR LF header CR LF CR LF data CR LF   for each part, then    *)
(*   boundary - - CR LF                                                    *)
(*                                                                         *)
(* and comes in reads that may end anywhere.  Every call consumes all that *)
(* it can: data without a boundary behind it goes to the part's file or    *)
(* field at once, unless the buffer ends like a boundary begins.           *)
(*                                                                         *)
(* The header of a part is one byte here, for its kind and for what        *)
(* set_keys makes of its name behind the names before it; every file has a *)
(* file name, and no header is one that read_meta cannot read.  The other  *)
(* bytes are "cr", "lf", "-" and those of a boundary and of data.          *)
(***************************************************************************)
EXTENDS Naturals, Sequences, SequencesExt, FiniteSetsExt

CONSTANTS
  Byte,        \* what a body is made of
  Form,        \* the forms a client may send: sequences of parts
  Boundary,    \* what the client has chosen to separate them, the two dashes included
  BlockSize,   \* bound: the longest read
  AllowEmpty,  \* allow_empty_files
  MaxFileSize,    \* max_file_size_mb * 1024 * 1024, in bytes
  MaxFilesTotal,  \* max_files_size_total_mb * 1024 * 1024, in bytes
  MaxFieldsTotal, \* max_fields_size_total_mb * 1024 * 1024, in bytes
  MaxFiles,       \* max_files
  MaxFields,      \* max_fields: parts of any kind
  DiskSpace,   \* how many bytes of files the disk takes before a write fails
  Blank,       \* white space: what trim() takes off
  Lead, Trail, \* the first and the second byte of the characters that have two
  CleanReads   \* TRUE: no read happens to end at the line break before a boundary

\* keys: what set_keys comes to at the part's name: the array of its values; an
\* object, since another part has a name below it; or a panic, for a name of empty
\* brackets or one below an array.
Part == [file : BOOLEAN, keys : {"array", "object", "panic"}, data : Seq(Byte)]

\* The header of a part.
Header(part) ==
  IF part.file
    THEN [array |-> "file", object |-> "file in object", panic |-> "file in panic"][part.keys]
    ELSE [array |-> "field", object |-> "field in object", panic |-> "field in panic"][part.keys]

Headers == {"file", "field", "file in object", "field in object", "file in panic", "field in panic"}

ASSUME MultipartAssumption ==
  /\ {"cr", "lf", "-"} \cup Headers \subseteq Byte
  /\ Form \subseteq Seq(Part)
  /\ Boundary \in Seq(Byte) /\ Boundary /= <<>>
  /\ \A i \in 1..Len(Boundary) : Boundary[i] \notin {"cr", "lf"}
  \* A client chooses a boundary that its data does not have in it.
  /\ \A f \in Form : \A k \in 1..Len(f) : \A i \in 1..(Len(f[k].data) - Len(Boundary) + 1) :
       SubSeq(f[k].data, i, i + Len(Boundary) - 1) /= Boundary
  /\ BlockSize \in Nat \ {0}
  /\ {MaxFileSize, MaxFilesTotal, MaxFieldsTotal, MaxFiles, MaxFields, DiskSpace} \subseteq Nat
  /\ AllowEmpty \in BOOLEAN /\ CleanReads \in BOOLEAN

Break == <<"cr", "lf">>
Final == <<"-", "-">> \o Break

PartBytes(part) ==
  Boundary \o Break \o <<Header(part)>> \o Break \o Break
  \o part.data \o Break

BodyBytes(form) == FlattenSeq([k \in 1..Len(form) |-> PartBytes(form[k])]) \o Boundary \o Final

VARIABLES
  form,        \* what the client sends
  wire,        \* the bytes of its body not read yet
  req,         \* the fields of Http1Req that read_multipart uses
  upload       \* "read", "parse", "done", "refused", "garbled", "unwritten", "invalid",
               \* "panicked"

uploadVars == <<form, wire, req, upload>>

UploadInit ==
  /\ form \in Form
  /\ wire = BodyBytes(form)
  /\ req = [buff |-> <<>>, size |-> 0, length |-> Len(BodyBytes(form)), skip |-> 0,
            isWrite |-> FALSE, keys |-> "none", disk |-> <<>>, body |-> <<>>,
            files |-> 0, filesTotal |-> 0, fields |-> 0, fieldsTotal |-> 0,
            parts |-> <<>>]
  /\ upload = "read"

Drop(buff, n) == SubSeq(buff, n + 1, Len(buff))
Take(buff, n) == SubSeq(buff, 1, n)

\* position(|w| w == pattern) from an index on, or 0.
Find(buff, pattern, from) ==
  LET found == {k \in from..(Len(buff) - Len(pattern) + 1) :
                  SubSeq(buff, k, k + Len(pattern) - 1) = pattern}
  IN  IF found = {} THEN 0 ELSE Min(found)

Result(tag, r) == [tag |-> tag, req |-> r]
Invalid(r) == Result("invalid", [r EXCEPT !.buff = <<>>])

\* Mutation of Refused: the bytes just dropped are taken off size twice.
RefusedTwice(r, n) ==
  Result("refused", [r EXCEPT !.buff = Drop(@, n), !.skip = r.length - r.size - n])

\* The pattern of the refusals: drop what was counted, skip the rest.
Refused(r, n) == Result("refused", [r EXCEPT !.buff = Drop(@, n), !.skip = r.length - r.size])

-----------------------------------------------------------------------------
(* The parts. *)

\* str::from_utf8: no character is cut.
IsText(q) ==
  \A i \in 1..Len(q) :
    /\ q[i] \in Lead => i < Len(q) /\ q[i + 1] \in Trail
    /\ q[i] \in Trail => i > 1 /\ q[i - 1] \in Lead

\* trim().is_empty().
IsBlank(q) == \A i \in 1..Len(q) : q[i] \in Blank

\* set_file: into the array that read_meta made for the part's name.
SetFile(r) == [r EXCEPT !.parts = Append(@, [file |-> TRUE, data |-> r.disk]), !.isWrite = FALSE]

\* Mutation of SetBody: only the last chunk.
SetBodyLast(r, chunk) ==
  [r EXCEPT !.body = chunk, !.parts = Append(@, [file |-> FALSE, data |-> chunk])]

\* set_body: a field of white space is not stored.
SetBody(r, chunk) ==
  LET all == r.body \o chunk
  IN  [r EXCEPT !.body = all,
                !.parts = IF IsBlank(all) THEN @ ELSE Append(@, [file |-> FALSE, data |-> all])]

\* The chunk goes to the file's path or counts as a field's bytes.
WriteFile(r, chunk) ==
  [r EXCEPT !.disk = @ \o chunk, !.filesTotal = @ + Len(chunk)]
Note(r, chunk) ==
  [r EXCEPT !.fieldsTotal = @ + Len(chunk)]
FileTooLarge(r) == Len(r.disk) > MaxFileSize \/ r.filesTotal > MaxFilesTotal
DiskFull(r) == r.filesTotal > DiskSpace

\* The n bytes before a boundary, their line break not counted, end a part.
\* n - 2 is unsigned arithmetic.  A file that cannot be written, a part whose keys
\* lead to no array of its kind and a field that is no text are refused.
EndPart(r, n) ==
  LET counted == [r EXCEPT !.size = @ + n]
      chunk == Take(r.buff, n - 2)
      filed == WriteFile(counted, chunk)
      noted == Note(counted, chunk)
      noFile == \/ ~AllowEmpty /\ chunk = <<>>
                \/ FileTooLarge(filed) \/ DiskFull(filed)
                \/ r.keys /= "file"
      noField == \/ noted.fieldsTotal > MaxFieldsTotal
                 \/ ~IsText(chunk)
                 \/ ~IsBlank(r.body \o chunk) /\ r.keys /= "field"
  IN  IF r.size + n >= r.length THEN Invalid(r)
      ELSE IF n < 2 THEN Result("panicked", r)
      ELSE IF r.isWrite
        THEN IF noFile THEN Refused(filed, n)
                       ELSE Result("some", SetFile([filed EXCEPT !.buff = Drop(@, n)]))
      ELSE IF noField THEN Refused(noted, n)
      ELSE Result("some", SetBody([noted EXCEPT !.buff = Drop(@, n)], chunk))

OfFile == {"file", "file in object", "file in panic"}
OfPanic == {"file in panic", "field in panic"}

\* What set_keys leaves for the part's value to go to.
KeysOf(header) == IF header \in {"file", "field"} THEN header ELSE "object"

\* read_meta and the n bytes it takes: a file part gets a new path to write to;
\* a field part leaves is_write as it is.  set_keys comes last.
ReadMeta(r, n, header) ==
  LET file == header \in OfFile
      counted == [r EXCEPT !.fields = @ + 1, !.body = IF r.fields < MaxFields THEN <<>> ELSE @,
                           !.files = IF file THEN @ + 1 ELSE @]
      rest == [counted EXCEPT !.buff = Drop(@, n), !.keys = KeysOf(header)]
  IN  IF counted.fields > MaxFields \/ counted.files > MaxFiles THEN Refused(counted, n)
      ELSE IF header \in OfPanic THEN Result("panicked", counted)
      ELSE Result("some", IF file THEN [rest EXCEPT !.disk = <<>>, !.isWrite = TRUE] ELSE rest)

\* The buffer begins with a boundary: the end of the body, or a part's header.
AtBoundary(r) ==
  LET last == Len(Boundary) + Len(Final)
      lineEnd == Find(r.buff, Break, 1)
      metaEnd == Find(r.buff, Break \o Break, lineEnd + 2)
  IN  IF IsPrefix(Boundary \o Final, r.buff)
        THEN IF r.size + last > r.length THEN Invalid(r)
             ELSE Result("done", [r EXCEPT !.size = @ + last, !.buff = Drop(@, last)])
      ELSE IF lineEnd = 0 \/ metaEnd = 0 THEN Result("none", r)
      ELSE IF r.size + metaEnd + 3 >= r.length THEN Invalid(r)
      ELSE ReadMeta([r EXCEPT !.size = @ + metaEnd + 3], metaEnd + 3, r.buff[lineEnd + 2])

\* What is left has no boundary in it: data of the current part.  When a file
\* cannot be written or the chunk is no text, its bytes stay in the buffer although
\* size counts them; skip is not set in the first case.
Data(r) ==
  LET n == Len(r.buff)
      counted == [r EXCEPT !.size = @ + n]
      filed == WriteFile(counted, r.buff)
      noted == Note(counted, r.buff)
  IN  IF n = 0 THEN Result("none", r)
      ELSE IF r.size + n >= r.length THEN Invalid(r)
      ELSE IF r.isWrite
        THEN IF FileTooLarge(filed) THEN Refused(filed, n)
             ELSE IF DiskFull(filed) THEN Result("unwritten", filed)
             ELSE Result("none", [filed EXCEPT !.buff = <<>>])
      ELSE IF noted.fieldsTotal > MaxFieldsTotal THEN Refused(noted, n)
      ELSE IF ~IsText(r.buff)
        THEN Result("garbled", [noted EXCEPT !.skip = r.length - noted.size])
      ELSE Result("none", [noted EXCEPT !.body = @ \o r.buff, !.buff = <<>>])

\* What is done about the first boundary in the buffer.
Round(r) ==
  LET start == Find(r.buff, Boundary, 1)
      ended == IF start > 1 THEN EndPart(r, start - 1) ELSE Result("some", r)
  IN  IF start = 0 THEN Data(r)
      ELSE IF ended.tag = "some" THEN AtBoundary(ended.req) ELSE ended

\* The loop over the boundaries in the buffer.  A round that is followed by
\* another takes something off the buffer.
Parts(r) ==
  LET rounds[k \in 0..(Len(r.buff) + 1)] ==
        IF k = 0 THEN Result("some", r)
        ELSE LET last == rounds[k - 1]
             IN  IF last.tag = "some" THEN Round(last.req) ELSE last
  IN  rounds[Len(r.buff) + 1]

\* Mutation of MayBeBoundary: a boundary cut in two is not waited for.
MayBeBoundaryNever(buff) == FALSE

\* endings: the buffer ends like a boundary begins.
MayBeBoundary(buff) ==
  \E i \in 1..(Len(Boundary) - 1) : IsSuffix(Take(Boundary, i), buff)

ReadMultipart(r) == IF MayBeBoundary(r.buff) THEN Result("none", r) ELSE Parts(r)

-----------------------------------------------------------------------------
(* The connection's reads and calls. *)

\* A read that ends before, in or after the line break before a boundary.
EndsAtBreak(n) ==
  \E b \in 0..2 :
    LET rest == SubSeq(Break, b + 1, 2) \o Boundary
    IN  /\ IsPrefix(rest, Drop(wire, n))
        /\ IsSuffix(Take(Break, b), req.buff \o Take(wire, n))

Read(n) ==
  /\ upload = "read"
  /\ n \in 1..BlockSize /\ n <= Len(wire)
  /\ CleanReads => ~EndsAtBreak(n)
  /\ req' = [req EXCEPT !.buff = @ \o Take(wire, n)]
  /\ wire' = Drop(wire, n)
  /\ upload' = "parse"
  /\ UNCHANGED form

Parse ==
  /\ upload = "parse"
  /\ LET r == ReadMultipart(req)
     IN  /\ req' = r.req
         /\ upload' = IF r.tag = "none" THEN "read" ELSE r.tag
  /\ UNCHANGED <<form, wire>>

UploadNext == Parse \/ \E n \in 1..BlockSize : Read(n)

UploadSpec == UploadInit /\ [][UploadNext]_uploadVars

-----------------------------------------------------------------------------
(* Properties. *)

\* What each part gives, one behind the other.
Gives(part) ==
  IF part.file \/ ~IsBlank(part.data) THEN <<[file |-> part.file, data |-> part.data]>> ELSE <<>>
Stored(f) == FlattenSeq([k \in 1..Len(f) |-> Gives(f[k])])
OfKind(f, file) == FlattenSeq([k \in 1..Len(f) |-> IF f[k].file = file THEN <<f[k]>> ELSE <<>>])
DataOf(f, file) == FlattenSeq([k \in 1..Len(f) |-> IF f[k].file = file THEN f[k].data ELSE <<>>])

\* The handler gets the form that was sent: every file and every field that is
\* not white space, each with its bytes, however the body is cut into reads.
FormIsWhole == upload = "done" => req.parts = Stored(form)

\* size counts what was taken off the buffer; after a refusal, skip is what is
\* still to come of this body, so that the connection finds the next request.  The
\* two ways to refuse a chunk and leave it in the buffer count it all the same: skip
\* is what is to come behind the buffer, and a write error does not even set it.
SkipIsRest ==
  /\ upload \in {"read", "parse", "done"} => req.size + Len(req.buff) + Len(wire) = req.length
  /\ upload = "refused" => req.skip = Len(req.buff) + Len(wire)
  /\ upload = "garbled" => req.skip = Len(wire)
  /\ upload = "unwritten" => req.size + Len(wire) = req.length

\* What the options, the names, the disk and the encoding refuse.
Refusable(f) ==
  \/ \E k \in 1..Len(f) :
       \/ f[k].file /\ (Len(f[k].data) > MaxFileSize \/ (~AllowEmpty /\ f[k].data = <<>>))
       \/ Gives(f[k]) /= <<>> /\ f[k].keys /= "array"
       \/ ~f[k].file /\ ~IsText(f[k].data)
  \/ Len(DataOf(f, TRUE)) > MaxFilesTotal \/ Len(DataOf(f, FALSE)) > MaxFieldsTotal
  \/ Len(DataOf(f, TRUE)) > DiskSpace
  \/ Len(OfKind(f, TRUE)) > MaxFiles \/ Len(f) > MaxFields

\* A field of the form can be cut within a character.
Breakable(f) ==
  \E k \in 1..Len(f) : /\ ~f[k].file
                       /\ \E i, j \in 0..Len(f[k].data) : ~IsText(SubSeq(f[k].data, i + 1, j))

\* set_keys panics on a name of the form.
Panics(f) == \E k \in 1..Len(f) : f[k].keys = "panic"

\* A form is read to its end only if nothing in it is to be refused, and refused
\* only if something is, or if a read cut a character of a field; the reader never
\* waits for more than the body has, only a name makes it panic, and no form is
\* taken for invalid.
FormIsRead ==
  /\ upload = "read" => wire /= <<>>
  /\ upload = "done" => ~Refusable(form) /\ ~Panics(form)
  /\ upload = "refused" => Refusable(form)
  /\ upload = "garbled" => Breakable(form)
  /\ upload = "unwritten" => Len(DataOf(form, TRUE)) > DiskSpace
  /\ upload = "panicked" => Panics(form)
  /\ upload /= "invalid"

=============================================================================
