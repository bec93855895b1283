------------------------------ MODULE FormData ------------------------------
(***************************************************************************)
(* FormData::Save: the parts of a posted form go from the stream parser to *)
(* files.  The stage is the parser's call under way; when it has returned, *)
(* Save looks at what the call put in its sink and makes the next one.     *)
(***************************************************************************)
EXTENDS StreamParser

CONSTANTS
  CR, LF, Dash,   \* the bytes of the form's structure
  Boundary,       \* m_boundary
  FileNames,      \* the bytes that stand for filename="..." in a header
  SinkCap,        \* the most a StringStream holds
  Forms           \* the forms that browsers post: their parts, and what
                  \* follows the boundary before each and behind the last

Delimiter == <<Dash, Dash>> \o Boundary
CRLF      == <<CR, LF>>
BlankLine == CRLF \o CRLF
EndOfPart == CRLF \o Delimiter

ASSUME FormAssumption ==
  /\ {CR, LF, Dash} \cup FileNames \subseteq Byte
  /\ Boundary \in Seq(Byte)
  /\ {Delimiter, BlankLine, EndOfPart} \subseteq Strings
  /\ 2 \in Counts
  /\ SinkCap \in Nat \ {0}
  /\ None \notin FileNames
  /\ Dash # CR

(* A posted form, as RFC 2388 has it: a part is its headers and a body, with*)
(* the rest of the form behind it.                                         *)
PartOf(p, rest) == CRLF \o (p.headers \o (BlankLine \o (p.body \o (EndOfPart \o rest))))

ASSUME FormsAssumption ==
  \A f \in Forms :
    /\ f.parts \in Seq([headers : Seq(Byte), body : Seq(Byte)])
    /\ f.rest \in [0 .. Len(f.parts) -> Seq(Byte)]
    /\ \A k \in 1 .. Len(f.parts) : f.rest[k - 1] = PartOf(f.parts[k], f.rest[k])
    /\ f.rest[Len(f.parts)] = <<Dash, Dash>> \o CRLF

Encode(f) == Delimiter \o f.rest[0]

VARIABLES
  stage,   \* which call Save is at, or how it ended
  name,    \* the file being written, None before the first
  saved    \* the files written so far, as records of File

form  == <<stage, name, saved>>
fvars == <<vars, form>>

Stage == {"start", "boundary", "ending", "headers", "file"}
Over  == {"done", "refused", "failed"}

-----------------------------------------------------------------------------
(* A StringStream keeps the first SinkCap bytes of what is written to it.  *)
Str == SubSeq(out, 1, Least(SinkCap, Len(out)))

(* The name in the headers' last filename parameter, or "outfile".         *)
FileNameUnset(headers) ==   \* mutant: the name of a part that has none
  LET places == {i \in 1 .. Len(headers) : headers[i] \in FileNames}
  IN IF places = {} THEN None
     ELSE headers[CHOOSE i \in places : \A j \in places : j <= i]

FileName(headers) ==
  LET places == {i \in 1 .. Len(headers) : headers[i] \in FileNames}
  IN IF places = {} THEN "outfile"
     ELSE headers[CHOOSE i \in places : \A j \in places : j <= i]

ReadUntilString(s) == Begin([op |-> "string", string |-> s])
ConsumeTwo == Begin([op |-> "consume", count |-> 2])

Ends(how) == stage' = how /\ UNCHANGED <<vars, name, saved>>

Returns(call_) == stage = call_ /\ pc = "idle"

ReadBoundary ==
  /\ Returns("start")
  /\ ReadUntilString(Delimiter)
  /\ stage' = "boundary" /\ UNCHANGED <<name, saved>>

(* Whatever is before the first boundary is an error.                      *)
CheckBoundaryNot ==   \* mutant: does not look at what is before the boundary
  /\ Returns("boundary")
  /\ ConsumeTwo /\ stage' = "ending" /\ UNCHANGED <<name, saved>>

CheckBoundary ==
  /\ Returns("boundary")
  /\ IF Str # <<>> THEN Ends("refused")
     ELSE ConsumeTwo /\ stage' = "ending" /\ UNCHANGED <<name, saved>>

(* A line end behind the boundary: one more part.                          *)
CheckEnding ==
  /\ Returns("ending")
  /\ IF Str = CRLF
       THEN ReadUntilString(BlankLine) /\ stage' = "headers" /\ UNCHANGED <<name, saved>>
       ELSE Ends("done")

(* Opening the file truncates it, or throws.                               *)
OpenFile ==
  /\ Returns("headers")
  /\ \/ /\ ReadUntilString(EndOfPart)
        /\ stage' = "file" /\ name' = FileName(Str) /\ UNCHANGED saved
     \/ Ends("failed")

(* What a file has got, and where in the input that was.                   *)
Written == [name |-> name, body |-> out, from |-> from, upto |-> taken]

CloseFileLast ==   \* mutant: the ending is not cleared, so no part follows
  /\ Returns("file")
  /\ saved' = Append(saved, Written)
  /\ stage' = "done" /\ UNCHANGED <<vars, name>>

CloseFile ==
  /\ Returns("file")
  /\ saved' = Append(saved, Written)
  /\ ConsumeTwo /\ stage' = "ending" /\ UNCHANGED name

(* The disk is full: File::write throws.                                   *)
WriteFails ==
  /\ stage = "file" /\ pc # "idle"
  /\ Ends("failed")

Parse == stage \in Stage /\ Run /\ UNCHANGED form
Save  == ReadBoundary \/ CheckBoundary \/ CheckEnding \/ OpenFile \/ CloseFile

FormInit == Init /\ stage = "start" /\ name = None /\ saved = <<>>
FormNext == Save \/ Parse \/ WriteFails

FormSpec == FormInit /\ [][FormNext]_fvars
FairFormSpec == FormSpec /\ WF_fvars(Save) /\ WF_fvars(Parse)

-----------------------------------------------------------------------------
(* The stage and the files stay in their types.                            *)
FormTypeOK ==
  /\ TypeOK
  /\ stage \in Stage \cup Over
  /\ name \in FileNames \cup {"outfile", None}
  /\ saved \in Seq([name : FileNames \cup {"outfile"}, body : Seq(Byte),
                    from : Nat, upto : Nat])

Begins(s, text) == Len(s) <= Len(text) /\ IsAt(s, 1, text)

(* Save writes files only for an input that begins with the boundary.      *)
OnlyForms ==
  stage \in {"headers", "file"} \/ saved # <<>> => Begins(Delimiter \o CRLF, input)

(* Nothing is written to a file but a piece of the input in its order, from*)
(* the end of some headers, however long they are, up to the end of a part *)
(* or of the input; no two files share a byte.                             *)
BehindHeaders(n) ==
  n = Len(input) \/ \E i \in 0 .. n : SubSeq(input, i + 1, n) = BlankLine
SavedInOrder ==
  \A k \in 1 .. Len(saved) :
    LET f == saved[k]
        text == SubSeq(input, f.from + 1, f.upto)
    IN /\ f.from <= f.upto /\ f.upto <= taken /\ BehindHeaders(f.from)
       /\ \/ text = f.body \o EndOfPart
          \/ text = f.body /\ f.upto = Len(input)
       /\ k < Len(saved) => f.upto <= saved[k + 1].from

FilesOf(parts) == [k \in 1 .. Len(parts) |->
                     [name |-> FileName(parts[k].headers), body |-> parts[k].body]]
SavedFiles == [k \in 1 .. Len(saved) |->
                     [name |-> saved[k].name, body |-> saved[k].body]]

(* What ends a part, or its headers, is not in them, and a carriage return *)
(* of theirs is harmless when that end is no further than a cache from it. *)
EndsPlainly(text, end) ==
  /\ \A i \in Hits(end, text \o end) : i = Len(text) + 1
  /\ \A i \in 1 .. Len(text) : text[i] = CR => Near(i, Len(text) + Len(end))
Clean(f) ==
  \A k \in 1 .. Len(f.parts) :
    /\ EndsPlainly(f.parts[k].headers, BlankLine) /\ EndsPlainly(f.parts[k].body, EndOfPart)
    /\ Len(f.parts[k].headers) <= SinkCap

(* Such a form is saved part by part, as it was posted.                    *)
CleanFormSaved ==
  stage \in {"done", "refused"} =>
    \A f \in Forms :
      input = Encode(f) /\ Clean(f) => stage = "done" /\ SavedFiles = FilesOf(f.parts)

(* A form, and each string in it, is found whole where nothing before the  *)
(* end looks like it from afar, however the cache cuts it (Save, ReadUntil)*)
CleanFound == CleanFormSaved /\ CleanStringFound

(* The code says "read the whole file" (FormData.cc:78) of every part.     *)
WholeFile ==
  stage = "done" =>
    \A f \in Forms : input = Encode(f) => SavedFiles = FilesOf(f.parts)

(* Save ends for every input.                                              *)
SaveEnds == <>(stage \in Over)
=============================================================================
