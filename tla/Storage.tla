------------------------------ MODULE Storage ------------------------------
(***************************************************************************)
(* What Resource::Update, SaveMeta and LoadMeta do with one resource, call *)
(* by call, on top of File, FilterSHA1, SHA1 and Json: the attic copy that *)
(* is named after its digest and the metadata file.  The disk may be full, *)
(* an open may fail and the process may die at any call.                   *)
(***************************************************************************)
EXTENDS Digest, JsonTree, FileHandle

CONSTANTS
  Pages,       \* the documents libxml2 may be asked to save, as octets
  FirstMeta,   \* what the metadata file may hold when the server starts
  Buf,         \* cells Json::Parse reads at a time, 1024 bytes
  FreeVars,    \* variables and keys of the program that makes any calls
  FreeKeys,    \* of Json
  FreeHandles, \* objects of the program that makes any calls of File
  FreeChunks,  \* pieces for the program that makes any calls of SHA1
  MaxMessage,  \* bound: octets of its messages
  MaxFile,     \* bound: cells of the files of the one that calls File
  MaxLive,     \* bound: values alive in the program that calls Json
  MaxRequests  \* bound: requests until the end

ASSUME StorageAssumption ==
  /\ {"rand", "in", "out"} \cup FreeHandles \subseteq Handle
  /\ {"meta", "tmp", "raw"} \cup FreeVars \subseteq Var
  /\ Pages \cup FreeChunks \subseteq Seq(Octet)
  /\ Buf \in Nat
  /\ \A first \in FirstMeta \ {None} :
       /\ first \in Seq([k : STRING, v : Nat])
       /\ \A i \in DOMAIN first : first[i].k = "}" => first[1] = [k |-> "{", v |-> 0]

VARIABLES
  pc,       \* the call that comes next
  goal,     \* what LoadMeta was called for: "load" or "save"
  left,     \* what libxml2 has not written yet
  m_meta,   \* Resource::m_meta, or None
  field,    \* the number of the metadata field that comes next
  tok,      \* the tokener: its error and what it has of a document, or
            \* "unopened" where File's constructor threw before it was made
  stored,   \* the metadata on disk, as a reader should see them (history)
  requests  \* requests so far

handlerVars == <<pc, goal, left, m_meta, field, tok, stored, requests>>
vars == <<digestVars, jsonVars, fileVars, handlerVars>>

(* Numbers stand for the fields' values: 0 is what Meta's constructor and  *)
(* a missing member leave, 1 what LoadMeta deduces.                        *)
Field == <<"last-modified", "name", "type", "sequence">>
Meta == [Range(Field) -> Nat]
NoMeta == [k \in Range(Field) |-> 0]
Deduced(meta) ==
  [k \in Range(Field) |-> IF k # "sequence" /\ meta[k] = 0 THEN 1 ELSE meta[k]]

(* A JSON document, cut between any two of its cells.                      *)
Bra == [k |-> "{", v |-> 0]
Ket == [k |-> "}", v |-> 0]
Space == [k |-> " ", v |-> 0]
Cells(fields, key) == IF key \in DOMAIN fields THEN <<[k |-> key, v |-> fields[key]]>> ELSE <<>>
Text(fields) ==
  <<Bra>> \o Cells(fields, Field[1]) \o Cells(fields, Field[2])
          \o Cells(fields, Field[3]) \o Cells(fields, Field[4]) \o <<Ket>>
FieldsOf(cells) ==
  [k \in {cells[i].k : i \in DOMAIN cells} \ {"{", "}", " "} |->
     (CHOOSE c \in Range(cells) : c.k = k).v]
Whole(cells) == cells # <<>> /\ cells[1] = Bra /\ Ket \in Range(cells)

(* The metadata that a file gives its reader: its fields, and deduced ones *)
(* for those it lacks.                                                     *)
Said(cells) ==
  Deduced([k \in Range(Field) |->
     IF Whole(cells) /\ k \in DOMAIN FieldsOf(cells) THEN FieldsOf(cells)[k] ELSE 0])

(* The file lacks a field and has one that LoadMeta looks for later.       *)
Gap(cells) ==
  \E i, j \in DOMAIN Field :
    i < j /\ Field[i] \notin DOMAIN FieldsOf(cells) /\ Field[j] \in DOMAIN FieldsOf(cells)

MetaPath == <<"meta", 0>>
TmpPath == {<<"tmp", n>> : n \in 1 .. MaxRequests}
ShaPath(hash) == <<"sha", hash>>
OnDisk == IF MetaPath \in DOMAIN disk THEN disk[MetaPath] ELSE <<>>

Init ==
  /\ DigestInit /\ JsonInit
  /\ pc \in {"idle", "json", "sha", "file"}
  /\ \E first \in IF pc = "idle" THEN FirstMeta ELSE {None} :
       /\ FileInit(IF first = None THEN <<>> ELSE [p \in {MetaPath} |-> first])
       /\ stored = IF first = None THEN Deduced(NoMeta) ELSE Said(first)
  /\ goal = "load" /\ left = <<>> /\ m_meta = None /\ field = 1
  /\ tok = [err |-> "success", have |-> <<>>]
  /\ requests = 0

Goto(label) == pc' = label
Stay == UNCHANGED <<goal, left, m_meta, field, tok, stored, requests>>

------------------------------------------------------------------------------
(* Resource::Update. *)
Update ==
  /\ pc = "idle" /\ requests < MaxRequests
  /\ \E page \in Pages : left' = page
  /\ OpenRandom("rand", TmpPath)
  /\ Reset
  /\ requests' = requests + 1
  /\ Goto("dump")
  /\ UNCHANGED <<jsonVars, goal, m_meta, field, tok, stored>>

\* mutant: what was given is hashed, not what was taken
WriteHashedAll(data, count) ==
  /\ Write("rand", data, count, 0)
  /\ left' = SubSeq(left, count + 1, Len(left))
  /\ IF count > 0 THEN Input(data) ELSE UNCHANGED digestVars
  /\ UNCHANGED <<jsonVars, goal, m_meta, field, tok, stored, requests>>

(* libxml2 hands the first n octets it has to Doc::WriteCallback and keeps *)
(* what is not taken; when it closes the buffer it tries only once.        *)
(* FilterSHA1::write passes them to File::write and hashes what was taken. *)
WriteHashed(data, count) ==
  /\ Write("rand", data, count, 0)
  /\ left' = SubSeq(left, count + 1, Len(left))
  /\ IF count > 0 THEN Input(SubSeq(data, 1, count)) ELSE UNCHANGED digestVars
  /\ UNCHANGED <<jsonVars, goal, m_meta, field, tok, stored, requests>>
Dump ==
  /\ pc = "dump" /\ rest = <<>> /\ left # <<>>
  /\ \E n \in 1 .. Len(left) : LET data == SubSeq(left, 1, n) IN
       \E count \in Counts(data) : WriteHashed(data, count)
  /\ Goto(IF Refuses THEN "throw" ELSE "dump")
Flush ==
  /\ pc = "dump" /\ rest = <<>>
  /\ \E count \in Counts(left) :
       /\ WriteHashed(left, count)
       /\ Goto(IF Refuses /\ count > 0 THEN "throw" ELSE "result")

Hash ==
  /\ pc \in {"dump", "result", "throw"}
  /\ NextOctet \/ TooLong
  /\ UNCHANGED <<jsonVars, fileVars, handlerVars>>

TakeResult ==
  /\ pc \in {"result", "log"}
  /\ Result
  /\ IF pc = "result" THEN Goto("rename") /\ UNCHANGED fileVars
     ELSE Goto("idle") /\ Close("rand")
  /\ UNCHANGED jsonVars /\ Stay

(* The name is whatever SHA1::Result returned. *)
ToAttic ==
  /\ pc = "rename"
  /\ Rename(PathOf("rand"), ShaPath(IF ctx.corrupted # shaSuccess THEN <<>> ELSE ctx.hash))
  /\ Goto("log")
  /\ UNCHANGED <<digestVars, jsonVars>> /\ Stay

------------------------------------------------------------------------------
(* Resource::LoadMeta.  File's constructor throws when it cannot open the  *)
(* file, for whatever reason, and all the fields are deduced.              *)
LoadMeta(for) ==
  /\ pc = "idle" /\ requests < MaxRequests
  /\ requests' = requests + 1 /\ goal' = for
  /\ m_meta' = NoMeta /\ field' = 1
  /\ \/ /\ OpenForRead("in", MetaPath)
        /\ tok' = [err |-> "success", have |-> <<>>] /\ Goto("parse")
     \/ /\ OpenFails("in")
        /\ tok' = [err |-> "unopened", have |-> <<>>] /\ Goto("deduce")
  /\ UNCHANGED <<digestVars, jsonVars, left, stored>>

(* Json::Parse: one read of the source and json_tokener_parse_ex on it. *)
Scanned(cells) ==
  IF Range(cells) \subseteq {Space} THEN [err |-> "continue", have |-> <<>>]
  ELSE IF Ket \notin Range(cells) THEN [err |-> "continue", have |-> cells]
  ELSE [err |-> "success", have |-> <<>>]
Forget == lost' = lost \cup ({var["raw"]} \ {None}) /\ var' = [var EXCEPT !["raw"] = None]
Parse ==
  LET cells == tok.have \o Ahead("in", Buf)
  IN /\ pc = "parse"
     /\ Read("in", Buf)
     /\ IF ReadCount("in", Buf) = 0 THEN Goto("parsed") /\ UNCHANGED <<tok, jsonVars>>
        ELSE /\ tok' = Scanned(cells)
             /\ IF tok'.err = "success"
                THEN Tokenize("raw", FieldsOf(cells)) /\ Goto("parse")
                ELSE Forget /\ UNCHANGED <<heap, copies, puts>> /\ Goto("parsed")
     /\ UNCHANGED <<digestVars, goal, left, m_meta, field, stored, requests>>

(* Json( json, NotOwned() ) takes over the tokener's reference. *)
Parsed ==
  /\ pc = "parsed"
  /\ IF tok.err = "success" /\ InScope("raw")
     THEN /\ var' = [var EXCEPT !["raw"] = None, !["meta"] = var["raw"]]
          /\ UNCHANGED <<heap, copies, puts, lost>>
          /\ Goto("take")
     ELSE Goto("caught") /\ UNCHANGED jsonVars
  /\ UNCHANGED <<digestVars, fileVars>> /\ Stay

(* m_meta gets one field after the other; a missing one throws. *)
Take ==
  /\ pc = "take"
  /\ IF field <= Len(Field) /\ Member("meta", Field[field]) # {}
     THEN Subscript("tmp", "meta", Field[field]) /\ Goto("taken")
     ELSE Destroy("meta") /\ Goto("caught")
  /\ UNCHANGED <<digestVars, fileVars>> /\ Stay
Taken ==
  /\ pc = "taken"
  /\ m_meta' = [m_meta EXCEPT ![Field[field]] = heap[var["tmp"]].text]
  /\ field' = field + 1
  /\ Destroy("tmp")
  /\ Goto("take")
  /\ UNCHANGED <<digestVars, fileVars, goal, left, tok, stored, requests>>

Caught ==
  /\ pc = "caught"
  /\ Close("in")
  /\ Goto("deduce")
  /\ UNCHANGED <<digestVars, jsonVars>> /\ Stay

Deduce ==
  /\ pc = "deduce"
  /\ m_meta' = Deduced(m_meta)
  /\ Goto("loaded")
  /\ UNCHANGED <<digestVars, jsonVars, fileVars, goal, left, field, tok, stored, requests>>

(* The request ends, or SaveMeta goes on: the sequence number grows, the   *)
(* time becomes now (2) and the object is built.                           *)
Loaded ==
  /\ pc = "loaded"
  /\ IF goal = "load" THEN /\ m_meta' = None /\ Goto("idle")
                           /\ UNCHANGED <<jsonVars, field>>
     ELSE /\ m_meta' = [m_meta EXCEPT !["sequence"] = @ + 1, !["last-modified"] = 2]
          /\ NewObject("meta")
          /\ field' = 1 /\ Goto("value")
  /\ UNCHANGED <<digestVars, fileVars, goal, left, tok, stored, requests>>

------------------------------------------------------------------------------
(* Resource::SaveMeta, after LoadMeta: meta.Add( key, Json(value) ). *)
Make ==
  /\ pc = "value" /\ field <= Len(Field)
  /\ NewScalar("tmp", m_meta[Field[field]])
  /\ Goto("add")
  /\ UNCHANGED <<digestVars, fileVars>> /\ Stay
Add ==
  /\ pc = "add"
  /\ AddMember("meta", Field[field], "tmp")
  /\ Goto("added")
  /\ UNCHANGED <<digestVars, fileVars>> /\ Stay
Added ==
  /\ pc = "added"
  /\ Destroy("tmp")
  /\ field' = field + 1
  /\ Goto("value")
  /\ UNCHANGED <<digestVars, fileVars, goal, left, m_meta, tok, stored, requests>>

CreateMeta ==
  /\ pc = "value" /\ field > Len(Field)
  /\ OpenForWrite("out", MetaPath)
  /\ stored' = Deduced(NoMeta)
  /\ Goto("write")
  /\ UNCHANGED <<digestVars, jsonVars, goal, left, m_meta, field, tok, requests>>

(* Json::Write: one write, and its count is not looked at. *)
WriteMeta ==
  LET members == heap[var["meta"]].held
      text == Text([k \in DOMAIN members |-> heap[members[k]].text])
  IN /\ pc = "write"
     /\ \E count \in Counts(text) :
          /\ Write("out", text, count, Space)
          /\ stored' = IF count = Len(text) THEN m_meta ELSE stored
     /\ Goto("close")
     /\ UNCHANGED <<digestVars, jsonVars, goal, left, m_meta, field, tok, requests>>

CloseMeta ==
  /\ pc = "close"
  /\ Close("out")
  /\ Destroy("meta")
  /\ m_meta' = None
  /\ Goto("idle")
  /\ UNCHANGED <<digestVars, goal, left, field, tok, stored, requests>>

------------------------------------------------------------------------------
(* An exception leaves Update or SaveMeta, or the process is killed; the   *)
(* next process starts with nothing but the disk.                          *)
Die ==
  /\ pc \notin {"idle", "json", "sha", "file"}
  /\ CloseAll
  /\ heap' = [x \in Obj |-> Freed] /\ var' = [v \in Var |-> None]
  /\ copies' = <<>> /\ puts' = <<>> /\ lost' = {}
  /\ ctx' = ResetContext(ctx) /\ rest' = <<>> /\ msg' = <<>>
  /\ left' = <<>> /\ m_meta' = None
  /\ Goto("idle")
  /\ UNCHANGED <<goal, field, tok, stored, requests>>

(* Programs like the unit tests, which call one class in any order. *)
AnyJson ==
  /\ pc = "json" /\ JsonCall(FreeVars, FreeKeys)
  /\ Cardinality({x \in Obj : heap'[x].type # "freed"}) <= MaxLive
  /\ UNCHANGED <<digestVars, fileVars, handlerVars>>
AnySha ==
  /\ pc = "sha" /\ DigestNext(FreeChunks)
  /\ Len(msg') <= MaxMessage
  /\ UNCHANGED <<jsonVars, fileVars, handlerVars>>
AnyFile ==
  /\ pc = "file"
  /\ \E f \in FreeHandles :
       \/ OpenForRead(f, MetaPath) \/ OpenForWrite(f, MetaPath)
       \/ OpenRandom(f, TmpPath) \/ OpenFails(f) \/ Close(f)
       \/ Read(f, 1)
       \/ IsOpened(f) /\ \E count \in Counts(<<1, 1>>) :
            Offset(f) + count <= MaxFile /\ Write(f, <<1, 1>>, count, 0)
       \/ Seek(f, 0) \/ Seek(f, 3)
  /\ UNCHANGED <<digestVars, jsonVars, handlerVars>>

Handler ==
  \/ Update \/ Dump \/ Flush \/ Hash \/ TakeResult \/ ToAttic
  \/ LoadMeta("load") \/ LoadMeta("save") \/ Parse \/ Parsed \/ Take \/ Taken
  \/ Caught \/ Deduce \/ Loaded
  \/ Make \/ Add \/ Added \/ CreateMeta \/ WriteMeta \/ CloseMeta

Next ==
  \/ Release /\ UNCHANGED <<digestVars, fileVars, handlerVars>>
  \/ puts = <<>> /\ Handler
  \/ Die
  \/ AnyJson \/ AnySha \/ AnyFile

Spec == Init /\ [][Next]_vars

------------------------------------------------------------------------------
(* Every variable stays in its type, and the block index inside the block. *)
StoredTypeOK ==
  /\ ctx.index \in Cell /\ ctx.low \in 0 .. Word - 1 /\ ctx.high \in 0 .. Word - 1
  /\ ctx.corrupted \in {shaSuccess, shaNull, shaStateError}
  /\ \A x \in Obj : heap[x].refs \in Nat /\ heap[x].type \in Type \cup {"freed"}
  /\ var \in [Var -> Obj \cup {None}]
  /\ DOMAIN kernel \subseteq Fd /\ m_fd \in [Handle -> Fd \cup {NotOpen}]
  /\ m_meta \in Meta \cup {None} /\ stored \in Meta
  /\ field \in 1 .. Len(Field) + 1

(* A file that Update has given the name of a digest is named after its    *)
(* own content, however the document was cut into writes, with short       *)
(* writes, a last write whose rest is lost, and processes that die; the    *)
(* SHA-1 of any message the context accepts is the one of the standard.    *)
(* (A message of 2^64 bits or more has no digest.)                         *)
ArchiveNamed ==
  /\ \A path \in DOMAIN disk : path[1] = "sha" =>
       \/ IsPadding(path[2], disk[path])
       \/ OctetBits * Len(disk[path]) >= Word * Word
  /\ Digested

(* LoadMeta returns what the last SaveMeta stored whole, or what the first *)
(* file says, with the fields it lacks deduced; where a process died, the  *)
(* disk was full or the file cannot be opened it deduces every field, never*)
(* some.  This is for documents that Json::Parse gets in one read, and not *)
(* for a first file with a gap before one of its fields: there LoadMeta    *)
(* does not keep what its comment says, FieldsRead.                        *)
Answer == IF tok.err = "unopened" THEN Deduced(NoMeta) ELSE stored
MetaRead ==
  pc = "loaded" /\ Len(OnDisk) <= Buf /\ ~Gap(OnDisk) => m_meta = Answer

(* Resource.cc:195 says that LoadMeta tries to deduce the missing metadata *)
(* when the file does not contain a particular field, and gives the first  *)
(* one it looks for as an example: so the fields that the file has are the *)
(* reader's.                                                               *)
FieldsRead ==
  pc = "loaded" /\ Len(OnDisk) <= Buf => m_meta = Answer

(* The values of json-c and the descriptors live exactly as long as their  *)
(* owners, through every exception that LoadMeta catches.                  *)
NothingLeft == CountsExact /\ Owned

(* Json.cc:490 says of Json::Parse that it parses a file, and Json.cc:506  *)
(* that its loop looks for a parse error: so a whole document is parsed,   *)
(* however many reads it takes.                                            *)
WholeParsed ==
  pc = "parsed" /\ Whole(OnDisk) => tok.err = "success" /\ InScope("raw")
=============================================================================
