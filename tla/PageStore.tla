------------------------------ MODULE PageStore ------------------------------
(***************************************************************************)
(* The request handlers of webwrite that change its files: RootServer's    *)
(* Save, Load, Upload and ServeMeta with the Resource methods they call.   *)
(* The worker threads run them at the same time with no lock, so every     *)
(* call into the file system is a step of its own; pc names the call a     *)
(* thread makes next.  An exception leaves main.cc's Thread uncaught and   *)
(* ends the process, as does a crash; the files stay.                      *)
(***************************************************************************)
EXTENDS FileSystem

CONSTANTS
  LibPage,       \* pages that exist as files of the library directory
  Original,      \* what the files of the initial site hold
  NoMeta,        \* the resource has not loaded its metadata
  NoReq,         \* the thread serves no request
  MaxFailures,   \* bound: the calls that fail without ending the process
  MaxRequests    \* bound: the requests received in one behaviour

ASSUME PageStoreAssumption ==
  /\ LibPage \subseteq Page
  /\ Original \in Content
  /\ MaxFailures \in Nat
  /\ NoMeta \notin [modified : Time, sequence : Nat]
  /\ NoFile \notin [modified : Time, sequence : Nat] \cup {Empty}
  /\ Empty \notin [modified : Time, sequence : Nat]

ASSUME PathAssumption ==
  /\ NoFile \notin File
  /\ NoFd \notin FilePath \cup MetaFile \cup {Orphan}
  /\ Orphan \notin FilePath \cup MetaFile

VARIABLES
  meta,      \* page -> its metadata file: a record, Empty or NoFile
  folder,    \* the pages whose parent directory exists below data/
  archive,   \* the contents kept as attic/<SHA1>
  server,    \* "up" or "down"
  pc,        \* thread -> the call it makes next
  req,       \* thread -> the request it serves
  seen,      \* thread -> Resource::m_meta of that request
  requests,  \* how many requests have been received
  short,     \* history: the threads whose copy of the page for the archive
             \*          was cut short by a failing write
  acked,     \* history: contents of the saves that have been answered
  solo,      \* history: no other request overlapped on this page so far,
             \*          and no call of this one failed
  failures,  \* how many calls have failed and gone unnoticed
  was        \* history: the page's body and sequence when the request came

files   == <<file, fd, meta, folder, archive>>
request == <<req, requests, was, short>>
faults  == <<solo, failures>>
vars    == <<now, files, server, pc, request, seen, acked, faults>>

-----------------------------------------------------------------------------
Meta    == [modified : Time, sequence : Nat]
Was     == [body : Body \cup {NoFile}, sequence : Nat]
Request == [op : {"save"}, page : Page, body : Content \cup {Empty}, to : {"data"}]
      \cup [op : {"load", "meta"}, page : Page, body : {Empty}, to : {"data"}]
      \cup [op : {"upload"}, page : Page, body : Content, to : {"data", "space"}]

ASSUME RequestAssumption == NoReq \notin Request

SaveLabel == {"loadmeta", "stat", "attic", "fopen", "dump", "update", "size",
              "metaopen1", "metawrite1", "resize", "metaopen2", "metawrite2",
              "remove", "removemeta"}
LoadLabel == {"find", "find20", "move20", "findspace", "movespace"}
Label == SaveLabel \cup LoadLabel
      \cup {"idle", "metaexists", "create", "copy", "reply"}

DataPath(p)     == <<"data", p, 0>>
AtticPath(p, m) == <<"attic", p, m>>
MetaPath(p)     == <<"meta", p, 0>>
PathOf(r)       == <<r.to, r.page, 0>>

Busy(t)   == pc[t] # "idle"
PageAt(t) == req[t].page
DataAt(t) == DataPath(PageAt(t))
BodyAt(path) == IF Exists(path) THEN file[path].body ELSE NoFile

SequenceOf(m) == IF m \in {NoFile, Empty} THEN 0 ELSE m.sequence
Found(p) == [body |-> BodyAt(DataPath(p)), sequence |-> SequenceOf(meta[p])]

At(t, here) == server = "up" /\ pc[t] = here
Goto(t, there) == pc' = [pc EXCEPT ![t] = there]

(* No try block is on the way from a handler to the end of the thread.     *)
Die ==
  /\ server' = "down"
  /\ pc' = [t \in Thread |-> "idle"]
  /\ req' = [t \in Thread |-> NoReq]
  /\ Crash
  /\ seen' = [t \in Thread |-> NoMeta]
  /\ solo' = [t \in Thread |-> FALSE]
  /\ was' = [t \in Thread |-> NoReq]
  /\ short' = {}
Throw == Die /\ UNCHANGED <<now, meta, folder, archive, requests, acked, failures>>

(* Any call may fail: no space, no permission, a file where a directory is *)
(* to be made.  Then it throws, unless it has an error code or a catch or  *)
(* nobody looks at its result: those have a disjunct with Fails(t) in the  *)
(* actions below.  MoveToAttic makes its directory before it calls         *)
(* LoadMeta, so that call throws at "loadmeta"; the others throw at the    *)
(* label of the file they make the directory for.                          *)
Throwing == Label \ {"idle", "stat", "attic", "dump", "reply"}
CallFails(t) == server = "up" /\ pc[t] \in Throwing /\ Throw

Fails(t) ==
  /\ failures < MaxFailures
  /\ failures' = failures + 1
  /\ solo' = [solo EXCEPT ![t] = FALSE]

(* What a write of body may leave when it is cut short.                    *)
Cut(body) == IF body = Empty THEN {} ELSE {Empty, Torn}

(* The calls that throw because of what they find on the disk: file_size() *)
(* of a missing file, a rename from a missing file or to a missing         *)
(* directory, and a new file in one.                                       *)
Source(t) == <<IF pc[t] = "move20" THEN "percent20" ELSE "space", PageAt(t), 0>>
Throws(t) ==
  \/ pc[t] \in {"size", "resize"} /\ ~Exists(DataAt(t))
  \/ pc[t] \in {"move20", "movespace"} /\ ~(Exists(Source(t)) /\ PageAt(t) \in folder)
  \/ pc[t] = "create" /\ PageAt(t) \notin folder

-----------------------------------------------------------------------------
(* Receiving a request: RootServer::Work hands it to its handler, and Save *)
(* and ServeMeta leave a library page alone.                               *)
Entry(r) ==
  CASE r.op = "save"   -> IF r.page \in LibPage THEN "reply" ELSE "loadmeta"
    [] r.op = "meta"   -> IF r.page \in LibPage THEN "reply" ELSE "metaexists"
    [] r.op = "load"   -> "find"
    [] r.op = "upload" -> "create"

Receive(t) ==
  /\ At(t, "idle")
  /\ requests < MaxRequests
  /\ \E r \in Request :
       /\ pc' = [pc EXCEPT ![t] = Entry(r)]
       /\ req' = [req EXCEPT ![t] = r]
       /\ was' = [was EXCEPT ![t] = Found(r.page)]
       /\ LET rivals == {u \in Thread : Busy(u) /\ PageAt(u) = r.page}
          IN solo' = [u \in Thread |-> IF u = t THEN rivals = {}
                                       ELSE solo[u] /\ u \notin rivals]
  /\ requests' = requests + 1
  /\ UNCHANGED <<now, files, server, seen, acked, short, failures>>

(* The answer.  For a save it is the redirect that tells the client that   *)
(* the page is saved; a library page gets it with nothing saved, and so    *)
(* does a page whose copy in the archive was cut short.                    *)
Confirmed(t) ==
  IF req[t].op = "save" /\ PageAt(t) \notin LibPage /\ t \notin short
    THEN {req[t].body} ELSE {}

Reply(t) ==
  /\ At(t, "reply")
  /\ acked' = acked \cup Confirmed(t)
  /\ Goto(t, "idle")
  /\ req' = [req EXCEPT ![t] = NoReq]
  /\ seen' = [seen EXCEPT ![t] = NoMeta]
  /\ solo' = [solo EXCEPT ![t] = FALSE]
  /\ was' = [was EXCEPT ![t] = NoReq]
  /\ short' = short \ {t}
  /\ UNCHANGED <<now, files, server, requests, failures>>

-----------------------------------------------------------------------------
(* Resource::LoadMeta, called by MoveToAttic and SaveMeta when m_meta is   *)
(* not set yet.  A file that is missing, cannot be opened or does not      *)
(* parse is ignored.                                                       *)
AfterLoadMetaNoAttic(t) ==   \* mutant: nothing is moved to the attic
  IF req[t].op = "save" THEN "fopen" ELSE "metaopen2"

AfterLoadMeta(t) == IF req[t].op = "save" THEN "attic" ELSE "metaopen2"

LoadMeta(t) ==
  /\ At(t, "loadmeta")
  /\ \/ /\ meta[PageAt(t)] \notin {NoFile, Empty}
        /\ seen' = [seen EXCEPT ![t] = meta[PageAt(t)]]
        /\ Goto(t, AfterLoadMeta(t))
        /\ UNCHANGED faults
     \/ /\ IF meta[PageAt(t)] \in {NoFile, Empty} THEN UNCHANGED faults ELSE Fails(t)
        /\ Goto(t, "stat")
        /\ UNCHANGED seen
  /\ UNCHANGED <<now, files, server, request, acked>>

(* No last-modified in the metadata: the time of the data file or the clock. *)
StatZero(t) ==   \* mutant: the missing time is left at zero
  /\ At(t, "stat")
  /\ seen' = [seen EXCEPT ![t] = [modified |-> 0, sequence |-> 0]]
  /\ Goto(t, AfterLoadMeta(t))
  /\ UNCHANGED <<now, files, server, request, acked, faults>>

Stat(t) ==
  /\ At(t, "stat")
  /\ \E time \in Time :
       /\ seen' = [seen EXCEPT ![t] = [modified |-> time, sequence |-> 0]]
       /\ \/ Exists(DataAt(t)) /\ time = file[DataAt(t)].mtime /\ UNCHANGED faults
          \/ ~Exists(DataAt(t)) /\ time = now /\ UNCHANGED faults
          \/ Fails(t) /\ time = now
  /\ Goto(t, AfterLoadMeta(t))
  /\ UNCHANGED <<now, files, server, request, acked>>

(* Resource::MoveToAttic: the rename's error is ignored, that of a missing *)
(* file and any other, after which the page itself will be truncated.      *)
MoveToAttic(t) ==
  /\ At(t, "attic")
  /\ \/ /\ Exists(DataAt(t))
        /\ Rename(DataAt(t), AtticPath(PageAt(t), seen[t].modified))
        /\ UNCHANGED faults
     \/ /\ IF Exists(DataAt(t)) THEN Fails(t) ELSE UNCHANGED faults
        /\ UNCHANGED <<file, fd>>
  /\ Goto(t, "fopen")
  /\ UNCHANGED <<now, meta, folder, archive, server, request, seen, acked>>

(* RootServer::FilterHTML: create_directories, then Doc::Save, which goes  *)
(* on without a word when fopen() or a write fails.                        *)
FopenFails(t) ==
  /\ Fails(t)
  /\ Goto(t, "update")
  /\ UNCHANGED <<file, fd>>

Fopen(t) ==
  /\ At(t, "fopen")
  /\ folder' = folder \cup {PageAt(t)}
  /\ \/ Create(t, DataAt(t)) /\ Goto(t, "dump") /\ UNCHANGED faults
     \/ FopenFails(t)
  /\ UNCHANGED <<now, meta, archive, server, request, seen, acked>>

Dump(t) ==
  /\ At(t, "dump")
  /\ \/ WriteClose(t, req[t].body) /\ UNCHANGED faults
     \/ Fails(t) /\ \E part \in Cut(req[t].body) : WriteClose(t, part)
  /\ Goto(t, "update")
  /\ UNCHANGED <<now, meta, folder, archive, server, request, seen, acked>>

(* Resource::Update writes a temporary file with a name of its own and     *)
(* renames it to the SHA1 of what it wrote, which may be a part of it.     *)
UpdateNotEmpty(t) ==   \* mutant: removals are not archived
  /\ At(t, "update")
  /\ archive' = archive \cup ({req[t].body} \ {Empty})
  /\ Goto(t, "size")
  /\ UNCHANGED <<now, file, fd, meta, folder, server, request, seen, acked, faults>>

UpdateInPlace(t) ==    \* mutant: the archive has one file, rewritten each time
  /\ At(t, "update")
  /\ archive' = {req[t].body}
  /\ Goto(t, "size")
  /\ UNCHANGED <<now, file, fd, meta, folder, server, request, seen, acked, faults>>

Update(t) ==
  /\ At(t, "update")
  /\ \/ archive' = archive \cup {req[t].body} /\ UNCHANGED <<short, faults>>
     \/ /\ Fails(t)
        /\ \E part \in Cut(req[t].body) : archive' = archive \cup {part}
        /\ short' = short \cup {t}
  /\ Goto(t, "size")
  /\ UNCHANGED <<now, file, fd, meta, folder, server, req, requests, was, seen, acked>>

(* The two calls of fs::file_size(file), in FilterHTML and in Save; they   *)
(* throw when the file is missing.                                         *)
FileSize(t, here, nonzero, zero) ==
  /\ At(t, here)
  /\ IF Throws(t) THEN Throw
     ELSE /\ Goto(t, IF file[DataAt(t)].body = Empty THEN zero ELSE nonzero)
          /\ UNCHANGED <<now, files, server, request, seen, acked, faults>>

FilterSize(t) == FileSize(t, "size", "metaopen1", "resize")
SaveSize(t)   == FileSize(t, "resize", "metaopen2", "remove")

(* Resource::SaveMeta: bump the sequence of the loaded metadata, truncate  *)
(* the file and write it; a write that falls short leaves a file that does *)
(* not parse.  FilterHTML calls it, and Save and ServeMeta do.             *)
BumpedNot(t) ==   \* mutant: the sequence is not incremented
  [modified |-> now, sequence |-> seen[t].sequence]
Bumped(t) == [modified |-> now, sequence |-> seen[t].sequence + 1]

SaveMetaOpen(t, here, there) ==
  /\ At(t, here)
  /\ seen' = [seen EXCEPT ![t] = Bumped(t)]
  /\ meta' = [meta EXCEPT ![PageAt(t)] = Empty]
  /\ fd' = [fd EXCEPT ![t] = MetaPath(PageAt(t))]
  /\ Goto(t, there)
  /\ UNCHANGED <<now, file, folder, archive, server, request, acked, faults>>

SaveMetaWrite(t, here, there) ==
  /\ At(t, here)
  /\ IF fd[t] = MetaPath(PageAt(t))
       THEN meta' = [meta EXCEPT ![PageAt(t)] = seen[t]]
       ELSE UNCHANGED meta
  /\ fd' = [fd EXCEPT ![t] = NoFd]
  /\ Goto(t, there)
  /\ UNCHANGED <<now, file, folder, archive, server, request, seen, acked, faults>>

SaveMetaCut(t, here, there) ==
  /\ At(t, here)
  /\ Fails(t)
  /\ fd[t] = MetaPath(PageAt(t))
  /\ meta' = [meta EXCEPT ![PageAt(t)] = Empty]
  /\ fd' = [fd EXCEPT ![t] = NoFd]
  /\ Goto(t, there)
  /\ UNCHANGED <<now, file, folder, archive, server, request, seen, acked>>
CutShort(t) ==
  SaveMetaCut(t, "metawrite1", "resize") \/ SaveMetaCut(t, "metawrite2", "reply")

SaveMeta(t) ==
  \/ SaveMetaOpen(t, "metaopen1", "metawrite1")
  \/ SaveMetaWrite(t, "metawrite1", "resize")
  \/ SaveMetaOpen(t, "metaopen2", "metawrite2")
  \/ SaveMetaWrite(t, "metawrite2", "reply")
  \/ CutShort(t)

(* Resource::Remove: the page first, then its metadata. *)
RemoveData(t) ==
  /\ At(t, "remove")
  /\ Unlink(DataAt(t))
  /\ Goto(t, "removemeta")
  /\ UNCHANGED <<now, meta, folder, archive, server, request, seen, acked, faults>>

RemoveMetaTruncates(t) ==   \* mutant: the metadata are emptied, not removed
  /\ At(t, "removemeta")
  /\ meta' = [meta EXCEPT ![PageAt(t)] = Empty]
  /\ Goto(t, "reply")
  /\ UNCHANGED <<now, file, fd, folder, archive, server, request, seen, acked, faults>>

RemoveMeta(t) ==
  /\ At(t, "removemeta")
  /\ meta' = [meta EXCEPT ![PageAt(t)] = NoFile]
  /\ Detach(MetaPath(PageAt(t)))
  /\ Goto(t, "reply")
  /\ UNCHANGED <<now, file, folder, archive, server, request, seen, acked, faults>>

SaveStep(t) ==
  \/ LoadMeta(t) \/ Stat(t) \/ MoveToAttic(t) \/ Fopen(t) \/ Dump(t)
  \/ Update(t) \/ FilterSize(t) \/ SaveSize(t) \/ SaveMeta(t)
  \/ RemoveData(t) \/ RemoveMeta(t)

-----------------------------------------------------------------------------
(* RootServer::ServeMeta: a page without metadata gets them now, whether   *)
(* it has a data file or not.                                              *)
ServeMeta(t) ==
  /\ At(t, "metaexists")
  /\ Goto(t, IF meta[PageAt(t)] = NoFile THEN "loadmeta" ELSE "reply")
  /\ UNCHANGED <<now, files, server, request, seen, acked, faults>>

-----------------------------------------------------------------------------
(* RootServer::Load: a page that is not there may be there under a name    *)
(* with "%20", or else " ", for each "_"; it is renamed to the page's name.*)
(* This is for a data.path without "_": Site has the other case.           *)
Look(t, here, path, found, missing) ==
  /\ At(t, here)
  /\ Goto(t, IF Exists(path) THEN found ELSE missing)
  /\ UNCHANGED <<now, files, server, request, seen, acked, faults>>

FindOlderFirst(t) ==   \* mutant: the page itself is not looked for
  Look(t, "find", DataAt(t), "find20",
       IF PageAt(t) \in LibPage THEN "reply" ELSE "find20")
Find(t) == Look(t, "find", DataAt(t), "reply",
                IF PageAt(t) \in LibPage THEN "reply" ELSE "find20")
Find20Swapped(t) ==   \* mutant: tests for one spelling and renames the other
  Look(t, "find20", <<"space", PageAt(t), 0>>, "move20", "findspace")
Find20(t) ==
  Look(t, "find20", <<"percent20", PageAt(t), 0>>, "move20", "findspace")
FindSpace(t) ==
  Look(t, "findspace", <<"space", PageAt(t), 0>>, "movespace", "reply")

(* fs::rename without an error code throws, replaces what is at the target,*)
(* and does not make the directory of the target.                          *)
MoveHere(t, here) ==
  /\ At(t, here)
  /\ IF Throws(t) THEN Throw
     ELSE /\ Rename(Source(t), DataAt(t))
          /\ Goto(t, "reply")
          /\ UNCHANGED <<now, meta, folder, archive, server, request, seen,
                         acked, faults>>

Move20(t)    == MoveHere(t, "move20")
MoveSpace(t) == MoveHere(t, "movespace")

Load(t) == Find(t) \/ Find20(t) \/ Move20(t) \/ FindSpace(t) \/ MoveSpace(t)

-----------------------------------------------------------------------------
(* RootServer::Upload: FormData::Save opens the file under the name the    *)
(* client gave it, in the directory of the page; it makes no directory.    *)
UploadOpen(t) ==
  /\ At(t, "create")
  /\ IF Throws(t) THEN Throw
     ELSE /\ Create(t, PathOf(req[t]))
          /\ Goto(t, "copy")
          /\ UNCHANGED <<now, meta, folder, archive, server, request, seen,
                         acked, faults>>

UploadCopy(t) ==
  /\ At(t, "copy")
  /\ \/ WriteClose(t, req[t].body) /\ UNCHANGED faults
     \/ Fails(t) /\ \E part \in Cut(req[t].body) : WriteClose(t, part)
  /\ Goto(t, "reply")
  /\ UNCHANGED <<now, meta, folder, archive, server, request, seen, acked>>

Upload(t) == UploadOpen(t) \/ UploadCopy(t)

-----------------------------------------------------------------------------
(* The environment: the process is killed, started again; time passes.     *)
Kill ==
  /\ server = "up"
  /\ Die
  /\ UNCHANGED <<now, meta, folder, archive, requests, acked, failures>>

Restart ==
  /\ server = "down"
  /\ server' = "up"
  /\ UNCHANGED <<now, files, pc, request, seen, acked, faults>>

Tick ==
  /\ now < MaxTime
  /\ now' = now + 1
  /\ UNCHANGED <<files, server, pc, request, seen, acked, faults>>

Step(t) ==
  \/ Receive(t) \/ SaveStep(t) \/ ServeMeta(t) \/ Load(t) \/ Upload(t) \/ Reply(t)
  \/ CallFails(t)

Next == (\E t \in Thread : Step(t)) \/ Kill \/ Restart \/ Tick

(* The site when the server is first started: pages put there by hand, by  *)
(* their own name or an older spelling of it, without metadata.            *)
InitialFile == [body |-> Original, mtime |-> 1]

Init ==
  /\ now = 1
  /\ \E there \in SUBSET Page, older \in SUBSET Page :
       /\ file = [path \in FilePath |->
                    IF \/ path[1] = "data" /\ PageOf(path) \in there
                       \/ path[1] = "percent20" /\ PageOf(path) \in older
                    THEN InitialFile ELSE NoFile]
       /\ folder \in {f \in SUBSET Page : there \subseteq f}
  /\ fd = [t \in Thread |-> NoFd]
  /\ meta = [p \in Page |-> NoFile]
  /\ archive = {}
  /\ server = "up"
  /\ pc = [t \in Thread |-> "idle"]
  /\ req = [t \in Thread |-> NoReq]
  /\ seen = [t \in Thread |-> NoMeta]
  /\ requests = 0
  /\ acked = {}
  /\ solo = [t \in Thread |-> FALSE]
  /\ was = [t \in Thread |-> NoReq]
  /\ short = {}
  /\ failures = 0

Spec == Init /\ [][Next]_vars

-----------------------------------------------------------------------------
(* Every variable stays in its type: descriptors name files the store      *)
(* knows, metadata are whole, blank or missing, pc is a label.             *)
TypeOK ==
  /\ FileSystemTypeOK
  /\ meta \in [Page -> Meta \cup {Empty, NoFile}]
  /\ folder \subseteq Page
  /\ archive \subseteq Body
  /\ server \in {"up", "down"}
  /\ pc \in [Thread -> Label]
  /\ req \in [Thread -> Request \cup {NoReq}]
  /\ seen \in [Thread -> Meta \cup {NoMeta}]
  /\ requests \in Nat
  /\ acked \subseteq Body
  /\ solo \in [Thread -> BOOLEAN]
  /\ was \in [Thread -> Was \cup {NoReq}]
  /\ short \subseteq Thread
  /\ failures \in 0 .. MaxFailures

(* A save that has been answered is in the archive and stays there, however*)
(* the requests interleave and wherever the server dies (Resource::Update  *)
(* comes before the redirect, and nothing removes attic/<SHA1>); a save    *)
(* whose copy was cut short is answered all the same and not meant here.   *)
ArchivedAck == acked \subseteq archive

(* The store implements its promise, VersionArchive.                       *)
Promise == INSTANCE VersionArchive
KeepsPromise == Promise!Spec

Solo(t, op) ==
  Busy(t) /\ solo[t] /\ req[t].op = op /\ PageAt(t) \notin LibPage

(* A request that no other one overlaps on its page, and none of whose     *)
(* calls failed for a reason of its own, runs into an exception in one case*)
(* only: a load that would rename an older spelling, or an upload, finds   *)
(* that the directory of the page is missing.  A save finds the file that  *)
(* it wrote at both calls of file_size, and a load that goes to rename a   *)
(* file finds it still there.                                              *)
SoloThrowsWithoutFolder ==
  \A t \in Thread : solo[t] /\ Throws(t) =>
    req[t].op \in {"load", "upload"} /\ PageAt(t) \notin folder

(* When such a save is answered, the page holds what was posted, with the  *)
(* metadata the save computed and a sequence higher than before; or, when  *)
(* nothing was posted, page and metadata are gone.                         *)
SavedAt(t) ==
  IF req[t].body = Empty
    THEN ~Exists(DataAt(t)) /\ meta[PageAt(t)] = NoFile
    ELSE /\ BodyAt(DataAt(t)) = req[t].body
         /\ meta[PageAt(t)] = seen[t]
         /\ seen[t].sequence > was[t].sequence
SoloSave ==
  \A t \in Thread : Solo(t, "save") /\ pc[t] = "reply" => SavedAt(t)

(* At every moment of such a save, so also if the server dies then, what   *)
(* the page held before is still on disk: as the page, or in the attic.    *)
PreviousKept ==
  \A t \in Thread : Solo(t, "save") /\ was[t].body # NoFile =>
    \E path \in {DataAt(t)} \cup {AtticPath(PageAt(t), m) : m \in Time} :
      BodyAt(path) = was[t].body

(* When such a load is answered, a page that was there holds what it held, *)
(* and none is hidden under an older spelling of a name that is free (where*)
(* data.path has no "_").                                                  *)
LoadedAt(t) ==
  IF was[t].body # NoFile
    THEN BodyAt(DataAt(t)) = was[t].body
    ELSE \A spelling \in {"percent20", "space"} :
           Exists(<<spelling, PageAt(t), 0>>) => Exists(DataAt(t))
SoloLoad ==
  \A t \in Thread : Solo(t, "load") /\ pc[t] = "reply" => LoadedAt(t)

(* A metadata file that no writer has open is left blank only when the     *)
(* process dies or its last write falls short, with any number of savers   *)
(* and removers of the page.                                               *)
Blank(p) == meta[p] = Empty /\ \A t \in Thread : fd[t] # MetaPath(p)
OnlyFailureBlanks ==
  [][\A p \in Page : Blank(p)' =>
       \/ Blank(p) \/ server' = "down"
       \/ \E t \in Thread : CutShort(t) /\ PageAt(t) = p]_vars

(* Config.hh:100 says of the attic that the old copy of a modified page is *)
(* moved there to keep the file's history, and RootServer.cc:203 that it is*)
(* moved without any modification: so a file in the attic neither changes  *)
(* nor is replaced by another copy.                                        *)
HistoryKept ==
  [][\A path \in AtticFile : Exists(path) => file'[path] = file[path]]_vars
=============================================================================
