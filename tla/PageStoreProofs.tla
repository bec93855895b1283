--------------------------- MODULE PageStoreProofs ---------------------------
(***************************************************************************)
(* Type correctness of the page store, its promise that an answered save   *)
(* is in the archive for good, and that a request that is alone on its     *)
(* page does what its client asked for, for any number of threads, pages,  *)
(* contents and requests.                                                  *)
(***************************************************************************)
EXTENDS PageStoreInv, TLAPS

Fs == <<file, fd>>
DescriptorType == FilePath \cup MetaFile \cup {NoFd, Orphan}

(* A path names a file of the store, whatever the time in it.              *)
LEMMA Paths ==
  ASSUME NEW p \in Page, NEW m \in Time, NEW s \in Spelling
  PROVE  /\ <<s, p, 0>> \in FilePath /\ AtticPath(p, m) \in FilePath
         /\ DataPath(p) \in FilePath /\ MetaPath(p) \in MetaFile
         /\ PageOf(<<s, p, 0>>) = p /\ PageOf(AtticPath(p, m)) = p
         /\ PageOf(MetaPath(p)) = p
         /\ MetaPath(p) \notin FilePath
         /\ <<s, p, 0>> # AtticPath(p, m)
BY DEF FilePath, LivePath, AtticFile, MetaFile, AtticPath, DataPath, MetaPath,
       Spelling, PageOf

LEMMA InitialFileType == InitialFile \in File
BY FileSystemAssumption, PageStoreAssumption DEF InitialFile, File, Body, Time

LEMMA CreateType ==
  ASSUME FileSystemTypeOK, NEW t \in Thread, NEW path \in FilePath, Create(t, path)
  PROVE  /\ file' \in [FilePath -> File \cup {NoFile}]
         /\ fd' \in [Thread -> DescriptorType]
BY DEF FileSystemTypeOK, Create, File, Body, DescriptorType

LEMMA WriteCloseType ==
  ASSUME FileSystemTypeOK, NEW t \in Thread, NEW body \in Body, WriteClose(t, body),
         fd[t] \in FilePath => Exists(fd[t])
  PROVE  /\ file' \in [FilePath -> File \cup {NoFile}]
         /\ fd' \in [Thread -> DescriptorType]
<1>1. fd' \in [Thread -> DescriptorType]
  BY DEF FileSystemTypeOK, WriteClose, DescriptorType
<1>2. CASE fd[t] \notin FilePath
  BY <1>1, <1>2 DEF FileSystemTypeOK, WriteClose
<1>3. CASE fd[t] \in FilePath
  <2>1. file[fd[t]].body \in Body
    BY <1>3 DEF FileSystemTypeOK, Exists, File
  <2>2. PICK b \in Overlay(file[fd[t]].body, body,
                           \E u \in Thread \ {t} : fd[u] = fd[t]) :
          file' = [file EXCEPT ![fd[t]] = [body |-> b, mtime |-> now]]
    BY <1>3 DEF WriteClose
  <2>3. b \in Body
    BY <2>1, <2>2 DEF Overlay, Body
  <2>4. [body |-> b, mtime |-> now] \in File
    BY <2>3 DEF File, FileSystemTypeOK
  <2> QED BY <1>1, <2>2, <2>4 DEF FileSystemTypeOK
<1> QED BY <1>2, <1>3

LEMMA CrashType ==
  ASSUME FileSystemTypeOK, Crash
  PROVE  /\ file' \in [FilePath -> File \cup {NoFile}]
         /\ fd' \in [Thread -> DescriptorType]
<1>1. [body |-> Torn, mtime |-> now] \in File
  BY DEF FileSystemTypeOK, File, Body
<1> QED BY <1>1 DEF FileSystemTypeOK, Crash, DescriptorType

LEMMA RenameType ==
  ASSUME FileSystemTypeOK, NEW src \in FilePath, NEW dst \in FilePath,
         Rename(src, dst)
  PROVE  /\ file' \in [FilePath -> File \cup {NoFile}]
         /\ fd' \in [Thread -> DescriptorType]
BY DEF FileSystemTypeOK, Rename, DescriptorType

LEMMA UnlinkType ==
  ASSUME FileSystemTypeOK, NEW path \in FilePath, Unlink(path)
  PROVE  /\ file' \in [FilePath -> File \cup {NoFile}]
         /\ fd' \in [Thread -> DescriptorType]
BY DEF FileSystemTypeOK, Unlink, Detach, DescriptorType

(* Whether a call failed or not, the record of it keeps its type and does  *)
(* not clear anybody.                                                      *)
Blamed ==
  /\ solo' \in [Thread -> BOOLEAN] /\ failures' \in 0 .. MaxFailures
  /\ \A u \in Thread : solo'[u] => solo[u]

LEMMA BlamedType ==
  ASSUME TypeOK, NEW t \in Thread, UNCHANGED faults \/ Fails(t)
  PROVE  Blamed
<1>1. CASE UNCHANGED faults
  BY <1>1 DEF TypeOK, Blamed, faults
<1>2. CASE Fails(t)
  <2>1. failures' \in 0 .. MaxFailures
    BY <1>2, PageStoreAssumption DEF TypeOK, Fails
  <2> QED BY <1>2, <2>1 DEF TypeOK, Blamed, Fails
<1> QED BY <1>1, <1>2

-----------------------------------------------------------------------------
(* A step of another thread leaves this one's invariant alone, as long as  *)
(* its descriptor stays put, follows its file or is cut off from it.       *)
ThreadOK(t) == ThreadInv(t) /\ FdInv(t) /\ ArchiveInv(t)

FdFollows(u) ==
  /\ \/ fd'[u] = fd[u]
     \/ fd[u] # NoFd /\ fd'[u] = Orphan
     \/ /\ fd[u] \in FilePath /\ fd'[u] \in FilePath
        /\ PageOf(fd'[u]) = PageOf(fd[u])
  /\ fd'[u] \in FilePath => Exists(fd[u])'

Same(u) ==
  /\ pc'[u] = pc[u] /\ req'[u] = req[u] /\ was'[u] = was[u]
  /\ seen'[u] = seen[u] /\ (solo'[u] => solo[u])
  /\ (u \in short' <=> u \in short)

LEMMA Frame ==
  ASSUME NEW u \in Thread, ThreadOK(u), Same(u), FdFollows(u),
         server' = server, archive \subseteq archive'
  PROVE  ThreadOK(u)'
<1>1. ThreadInv(u)'
  BY DEF ThreadOK, ThreadInv, Same, Busy
<1>2. FdInv(u)'
  <2>1. CASE pc[u] \in WriteLabel
    BY <2>1, PageStoreAssumption, PathAssumption
    DEF ThreadOK, FdInv, Same, FdFollows, PageAt, WriteLabel, MetaLabel
  <2>2. CASE pc[u] \in MetaLabel
    <3>1. fd[u] \notin FilePath
      BY <2>2, PathAssumption
      DEF ThreadOK, FdInv, MetaLabel, MetaPath, FilePath, LivePath, AtticFile,
          Spelling
    <3> QED BY <2>2, <3>1, PathAssumption
      DEF ThreadOK, FdInv, Same, FdFollows, PageAt, WriteLabel, MetaLabel, MetaPath
  <2>3. CASE pc[u] \notin WriteLabel \cup MetaLabel
    BY <2>3, PathAssumption DEF ThreadOK, FdInv, Same, FdFollows
  <2> QED BY <2>1, <2>2, <2>3
<1>3. ArchiveInv(u)'
  BY DEF ThreadOK, ArchiveInv, Same, Confirmed, PageAt
<1> QED BY <1>1, <1>2, <1>3 DEF ThreadOK

LEMMA Others ==
  ASSUME ControlInv, NEW t \in Thread, ThreadOK(t)',
         \A u \in Thread \ {t} : Same(u) /\ FdFollows(u),
         server' = server, archive \subseteq archive'
  PROVE  ControlInv'
<1>1. ASSUME NEW u \in Thread PROVE ThreadOK(u)'
  BY <1>1, Frame DEF ControlInv, ThreadOK
<1> QED BY <1>1 DEF ControlInv, ThreadOK

(* A descriptor on a page's file is that of a writer, and the file exists. *)
LEMMA OpenFile ==
  ASSUME ControlInv, NEW u \in Thread, fd[u] \in FilePath
  PROVE  pc[u] \in WriteLabel /\ Exists(fd[u]) /\ PageOf(fd[u]) = PageAt(u)
<1>1. FdInv(u)
  BY DEF ControlInv
<1>2. fd[u] # NoFd /\ fd[u] # Orphan /\ fd[u] # MetaPath(PageAt(u))
  BY PathAssumption
  DEF MetaPath, FilePath, LivePath, AtticFile, Spelling
<1> QED BY <1>1, <1>2 DEF FdInv

(* What the operations of the file system do to the descriptors of others. *)
LEMMA SameFollows ==
  ASSUME ControlInv, UNCHANGED <<file, fd>>, NEW u \in Thread
  PROVE  FdFollows(u)
BY OpenFile DEF FdFollows, Exists

LEMMA CreateFollows ==
  ASSUME TypeOK, ControlInv, NEW t \in Thread, NEW path \in FilePath,
         Create(t, path), NEW u \in Thread \ {t}
  PROVE  FdFollows(u)
<1>1. [body |-> Empty, mtime |-> now] # NoFile
  BY PathAssumption DEF TypeOK, FileSystemTypeOK, File, Body
<1>2. fd'[u] = fd[u]
  BY DEF Create, TypeOK, FileSystemTypeOK
<1>3. fd[u] \in FilePath => file'[fd[u]] # NoFile
  BY <1>1, OpenFile DEF Create, TypeOK, FileSystemTypeOK, Exists
<1> QED BY <1>2, <1>3 DEF FdFollows, Exists

LEMMA WriteCloseFollows ==
  ASSUME TypeOK, ControlInv, NEW t \in Thread, NEW body \in Body,
         WriteClose(t, body), NEW u \in Thread \ {t}
  PROVE  FdFollows(u)
<1>1. fd'[u] = fd[u]
  BY DEF WriteClose, TypeOK, FileSystemTypeOK
<1>2. ASSUME fd[u] \in FilePath PROVE file'[fd[u]] # NoFile
  <2>1. Exists(fd[u])
    BY <1>2, OpenFile
  <2>2. CASE fd[t] \notin FilePath
    BY <2>1, <2>2 DEF WriteClose, Exists
  <2>3. CASE fd[t] \in FilePath
    <3>1. file[fd[t]] \in File
      BY <2>3, OpenFile DEF TypeOK, FileSystemTypeOK, Exists
    <3>2. PICK b \in Overlay(file[fd[t]].body, body,
                             \E v \in Thread \ {t} : fd[v] = fd[t]) :
            file' = [file EXCEPT ![fd[t]] = [body |-> b, mtime |-> now]]
      BY <2>3 DEF WriteClose
    <3>3. b \in Body
      BY <3>1, <3>2 DEF Overlay, File, Body
    <3>4. [body |-> b, mtime |-> now] \in File
      BY <3>3 DEF File, TypeOK, FileSystemTypeOK
    <3>5. [body |-> b, mtime |-> now] # NoFile
      BY <3>4, PathAssumption
    <3> QED BY <1>2, <2>1, <2>3, <3>2, <3>5 DEF TypeOK, FileSystemTypeOK, Exists
  <2> QED BY <2>2, <2>3
<1> QED BY <1>1, <1>2 DEF FdFollows, Exists

LEMMA RenameFollows ==
  ASSUME TypeOK, ControlInv, NEW src \in FilePath, NEW dst \in FilePath,
         src # dst, PageOf(src) = PageOf(dst), Exists(src), Rename(src, dst),
         NEW u \in Thread
  PROVE  FdFollows(u)
<1>1. /\ file'[dst] # NoFile
      /\ \A path \in FilePath \ {src, dst} : file'[path] = file[path]
  BY DEF Rename, TypeOK, FileSystemTypeOK, Exists
<1>2. fd'[u] = IF fd[u] = dst THEN Orphan ELSE IF fd[u] = src THEN dst ELSE fd[u]
  BY DEF Rename
<1>3. Orphan \notin FilePath /\ dst # NoFd
  BY PathAssumption
<1>4. fd[u] \in FilePath => file[fd[u]] # NoFile
  BY OpenFile DEF Exists
<1> QED BY <1>1, <1>2, <1>3, <1>4 DEF FdFollows, Exists

LEMMA UnlinkFollows ==
  ASSUME TypeOK, ControlInv, NEW path \in FilePath, Unlink(path),
         NEW u \in Thread
  PROVE  FdFollows(u)
<1>1. \A other \in FilePath \ {path} : file'[other] = file[other]
  BY DEF Unlink, TypeOK, FileSystemTypeOK
<1>2. fd'[u] = IF fd[u] = path THEN Orphan ELSE fd[u]
  BY DEF Unlink, Detach
<1>3. Orphan \notin FilePath /\ path # NoFd
  BY PathAssumption
<1>4. fd[u] \in FilePath => file[fd[u]] # NoFile
  BY OpenFile DEF Exists
<1> QED BY <1>1, <1>2, <1>3, <1>4 DEF FdFollows, Exists

LEMMA DetachFollows ==
  ASSUME ControlInv, NEW path \in MetaFile, Detach(path), UNCHANGED file,
         NEW u \in Thread
  PROVE  FdFollows(u)
<1>1. fd'[u] = IF fd[u] = path THEN Orphan ELSE fd[u]
  BY DEF Detach
<1>2. Orphan \notin FilePath /\ path # NoFd
  BY PathAssumption
<1>3. fd[u] \in FilePath => file[fd[u]] # NoFile
  BY OpenFile DEF Exists
<1> QED BY <1>1, <1>2, <1>3 DEF FdFollows, Exists

-----------------------------------------------------------------------------
(* What is known of a thread that serves a request.                        *)
LEMMA Serving ==
  ASSUME TypeOK, ControlInv, NEW t \in Thread, Busy(t)
  PROVE  /\ server = "up" /\ req[t] \in Request /\ was[t] \in Was
         /\ pc[t] \in LabelsOf(req[t].op)
         /\ PageAt(t) \in Page /\ req[t].body \in Body
         /\ DataAt(t) \in FilePath /\ PathOf(req[t]) \in FilePath
         /\ PageOf(DataAt(t)) = PageAt(t) /\ PageOf(PathOf(req[t])) = PageAt(t)
<1>1. server = "up" /\ req[t] \in Request /\ was[t] \in Was /\ pc[t] \in LabelsOf(req[t].op)
  BY DEF ControlInv, ThreadInv
<1>2. /\ PageAt(t) \in Page /\ req[t].body \in Body
      /\ req[t].to \in Spelling
  BY <1>1 DEF Request, PageAt, Body, Spelling
<1> QED BY <1>1, <1>2 DEF DataAt, DataPath, PathOf, PageOf, PageAt, FilePath,
                          LivePath, Spelling

(* The invariant of the thread that steps, from what the step gives.       *)
LEMMA OwnStep ==
  ASSUME TypeOK, ControlInv, NEW t \in Thread, Busy(t),
         NEW there \in LabelsOf(req[t].op), pc' = [pc EXCEPT ![t] = there],
         server' = server, req' = req, was' = was, FdInv(t)',
         there \in SaveLabel \ {"loadmeta", "stat"} => seen'[t] \in Meta,
         \/ t \in short'
         \/ short' = short /\ (there \in Stored => Confirmed(t) \subseteq archive')
  PROVE  ThreadOK(t)' /\ pc' \in [Thread -> Label] /\ pc'[t] = there
<1>1. /\ server = "up" /\ req[t] \in Request /\ was[t] \in Was
      /\ req[t].op \in {"save", "meta", "load", "upload"}
  BY Serving DEF Request
<1>2. there \in Label /\ there # "idle"
  BY <1>1 DEF LabelsOf, Label, SaveLabel, LoadLabel
<1>3. pc' \in [Thread -> Label] /\ pc'[t] = there
  BY <1>2 DEF TypeOK
<1>4. ThreadInv(t)'
  BY <1>1, <1>2, <1>3 DEF ThreadInv, Busy
<1>5. ArchiveInv(t)'
  BY <1>3 DEF ArchiveInv, Confirmed, PageAt
<1> QED BY <1>3, <1>4, <1>5 DEF ThreadOK

LEMMA LoadMetaStep ==
  ASSUME TypeOK, ControlInv, NEW t \in Thread, LoadMeta(t)
  PROVE  TypeOK' /\ ControlInv'
<1>1. /\ Busy(t) /\ pc[t] = "loadmeta"
      /\ PageAt(t) \in Page /\ req[t].op \in {"save", "meta"}
  BY Serving DEF LoadMeta, At, Busy, LabelsOf, Request, SaveLabel, LoadLabel
<1>2. PICK there \in LabelsOf(req[t].op) \cap {"stat", "attic", "metaopen2"} :
        /\ pc' = [pc EXCEPT ![t] = there]
        /\ there = "metaopen2" => req[t].op = "meta"
        /\ there # "stat" => seen'[t] \in Meta
        /\ seen' \in [Thread -> Meta \cup {NoMeta}]
  BY <1>1 DEF LoadMeta, Goto, AfterLoadMeta, TypeOK, LabelsOf, SaveLabel
<1>0. Blamed
  BY BlamedType DEF LoadMeta
<1>3. fd'[t] = NoFd /\ FdInv(t)'
  BY <1>1, <1>2
  DEF LoadMeta, TypeOK, ControlInv, FdInv, WriteLabel, MetaLabel, files
<1>4. ThreadOK(t)' /\ pc' \in [Thread -> Label]
  BY <1>1, <1>2, <1>3, OwnStep DEF LoadMeta, request, faults, files, Confirmed, Stored
<1>5. TypeOK'
  BY <1>0, <1>2, <1>4 DEF LoadMeta, TypeOK, FileSystemTypeOK, files, request, Blamed
<1>6. \A u \in Thread \ {t} : Same(u) /\ FdFollows(u)
  BY <1>0, SameFollows DEF Blamed, LoadMeta, Same, files, request, faults, Goto,
                           TypeOK
<1> QED BY <1>4, <1>5, <1>6, Others DEF LoadMeta, files

LEMMA StatStep ==
  ASSUME TypeOK, ControlInv, NEW t \in Thread, Stat(t)
  PROVE  TypeOK' /\ ControlInv'
<1>1. /\ Busy(t) /\ pc[t] = "stat" /\ DataAt(t) \in FilePath
      /\ req[t].op \in {"save", "meta"}
  BY Serving DEF Stat, At, Busy, LabelsOf, Request, SaveLabel, LoadLabel
<1>2. Blamed
  BY BlamedType DEF Stat
<1>3. seen'[t] \in Meta /\ seen' \in [Thread -> Meta \cup {NoMeta}]
  BY DEF Stat, TypeOK, Meta
<1>4. PICK there \in LabelsOf(req[t].op) \cap {"attic", "metaopen2"} :
        /\ pc' = [pc EXCEPT ![t] = there]
        /\ there = "metaopen2" => req[t].op = "meta"
  <2>1. pc' = [pc EXCEPT ![t] = AfterLoadMeta(t)]
    BY DEF Stat, Goto
  <2>2. /\ AfterLoadMeta(t) \in LabelsOf(req[t].op) \cap {"attic", "metaopen2"}
        /\ AfterLoadMeta(t) = "metaopen2" => req[t].op = "meta"
    BY <1>1 DEF AfterLoadMeta, LabelsOf, SaveLabel
  <2> QED BY <2>1, <2>2
<1>5. FdInv(t)'
  BY <1>1, <1>4 DEF Stat, TypeOK, ControlInv, FdInv, WriteLabel, MetaLabel, files
<1>6. ThreadOK(t)' /\ pc' \in [Thread -> Label]
  BY <1>1, <1>3, <1>4, <1>5, OwnStep DEF Stat, request, faults, files, Confirmed,
                                         Stored
<1>7. TypeOK'
  BY <1>2, <1>3, <1>6 DEF Stat, TypeOK, FileSystemTypeOK, files, request, Blamed
<1>8. \A u \in Thread \ {t} : Same(u) /\ FdFollows(u)
  BY <1>2, SameFollows DEF Blamed, Stat, Same, files, request, faults, Goto, TypeOK
<1> QED BY <1>6, <1>7, <1>8, Others DEF Stat, files

LEMMA MoveToAtticStep ==
  ASSUME TypeOK, ControlInv, NEW t \in Thread, MoveToAttic(t)
  PROVE  TypeOK' /\ ControlInv'
<1>1. /\ Busy(t) /\ pc[t] = "attic" /\ DataAt(t) \in FilePath
      /\ PageAt(t) \in Page /\ "fopen" \in LabelsOf(req[t].op)
  BY Serving DEF MoveToAttic, At, Busy, LabelsOf, Request, SaveLabel, LoadLabel
<1>2. seen[t] \in Meta /\ fd[t] = NoFd
  BY <1>1 DEF ControlInv, ThreadInv, FdInv, SaveLabel, WriteLabel, MetaLabel
<1> DEFINE copy == AtticPath(PageAt(t), seen[t].modified)
<1>3. /\ copy \in FilePath /\ DataAt(t) # copy
      /\ PageOf(DataAt(t)) = PageOf(copy)
  BY <1>1, <1>2, Paths DEF Meta, DataAt, DataPath, Spelling
<1>4. /\ \A u \in Thread : FdFollows(u)
      /\ fd'[t] = NoFd
      /\ file' \in [FilePath -> File \cup {NoFile}]
      /\ fd' \in [Thread -> DescriptorType]
  <2>1. CASE Exists(DataAt(t)) /\ Rename(DataAt(t), copy)
    <3>1. Rename(DataAt(t), copy)
      BY <2>1
    <3>2. fd'[t] = NoFd
      BY <3>1, <1>1, <1>2, <1>3, PathAssumption DEF Rename
    <3> HIDE DEF copy
    <3> QED BY <1>1, <1>3, <2>1, <3>1, <3>2, RenameFollows, RenameType DEF TypeOK
  <2>2. CASE UNCHANGED <<file, fd>>
    BY <1>2, <2>2, SameFollows DEF TypeOK, FileSystemTypeOK, DescriptorType
  <2> QED BY <2>1, <2>2 DEF MoveToAttic
<1>0. Blamed
  BY BlamedType DEF MoveToAttic
<1>5. FdInv(t)'
  BY <1>4 DEF MoveToAttic, Goto, TypeOK, FdInv, WriteLabel, MetaLabel
<1>6. ThreadOK(t)' /\ pc' \in [Thread -> Label]
  BY <1>1, <1>2, <1>5, OwnStep DEF MoveToAttic, Goto, request, faults, Stored
<1>7. TypeOK'
  BY <1>0, <1>4, <1>6
  DEF MoveToAttic, TypeOK, FileSystemTypeOK, DescriptorType, request, Blamed
<1>8. \A u \in Thread \ {t} : Same(u)
  BY <1>0 DEF Blamed, MoveToAttic, Same, request, faults, Goto, TypeOK
<1> QED BY <1>4, <1>6, <1>7, <1>8, Others DEF MoveToAttic

LEMMA FopenStep ==
  ASSUME TypeOK, ControlInv, NEW t \in Thread, Fopen(t)
  PROVE  TypeOK' /\ ControlInv'
<1>1. /\ Busy(t) /\ pc[t] = "fopen" /\ DataAt(t) \in FilePath
      /\ PageOf(DataAt(t)) = PageAt(t) /\ PageAt(t) \in Page
      /\ {"dump", "update"} \subseteq LabelsOf(req[t].op)
  BY Serving DEF Fopen, At, Busy, LabelsOf, Request, SaveLabel, LoadLabel
<1>2. seen[t] \in Meta /\ fd[t] = NoFd
  BY <1>1 DEF ControlInv, ThreadInv, FdInv, SaveLabel, WriteLabel, MetaLabel
<1>3. PICK there \in {"dump", "update"} :
        /\ pc' = [pc EXCEPT ![t] = there]
        /\ there = "dump" => Create(t, DataAt(t)) /\ UNCHANGED faults
        /\ there = "update" =>
             UNCHANGED <<file, fd>> /\ Fails(t)
  BY DEF Fopen, FopenFails, Goto
<1>0. Blamed
  BY <1>3, BlamedType
<1>4. /\ \A u \in Thread \ {t} : FdFollows(u)
      /\ file' \in [FilePath -> File \cup {NoFile}]
      /\ fd' \in [Thread -> DescriptorType]
  BY <1>1, <1>3, CreateFollows, SameFollows, CreateType
  DEF TypeOK, FileSystemTypeOK, DescriptorType
<1>5. FdInv(t)'
  <2>1. CASE there = "dump"
    <3>1. fd'[t] = DataAt(t) /\ file'[DataAt(t)] = [body |-> Empty, mtime |-> now]
      BY <1>1, <1>3, <2>1 DEF Create, TypeOK, FileSystemTypeOK
    <3>2. Exists(fd[t])'
      BY <3>1, PathAssumption DEF Exists, File, Body, TypeOK, FileSystemTypeOK
    <3> QED BY <1>1, <1>3, <2>1, <3>1, <3>2
      DEF FdInv, WriteLabel, MetaLabel, Fopen, request, faults, PageAt, TypeOK
  <2>2. CASE there = "update"
    BY <1>2, <1>3, <2>2 DEF FdInv, WriteLabel, MetaLabel, TypeOK
  <2> QED BY <1>3, <2>1, <2>2
<1>6. ThreadOK(t)' /\ pc' \in [Thread -> Label]
  BY <1>1, <1>2, <1>3, <1>5, OwnStep DEF Fopen, request, faults, Stored
<1>7. TypeOK'
  BY <1>0, <1>1, <1>3, <1>4, <1>6
  DEF Fopen, TypeOK, FileSystemTypeOK, DescriptorType, request, Blamed
<1>8. \A u \in Thread \ {t} : Same(u)
  BY <1>0, <1>3 DEF Blamed, Fopen, Same, request, faults, TypeOK
<1> QED BY <1>4, <1>6, <1>7, <1>8, Others DEF Fopen

(* Writing a descriptor out and closing it, for the page and for an upload.*)
LEMMA WriteStep ==
  ASSUME TypeOK, ControlInv, NEW t \in Thread, Busy(t),
         NEW there \in LabelsOf(req[t].op) \ (WriteLabel \cup MetaLabel),
         NEW body \in Body, WriteClose(t, body), Blamed, Goto(t, there),
         there \in SaveLabel \ {"loadmeta", "stat"} => seen[t] \in Meta,
         there \in Stored => Confirmed(t) \subseteq archive,
         UNCHANGED <<now, meta, folder, archive, server, request, seen, acked>>
  PROVE  TypeOK' /\ ControlInv'
<1>2. /\ file' \in [FilePath -> File \cup {NoFile}]
      /\ fd' \in [Thread -> DescriptorType]
  BY WriteCloseType, OpenFile DEF TypeOK
<1>3. \A u \in Thread \ {t} : Same(u) /\ FdFollows(u)
  BY WriteCloseFollows DEF Blamed, Same, request, Goto, TypeOK
<1>4. FdInv(t)'
  BY DEF FdInv, WriteClose, Goto, TypeOK, FileSystemTypeOK, WriteLabel, MetaLabel
<1>5. ThreadOK(t)' /\ pc' \in [Thread -> Label]
  BY <1>4, OwnStep DEF Goto, request, faults
<1>6. TypeOK'
  BY <1>2, <1>5 DEF Blamed, TypeOK, FileSystemTypeOK, DescriptorType, request
<1> QED BY <1>3, <1>5, <1>6, Others

(* Dump and UploadCopy write the posted body or a part of it.              *)
LEMMA WrittenBody ==
  ASSUME TypeOK, ControlInv, NEW t \in Thread, Dump(t) \/ UploadCopy(t)
  PROVE  Blamed /\ \E body \in Body : WriteClose(t, body)
<1>1. req[t].body \in Body /\ Cut(req[t].body) \subseteq Body
  BY Serving DEF Dump, UploadCopy, At, Busy, Cut, Body
<1> QED BY <1>1, BlamedType DEF Dump, UploadCopy

LEMMA DumpStep ==
  ASSUME TypeOK, ControlInv, NEW t \in Thread, Dump(t)
  PROVE  TypeOK' /\ ControlInv'
<1>1. /\ Busy(t) /\ pc[t] = "dump" /\ "update" \in LabelsOf(req[t].op)
  BY Serving DEF Dump, At, Busy, LabelsOf, Request, SaveLabel, LoadLabel
<1>2. seen[t] \in Meta
  BY <1>1 DEF ControlInv, ThreadInv, SaveLabel
<1> QED BY <1>1, <1>2, WrittenBody, WriteStep DEF Dump, Stored, WriteLabel, MetaLabel

(* What Update adds to the archive, and whom it spares the promise.        *)
LEMMA Updated ==
  ASSUME TypeOK, ControlInv, NEW t \in Thread, Update(t)
  PROVE  /\ Blamed
         /\ \E b \in Body : archive' = archive \cup {b}
         /\ \/ short' = short /\ Confirmed(t) \subseteq archive'
            \/ short' = short \cup {t}
<1>1. req[t].body \in Body /\ Cut(req[t].body) \subseteq Body
  BY Serving DEF Update, At, Busy, Cut, Body
<1> QED BY <1>1, BlamedType DEF Update, Confirmed

LEMMA UpdateStep ==
  ASSUME TypeOK, ControlInv, NEW t \in Thread, Update(t)
  PROVE  TypeOK' /\ ControlInv' /\ archive \subseteq archive'
<1>1. /\ Busy(t) /\ pc[t] = "update" /\ "size" \in LabelsOf(req[t].op)
      /\ req[t].body \in Body
  BY Serving DEF Update, At, Busy, LabelsOf, Request, SaveLabel, LoadLabel
<1>2. seen[t] \in Meta /\ fd[t] = NoFd
  BY <1>1 DEF ControlInv, ThreadInv, FdInv, SaveLabel, WriteLabel, MetaLabel
<1>3. FdInv(t)'
  BY <1>1, <1>2 DEF Update, Goto, TypeOK, FdInv, WriteLabel, MetaLabel
<1>4. ThreadOK(t)' /\ pc' \in [Thread -> Label]
  BY <1>1, <1>2, <1>3, Updated, OwnStep DEF Update, Goto
<1>5. TypeOK'
  BY <1>4, Updated DEF Update, TypeOK, FileSystemTypeOK, Blamed
<1>6. \A u \in Thread \ {t} : Same(u) /\ FdFollows(u)
  BY Updated, SameFollows DEF Update, Same, Blamed, Goto, TypeOK
<1> QED BY <1>4, <1>5, <1>6, Updated, Others DEF Update

(* A step that only looks at the files and goes on.                        *)
LEMMA QuietStep ==
  ASSUME TypeOK, ControlInv, NEW t \in Thread, Busy(t), Goto(t, pc'[t]),
         {pc[t], pc'[t]} \cap (WriteLabel \cup MetaLabel) = {},
         pc'[t] \in LabelsOf(req[t].op),
         pc'[t] \in SaveLabel \ {"loadmeta", "stat"} => seen[t] \in Meta,
         pc'[t] \in Stored => Confirmed(t) \subseteq archive,
         UNCHANGED <<now, files, server, request, seen, acked, faults>>
  PROVE  TypeOK' /\ ControlInv'
<1>1. FdInv(t)'
  BY DEF ControlInv, FdInv, files
<1>2. ThreadOK(t)' /\ pc' \in [Thread -> Label]
  BY <1>1, OwnStep DEF Goto, request, faults, files
<1>3. TypeOK'
  BY <1>2 DEF TypeOK, FileSystemTypeOK, files, request, faults
<1>4. \A u \in Thread \ {t} : Same(u) /\ FdFollows(u)
  BY SameFollows DEF Same, files, request, faults, Goto, TypeOK
<1> QED BY <1>2, <1>3, <1>4, Others DEF files

(* The death of the process, by exception or from outside.                 *)
LEMMA DieStep ==
  ASSUME TypeOK, ControlInv, Die,
         UNCHANGED <<now, meta, folder, archive, requests, acked, failures>>
  PROVE  TypeOK' /\ ControlInv'
<1>1. TypeOK'
  BY CrashType DEF Die, TypeOK, FileSystemTypeOK, DescriptorType, Label
<1>2. ControlInv'
  BY DEF Die, Crash, ControlInv, ThreadInv, FdInv, ArchiveInv, Busy, WriteLabel,
         MetaLabel, Stored, SaveLabel
<1> QED BY <1>1, <1>2

LEMMA FileSizeStep ==
  ASSUME TypeOK, ControlInv, NEW t \in Thread, FilterSize(t) \/ SaveSize(t)
  PROVE  TypeOK' /\ ControlInv'
<1>1. /\ Busy(t) /\ pc[t] \in {"size", "resize"}
      /\ {"metaopen1", "resize", "metaopen2", "remove"} \subseteq LabelsOf(req[t].op)
  BY Serving DEF FilterSize, SaveSize, FileSize, At, Busy, LabelsOf, Request,
                 SaveLabel, LoadLabel
<1>2. seen[t] \in Meta /\ Confirmed(t) \subseteq archive
  BY <1>1 DEF ControlInv, ThreadInv, ArchiveInv, SaveLabel, Stored
<1>3. CASE Throw
  BY <1>3, DieStep DEF Throw
<1>4. CASE ~Throws(t)
  <2>1. /\ pc'[t] \in {"metaopen1", "resize", "metaopen2", "remove"}
        /\ Goto(t, pc'[t])
    BY <1>4 DEF FilterSize, SaveSize, FileSize, Goto, TypeOK
  <2>2. UNCHANGED <<now, files, server, request, seen, acked, faults>>
    BY <1>4 DEF FilterSize, SaveSize, FileSize
  <2> QED BY <1>1, <1>2, <2>1, <2>2, QuietStep DEF WriteLabel, MetaLabel
<1> QED BY <1>3, <1>4 DEF FilterSize, SaveSize, FileSize

LEMMA SaveMetaOpenStep ==
  ASSUME TypeOK, ControlInv, NEW t \in Thread,
         \/ SaveMetaOpen(t, "metaopen1", "metawrite1")
         \/ SaveMetaOpen(t, "metaopen2", "metawrite2")
  PROVE  TypeOK' /\ ControlInv'
<1>1. PICK there \in MetaLabel :
        /\ SaveMetaOpen(t, pc[t], there)
        /\ there = "metawrite1" => pc[t] = "metaopen1"
        /\ there = "metawrite2" => pc[t] = "metaopen2"
  BY DEF SaveMetaOpen, At, MetaLabel
<1>2. /\ Busy(t) /\ pc[t] \in {"metaopen1", "metaopen2"}
      /\ PageAt(t) \in Page /\ there \in LabelsOf(req[t].op)
  BY <1>1, Serving DEF Busy, MetaLabel, LabelsOf, Request, SaveLabel, LoadLabel
<1>3. seen[t] \in Meta /\ Confirmed(t) \subseteq archive
  BY <1>2 DEF ControlInv, ThreadInv, ArchiveInv, SaveLabel, Stored
<1>4. Bumped(t) \in Meta /\ now \in Time
  BY <1>3 DEF Bumped, Meta, TypeOK, FileSystemTypeOK
<1>5. seen'[t] \in Meta /\ seen' \in [Thread -> Meta \cup {NoMeta}]
  BY <1>1, <1>4 DEF SaveMetaOpen, TypeOK
<1>6. FdInv(t)'
  BY <1>1, <1>2
  DEF SaveMetaOpen, Goto, FdInv, MetaLabel, WriteLabel, PageAt, request, faults,
      TypeOK, FileSystemTypeOK
<1>7. ThreadOK(t)' /\ pc' \in [Thread -> Label]
  BY <1>1, <1>2, <1>3, <1>5, <1>6, OwnStep DEF SaveMetaOpen, Goto, request, faults
<1>8. TypeOK'
  <2>1. MetaPath(PageAt(t)) \in MetaFile
    BY <1>2 DEF MetaPath, MetaFile
  <2>2. /\ fd' \in [Thread -> FilePath \cup MetaFile \cup {NoFd, Orphan}]
        /\ meta' \in [Page -> Meta \cup {Empty, NoFile}]
    BY <1>1, <2>1 DEF SaveMetaOpen, TypeOK, FileSystemTypeOK
  <2> QED BY <1>1, <1>5, <1>7, <2>2
    DEF SaveMetaOpen, TypeOK, FileSystemTypeOK, request, faults
<1>9. \A u \in Thread \ {t} : Same(u) /\ FdFollows(u)
  BY <1>1, OpenFile
  DEF SaveMetaOpen, Same, FdFollows, Exists, request, faults, Goto, TypeOK,
      FileSystemTypeOK
<1> QED BY <1>1, <1>7, <1>8, <1>9, Others DEF SaveMetaOpen

LEMMA SaveMetaWriteStep ==
  ASSUME TypeOK, ControlInv, NEW t \in Thread,
         \/ SaveMetaWrite(t, "metawrite1", "resize")
         \/ SaveMetaWrite(t, "metawrite2", "reply")
  PROVE  TypeOK' /\ ControlInv'
<1>1. PICK there \in {"resize", "reply"} :
        /\ SaveMetaWrite(t, pc[t], there)
        /\ there = "resize" => pc[t] = "metawrite1"
        /\ there = "reply" => pc[t] = "metawrite2"
  BY DEF SaveMetaWrite, At
<1>2. /\ Busy(t) /\ pc[t] \in MetaLabel
      /\ PageAt(t) \in Page /\ there \in LabelsOf(req[t].op)
  BY <1>1, Serving DEF Busy, MetaLabel, LabelsOf, Request, SaveLabel, LoadLabel
<1>3. seen[t] \in Meta /\ Confirmed(t) \subseteq archive
  BY <1>2 DEF ControlInv, ThreadInv, ArchiveInv, SaveLabel, Stored, MetaLabel
<1>4. FdInv(t)'
  BY <1>1 DEF SaveMetaWrite, Goto, FdInv, MetaLabel, WriteLabel, TypeOK,
              FileSystemTypeOK
<1>5. ThreadOK(t)' /\ pc' \in [Thread -> Label]
  BY <1>1, <1>2, <1>3, <1>4, OwnStep DEF SaveMetaWrite, Goto, request, faults
<1>6. TypeOK'
  BY <1>1, <1>2, <1>3, <1>5
  DEF SaveMetaWrite, TypeOK, FileSystemTypeOK, request, faults
<1>7. \A u \in Thread \ {t} : Same(u) /\ FdFollows(u)
  BY <1>1, OpenFile
  DEF SaveMetaWrite, Same, FdFollows, Exists, request, faults, Goto, TypeOK,
      FileSystemTypeOK
<1> QED BY <1>1, <1>5, <1>6, <1>7, Others DEF SaveMetaWrite

LEMMA RemoveDataStep ==
  ASSUME TypeOK, ControlInv, NEW t \in Thread, RemoveData(t)
  PROVE  TypeOK' /\ ControlInv'
<1>1. /\ Busy(t) /\ pc[t] = "remove" /\ DataAt(t) \in FilePath
      /\ "removemeta" \in LabelsOf(req[t].op)
  BY Serving DEF RemoveData, At, Busy, LabelsOf, Request, SaveLabel, LoadLabel
<1>2. seen[t] \in Meta /\ Confirmed(t) \subseteq archive /\ fd[t] = NoFd
  BY <1>1 DEF ControlInv, ThreadInv, ArchiveInv, FdInv, SaveLabel, Stored,
              WriteLabel, MetaLabel
<1>3. fd'[t] = NoFd
  BY <1>1, <1>2, PathAssumption DEF RemoveData, Unlink, Detach
<1>4. FdInv(t)'
  BY <1>1, <1>3 DEF RemoveData, Goto, FdInv, MetaLabel, WriteLabel, TypeOK
<1>5. ThreadOK(t)' /\ pc' \in [Thread -> Label]
  BY <1>1, <1>2, <1>4, OwnStep DEF RemoveData, Goto, request, faults
<1>6. TypeOK'
  BY <1>1, <1>5, UnlinkType
  DEF RemoveData, TypeOK, FileSystemTypeOK, DescriptorType, request, faults
<1>7. \A u \in Thread \ {t} : Same(u) /\ FdFollows(u)
  BY <1>1, UnlinkFollows DEF RemoveData, Same, request, faults, Goto, TypeOK
<1> QED BY <1>5, <1>6, <1>7, Others DEF RemoveData

LEMMA RemoveMetaStep ==
  ASSUME TypeOK, ControlInv, NEW t \in Thread, RemoveMeta(t)
  PROVE  TypeOK' /\ ControlInv'
<1>1. /\ Busy(t) /\ pc[t] = "removemeta" /\ MetaPath(PageAt(t)) \in MetaFile
      /\ PageAt(t) \in Page /\ "reply" \in LabelsOf(req[t].op)
  BY Serving, Paths DEF RemoveMeta, At, Busy, LabelsOf, Request, SaveLabel,
                 LoadLabel, MetaFile, MetaPath
<1>2. Confirmed(t) \subseteq archive /\ fd[t] = NoFd
  BY <1>1 DEF ControlInv, ArchiveInv, FdInv, Stored, WriteLabel, MetaLabel
<1>3. fd'[t] = NoFd
  BY <1>1, <1>2, PathAssumption DEF RemoveMeta, Detach
<1>4. FdInv(t)'
  BY <1>1, <1>3 DEF RemoveMeta, Goto, FdInv, MetaLabel, WriteLabel, TypeOK
<1>5. ThreadOK(t)' /\ pc' \in [Thread -> Label]
  BY <1>1, <1>2, <1>4, OwnStep DEF RemoveMeta, Goto, request, faults, SaveLabel
<1>6. TypeOK'
  BY <1>1, <1>5
  DEF RemoveMeta, Detach, TypeOK, FileSystemTypeOK, DescriptorType, request, faults
<1>7. \A u \in Thread \ {t} : Same(u) /\ FdFollows(u)
  BY <1>1, DetachFollows DEF RemoveMeta, Same, request, faults, Goto, TypeOK
<1> QED BY <1>5, <1>6, <1>7, Others DEF RemoveMeta

LEMMA SaveMetaCutStep ==
  ASSUME TypeOK, ControlInv, NEW t \in Thread, CutShort(t)
  PROVE  TypeOK' /\ ControlInv'
<1>1. PICK there \in {"resize", "reply"} :
        /\ SaveMetaCut(t, pc[t], there)
        /\ there = "resize" => pc[t] = "metawrite1"
        /\ there = "reply" => pc[t] = "metawrite2"
  BY DEF CutShort, SaveMetaCut, At
<1>2. /\ Busy(t) /\ pc[t] \in MetaLabel
      /\ PageAt(t) \in Page /\ there \in LabelsOf(req[t].op)
  BY <1>1, Serving DEF Busy, MetaLabel, LabelsOf, Request, SaveLabel, LoadLabel
<1>3. seen[t] \in Meta /\ Confirmed(t) \subseteq archive
  BY <1>2 DEF ControlInv, ThreadInv, ArchiveInv, SaveLabel, Stored, MetaLabel
<1>4. FdInv(t)'
  BY <1>1 DEF SaveMetaCut, Goto, FdInv, MetaLabel, WriteLabel, TypeOK,
              FileSystemTypeOK
<1>5. ThreadOK(t)' /\ pc' \in [Thread -> Label]
  BY <1>1, <1>2, <1>3, <1>4, OwnStep DEF SaveMetaCut, Goto, request
<1>6. Blamed
  BY <1>1, BlamedType DEF SaveMetaCut
<1>7. TypeOK'
  BY <1>1, <1>2, <1>5, <1>6
  DEF SaveMetaCut, Blamed, TypeOK, FileSystemTypeOK, request
<1>8. \A u \in Thread \ {t} : Same(u) /\ FdFollows(u)
  BY <1>1, <1>6, OpenFile
  DEF SaveMetaCut, Blamed, Same, FdFollows, Exists, request, Goto, TypeOK,
      FileSystemTypeOK
<1> QED BY <1>1, <1>5, <1>7, <1>8, Others DEF SaveMetaCut

LEMMA SaveMetaStep ==
  ASSUME TypeOK, ControlInv, NEW t \in Thread, SaveMeta(t)
  PROVE  TypeOK' /\ ControlInv'
BY SaveMetaOpenStep, SaveMetaWriteStep, SaveMetaCutStep DEF SaveMeta

LEMMA LookStep ==
  ASSUME TypeOK, ControlInv, NEW t \in Thread,
         ServeMeta(t) \/ Find(t) \/ Find20(t) \/ FindSpace(t)
  PROVE  TypeOK' /\ ControlInv'
<1>1. CASE ServeMeta(t)
  <2>1. /\ Busy(t) /\ pc[t] = "metaexists" /\ req[t].op = "meta"
        /\ {"loadmeta", "reply"} \subseteq LabelsOf(req[t].op)
    BY <1>1, Serving DEF ServeMeta, At, Busy, LabelsOf, Request, SaveLabel, LoadLabel
  <2>2. pc'[t] \in {"loadmeta", "reply"} /\ Goto(t, pc'[t])
    BY <1>1 DEF ServeMeta, Goto, TypeOK
  <2> QED BY <1>1, <2>1, <2>2, QuietStep
    DEF ServeMeta, WriteLabel, MetaLabel, Confirmed, SaveLabel
<1>2. ASSUME Find(t) \/ Find20(t) \/ FindSpace(t) PROVE TypeOK' /\ ControlInv'
  <2>1. /\ Busy(t) /\ pc[t] \in LoadLabel /\ req[t].op = "load"
        /\ LoadLabel \cup {"reply"} \subseteq LabelsOf(req[t].op)
    BY <1>2, Serving DEF Find, Find20, FindSpace, Look, At, Busy, LabelsOf, Request,
                         SaveLabel, LoadLabel
  <2>2. /\ pc'[t] \in LoadLabel \cup {"reply"} /\ Goto(t, pc'[t])
        /\ UNCHANGED <<now, files, server, request, seen, acked, faults>>
    BY <1>2 DEF Find, Find20, FindSpace, Look, Goto, TypeOK, LoadLabel
  <2> QED BY <2>1, <2>2, QuietStep
    DEF WriteLabel, MetaLabel, Confirmed, SaveLabel, LoadLabel
<1> QED BY <1>1, <1>2

(* The rename of an older spelling.                                        *)
LEMMA Moving ==
  ASSUME TypeOK, ControlInv, NEW t \in Thread, Move20(t) \/ MoveSpace(t)
  PROVE  /\ Busy(t) /\ pc[t] \in {"move20", "movespace"} /\ req[t].op = "load"
         /\ PageAt(t) \in Page /\ "reply" \in LabelsOf(req[t].op)
         /\ Source(t) \in FilePath /\ DataAt(t) \in FilePath /\ Source(t) # DataAt(t)
         /\ PageOf(Source(t)) = PageAt(t) /\ PageOf(DataAt(t)) = PageAt(t)
         /\ \/ Throw
            \/ /\ Exists(Source(t))
               /\ Rename(Source(t), DataAt(t)) /\ Goto(t, "reply")
               /\ UNCHANGED <<now, meta, folder, archive, server, request, seen, acked,
                              faults>>
<1>1. /\ Busy(t) /\ pc[t] \in {"move20", "movespace"} /\ req[t].op = "load"
      /\ PageAt(t) \in Page /\ "reply" \in LabelsOf(req[t].op)
  BY Serving DEF Move20, MoveSpace, MoveHere, At, Busy, LabelsOf, Request,
                 SaveLabel, LoadLabel
<1>2. /\ Source(t) \in FilePath /\ DataAt(t) \in FilePath /\ Source(t) # DataAt(t)
      /\ PageOf(Source(t)) = PageAt(t) /\ PageOf(DataAt(t)) = PageAt(t)
  BY <1>1 DEF Source, DataAt, DataPath, Spelling, PageOf, FilePath, LivePath
<1> QED BY <1>1, <1>2 DEF Move20, MoveSpace, MoveHere, Throws

LEMMA MoveHereStep ==
  ASSUME TypeOK, ControlInv, NEW t \in Thread, Move20(t) \/ MoveSpace(t)
  PROVE  TypeOK' /\ ControlInv'
<1>1. /\ Busy(t) /\ pc[t] \in LoadLabel /\ req[t].op = "load"
      /\ PageAt(t) \in Page /\ "reply" \in LabelsOf(req[t].op)
      /\ Source(t) \in FilePath /\ DataAt(t) \in FilePath /\ Source(t) # DataAt(t)
      /\ PageOf(Source(t)) = PageOf(DataAt(t))
  BY Moving DEF LoadLabel
<1>4. CASE Throw
  BY <1>4, DieStep DEF Throw
<1>5. ASSUME Exists(Source(t)), Rename(Source(t), DataAt(t)), Goto(t, "reply"),
             UNCHANGED <<now, meta, folder, archive, server, request, seen, acked,
                         faults>>
      PROVE  TypeOK' /\ ControlInv'
  <2>2. fd[t] = NoFd
    BY <1>1 DEF ControlInv, FdInv, LoadLabel, WriteLabel, MetaLabel
  <2>3. fd'[t] = NoFd
    BY <1>5, <2>2, <1>1, PathAssumption DEF Rename
  <2>4. FdInv(t)'
    BY <1>5, <2>3 DEF Goto, FdInv, MetaLabel, WriteLabel, TypeOK
  <2>5. ThreadOK(t)' /\ pc' \in [Thread -> Label]
    BY <1>1, <1>5, <2>4, OwnStep DEF Goto, request, Confirmed, SaveLabel
  <2>6. TypeOK'
    BY <1>1, <1>5, <2>5, RenameType
    DEF TypeOK, FileSystemTypeOK, DescriptorType, request, faults
  <2>7. \A u \in Thread \ {t} : Same(u) /\ FdFollows(u)
    BY <1>1, <1>5, RenameFollows DEF Same, request, faults, Goto, TypeOK
  <2> QED BY <1>5, <2>5, <2>6, <2>7, Others
<1> QED BY <1>4, <1>5, Moving

LEMMA UploadOpenStep ==
  ASSUME TypeOK, ControlInv, NEW t \in Thread, UploadOpen(t)
  PROVE  TypeOK' /\ ControlInv'
<1>1. /\ Busy(t) /\ pc[t] = "create" /\ PathOf(req[t]) \in FilePath
      /\ PageOf(PathOf(req[t])) = PageAt(t) /\ "copy" \in LabelsOf(req[t].op)
  BY Serving DEF UploadOpen, At, Busy, LabelsOf, Request, SaveLabel, LoadLabel
<1>2. CASE Throw
  BY <1>2, DieStep DEF Throw
<1>3. CASE ~Throws(t)
  <2>1. /\ Create(t, PathOf(req[t])) /\ Goto(t, "copy")
        /\ UNCHANGED <<now, meta, folder, archive, server, request, seen, acked,
                       faults>>
    BY <1>3 DEF UploadOpen
  <2>2. /\ fd'[t] = PathOf(req[t])
        /\ file'[PathOf(req[t])] = [body |-> Empty, mtime |-> now]
    BY <1>1, <2>1 DEF Create, TypeOK, FileSystemTypeOK
  <2>3. Exists(fd[t])'
    BY <2>2, PathAssumption DEF Exists, File, Body, TypeOK, FileSystemTypeOK
  <2>4. FdInv(t)'
    BY <1>1, <2>1, <2>2, <2>3
    DEF Goto, FdInv, MetaLabel, WriteLabel, TypeOK, PageAt, request, faults
  <2>5. ThreadOK(t)' /\ pc' \in [Thread -> Label]
    BY <1>1, <2>1, <2>4, OwnStep DEF Goto, request, faults, Stored, SaveLabel
  <2>6. TypeOK'
    BY <1>1, <2>1, <2>5, CreateType
    DEF TypeOK, FileSystemTypeOK, DescriptorType, request, faults
  <2>7. \A u \in Thread \ {t} : Same(u) /\ FdFollows(u)
    BY <1>1, <2>1, CreateFollows DEF Same, request, faults, Goto, TypeOK
  <2> QED BY <2>1, <2>5, <2>6, <2>7, Others
<1> QED BY <1>2, <1>3 DEF UploadOpen

LEMMA UploadCopyStep ==
  ASSUME TypeOK, ControlInv, NEW t \in Thread, UploadCopy(t)
  PROVE  TypeOK' /\ ControlInv'
<1>1. /\ Busy(t) /\ pc[t] = "copy" /\ req[t].op = "upload"
      /\ "reply" \in LabelsOf(req[t].op)
  BY Serving DEF UploadCopy, At, Busy, LabelsOf, Request, SaveLabel, LoadLabel
<1> QED BY <1>1, WrittenBody, WriteStep DEF UploadCopy, SaveLabel, WriteLabel,
                                            MetaLabel, Confirmed

LEMMA ReceiveStep ==
  ASSUME TypeOK, ControlInv, NEW t \in Thread, Receive(t)
  PROVE  TypeOK' /\ ControlInv'
<1>1. PICK r \in Request :
        /\ pc' = [pc EXCEPT ![t] = Entry(r)]
        /\ req' = [req EXCEPT ![t] = r]
        /\ was' = [was EXCEPT ![t] = Found(r.page)]
        /\ \A u \in Thread \ {t} : solo'[u] => solo[u]
        /\ solo' \in [Thread -> BOOLEAN]
  BY ZenonT(60) DEF Receive, TypeOK
<1>2. pc[t] = "idle" /\ server = "up" /\ fd[t] = NoFd
  BY DEF Receive, At, ControlInv, FdInv, WriteLabel, MetaLabel
<1>3. r.page \in Page /\ r.op \in {"save", "meta", "load", "upload"}
  BY <1>1 DEF Request
<1>4. Found(r.page) \in Was
  <2>1. BodyAt(DataPath(r.page)) \in Body \cup {NoFile}
    <3>1. DataPath(r.page) \in FilePath
      BY <1>3 DEF DataPath, FilePath, LivePath, Spelling
    <3> QED BY <3>1 DEF BodyAt, Exists, TypeOK, FileSystemTypeOK, File
  <2>2. SequenceOf(meta[r.page]) \in Nat
    BY <1>3 DEF SequenceOf, TypeOK, Meta
  <2> QED BY <2>1, <2>2 DEF Found, Was
<1>5. /\ Entry(r) \in LabelsOf(r.op)
      /\ Entry(r) \in {"reply", "loadmeta", "metaexists", "find", "create"}
      /\ Entry(r) = "reply" => r.page \in LibPage
  BY <1>3 DEF Entry, LabelsOf, SaveLabel, LoadLabel
<1>6. pc' \in [Thread -> Label] /\ pc'[t] = Entry(r) /\ req'[t] = r
  BY <1>1, <1>5 DEF TypeOK, Label, SaveLabel, LoadLabel
<1>7. TypeOK'
  BY <1>1, <1>4, <1>6 DEF Receive, TypeOK, FileSystemTypeOK, files
<1>8. ThreadOK(t)'
  <2>1. ThreadInv(t)'
    BY <1>1, <1>2, <1>4, <1>5, <1>6
    DEF Receive, ThreadInv, Busy, TypeOK, SaveLabel
  <2>2. FdInv(t)'
    BY <1>2, <1>5, <1>6 DEF Receive, FdInv, files, WriteLabel, MetaLabel
  <2>3. ArchiveInv(t)'
    BY <1>5, <1>6 DEF ArchiveInv, Confirmed, Stored, PageAt
  <2> QED BY <2>1, <2>2, <2>3 DEF ThreadOK
<1>9. \A u \in Thread \ {t} : Same(u) /\ FdFollows(u)
  BY <1>1, SameFollows DEF Receive, Same, files, TypeOK
<1> QED BY <1>7, <1>8, <1>9, Others DEF Receive, files

LEMMA ReplyStep ==
  ASSUME TypeOK, ControlInv, NEW t \in Thread, Reply(t)
  PROVE  /\ TypeOK' /\ ControlInv'
         /\ Confirmed(t) \subseteq archive
         /\ acked' = acked \cup Confirmed(t) /\ archive' = archive
<1>1. /\ Busy(t) /\ pc[t] = "reply" /\ server = "up" /\ req[t].body \in Body
  BY Serving DEF Reply, At, Busy
<1>2. Confirmed(t) \subseteq archive /\ fd[t] = NoFd
  BY <1>1 DEF ControlInv, ArchiveInv, FdInv, Stored, WriteLabel, MetaLabel
<1>3. pc' \in [Thread -> Label] /\ pc'[t] = "idle"
  BY DEF Reply, Goto, TypeOK, Label
<1>4. TypeOK'
  BY <1>1, <1>3 DEF Reply, TypeOK, FileSystemTypeOK, files, Confirmed
<1>5. ThreadOK(t)'
  BY <1>2, <1>3 DEF Reply, ThreadOK, ThreadInv, FdInv, ArchiveInv, Busy, files,
                    SaveLabel, Stored, WriteLabel, MetaLabel, TypeOK
<1>6. \A u \in Thread \ {t} : Same(u) /\ FdFollows(u)
  BY SameFollows DEF Reply, Same, files, Goto, TypeOK
<1> QED BY <1>2, <1>4, <1>5, <1>6, Others DEF Reply, files

LEMMA EnvironmentStep ==
  ASSUME TypeOK, ControlInv, Kill \/ Restart \/ Tick
  PROVE  TypeOK' /\ ControlInv'
<1>1. CASE Kill
  BY <1>1, DieStep DEF Kill
<1>2. CASE Restart
  <2>1. \A t \in Thread : pc[t] = "idle"
    BY <1>2 DEF Restart, ControlInv, ThreadInv, Busy
  <2>2. TypeOK'
    BY <1>2 DEF Restart, TypeOK, FileSystemTypeOK, files, request, faults
  <2>3. ControlInv'
    BY <1>2, <2>1 DEF Restart, ControlInv, ThreadInv, FdInv, ArchiveInv, Busy,
                      files, request, faults, Exists, PageAt, Confirmed
  <2> QED BY <2>2, <2>3
<1>3. CASE Tick
  <2>1. now' \in Time
    BY <1>3, FileSystemAssumption DEF Tick, TypeOK, FileSystemTypeOK, Time
  <2>2. TypeOK'
    BY <1>3, <2>1 DEF Tick, TypeOK, FileSystemTypeOK, files, request, faults
  <2>3. ControlInv'
    BY <1>3 DEF Tick, ControlInv, ThreadInv, FdInv, ArchiveInv, Busy,
                files, request, faults, Exists, PageAt, Confirmed
  <2> QED BY <2>2, <2>3
<1> QED BY <1>1, <1>2, <1>3

(* Only Update writes the archive and only Reply confirms.                 *)
LEMMA ArchiveStep ==
  ASSUME TypeOK, [Next]_vars
  PROVE  \/ UNCHANGED <<archive, acked>>
         \/ \E t \in Thread : Update(t) \/ Reply(t)
<1>1. CASE UNCHANGED vars
  BY <1>1 DEF vars, files
<1>2. CASE Kill \/ Restart \/ Tick
  BY <1>2 DEF Kill, Restart, Tick, files
<1>3. ASSUME NEW t \in Thread, Step(t)
      PROVE  UNCHANGED <<archive, acked>> \/ Update(t) \/ Reply(t)
  <2>1. CASE Receive(t) \/ ServeMeta(t)
    BY <2>1 DEF Receive, ServeMeta, files
  <2>2. CASE Load(t)
    BY <2>2 DEF Load, Find, Find20, FindSpace, Look, Move20, MoveSpace, MoveHere,
                Throw, files
  <2>3. CASE Upload(t)
    BY <2>3 DEF Upload, UploadOpen, UploadCopy, Throw
  <2>4. CASE SaveStep(t)
    BY <2>4 DEF SaveStep, LoadMeta, Stat, MoveToAttic, Fopen, Dump, FilterSize,
                SaveSize, FileSize, SaveMeta, SaveMetaOpen, SaveMetaWrite, CutShort,
                SaveMetaCut, RemoveData, RemoveMeta, Throw, files
  <2>5. CASE CallFails(t)
    BY <2>5 DEF CallFails, Throw
  <2> QED BY <1>3, <2>1, <2>2, <2>3, <2>4, <2>5 DEF Step
<1> QED BY <1>1, <1>2, <1>3 DEF Next

LEMMA InitOK ==
  ASSUME Init
  PROVE  TypeOK /\ ControlInv
<1>1. 1 \in Time
  BY FileSystemAssumption DEF Time
<1>2. file \in [FilePath -> File \cup {NoFile}] /\ folder \subseteq Page
  BY InitialFileType DEF Init
<1>3. TypeOK
  BY <1>1, <1>2, PageStoreAssumption DEF Init, TypeOK, FileSystemTypeOK, Label
<1>4. ControlInv
  BY DEF Init, ControlInv, ThreadInv, FdInv, ArchiveInv, Busy, WriteLabel, MetaLabel,
         Stored, SaveLabel
<1> QED BY <1>3, <1>4

LEMMA NextOK ==
  ASSUME TypeOK, ControlInv, [Next]_vars
  PROVE  TypeOK' /\ ControlInv'
<1>1. CASE UNCHANGED vars
  BY <1>1 DEF vars, files, request, faults, TypeOK, FileSystemTypeOK, ControlInv,
              ThreadInv, FdInv, ArchiveInv, Busy, Exists, PageAt, Confirmed
<1>2. ASSUME NEW t \in Thread, Step(t) PROVE TypeOK' /\ ControlInv'
  <2>1. CASE SaveStep(t)
    BY <2>1, LoadMetaStep, StatStep, MoveToAtticStep, FopenStep, DumpStep, UpdateStep,
       FileSizeStep, SaveMetaStep, RemoveDataStep, RemoveMetaStep DEF SaveStep
  <2>2. CASE Load(t)
    BY <2>2, LookStep, MoveHereStep DEF Load
  <2>3. CASE Upload(t)
    BY <2>3, UploadOpenStep, UploadCopyStep DEF Upload
  <2>4. CASE CallFails(t)
    BY <2>4, DieStep DEF CallFails, Throw
  <2> QED BY <1>2, <2>1, <2>2, <2>3, <2>4, ReceiveStep, LookStep, ReplyStep DEF Step
<1> QED BY <1>1, <1>2, EnvironmentStep DEF Next

-----------------------------------------------------------------------------
(* The store's state is well typed in every behaviour, and every thread's  *)
(* label agrees with its request, its descriptor and the archive.          *)
THEOREM TypeCorrect == Spec => [](TypeOK /\ ControlInv)
<1>1. Init => TypeOK /\ ControlInv
  BY InitOK
<1>2. TypeOK /\ ControlInv /\ [Next]_vars => TypeOK' /\ ControlInv'
  BY NextOK
<1> QED BY <1>1, <1>2, PTL DEF Spec

(* A save that has been answered is in the archive for good: the order of  *)
(* Update and the redirect, and that no step takes from the archive.       *)
THEOREM Archived == Spec => []ArchivedAck
<1>1. Init => ArchivedAck
  BY DEF Init, ArchivedAck
<1>2. ASSUME TypeOK, ControlInv, ArchivedAck, [Next]_vars PROVE ArchivedAck'
  <2>1. CASE UNCHANGED <<archive, acked>>
    BY <1>2, <2>1 DEF ArchivedAck
  <2>2. ASSUME NEW t \in Thread, Update(t) PROVE ArchivedAck'
    BY <1>2, <2>2 DEF Update, ArchivedAck
  <2>3. ASSUME NEW t \in Thread, Reply(t) PROVE ArchivedAck'
    BY <1>2, <2>3, ReplyStep DEF ArchivedAck
  <2> QED BY <1>2, <2>1, <2>2, <2>3, ArchiveStep
<1> QED BY <1>1, <1>2, TypeCorrect, PTL DEF Spec

(* The store implements VersionArchive: Update stores one version, Reply   *)
(* confirms one that is stored, every other step leaves both alone.        *)
THEOREM Implements == Spec => KeepsPromise
<1>1. Init => Promise!Init
  BY DEF Init, Promise!Init
<1>2. ASSUME TypeOK, ControlInv, [Next]_vars
      PROVE  [Promise!Next]_<<archive, acked>>
  <2>1. ASSUME NEW t \in Thread, Update(t) PROVE Promise!Next
    BY <1>2, <2>1, Updated DEF Update, Promise!Next, Promise!Store
  <2>2. ASSUME NEW t \in Thread, Reply(t)
        PROVE  Promise!Next \/ UNCHANGED <<archive, acked>>
    <3>1. req[t].body \in Body
      BY <1>2, <2>2, Serving DEF Reply, At, Busy
    <3>2. /\ Confirmed(t) \subseteq archive
          /\ acked' = acked \cup Confirmed(t) /\ archive' = archive
      BY <1>2, <2>2, ReplyStep
    <3>3. Confirmed(t) = {} \/ Confirmed(t) = {req[t].body}
      BY DEF Confirmed
    <3> QED BY <3>1, <3>2, <3>3 DEF Promise!Next, Promise!Confirm
  <2> QED BY <1>2, <2>1, <2>2, ArchiveStep
<1> QED BY <1>1, <1>2, TypeCorrect, PTL DEF Spec, KeepsPromise, Promise!Spec

-----------------------------------------------------------------------------
(* A step keeps the writer of a blank metadata file, unless it fills the   *)
(* file in, removes it, falls short of it or ends the process.             *)
LEMMA BlankStep ==
  ASSUME TypeOK, ControlInv, NEW t \in Thread, Step(t), ~Die,
         NEW p \in Page, Blank(p)', ~Blank(p), ~(CutShort(t) /\ PageAt(t) = p)
  PROVE  FALSE
<1>1. meta'[p] = Empty /\ \A u \in Thread : fd'[u] # MetaPath(p)
  BY DEF Blank, MetaPath
<1>2. /\ MetaPath(p) \in MetaFile /\ MetaPath(p) \notin FilePath
      /\ MetaPath(p) # NoFd /\ MetaPath(p) # Orphan
  BY PathAssumption DEF MetaPath, MetaFile, FilePath, LivePath, AtticFile, Spelling
<1>3. CASE meta' = meta
  <2>1. PICK u \in Thread : fd[u] = MetaPath(p)
    BY <1>1, <1>3 DEF Blank
  <2>2. pc[u] \in MetaLabel
    BY <1>2, <2>1 DEF ControlInv, FdInv
  <2>3. fd'[u] # fd[u]
    BY <1>1, <2>1
  <2>4. CASE SaveMeta(t)
    <3>1. u = t
      BY <2>3, <2>4 DEF SaveMeta, SaveMetaOpen, SaveMetaWrite, CutShort,
                        SaveMetaCut, TypeOK, FileSystemTypeOK
    <3>2. /\ fd[t] = MetaPath(PageAt(t)) /\ PageAt(t) \in Page /\ seen[t] \in Meta
          /\ p = PageAt(t)
      BY <1>2, <2>1, <2>2, <3>1, Serving
      DEF ControlInv, ThreadInv, FdInv, MetaLabel, SaveLabel, Busy, MetaPath
    <3>3. \/ SaveMetaWrite(t, "metawrite1", "resize")
          \/ SaveMetaWrite(t, "metawrite2", "reply")
          \/ fd'[t] = MetaPath(PageAt(t))
      BY <2>4, <3>2 DEF SaveMeta, SaveMetaOpen, TypeOK, FileSystemTypeOK
    <3>4. meta'[p] = seen[t]
      BY <1>1, <2>4, <3>3, <3>2 DEF SaveMetaWrite, TypeOK
    <3> QED BY <1>1, <3>2, <3>4, PageStoreAssumption DEF Meta
  <2>5. CASE ~SaveMeta(t)
    <3>1. \A path \in FilePath : path # fd[u]
      BY <1>2, <2>1
    <3>2. CASE u # t
      <4>1. CASE UNCHANGED fd
        BY <2>3, <4>1
      <4>2. CASE Fopen(t) \/ UploadOpen(t)
        BY <2>3, <3>2, <4>2, ~Die
        DEF Fopen, FopenFails, Fails, UploadOpen, Create, Throw, TypeOK,
            FileSystemTypeOK
      <4>3. CASE Dump(t) \/ UploadCopy(t)
        BY <2>3, <3>2, <4>3 DEF Dump, UploadCopy, WriteClose, TypeOK, FileSystemTypeOK
      <4>4. CASE MoveToAttic(t) \/ RemoveData(t) \/ RemoveMeta(t) \/ Move20(t) \/ MoveSpace(t)
        <5>1. /\ Busy(t) /\ DataAt(t) \in FilePath /\ PageAt(t) \in Page
          BY <4>4, Serving DEF MoveToAttic, RemoveData, RemoveMeta, Move20, MoveSpace,
                               MoveHere, At, Busy
        <5>2. CASE MoveToAttic(t)
          <6>1. AtticPath(PageAt(t), seen[t].modified) \in FilePath
            BY <5>1, <5>2 DEF MoveToAttic, At, ControlInv, ThreadInv, SaveLabel, Meta,
                              AtticPath, FilePath, AtticFile
          <6> QED BY <2>3, <3>1, <5>1, <5>2, <6>1 DEF MoveToAttic, Rename
        <5>3. CASE RemoveData(t)
          BY <2>3, <3>1, <5>1, <5>3 DEF RemoveData, Unlink, Detach
        <5>4. CASE RemoveMeta(t)
          <6>1. meta'[PageAt(t)] = NoFile
            BY <5>1, <5>4 DEF RemoveMeta, TypeOK
          <6>2. p = PageAt(t)
            BY <2>1, <2>3, <5>4 DEF RemoveMeta, Detach, MetaPath
          <6> QED BY <1>1, <6>1, <6>2, FileSystemAssumption
        <5>5. CASE Move20(t) \/ MoveSpace(t)
          <6>1. Source(t) \in FilePath /\ (Throw \/ Rename(Source(t), DataAt(t)))
            BY <5>5, Moving
          <6> QED BY <2>3, <3>1, <5>1, <6>1, ~Die DEF Rename, Throw
        <5> QED BY <4>4, <5>2, <5>3, <5>4, <5>5
      <4> QED BY <2>5, <4>1, <4>2, <4>3, <4>4
        DEF Step, CallFails, Throw, SaveStep, Receive, LoadMeta, Stat, Update,
            FilterSize, SaveSize, FileSize, ServeMeta, Load, Find, Find20,
            FindSpace, Look, Upload, Reply, Throw, files
    <3>3. CASE u = t
      BY <2>2, <2>5, <3>3
      DEF Step, CallFails, Throw, SaveStep, Receive, LoadMeta, Stat, MoveToAttic,
          Fopen, Dump, Update, FilterSize, SaveSize, FileSize, SaveMeta, RemoveData,
          RemoveMeta, ServeMeta, Load, Find, Find20, FindSpace, Look, Move20,
          MoveSpace, MoveHere, Upload, UploadOpen, UploadCopy, Reply, At, MetaLabel
    <3> QED BY <3>2, <3>3
  <2> QED BY <2>4, <2>5
<1>4. CASE meta' # meta
  <2>1. SaveMeta(t) \/ RemoveMeta(t)
    BY <1>4
    DEF Step, CallFails, Throw, SaveStep, Receive, LoadMeta, Stat, MoveToAttic,
        Fopen, Dump, Update, FilterSize, SaveSize, FileSize, RemoveData, ServeMeta,
        Load, Find, Find20, FindSpace, Look, Move20, MoveSpace, MoveHere, Upload,
        UploadOpen, UploadCopy, Reply, files
  <2>2. Busy(t) /\ PageAt(t) \in Page
    BY <2>1, Serving DEF SaveMeta, SaveMetaOpen, SaveMetaWrite, CutShort,
                         SaveMetaCut, RemoveMeta, At, Busy
  <2>3. \A q \in Page \ {PageAt(t)} : meta'[q] = meta[q]
    BY <2>1, <2>2 DEF SaveMeta, SaveMetaOpen, SaveMetaWrite, CutShort, SaveMetaCut,
                      RemoveMeta, TypeOK
  <2>4. CASE RemoveMeta(t)
    <3>1. meta'[PageAt(t)] = NoFile
      BY <2>2, <2>4 DEF RemoveMeta, TypeOK
    <3>2. p # PageAt(t)
      BY <1>1, <3>1, FileSystemAssumption
    <3>3. PICK u \in Thread : fd[u] = MetaPath(p)
      BY <1>1, <2>3, <3>2 DEF Blank
    <3> QED BY <1>1, <2>4, <3>2, <3>3 DEF RemoveMeta, Detach, MetaPath
  <2>5. CASE SaveMeta(t)
    <3>1. CASE p = PageAt(t)
      <4>1. fd'[t] # MetaPath(PageAt(t))
        BY <1>1, <3>1
      <4>2. \/ SaveMetaWrite(t, "metawrite1", "resize")
            \/ SaveMetaWrite(t, "metawrite2", "reply")
        BY <2>5, <3>1, <4>1 DEF SaveMeta, SaveMetaOpen, TypeOK, FileSystemTypeOK
      <4>3. seen[t] \in Meta
        BY <4>2 DEF SaveMetaWrite, At, ControlInv, ThreadInv, SaveLabel
      <4>4. meta'[p] = seen[t]
        BY <1>4, <2>2, <3>1, <4>2 DEF SaveMetaWrite, TypeOK
      <4> QED BY <1>1, <4>3, <4>4, PageStoreAssumption DEF Meta
    <3>2. CASE p # PageAt(t)
      <4>1. PICK u \in Thread : fd[u] = MetaPath(p)
        BY <1>1, <2>3, <3>2 DEF Blank
      <4>2. u # t
        <5>1. fd[t] # MetaPath(p)
          BY <1>2, <2>2, <3>2
          DEF ControlInv, FdInv, MetaPath, MetaLabel, WriteLabel
        <5> QED BY <4>1, <5>1
      <4> QED BY <1>1, <2>5, <4>1, <4>2
        DEF SaveMeta, SaveMetaOpen, SaveMetaWrite, CutShort, SaveMetaCut, TypeOK,
            FileSystemTypeOK
    <3> QED BY <3>1, <3>2
  <2> QED BY <2>1, <2>4, <2>5
<1> QED BY <1>3, <1>4

(* Only the death of the process, or a write of the metadata that falls    *)
(* short, leaves a metadata file blank for good.                           *)
THEOREM BlanksOnlyFailing == Spec => OnlyFailureBlanks
<1>1. ASSUME TypeOK, ControlInv, [Next]_vars, NEW p \in Page, Blank(p)'
      PROVE  \/ Blank(p) \/ server' = "down"
             \/ \E t \in Thread : CutShort(t) /\ PageAt(t) = p
  <2>1. CASE Die
    BY <2>1 DEF Die
  <2>2. CASE Restart \/ Tick \/ UNCHANGED vars
    BY <1>1, <2>2 DEF Restart, Tick, vars, files, Blank, MetaPath
  <2>3. ASSUME NEW t \in Thread, Step(t), ~Die
        PROVE  Blank(p) \/ (CutShort(t) /\ PageAt(t) = p)
    BY <1>1, <2>3, BlankStep
  <2> QED BY <1>1, <2>1, <2>2, <2>3 DEF Next, Kill
<1>2. TypeOK /\ ControlInv /\ [Next]_vars
        => [\A p \in Page : Blank(p)' =>
              \/ Blank(p) \/ server' = "down"
              \/ \E t \in Thread : CutShort(t) /\ PageAt(t) = p]_vars
  BY <1>1
<1> QED BY <1>2, TypeCorrect, PTL DEF Spec, OnlyFailureBlanks

------------------------------------------------------------------------------
(* A request that is alone on its page: SoloThrowsWithoutFolder, SoloSave, *)
(* PreviousKept and SoloLoad, for any number of threads that serve other   *)
(* pages at the same time and for any crashes.                             *)

Kept(p) ==
  /\ \A path \in FilePath : PageOf(path) = p => file'[path] = file[path]
  /\ meta'[p] = meta[p]

LEMMA NoFailure ==
  ASSUME TypeOK, NEW t \in Thread, solo'[t]
  PROVE  ~Fails(t)
BY DEF Fails, TypeOK

(* A step of a thread does not change what belongs to the others, unless   *)
(* it ends the process; then no request is under way any more.             *)
LEMMA NotMine ==
  ASSUME TypeOK, NEW u \in Thread, Step(u), NEW t \in Thread \ {u}, solo'[t]
  PROVE  Same(t)
<1>1. ~Die
  BY DEF Die
<1>2. CASE Receive(u)
  BY <1>2 DEF Receive, Same, TypeOK
<1>3. CASE SaveStep(u)
  <2>1. CASE LoadMeta(u) \/ Stat(u) \/ MoveToAttic(u) \/ Dump(u) \/ Update(u)
    BY <2>1 DEF LoadMeta, Stat, MoveToAttic, Dump, Update, Fails, Goto, request,
                faults, Same, TypeOK
  <2>2. CASE Fopen(u)
    BY <2>2 DEF Fopen, FopenFails, Fails, Goto, request, faults, Same, TypeOK
  <2>3. CASE FilterSize(u) \/ SaveSize(u)
    BY <1>1, <2>3 DEF FilterSize, SaveSize, FileSize, Throw, Goto, request, faults,
                      Same, TypeOK
  <2>4. CASE SaveMeta(u)
    BY <2>4 DEF SaveMeta, SaveMetaOpen, SaveMetaWrite, CutShort, SaveMetaCut, Fails,
                Goto, request, faults, Same, TypeOK
  <2>5. CASE RemoveData(u) \/ RemoveMeta(u)
    BY <2>5 DEF RemoveData, RemoveMeta, Goto, request, faults, Same, TypeOK
  <2> QED BY <1>3, <2>1, <2>2, <2>3, <2>4, <2>5 DEF SaveStep
<1>4. CASE ServeMeta(u)
  BY <1>4 DEF ServeMeta, Goto, request, faults, Same, TypeOK
<1>5. CASE Load(u)
  BY <1>1, <1>5 DEF Load, Find, Find20, FindSpace, Look, Move20, MoveSpace, MoveHere,
                    Throw, Goto, request, faults, Same, TypeOK
<1>6. CASE Upload(u)
  BY <1>1, <1>6 DEF Upload, UploadOpen, UploadCopy, Fails, Throw, Goto, request,
                    faults, Same, TypeOK
<1>7. CASE Reply(u)
  BY <1>7 DEF Reply, Goto, Same, TypeOK
<1> QED BY <1>1, <1>2, <1>3, <1>4, <1>5, <1>6, <1>7 DEF Step, CallFails, Throw

(* What the file system operations on one page leave of another.           *)
LEMMA RenameKeeps ==
  ASSUME NEW p \in Page, NEW src \in FilePath, NEW dst \in FilePath,
         PageOf(src) # p, PageOf(dst) # p, Rename(src, dst), TypeOK,
         UNCHANGED meta, NEW t \in Thread, fd[t] \in FilePath => PageOf(fd[t]) = p
  PROVE  Kept(p) /\ fd'[t] = fd[t]
<1>1. Kept(p)
  BY DEF Kept, Rename, TypeOK, FileSystemTypeOK
<1>2. fd[t] # src /\ fd[t] # dst
  OBVIOUS
<1> QED BY <1>1, <1>2 DEF Rename

LEMMA CreateKeeps ==
  ASSUME NEW p \in Page, NEW path \in FilePath, PageOf(path) # p, TypeOK,
         NEW u \in Thread, Create(u, path), UNCHANGED meta, NEW t \in Thread \ {u}
  PROVE  Kept(p) /\ fd'[t] = fd[t]
BY DEF Kept, Create, TypeOK, FileSystemTypeOK

LEMMA WriteKeeps ==
  ASSUME NEW p \in Page, TypeOK, NEW u \in Thread, NEW body, WriteClose(u, body),
         fd[u] \in FilePath => PageOf(fd[u]) # p, UNCHANGED meta,
         NEW t \in Thread \ {u}
  PROVE  Kept(p) /\ fd'[t] = fd[t]
<1>1. fd'[t] = fd[t]
  BY DEF WriteClose, TypeOK, FileSystemTypeOK
<1>2. CASE fd[u] \notin FilePath
  BY <1>1, <1>2 DEF WriteClose, Kept
<1>3. CASE fd[u] \in FilePath
  <2>1. PICK b : file' = [file EXCEPT ![fd[u]] = [body |-> b, mtime |-> now]]
    BY <1>3 DEF WriteClose
  <2> QED BY <1>1, <1>3, <2>1 DEF Kept, TypeOK, FileSystemTypeOK
<1> QED BY <1>2, <1>3

(* A step of a thread on another page.                                     *)
LEMMA OtherPage ==
  ASSUME TypeOK, ControlInv, NEW u \in Thread, Step(u), Busy(u),
         NEW t \in Thread \ {u}, Busy(t), PageAt(u) # PageAt(t), solo'[t]
  PROVE  Kept(PageAt(t)) /\ fd'[t] = fd[t]
<1> DEFINE p == PageAt(t)
           q == PageAt(u)
<1>1. ~Die
  BY DEF Die
<1>2. /\ p \in Page /\ q \in Page /\ p # q
      /\ DataAt(u) \in FilePath /\ PageOf(DataAt(u)) = q
      /\ PathOf(req[u]) \in FilePath /\ PageOf(PathOf(req[u])) = q
  BY Serving
<1>3. /\ fd[t] \in FilePath => PageOf(fd[t]) = p
      /\ fd[u] \in FilePath => PageOf(fd[u]) = q
  BY OpenFile
<1>4. /\ fd[t] # MetaPath(q)
  <2>1. FdInv(t)
    BY DEF ControlInv
  <2>2. MetaPath(q) \in MetaFile /\ MetaPath(q) # MetaPath(p) /\ MetaPath(q) \notin FilePath
    BY <1>2 DEF MetaFile, MetaPath, FilePath, LivePath, AtticFile, Spelling
  <2> QED BY <2>1, <2>2, PathAssumption DEF FdInv
<1> HIDE DEF p, q
<1>5. CASE file' = file /\ fd' = fd /\ meta' = meta
  BY <1>5 DEF Kept
<1>6. CASE Receive(u) \/ LoadMeta(u) \/ Stat(u) \/ Update(u) \/ ServeMeta(u) \/ Reply(u)
  BY <1>6, <1>5 DEF Receive, LoadMeta, Stat, Update, ServeMeta, Reply, files
<1>7. CASE Find(u) \/ Find20(u) \/ FindSpace(u) \/ FilterSize(u) \/ SaveSize(u)
  BY <1>1, <1>5, <1>7
  DEF Find, Find20, FindSpace, Look, FilterSize, SaveSize, FileSize, Throw, files
<1>8. CASE MoveToAttic(u)
  <2>1. seen[u] \in Meta
    BY <1>8 DEF MoveToAttic, At, ControlInv, ThreadInv, SaveLabel
  <2>2. /\ AtticPath(q, seen[u].modified) \in FilePath
        /\ PageOf(AtticPath(q, seen[u].modified)) = q
    BY <1>2, <2>1 DEF Meta, AtticPath, FilePath, AtticFile, PageOf
  <2> QED BY <1>2, <1>3, <1>5, <1>8, <2>2, RenameKeeps DEF MoveToAttic, p, q
<1>9. CASE Move20(u) \/ MoveSpace(u)
  <2>1. Rename(Source(u), DataAt(u)) /\ UNCHANGED meta
    BY <1>1, <1>9, Moving DEF Throw
  <2>2. Source(u) \in FilePath /\ PageOf(Source(u)) = q
    BY <1>9, Moving DEF q
  <2> QED BY <1>2, <1>3, <2>1, <2>2, RenameKeeps DEF p
<1>10. CASE Fopen(u)
  BY <1>2, <1>5, <1>10, CreateKeeps DEF Fopen, FopenFails, Fails, p
<1>11. CASE UploadOpen(u)
  BY <1>1, <1>2, <1>11, CreateKeeps DEF UploadOpen, Throw, p
<1>12. CASE Dump(u) \/ UploadCopy(u)
  BY <1>2, <1>3, <1>12, WriteKeeps DEF Dump, UploadCopy, p
<1>13. CASE SaveMeta(u)
  BY <1>2, <1>13
  DEF SaveMeta, SaveMetaOpen, SaveMetaWrite, CutShort, SaveMetaCut, Kept, TypeOK,
      FileSystemTypeOK, p, q
<1>14. CASE RemoveData(u)
  <2>1. fd[t] # DataAt(u)
    BY <1>2, <1>3
  <2> QED BY <1>2, <2>1, <1>14
    DEF RemoveData, Unlink, Detach, Kept, TypeOK, FileSystemTypeOK, p
<1>15. CASE RemoveMeta(u)
  BY <1>2, <1>4, <1>15
  DEF RemoveMeta, Detach, Kept, TypeOK, FileSystemTypeOK, p, q
<1> QED BY <1>1, <1>6, <1>7, <1>8, <1>9, <1>10, <1>11, <1>12, <1>13, <1>14, <1>15
        DEF Step, CallFails, Throw, SaveStep, Load, Upload

(* What is known of a solo thread does not change when its page does not.  *)
LEMMA Undisturbed ==
  ASSUME TypeOK, ControlInv, NEW t \in Thread, SoloOK(t), Busy(t), Same(t),
         Kept(PageAt(t)), fd'[t] = fd[t], solo'[t] => Alone(t)'
  PROVE  SoloOK(t)'
<1> SUFFICES ASSUME solo'[t] PROVE SoloOK(t)'
  BY DEF SoloOK
<1>1. /\ solo[t] /\ pc'[t] = pc[t] /\ req'[t] = req[t] /\ was'[t] = was[t]
      /\ seen'[t] = seen[t]
  BY DEF Same
<1> DEFINE p == PageAt(t)
<1>2. /\ p \in Page /\ meta'[p] = meta[p] /\ PageAt(t)' = p
      /\ \A s \in Spelling : /\ <<s, p, 0>> \in FilePath
                             /\ file'[<<s, p, 0>>] = file[<<s, p, 0>>]
      /\ \A m \in Time : file'[AtticPath(p, m)] = file[AtticPath(p, m)]
  <2>1. p \in Page
    BY Serving
  <2>2. \A s \in Spelling : <<s, p, 0>> \in FilePath /\ PageOf(<<s, p, 0>>) = p
    BY <2>1 DEF FilePath, LivePath, PageOf
  <2>3. \A m \in Time : AtticPath(p, m) \in FilePath /\ PageOf(AtticPath(p, m)) = p
    BY <2>1 DEF FilePath, AtticFile, AtticPath, PageOf
  <2> QED BY <1>1, <2>1, <2>2, <2>3 DEF Kept, PageAt
<1>3. /\ file'[DataPath(p)] = file[DataPath(p)]
      /\ file'[<<"percent20", p, 0>>] = file[<<"percent20", p, 0>>]
      /\ file'[<<"space", p, 0>>] = file[<<"space", p, 0>>]
  BY <1>2 DEF DataPath, Spelling
<1>4. /\ Solo(t, "save")' => Solo(t, "save")
      /\ Solo(t, "load")' => Solo(t, "load")
  BY <1>1, <1>2 DEF Solo, Busy
<1>5. DataAt(t)' = DataPath(p) /\ DataAt(t) = DataPath(p)
  BY <1>2 DEF DataAt
<1>6. ASSUME Solo(t, "save"), SoloSaveInv(t) PROVE SoloSaveInv(t)'
  <2>1. /\ Found(p)' = Found(p)
        /\ BodyAt(DataPath(p))' = BodyAt(DataPath(p))
        /\ Exists(DataPath(p))' = Exists(DataPath(p))
    BY <1>2, <1>3 DEF Found, BodyAt, Exists, SequenceOf
  <2>2. \A m \in Time : BodyAt(AtticPath(p, m))' = BodyAt(AtticPath(p, m))
    BY <1>2 DEF BodyAt, Exists
  <2>3. SavedAt(t)' = SavedAt(t)
    BY <1>1, <1>2, <1>5, <2>1 DEF SavedAt
  <2> HIDE DEF p
  <2> QED BY <1>1, <1>2, <1>6, <2>1, <2>2, <2>3 DEF SoloSaveInv, p
<1>7. ASSUME Solo(t, "load"), SoloLoadInv(t) PROVE SoloLoadInv(t)'
  <2>1. /\ Found(p)' = Found(p)
        /\ BodyAt(DataPath(p))' = BodyAt(DataPath(p))
        /\ Exists(DataPath(p))' = Exists(DataPath(p))
        /\ Exists(<<"percent20", p, 0>>)' = Exists(<<"percent20", p, 0>>)
        /\ Exists(<<"space", p, 0>>)' = Exists(<<"space", p, 0>>)
    BY <1>2, <1>3 DEF Found, BodyAt, Exists, SequenceOf
  <2>2. LoadedAt(t)' = LoadedAt(t)
    BY <1>1, <1>2, <1>5, <2>1 DEF LoadedAt
  <2> HIDE DEF p
  <2> QED BY <1>1, <1>2, <1>7, <2>1, <2>2 DEF SoloLoadInv, p
<1> QED BY <1>1, <1>2, <1>4, <1>6, <1>7 DEF SoloOK

-----------------------------------------------------------------------------
(* Who is alone stays alone, or is told.                                   *)
LEMMA StaysAlone ==
  ASSUME TypeOK, ControlInv, SoloInv, NEW u \in Thread, Step(u), ControlInv',
         NEW t \in Thread, solo'[t]
  PROVE  Alone(t)'
<1> SUFFICES ASSUME NEW v \in Thread \ {t}, Busy(v)' PROVE PageAt(v)' # PageAt(t)'
  BY DEF Alone
<1>1. ~Die
  BY DEF Die
<1>2. CASE Receive(u)
  <2>1. PICK r \in Request :
          /\ pc' = [pc EXCEPT ![u] = Entry(r)]
          /\ req' = [req EXCEPT ![u] = r]
          /\ solo' = [w \in Thread |->
                        IF w = u THEN {x \in Thread : Busy(x) /\ PageAt(x) = r.page} = {}
                        ELSE /\ solo[w]
                             /\ w \notin {x \in Thread : Busy(x) /\ PageAt(x) = r.page}]
    BY <1>2 DEF Receive
  <2>2. req'[u] = r /\ \A w \in Thread \ {u} : req'[w] = req[w] /\ pc'[w] = pc[w]
    BY <2>1 DEF TypeOK
  <2>3. CASE t = u
    <3>1. ~(Busy(v) /\ PageAt(v) = r.page)
      BY <2>1, <2>3
    <3> QED BY <2>2, <2>3, <3>1 DEF Busy, PageAt
  <2>4. CASE t # u
    <3>1. solo[t] /\ ~(Busy(t) /\ PageAt(t) = r.page)
      BY <2>1, <2>4
    <3>2. Busy(t) /\ Alone(t)
      BY <3>1 DEF ControlInv, ThreadInv, SoloInv, SoloOK
    <3> QED BY <2>2, <2>4, <3>1, <3>2 DEF Busy, PageAt, Alone
  <2> QED BY <2>3, <2>4
<1>3. CASE ~Receive(u)
  <2>1. solo[t]
    <3>1. CASE t # u
      BY <3>1, NotMine DEF Same
    <3>2. CASE t = u
      <4>1. ~Fails(u)
        BY <3>2, NoFailure
      <4>2. CASE SaveStep(u)
        BY <1>1, <4>1, <4>2, <3>2
        DEF SaveStep, LoadMeta, Stat, MoveToAttic, Fopen, FopenFails, Dump, Update,
            FilterSize, SaveSize, FileSize, SaveMeta, SaveMetaOpen, SaveMetaWrite,
            CutShort, SaveMetaCut, RemoveData, RemoveMeta, Throw, faults
      <4>3. CASE ~SaveStep(u)
        BY <1>1, <1>3, <3>2, <4>1, <4>3
        DEF Step, CallFails, Throw, ServeMeta, Load, Find, Find20, FindSpace, Look,
            Move20, MoveSpace, MoveHere, Upload, UploadOpen, UploadCopy, Reply,
            TypeOK, faults
      <4> QED BY <4>2, <4>3
    <3> QED BY <3>1, <3>2
  <2>2. Busy(t) /\ Alone(t)
    BY <2>1 DEF ControlInv, ThreadInv, SoloInv, SoloOK
  <2>3. ASSUME NEW w \in Thread, w \in {t, v} PROVE req'[w] = req[w] /\ Busy(w)
    <3>0. Busy(w)'
      BY <2>3 DEF ControlInv, ThreadInv
    <3>1. UNCHANGED req \/ Reply(u)
      BY <1>1, <1>3
      DEF Step, CallFails, Throw, SaveStep, LoadMeta, Stat, MoveToAttic, Fopen,
          Dump, Update, FilterSize, SaveSize, FileSize, SaveMeta, SaveMetaOpen,
          SaveMetaWrite, CutShort, SaveMetaCut, RemoveData, RemoveMeta, ServeMeta,
          Load, Find, Find20, FindSpace, Look, Move20, MoveSpace, MoveHere, Upload,
          UploadOpen, UploadCopy, request, faults
    <3>2. CASE Reply(u)
      <4>1. w # u
        BY <3>0, <3>2 DEF Reply, Goto, Busy, TypeOK
      <4> QED BY <3>0, <3>2, <4>1 DEF Reply, Goto, Busy, TypeOK
    <3>3. CASE UNCHANGED req
      <4>1. req[w] # NoReq
        BY <3>0, <3>3, RequestAssumption DEF ControlInv, ThreadInv
      <4> QED BY <3>3, <4>1 DEF ControlInv, ThreadInv
    <3> QED BY <3>1, <3>2, <3>3
  <2> QED BY <2>2, <2>3 DEF Alone, PageAt
<1> QED BY <1>2, <1>3

-----------------------------------------------------------------------------
(* The steps of a solo save, one lemma each.                               *)
LEMMA SoloFacts ==
  ASSUME TypeOK, ControlInv, NEW t \in Thread, NEW op, Solo(t, op)
  PROVE  /\ PageAt(t) \in Page /\ req[t].body \in Body /\ was[t] \in Was
         /\ DataAt(t) = DataPath(PageAt(t)) /\ DataPath(PageAt(t)) \in FilePath
         /\ NoFile \notin Body /\ NoFile \notin File
         /\ \A m \in Time : /\ AtticPath(PageAt(t), m) \in FilePath
                           /\ AtticPath(PageAt(t), m) # DataPath(PageAt(t))
<1>1. PageAt(t) \in Page /\ req[t].body \in Body /\ was[t] \in Was
  BY Serving DEF Solo
<1> QED BY <1>1, FileSystemAssumption, PathAssumption
  DEF DataAt, DataPath, AtticPath, FilePath, LivePath, AtticFile, Spelling, Body

LEMMA SoloLoadMeta ==
  ASSUME TypeOK, ControlInv, NEW t \in Thread, Solo(t, "save"), SoloSaveInv(t),
         Alone(t), LoadMeta(t), solo'[t]
  PROVE  SoloSaveInv(t)'
<1>1. /\ pc[t] = "loadmeta" /\ req[t].op = "save" /\ Found(PageAt(t)) = was[t]
      /\ PageAt(t) \in Page
  BY SoloFacts DEF LoadMeta, At, Solo, SoloSaveInv
<1>2. /\ PageAt(t)' = PageAt(t) /\ was'[t] = was[t]
      /\ Found(PageAt(t))' = Found(PageAt(t))
  BY DEF LoadMeta, files, request, faults, PageAt, Found, BodyAt, Exists, SequenceOf
<1>3. CASE meta[PageAt(t)] \notin {NoFile, Empty}
  <2>1. pc'[t] = "attic" /\ seen'[t].sequence = was[t].sequence
    BY <1>1, <1>3, NoFailure DEF LoadMeta, Goto, AfterLoadMeta, TypeOK, Found,
                                 SequenceOf
  <2> QED BY <1>1, <1>2, <2>1 DEF SoloSaveInv, MetaLabel
<1>4. CASE meta[PageAt(t)] \in {NoFile, Empty}
  <2>1. pc'[t] = "stat" /\ was[t].sequence = 0
    BY <1>1, <1>4 DEF LoadMeta, Goto, TypeOK, Found, SequenceOf
  <2> QED BY <1>1, <1>2, <2>1 DEF SoloSaveInv, MetaLabel
<1> QED BY <1>3, <1>4

LEMMA SoloStat ==
  ASSUME TypeOK, ControlInv, NEW t \in Thread, Solo(t, "save"), SoloSaveInv(t),
         Alone(t), Stat(t), solo'[t]
  PROVE  SoloSaveInv(t)'
<1>1. /\ pc[t] = "stat" /\ req[t].op = "save" /\ Found(PageAt(t)) = was[t]
      /\ was[t].sequence = 0
  BY DEF Stat, At, Solo, SoloSaveInv
<1>2. /\ PageAt(t)' = PageAt(t) /\ was'[t] = was[t]
      /\ Found(PageAt(t))' = Found(PageAt(t))
  BY DEF Stat, files, request, faults, PageAt, Found, BodyAt, Exists, SequenceOf
<1>3. pc'[t] = "attic" /\ seen'[t].sequence = 0
  BY <1>1 DEF Stat, Goto, AfterLoadMeta, TypeOK
<1> QED BY <1>1, <1>2, <1>3 DEF SoloSaveInv, MetaLabel

LEMMA SoloMoveToAttic ==
  ASSUME TypeOK, ControlInv, NEW t \in Thread, Solo(t, "save"), SoloSaveInv(t),
         Alone(t), MoveToAttic(t), solo'[t]
  PROVE  SoloSaveInv(t)'
<1> DEFINE p == PageAt(t)
           m == seen[t].modified
<1>1. /\ pc[t] = "attic" /\ Found(p) = was[t]
      /\ seen[t].sequence = was[t].sequence
  BY DEF MoveToAttic, At, SoloSaveInv
<1>2. m \in Time
  BY <1>1 DEF ControlInv, ThreadInv, SaveLabel, Meta
<1>3. /\ PageAt(t)' = p /\ was'[t] = was[t] /\ seen'[t] = seen[t]
      /\ pc'[t] = "fopen" /\ req'[t] = req[t]
  BY DEF MoveToAttic, request, faults, PageAt, Goto, TypeOK
<1>4. ASSUME was[t].body # NoFile
      PROVE  \E time \in Time : BodyAt(AtticPath(p, time))' = was[t].body
  <2>1. Exists(DataPath(p)) /\ file[DataPath(p)].body = was[t].body
    BY <1>1, <1>4 DEF Found, BodyAt
  <2>2. file'[AtticPath(p, m)] = file[DataPath(p)]
    BY <1>2, <2>1, SoloFacts, NoFailure
    DEF MoveToAttic, Rename, Exists, TypeOK, FileSystemTypeOK
  <2>3. BodyAt(AtticPath(p, m))' = was[t].body
    BY <1>3, <2>1, <2>2 DEF BodyAt, Exists
  <2> QED BY <1>2, <1>3, <2>3
<1> QED BY <1>1, <1>3, <1>4 DEF SoloSaveInv, MetaLabel

LEMMA SoloFopen ==
  ASSUME TypeOK, ControlInv, NEW t \in Thread, Solo(t, "save"), SoloSaveInv(t),
         Alone(t), Fopen(t), solo'[t]
  PROVE  SoloSaveInv(t)'
<1> DEFINE p == PageAt(t)
<1>1. /\ pc[t] = "fopen" /\ seen[t].sequence = was[t].sequence
      /\ was[t].body # NoFile =>
           \E m \in Time : BodyAt(AtticPath(p, m)) = was[t].body
  BY DEF Fopen, At, SoloSaveInv
<1>2. Create(t, DataPath(p)) /\ pc'[t] = "dump"
  BY SoloFacts, NoFailure DEF Fopen, FopenFails, Goto, TypeOK
<1>3. /\ PageAt(t)' = p /\ was'[t] = was[t] /\ seen'[t] = seen[t]
      /\ req'[t] = req[t]
  BY DEF Fopen, request, faults, PageAt
<1>4. fd'[t] = DataPath(p) /\ BodyAt(DataPath(p))' = Empty
  <2>1. file'[DataPath(p)] = [body |-> Empty, mtime |-> now]
    BY <1>2, SoloFacts DEF Create, TypeOK, FileSystemTypeOK
  <2>2. [body |-> Empty, mtime |-> now] \in File
    BY DEF File, Body, TypeOK, FileSystemTypeOK
  <2> QED BY <1>2, <1>3, <2>1, <2>2, SoloFacts
    DEF Create, BodyAt, Exists, TypeOK, FileSystemTypeOK
<1>5. \A m \in Time : BodyAt(AtticPath(p, m))' = BodyAt(AtticPath(p, m))
  BY <1>2, <1>3, SoloFacts DEF Create, BodyAt, Exists, TypeOK, FileSystemTypeOK
<1> QED BY <1>1, <1>2, <1>3, <1>4, <1>5 DEF SoloSaveInv, MetaLabel

LEMMA SoloDump ==
  ASSUME TypeOK, ControlInv, NEW t \in Thread, Solo(t, "save"), SoloSaveInv(t),
         Alone(t), Dump(t), solo'[t]
  PROVE  SoloSaveInv(t)'
<1> DEFINE p == PageAt(t)
           body == req[t].body
<1>1. /\ pc[t] = "dump" /\ seen[t].sequence = was[t].sequence
      /\ was[t].body # NoFile =>
           \E m \in Time : BodyAt(AtticPath(p, m)) = was[t].body
      /\ fd[t] = DataPath(p) /\ BodyAt(DataPath(p)) = Empty
  BY DEF Dump, At, SoloSaveInv
<1>2. /\ PageAt(t)' = p /\ was'[t] = was[t] /\ seen'[t] = seen[t]
      /\ pc'[t] = "update" /\ req'[t] = req[t]
  BY DEF Dump, request, faults, PageAt, Goto, TypeOK
<1>3. ~\E u \in Thread \ {t} : fd[u] = fd[t]
  <2> SUFFICES ASSUME NEW u \in Thread \ {t}, fd[u] = fd[t] PROVE FALSE
    OBVIOUS
  <2>1. pc[u] \in WriteLabel /\ PageOf(fd[u]) = PageAt(u)
    BY <1>1, SoloFacts, OpenFile
  <2>2. PageOf(fd[u]) = p
    BY <1>1 DEF PageOf, DataPath
  <2> QED BY <2>1, <2>2 DEF Alone, Busy, WriteLabel
<1>4. Exists(DataPath(p)) /\ file[DataPath(p)].body = Empty
  BY <1>1, SoloFacts DEF BodyAt, Body
<1>5. file' = [file EXCEPT ![DataPath(p)] = [body |-> body, mtime |-> now]]
  BY <1>1, <1>3, <1>4, SoloFacts, NoFailure DEF Dump, WriteClose, Overlay
<1>6. [body |-> body, mtime |-> now] \in File
  BY SoloFacts DEF File, TypeOK, FileSystemTypeOK
<1>7. BodyAt(DataPath(p))' = body
  BY <1>2, <1>5, <1>6, SoloFacts DEF BodyAt, Exists, TypeOK, FileSystemTypeOK
<1>8. \A m \in Time : BodyAt(AtticPath(p, m))' = BodyAt(AtticPath(p, m))
  BY <1>2, <1>5, SoloFacts DEF BodyAt, Exists, TypeOK, FileSystemTypeOK
<1> QED BY <1>1, <1>2, <1>7, <1>8 DEF SoloSaveInv, MetaLabel

(* What such a save has established once the page is written.              *)
Written(t) ==
  /\ was[t].body # NoFile =>
       \E m \in Time : BodyAt(AtticPath(PageAt(t), m)) = was[t].body
  /\ BodyAt(DataPath(PageAt(t))) = req[t].body

LEMMA WrittenStays ==
  ASSUME NEW t \in Thread, Written(t), UNCHANGED <<file, req, was>>
  PROVE  Written(t)' /\ PageAt(t)' = PageAt(t) /\ req'[t] = req[t] /\ was'[t] = was[t]
BY DEF Written, BodyAt, Exists, PageAt, request, faults

LEMMA SoloUpdate ==
  ASSUME TypeOK, ControlInv, NEW t \in Thread, Solo(t, "save"), SoloSaveInv(t),
         Alone(t), Update(t), solo'[t]
  PROVE  SoloSaveInv(t)'
<1>1. /\ pc[t] = "update" /\ seen[t].sequence = was[t].sequence /\ Written(t)
  BY DEF Update, At, SoloSaveInv, Written
<1>2. pc'[t] = "size" /\ seen'[t] = seen[t]
  BY DEF Update, Goto, TypeOK
<1> QED BY <1>1, <1>2, WrittenStays DEF Update, SoloSaveInv, Written, MetaLabel

LEMMA SoloFilterSize ==
  ASSUME TypeOK, ControlInv, NEW t \in Thread, Solo(t, "save"), SoloSaveInv(t),
         Alone(t), FilterSize(t), solo'[t]
  PROVE  SoloSaveInv(t)'
<1>1. /\ pc[t] = "size" /\ seen[t].sequence = was[t].sequence /\ Written(t)
  BY DEF FilterSize, FileSize, At, SoloSaveInv, Written
<1>2. /\ Exists(DataAt(t)) /\ UNCHANGED <<files, request, seen>>
      /\ pc'[t] = IF req[t].body = Empty THEN "resize" ELSE "metaopen1"
  BY <1>1, SoloFacts DEF FilterSize, FileSize, Throw, Die, Goto, TypeOK, Written,
                         BodyAt
<1> QED BY <1>1, <1>2, WrittenStays DEF request, SoloSaveInv, Written, MetaLabel,
                                        files

LEMMA SoloSaveSize ==
  ASSUME TypeOK, ControlInv, NEW t \in Thread, Solo(t, "save"), SoloSaveInv(t),
         Alone(t), SaveSize(t), solo'[t]
  PROVE  SoloSaveInv(t)'
<1>1. /\ pc[t] = "resize" /\ Written(t)
      /\ req[t].body # Empty => seen[t].sequence > was[t].sequence
  BY DEF SaveSize, FileSize, At, SoloSaveInv, Written
<1>2. /\ Exists(DataAt(t)) /\ UNCHANGED <<files, request, seen>>
      /\ pc'[t] = IF req[t].body = Empty THEN "remove" ELSE "metaopen2"
  BY <1>1, SoloFacts DEF SaveSize, FileSize, Throw, Die, Goto, TypeOK, Written, BodyAt
<1> QED BY <1>1, <1>2, WrittenStays DEF request, SoloSaveInv, Written, MetaLabel,
                                        files

LEMMA SoloSaveMetaOpen ==
  ASSUME TypeOK, ControlInv, NEW t \in Thread, Solo(t, "save"), SoloSaveInv(t),
         Alone(t),
         \/ SaveMetaOpen(t, "metaopen1", "metawrite1")
         \/ SaveMetaOpen(t, "metaopen2", "metawrite2"), solo'[t]
  PROVE  SoloSaveInv(t)'
<1>1. PICK there \in MetaLabel :
        /\ SaveMetaOpen(t, pc[t], there) /\ pc[t] \in {"metaopen1", "metaopen2"}
  BY DEF SaveMetaOpen, At, MetaLabel
<1>2. /\ req[t].body # Empty /\ Written(t) /\ seen[t] \in Meta
      /\ seen[t].sequence >= was[t].sequence
  <2>1. req[t].body # Empty /\ Written(t)
    BY <1>1 DEF SoloSaveInv, Written
  <2>2. seen[t].sequence = was[t].sequence \/ seen[t].sequence > was[t].sequence
    BY <1>1, <2>1 DEF SoloSaveInv
  <2>3. seen[t] \in Meta
    BY <1>1 DEF ControlInv, ThreadInv, SaveLabel
  <2>4. was[t].sequence \in Nat /\ seen[t].sequence \in Nat
    BY <2>3, SoloFacts DEF Was, Meta
  <2> QED BY <2>1, <2>2, <2>3, <2>4
<1>3. pc'[t] = there /\ seen'[t].sequence = seen[t].sequence + 1
  BY <1>1 DEF SaveMetaOpen, Goto, Bumped, TypeOK
<1>4. seen'[t].sequence > was[t].sequence
  <2>1. was[t].sequence \in Nat /\ seen[t].sequence \in Nat
    BY <1>2, SoloFacts DEF Was, Meta
  <2> QED BY <1>2, <1>3, <2>1
<1>5. Written(t)' /\ PageAt(t)' = PageAt(t) /\ req'[t] = req[t] /\ was'[t] = was[t]
  BY <1>1, <1>2, WrittenStays DEF SaveMetaOpen, request
<1>6. fd'[t] = MetaPath(PageAt(t))
  BY <1>1 DEF SaveMetaOpen, TypeOK, FileSystemTypeOK
<1> QED BY <1>2, <1>3, <1>4, <1>5, <1>6 DEF SoloSaveInv, Written, MetaLabel

LEMMA SoloSaveMetaWrite ==
  ASSUME TypeOK, ControlInv, NEW t \in Thread, Solo(t, "save"), SoloSaveInv(t),
         Alone(t),
         \/ SaveMetaWrite(t, "metawrite1", "resize")
         \/ SaveMetaWrite(t, "metawrite2", "reply"), solo'[t]
  PROVE  SoloSaveInv(t)'
<1>1. PICK there \in {"resize", "reply"} :
        /\ SaveMetaWrite(t, pc[t], there) /\ pc[t] \in MetaLabel
  BY DEF SaveMetaWrite, At, MetaLabel
<1>2. /\ req[t].body # Empty /\ Written(t) /\ fd[t] = MetaPath(PageAt(t))
      /\ seen[t].sequence > was[t].sequence
  BY <1>1, SoloFacts DEF SoloSaveInv, Written, MetaLabel
<1>3. /\ pc'[t] = there /\ seen'[t] = seen[t] /\ meta'[PageAt(t)] = seen[t]
  BY <1>1, <1>2, SoloFacts DEF SaveMetaWrite, Goto, TypeOK
<1>4. Written(t)' /\ PageAt(t)' = PageAt(t) /\ req'[t] = req[t] /\ was'[t] = was[t]
  BY <1>1, <1>2, WrittenStays DEF SaveMetaWrite, request
<1>5. SavedAt(t)'
  BY <1>2, <1>3, <1>4 DEF SavedAt, Written, DataAt
<1> QED BY <1>2, <1>3, <1>4, <1>5 DEF SoloSaveInv, Written, MetaLabel

LEMMA SoloRemoveData ==
  ASSUME TypeOK, ControlInv, NEW t \in Thread, Solo(t, "save"), SoloSaveInv(t),
         Alone(t), RemoveData(t), solo'[t]
  PROVE  SoloSaveInv(t)'
<1> DEFINE p == PageAt(t)
<1>1. pc[t] = "remove" /\ req[t].body = Empty /\ Written(t)
  BY DEF RemoveData, At, SoloSaveInv, Written
<1>2. /\ PageAt(t)' = p /\ was'[t] = was[t] /\ req'[t] = req[t]
      /\ pc'[t] = "removemeta"
  BY DEF RemoveData, Goto, request, faults, PageAt, TypeOK
<1>3. ~Exists(DataPath(p))'
  BY <1>2, SoloFacts DEF RemoveData, Unlink, Exists, TypeOK, FileSystemTypeOK
<1>4. \A m \in Time : BodyAt(AtticPath(p, m))' = BodyAt(AtticPath(p, m))
  BY <1>2, SoloFacts DEF RemoveData, Unlink, BodyAt, Exists, TypeOK, FileSystemTypeOK
<1> QED BY <1>1, <1>2, <1>3, <1>4 DEF SoloSaveInv, Written, MetaLabel

LEMMA SoloRemoveMeta ==
  ASSUME TypeOK, ControlInv, NEW t \in Thread, Solo(t, "save"), SoloSaveInv(t),
         Alone(t), RemoveMeta(t), solo'[t]
  PROVE  SoloSaveInv(t)'
<1> DEFINE p == PageAt(t)
<1>1. /\ pc[t] = "removemeta" /\ req[t].body = Empty /\ ~Exists(DataPath(p))
      /\ was[t].body # NoFile =>
           \E m \in Time : BodyAt(AtticPath(p, m)) = was[t].body
  BY DEF RemoveMeta, At, SoloSaveInv
<1>2. /\ PageAt(t)' = p /\ was'[t] = was[t] /\ req'[t] = req[t]
      /\ pc'[t] = "reply" /\ meta'[p] = NoFile /\ UNCHANGED file
  BY SoloFacts DEF RemoveMeta, Goto, request, faults, PageAt, TypeOK
<1>3. /\ ~Exists(DataPath(p))'
      /\ \A m \in Time : BodyAt(AtticPath(p, m))' = BodyAt(AtticPath(p, m))
  BY <1>1, <1>2 DEF BodyAt, Exists
<1>4. SavedAt(t)'
  BY <1>1, <1>2, <1>3 DEF SavedAt, DataAt
<1> QED BY <1>1, <1>2, <1>3, <1>4 DEF SoloSaveInv, MetaLabel

(* The steps of a solo load. *)
LEMMA SoloFind ==
  ASSUME TypeOK, ControlInv, NEW t \in Thread, Solo(t, "load"), SoloLoadInv(t),
         Alone(t), Find(t) \/ Find20(t) \/ FindSpace(t), solo'[t]
  PROVE  SoloLoadInv(t)'
<1> DEFINE p == PageAt(t)
<1>1. /\ UNCHANGED <<file, fd, meta>> /\ PageAt(t)' = p /\ was'[t] = was[t]
      /\ req'[t] = req[t] /\ DataAt(t) = DataPath(p)
  BY SoloFacts DEF Find, Find20, FindSpace, Look, files, request, faults, PageAt
<1>3. CASE Find(t)
  <2>1. pc[t] = "find" /\ Found(p) = was[t] /\ p \notin LibPage
    BY <1>3 DEF Find, Look, At, SoloLoadInv, Solo
  <2>2. was[t].body = BodyAt(DataPath(p)) /\ (Exists(DataPath(p)) => was[t].body # NoFile)
    <3>1. Exists(DataPath(p)) => file[DataPath(p)].body # NoFile
      BY SoloFacts DEF Exists, TypeOK, FileSystemTypeOK, File
    <3> QED BY <2>1, <3>1 DEF Found, BodyAt
  <2>3. pc'[t] = IF Exists(DataPath(p)) THEN "reply" ELSE "find20"
    BY <1>1, <1>3, <2>1 DEF Find, Look, Goto, TypeOK
  <2>4. pc'[t] = "reply" => LoadedAt(t)'
    BY <1>1, <2>2, <2>3 DEF LoadedAt, DataAt, BodyAt, Exists
  <2>5. pc'[t] = "find20" => was[t].body = NoFile /\ ~Exists(DataPath(p))
    BY <2>2, <2>3 DEF BodyAt
  <2> QED BY <1>1, <2>3, <2>4, <2>5 DEF SoloLoadInv, LoadLabel, Exists
<1>4. CASE Find20(t)
  <2>1. pc[t] = "find20" /\ was[t].body = NoFile /\ ~Exists(DataPath(p))
    BY <1>4 DEF Find20, Look, At, SoloLoadInv, LoadLabel
  <2>2. pc'[t] = IF Exists(<<"percent20", p, 0>>) THEN "move20" ELSE "findspace"
    BY <1>4 DEF Find20, Look, Goto, TypeOK
  <2> QED BY <1>1, <2>1, <2>2 DEF SoloLoadInv, LoadLabel, Exists
<1>5. CASE FindSpace(t)
  <2>1. /\ pc[t] = "findspace" /\ was[t].body = NoFile /\ ~Exists(DataPath(p))
        /\ ~Exists(<<"percent20", p, 0>>)
    BY <1>5 DEF FindSpace, Look, At, SoloLoadInv, LoadLabel
  <2>2. pc'[t] = IF Exists(<<"space", p, 0>>) THEN "movespace" ELSE "reply"
    BY <1>5 DEF FindSpace, Look, Goto, TypeOK
  <2>3. pc'[t] = "reply" => LoadedAt(t)'
    BY <1>1, <2>1, <2>2 DEF LoadedAt, Exists
  <2> QED BY <1>1, <2>1, <2>2, <2>3 DEF SoloLoadInv, LoadLabel, Exists
<1> QED BY <1>3, <1>4, <1>5

LEMMA SoloMove ==
  ASSUME TypeOK, ControlInv, NEW t \in Thread, Solo(t, "load"), SoloLoadInv(t),
         Alone(t), Move20(t) \/ MoveSpace(t), solo'[t]
  PROVE  SoloLoadInv(t)'
<1> DEFINE p == PageAt(t)
<1>1. was[t].body = NoFile
  BY DEF Move20, MoveSpace, MoveHere, At, SoloLoadInv, LoadLabel
<1>2. /\ Exists(Source(t)) /\ Rename(Source(t), DataAt(t)) /\ Goto(t, "reply")
      /\ UNCHANGED request
  BY Moving DEF Throw, Die
<1>3. /\ PageAt(t)' = p /\ was'[t] = was[t] /\ pc'[t] = "reply"
  BY <1>2 DEF Goto, request, faults, PageAt, TypeOK
<1>4. Source(t) # DataPath(p) /\ Source(t) \in FilePath
  BY Moving, SoloFacts
<1>5. file'[DataPath(p)] = file[Source(t)] /\ file[Source(t)] # NoFile
  BY <1>2, <1>4, SoloFacts DEF Rename, Exists, TypeOK, FileSystemTypeOK
<1>6. LoadedAt(t)'
  BY <1>1, <1>3, <1>5 DEF LoadedAt, DataAt, Exists
<1> QED BY <1>3, <1>6 DEF SoloLoadInv, LoadLabel

-----------------------------------------------------------------------------
(* A library page is kept out of what changes files.                       *)
LEMMA GuardedStep ==
  ASSUME TypeOK, ControlInv, NEW t \in Thread, SoloOK(t), solo[t], solo'[t], Step(t),
         ~Receive(t), pc'[t] \in Guarded
  PROVE  PageAt(t)' \notin LibPage
<1>1. ~Die /\ ~Reply(t)
  BY DEF Die, Reply, TypeOK
<1>2. req'[t] = req[t]
  BY <1>1
  DEF Step, CallFails, Throw, SaveStep, LoadMeta, Stat, MoveToAttic, Fopen, Dump,
      Update, FilterSize, SaveSize, FileSize, SaveMeta, SaveMetaOpen, SaveMetaWrite,
      CutShort, SaveMetaCut, RemoveData, RemoveMeta, ServeMeta, Load, Find, Find20,
      FindSpace, Look, Move20, MoveSpace, MoveHere, Upload, UploadOpen, UploadCopy,
      request, faults
<1>3. pc[t] \in Guarded => PageAt(t) \notin LibPage
  BY DEF SoloOK
<1>4. CASE SaveStep(t) \/ ServeMeta(t) \/ Find20(t) \/ FindSpace(t) \/ Move20(t)
           \/ MoveSpace(t)
  <2>1. pc[t] \in Guarded
    BY <1>4
    DEF SaveStep, LoadMeta, Stat, MoveToAttic, Fopen, Dump, Update, FilterSize,
        SaveSize, FileSize, SaveMeta, SaveMetaOpen, SaveMetaWrite, CutShort,
        SaveMetaCut, RemoveData, RemoveMeta, ServeMeta, Find20, FindSpace, Look,
        Move20, MoveSpace, MoveHere, At, Guarded, SaveLabel, LoadLabel
  <2> QED BY <1>2, <1>3, <2>1 DEF PageAt
<1>5. CASE Find(t)
  BY <1>2, <1>5 DEF Find, Look, Goto, TypeOK, PageAt, Guarded, SaveLabel, LoadLabel
<1>6. CASE Upload(t)
  BY <1>1, <1>6
  DEF Upload, UploadOpen, UploadCopy, Throw, Goto, TypeOK, Guarded, SaveLabel,
      LoadLabel
<1> QED BY <1>1, <1>4, <1>5, <1>6 DEF Step, CallFails, Throw, Load

(* The thread's own step, whatever it is. *)
LEMMA SoloOwnStep ==
  ASSUME TypeOK, ControlInv, NEW t \in Thread, SoloOK(t), Step(t), TypeOK', ControlInv',
         solo'[t], Alone(t)'
  PROVE  SoloOK(t)'
<1>1. ~Die /\ ~Reply(t)
  BY DEF Die, Reply, TypeOK
<1>2. CASE Receive(t)
  <2>1. PICK r \in Request :
          /\ pc' = [pc EXCEPT ![t] = Entry(r)]
          /\ req' = [req EXCEPT ![t] = r]
          /\ was' = [was EXCEPT ![t] = Found(r.page)]
    BY <1>2 DEF Receive
  <2>2. /\ pc'[t] = Entry(r) /\ req'[t] = r /\ was'[t] = Found(r.page)
        /\ PageAt(t)' = r.page /\ r.op \in {"save", "load", "meta", "upload"}
        /\ UNCHANGED <<file, meta>>
    BY <1>2, <2>1 DEF Receive, TypeOK, PageAt, Request, files
  <2>3. Found(r.page) = [body |-> BodyAt(DataPath(r.page)),
                         sequence |-> SequenceOf(meta[r.page])]
    BY DEF Found
  <2>4. Found(PageAt(t))' = was'[t]
    BY <2>2 DEF Found, BodyAt, Exists, SequenceOf
  <2>5. pc'[t] \in Guarded => PageAt(t)' \notin LibPage
    BY <2>2 DEF Entry, Guarded, SaveLabel, LoadLabel
  <2>6. Solo(t, "save")' => SoloSaveInv(t)'
    <3>1. Solo(t, "save")' => pc'[t] = "loadmeta"
      BY <2>2 DEF Solo, Entry
    <3> QED BY <2>4, <3>1 DEF SoloSaveInv, MetaLabel
  <2>7. Solo(t, "load")' => SoloLoadInv(t)'
    <3>1. Solo(t, "load")' => pc'[t] = "find"
      BY <2>2 DEF Solo, Entry
    <3> QED BY <2>4, <3>1 DEF SoloLoadInv, LoadLabel
  <2> QED BY <2>5, <2>6, <2>7 DEF SoloOK
<1>3. CASE ~Receive(t)
  <2>1. solo[t] /\ UNCHANGED req
    BY <1>1, <1>3, NoFailure
    DEF Step, CallFails, Throw, SaveStep, LoadMeta, Stat, MoveToAttic, Fopen,
        FopenFails, Dump, Update, FilterSize, SaveSize, FileSize, SaveMeta,
        SaveMetaOpen, SaveMetaWrite, CutShort, SaveMetaCut, RemoveData, RemoveMeta,
        ServeMeta, Load, Find, Find20, FindSpace, Look, Move20, MoveSpace, MoveHere,
        Upload, UploadOpen, UploadCopy, request, faults, TypeOK
  <2>2. Alone(t) /\ Busy(t)
    BY <2>1 DEF SoloOK, ControlInv, ThreadInv
  <2>3. pc'[t] \in Guarded => PageAt(t)' \notin LibPage
    BY <1>3, <2>1, GuardedStep
  <2>4. \A op \in {"save", "load"} : Solo(t, op)' => Solo(t, op)
    BY <2>1, <2>2 DEF Solo, PageAt
  <2>5. pc[t] \in LabelsOf(req[t].op)
    BY <2>2, Serving
  <2>6. ASSUME Solo(t, "save")' PROVE SoloSaveInv(t)'
    <3>1. Solo(t, "save") /\ SoloSaveInv(t) /\ pc[t] \in SaveLabel \cup {"reply"}
      BY <2>1, <2>4, <2>5, <2>6 DEF SoloOK, Solo, LabelsOf
    <3>2. SaveStep(t)
      BY <1>1, <1>3, <3>1
      DEF Step, CallFails, Throw, ServeMeta, Load, Find, Find20, FindSpace, Look,
          Move20, MoveSpace, MoveHere, Upload, UploadOpen, UploadCopy, At, SaveLabel
    <3> QED BY <2>2, <3>1, <3>2, SoloLoadMeta, SoloStat, SoloMoveToAttic, SoloFopen,
               SoloDump, SoloUpdate, SoloFilterSize, SoloSaveSize, SoloSaveMetaOpen,
               SoloSaveMetaWrite, SoloRemoveData, SoloRemoveMeta, NoFailure
            DEF SaveStep, SaveMeta, CutShort, SaveMetaCut
  <2>7. ASSUME Solo(t, "load")' PROVE SoloLoadInv(t)'
    <3>1. Solo(t, "load") /\ SoloLoadInv(t) /\ pc[t] \in LoadLabel \cup {"reply"}
      BY <2>1, <2>4, <2>5, <2>7 DEF SoloOK, Solo, LabelsOf
    <3>2. Load(t)
      BY <1>1, <1>3, <3>1
      DEF Step, CallFails, Throw, ServeMeta, SaveStep, LoadMeta, Stat, MoveToAttic,
          Fopen, Dump, Update, FilterSize, SaveSize, FileSize, SaveMeta,
          SaveMetaOpen, SaveMetaWrite, CutShort, SaveMetaCut, RemoveData,
          RemoveMeta, Upload, UploadOpen, UploadCopy, At, LoadLabel
    <3> QED BY <2>2, <3>1, <3>2, SoloFind, SoloMove DEF Load
  <2> QED BY <2>1, <2>3, <2>6, <2>7 DEF SoloOK
<1> QED BY <1>2, <1>3

LEMMA SoloNext ==
  ASSUME TypeOK, ControlInv, SoloInv, [Next]_vars
  PROVE  SoloInv'
<1>1. TypeOK' /\ ControlInv'
  BY NextOK
<1>2. ASSUME NEW u \in Thread, Step(u), NEW t \in Thread, solo'[t] PROVE SoloOK(t)'
  <2>1. Alone(t)' /\ SoloOK(t)
    BY <1>1, <1>2, StaysAlone DEF SoloInv
  <2>2. CASE t = u
    BY <1>1, <1>2, <2>1, <2>2, SoloOwnStep
  <2>3. CASE t # u
    <3>1. Same(t)
      BY <1>2, <2>3, NotMine
    <3>2. Busy(t) /\ Alone(t)
      BY <1>2, <2>1, <3>1 DEF Same, SoloOK, ControlInv, ThreadInv
    <3>3. CASE Busy(u)
      <4>1. PageAt(u) # PageAt(t)
        BY <2>3, <3>2, <3>3 DEF Alone
      <4>2. Kept(PageAt(t)) /\ fd'[t] = fd[t]
        BY <1>2, <2>3, <3>2, <3>3, <4>1, OtherPage
      <4> QED BY <2>1, <3>1, <3>2, <4>2, Undisturbed
    <3>4. CASE ~Busy(u)
      <4>1. UNCHANGED <<file, fd, meta>>
        BY <1>2, <3>4
        DEF Step, CallFails, Throwing, SaveStep, LoadMeta, Stat, MoveToAttic, Fopen,
            Dump, Update, FilterSize, SaveSize, FileSize, SaveMeta, SaveMetaOpen,
            SaveMetaWrite, CutShort, SaveMetaCut, RemoveData, RemoveMeta, ServeMeta,
            Load, Find, Find20, FindSpace, Look, Move20, MoveSpace, MoveHere,
            Upload, UploadOpen, UploadCopy, Reply, Receive, At, Busy, files
      <4>2. Kept(PageAt(t)) /\ fd'[t] = fd[t]
        BY <4>1 DEF Kept
      <4> QED BY <2>1, <3>1, <3>2, <4>2, Undisturbed
    <3> QED BY <3>3, <3>4
  <2> QED BY <2>2, <2>3
<1>3. CASE Kill
  BY <1>3 DEF Kill, Die, SoloInv, SoloOK
<1>4. CASE Restart \/ Tick \/ UNCHANGED vars
  <2> SUFFICES ASSUME NEW t \in Thread, solo'[t] PROVE SoloOK(t)'
    BY DEF SoloInv, SoloOK
  <2>1. /\ Same(t) /\ UNCHANGED <<file, fd, meta, pc, req>>
    BY <1>4 DEF Restart, Tick, vars, files, request, faults, Same
  <2>2. Busy(t) /\ SoloOK(t) /\ Alone(t)
    BY <2>1 DEF Same, SoloInv, SoloOK, ControlInv, ThreadInv
  <2>3. Alone(t)' /\ Kept(PageAt(t))
    BY <2>1, <2>2 DEF Alone, Busy, PageAt, Kept
  <2> QED BY <2>1, <2>2, <2>3, Undisturbed
<1> QED BY <1>2, <1>3, <1>4 DEF Next, SoloInv, SoloOK

-----------------------------------------------------------------------------
(* The whole inductive invariant holds in every behaviour.                 *)
THEOREM SoloInvariant == Spec => []IInv
<1>1. Init => SoloInv
  BY DEF Init, SoloInv, SoloOK
<1>2. TypeOK /\ ControlInv /\ SoloInv /\ [Next]_vars => SoloInv'
  BY SoloNext
<1>3. TypeOK /\ ControlInv /\ ArchivedAck /\ SoloInv => IInv
  BY DEF IInv
<1> QED BY <1>1, <1>2, <1>3, TypeCorrect, Archived, PTL DEF Spec

(* A request that is alone on its page runs into an exception only where   *)
(* the page's directory is missing, in a load or an upload.                *)
THEOREM ThrowsOnlyWithoutFolder == Spec => []SoloThrowsWithoutFolder
<1>1. IInv => SoloThrowsWithoutFolder
  <2> SUFFICES ASSUME IInv, NEW t \in Thread, solo[t], Throws(t)
               PROVE  req[t].op \in {"load", "upload"} /\ PageAt(t) \notin folder
    BY DEF SoloThrowsWithoutFolder
  <2>1. SoloOK(t) /\ TypeOK /\ ControlInv
    BY DEF IInv, SoloInv
  <2>2. Busy(t) /\ pc[t] \in LabelsOf(req[t].op) /\ req[t] \in Request
    BY <2>1, Serving DEF ControlInv, ThreadInv
  <2>3. CASE pc[t] \in {"size", "resize"}
    <3>1. Solo(t, "save") /\ SoloSaveInv(t)
      BY <2>1, <2>2, <2>3
      DEF SoloOK, Solo, Guarded, SaveLabel, LoadLabel, LabelsOf, Request
    <3>2. BodyAt(DataAt(t)) = req[t].body /\ req[t].body \in Body /\ NoFile \notin Body
      BY <2>1, <2>3, <3>1, SoloFacts DEF SoloSaveInv
    <3> QED BY <2>3, <3>2 DEF BodyAt, Throws
  <2>4. CASE pc[t] \in {"move20", "movespace"}
    <3>1. Solo(t, "load") /\ SoloLoadInv(t)
      BY <2>1, <2>2, <2>4
      DEF SoloOK, Solo, Guarded, SaveLabel, LoadLabel, LabelsOf, Request
    <3>2. Exists(Source(t))
      BY <2>4, <3>1 DEF SoloLoadInv, Source
    <3> QED BY <2>4, <3>1, <3>2 DEF Throws, Solo
  <2>5. CASE pc[t] = "create"
    BY <2>2, <2>5 DEF Throws, LabelsOf, Request, SaveLabel, LoadLabel
  <2> QED BY <2>3, <2>4, <2>5 DEF Throws
<1> QED BY <1>1, SoloInvariant, PTL

(* A save that was alone on its page left what was posted, or nothing.     *)
THEOREM SavesWhatWasPosted == Spec => []SoloSave
<1>1. IInv => SoloSave
  BY DEF IInv, SoloInv, SoloOK, Solo, SoloSave, SoloSaveInv
<1> QED BY <1>1, SoloInvariant, PTL

(* Wherever such a save is cut short, the previous page is still on disk.  *)
THEOREM KeepsPrevious == Spec => []PreviousKept
<1>1. IInv => PreviousKept
  <2> SUFFICES ASSUME IInv, NEW t \in Thread, Solo(t, "save"), was[t].body # NoFile
               PROVE  \E path \in {DataAt(t)}
                                 \cup {AtticPath(PageAt(t), m) : m \in Time} :
                        BodyAt(path) = was[t].body
    BY DEF PreviousKept
  <2>1. SoloSaveInv(t) /\ DataAt(t) = DataPath(PageAt(t))
    BY SoloFacts DEF IInv, SoloInv, SoloOK, Solo
  <2>2. CASE pc[t] \in {"loadmeta", "stat", "attic"}
    BY <2>1, <2>2 DEF SoloSaveInv, Found
  <2>3. CASE pc[t] \notin {"loadmeta", "stat", "attic"}
    BY <2>1, <2>3 DEF SoloSaveInv
  <2> QED BY <2>2, <2>3
<1> QED BY <1>1, SoloInvariant, PTL

(* A load that was alone on its page replaced nothing and missed nothing.  *)
THEOREM LoadsSafely == Spec => []SoloLoad
<1>1. IInv => SoloLoad
  BY DEF IInv, SoloInv, SoloOK, Solo, SoloLoad, SoloLoadInv
<1> QED BY <1>1, SoloInvariant, PTL
=============================================================================
