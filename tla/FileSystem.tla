----------------------------- MODULE FileSystem -----------------------------
(***************************************************************************)
(* The part of the POSIX file system the page store relies on: open with   *)
(* truncation, write, rename, unlink, and the rule that an open descriptor *)
(* follows the file and not its name.  A file is named by one path only    *)
(* (the program makes no hard links), so a descriptor is modelled by the   *)
(* path its file has now, or Orphan once that file has no path any more.   *)
(* This is the environment of the program and not part of it.              *)
(***************************************************************************)
EXTENDS Naturals

CONSTANTS
  Thread,   \* the worker threads, each with at most one open descriptor
  Page,     \* resource paths below wb_root
  Content,  \* what a file may hold, Empty excepted
  Empty,    \* the body of a file of size zero
  Torn,     \* a part of one write, or the bytes of two writers mixed
  NoFile,   \* the value of a path that names no file
  NoFd,     \* the thread has no file open
  Orphan,   \* the thread's open file has no path
  MaxTime   \* bound: the last second of the clock

ASSUME FileSystemAssumption ==
  /\ MaxTime \in Nat \ {0}
  /\ Torn # Empty
  /\ Content \cap {Empty, Torn} = {}
  /\ NoFile \notin Content \cup {Empty, Torn}

VARIABLES
  now,      \* the clock, in whole seconds as time(0) returns it
  file,     \* path -> body and time of last write, or NoFile
  fd        \* thread -> the path of its open file, Orphan or NoFd

Time == 1 .. MaxTime

(* A page's file may lie under its canonical name or under two older       *)
(* spellings of it; its copies in the attic are told apart by a time.  A   *)
(* path is a triple: what the file is for, its page, the time in its name. *)
Spelling  == {"data", "percent20", "space"}
LivePath  == Spelling \X Page \X {0}
AtticFile == {"attic"} \X Page \X Time
MetaFile  == {"meta"} \X Page \X {0}
FilePath  == LivePath \cup AtticFile
PageOf(path) == path[2]
Body      == Content \cup {Empty, Torn}
File      == [body : Body, mtime : Time]

Exists(path) == file[path] # NoFile

(* open(path, O_CREAT|O_TRUNC) by thread t. *)
Create(t, path) ==
  /\ file' = [file EXCEPT ![path] = [body |-> Empty, mtime |-> now]]
  /\ fd' = [fd EXCEPT ![t] = path]

(* What writing new at offset 0 of a file that holds old may leave.  Bytes *)
(* of another writer beyond the end of new survive, and a writer that has  *)
(* the file open too (shared) may mix its own with them.                   *)
Overlay(old, new, shared) ==
  IF new = Empty THEN {old}
  ELSE {new} \cup (IF shared \/ old \notin {Empty, new} THEN {Torn} ELSE {})

(* Thread t writes body through its descriptor and closes it. *)
WriteClose(t, body) ==
  /\ IF fd[t] \in FilePath
       THEN \E b \in Overlay(file[fd[t]].body, body,
                             \E u \in Thread \ {t} : fd[u] = fd[t]) :
              file' = [file EXCEPT ![fd[t]] = [body |-> b, mtime |-> now]]
       ELSE UNCHANGED file
  /\ fd' = [fd EXCEPT ![t] = NoFd]

(* The process ends: some of the writes under way reach the disk in part,  *)
(* all descriptors are gone.                                               *)
Crash ==
  /\ \E cut \in SUBSET ({fd[t] : t \in Thread} \cap FilePath) :
       file' = [path \in FilePath |->
                  IF path \in cut THEN [body |-> Torn, mtime |-> now]
                                  ELSE file[path]]
  /\ fd' = [t \in Thread |-> NoFd]

(* rename(src, dst): the file at dst loses its path, descriptors follow. *)
Rename(src, dst) ==
  /\ file' = [file EXCEPT ![dst] = file[src], ![src] = NoFile]
  /\ fd' = [u \in Thread |-> IF fd[u] = dst THEN Orphan
                             ELSE IF fd[u] = src THEN dst ELSE fd[u]]

(* unlink(path), no error when it names nothing. *)
Detach(path) == fd' = [u \in Thread |-> IF fd[u] = path THEN Orphan ELSE fd[u]]
Unlink(path) == file' = [file EXCEPT ![path] = NoFile] /\ Detach(path)

FileSystemTypeOK ==
  /\ now \in Time
  /\ file \in [FilePath -> File \cup {NoFile}]
  /\ fd \in [Thread -> FilePath \cup MetaFile \cup {NoFd, Orphan}]
=============================================================================
