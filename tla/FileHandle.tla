----------------------------- MODULE FileHandle -----------------------------
(***************************************************************************)
(* File.cc: a C++ object that owns a POSIX descriptor, with the offset the *)
(* kernel keeps for it, and the files behind.  Contents are sequences of   *)
(* cells; a cell is whatever one write may be cut into.                    *)
(***************************************************************************)
EXTENDS Naturals, Sequences, FiniteSets, SequencesExt

CONSTANTS
  Handle,   \* the C++ objects
  Fd,       \* descriptors
  DiskFull  \* whether a write may take less than it is given, or fail

ASSUME FileAssumption ==
  /\ Fd \subseteq Nat /\ DiskFull \in BOOLEAN
  /\ IsFiniteSet(Handle) /\ IsFiniteSet(Fd) /\ Cardinality(Fd) >= Cardinality(Handle)

NotOpen == 0 - 1

VARIABLES
  disk,    \* path -> content
  kernel,  \* open descriptor -> its path and offset
  m_fd     \* object -> its descriptor, or NotOpen

fileVars == <<disk, kernel, m_fd>>

FileInit(files) ==
  /\ disk = files
  /\ kernel = <<>>
  /\ m_fd = [f \in Handle |-> NotOpen]

IsOpened(f) == m_fd[f] # NotOpen
Closed(f) == Restrict(kernel, DOMAIN kernel \ {m_fd[f]})
PathOf(f) == kernel[m_fd[f]].path
Offset(f) == kernel[m_fd[f]].offset
Content(f) == disk[PathOf(f)]

With(f, x, v) == [y \in DOMAIN f \cup {x} |-> IF y = x THEN v ELSE f[y]]

(* open(2) returns the lowest free descriptor. *)
Descriptor(others) == CHOOSE d \in Fd \ others : \A e \in Fd \ others : d <= e

(* File::Open: the object's old descriptor is closed first. *)
Open(f, path) ==
  LET others == Closed(f)
      d == Descriptor(DOMAIN others)
  IN /\ kernel' = With(others, d, [path |-> path, offset |-> 0])
     /\ m_fd' = [m_fd EXCEPT ![f] = d]

OpenForRead(f, path) == path \in DOMAIN disk /\ Open(f, path) /\ UNCHANGED disk

\* mutant: without O_TRUNC
OpenForWriteKeeps(f, path) ==
  Open(f, path) /\ IF path \in DOMAIN disk THEN UNCHANGED disk ELSE disk' = With(disk, path, <<>>)

OpenForWrite(f, path) == Open(f, path) /\ disk' = With(disk, path, <<>>)
OpenRandom(f, names) ==
  \E path \in names \ DOMAIN disk :
    /\ \A other \in names \ DOMAIN disk : path[2] <= other[2]
    /\ OpenForWrite(f, path)

(* An open that fails throws, and has closed what was open. *)
Close(f) ==
  /\ kernel' = Closed(f)
  /\ m_fd' = [m_fd EXCEPT ![f] = NotOpen]
  /\ UNCHANGED disk
OpenFails(f) == Close(f)

(* read(2) at the end of the file returns nothing. *)
ReadCount(f, size) ==
  LET left == Len(Content(f)) - Offset(f)
  IN IF left <= 0 THEN 0 ELSE IF left < size THEN left ELSE size
Ahead(f, size) == SubSeq(Content(f), Offset(f) + 1, Offset(f) + ReadCount(f, size))
MoveTo(f, offset) == kernel' = [kernel EXCEPT ![m_fd[f]].offset = offset]
Read(f, size) ==
  /\ IsOpened(f)
  /\ MoveTo(f, Offset(f) + ReadCount(f, size))
  /\ UNCHANGED <<disk, m_fd>>

(* write(2) of the first count cells of data; a hole reads as hole.        *)
Write(f, data, count, hole) ==
  LET end == Offset(f) + count
      old == Content(f)
  IN /\ IsOpened(f)
     /\ disk' = [disk EXCEPT ![PathOf(f)] =
          [i \in 1 .. (IF end < Len(old) THEN Len(old) ELSE end) |->
             IF i > Offset(f) /\ i <= end THEN data[i - Offset(f)]
             ELSE IF i <= Len(old) THEN old[i] ELSE hole]]
     /\ MoveTo(f, end)
     /\ UNCHANGED m_fd
Counts(data) == IF DiskFull /\ data # <<>> THEN 1 .. Len(data) ELSE {Len(data)}

Seek(f, offset) == IsOpened(f) /\ MoveTo(f, offset) /\ UNCHANGED <<disk, m_fd>>

(* rename(2); descriptors follow the file. *)
Rename(from, to) ==
  /\ disk' = With(Restrict(disk, DOMAIN disk \ {from}), to, disk[from])
  /\ kernel' = [d \in DOMAIN kernel |->
       IF kernel[d].path = from THEN [kernel[d] EXCEPT !.path = to] ELSE kernel[d]]
  /\ UNCHANGED m_fd

(* The end of a process closes every descriptor. *)
CloseAll ==
  /\ kernel' = <<>>
  /\ m_fd' = [f \in Handle |-> NotOpen]
  /\ UNCHANGED disk

------------------------------------------------------------------------------
(* Whatever is opened over what, and wherever an open fails, each open     *)
(* descriptor belongs to one object and each object to an open descriptor: *)
(* none leaks and none is used after it was closed (Open, OpenRandom,      *)
(* Close).                                                                 *)
Owned ==
  /\ \A f \in Handle : IsOpened(f) => m_fd[f] \in DOMAIN kernel
  /\ \A d \in DOMAIN kernel : Cardinality({f \in Handle : m_fd[f] = d}) = 1
=============================================================================
