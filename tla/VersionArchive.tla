--------------------------- MODULE VersionArchive ---------------------------
(***************************************************************************)
(* What the page store promises about its content-addressed archive, the   *)
(* files attic/<SHA1 of the page>: a version is stored before its author   *)
(* is told that it is saved, and no version ever leaves the archive, not   *)
(* even when the server dies.                                              *)
(***************************************************************************)
CONSTANT Body          \* the contents a page can have

VARIABLES
  archive,             \* the contents the archive holds
  acked                \* the contents whose authors have been answered

Init == archive = {} /\ acked = {}

Store(b) == archive' = archive \cup {b} /\ UNCHANGED acked

Confirm(b) ==
  /\ b \in archive
  /\ acked' = acked \cup {b}
  /\ UNCHANGED archive

Next == \E b \in Body : Store(b) \/ Confirm(b)

Spec == Init /\ [][Next]_<<archive, acked>>
=============================================================================
