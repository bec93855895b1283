------------------------------ MODULE MCStorage ------------------------------
(***************************************************************************)
(* A small instance of Storage: documents of up to eight octets in blocks  *)
(* of four, metadata files that are missing, cut, edited by hand, and with *)
(* blanks behind the document.                                             *)
(***************************************************************************)
EXTENDS Storage

CONSTANTS vx, vy

OctetValues == {0, 1, 2, 7}
SomePages == {<<>>, <<0, 7, 1>>, <<1, 2, 1, 0, 2>>, <<1, 2, 0, 1, 2, 0, 7, 2>>}
Given == [k \in Range(Field) |-> 3]
SomeMeta ==
  {None, Text(Given), Text(Given) \o <<Space>>, Text(Given) \o <<Space, Space>>,
   SubSeq(Text(Given), 1, 3), Text([k \in {"last-modified", "name"} |-> 3]),
   Text([k \in {"name", "type", "sequence"} |-> 3])}
SomeChunks == {<<1>>, <<0, 7>>, <<2, 1, 2>>}
=============================================================================
