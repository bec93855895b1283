--------------------------- MODULE MCStreamParser ---------------------------
(***************************************************************************)
(* Small instances of StreamParser for TLC.                                *)
(***************************************************************************)
EXTENDS StreamParser

CONSTANTS a, b, c, MaxInput

SmallInputs == UNION {[1 .. n -> Byte] : n \in 0 .. MaxInput}
SomeTargets == {{b}, {a, b}}
SomeStrings == {<<a, b>>, <<a, a, b>>, <<a, b, a, b>>}   \* one that no cache holds
=============================================================================
