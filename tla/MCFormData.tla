----------------------------- MODULE MCFormData -----------------------------
(***************************************************************************)
(* A small instance of FormData for TLC: forms of up to two parts, and     *)
(* forms that are cut short.                                               *)
(***************************************************************************)
EXTENDS FormData

CONSTANTS B, fn, h, x

Bytes  == {CR, LF, Dash, B, fn, h, x}
Bodies == UNION {[1 .. n -> {x, CR, LF}] : n \in 0 .. 3}
            \cup {<<CR, x, x, x>>, <<x, CR, x, x>>, <<CR, LF, Dash, Dash, x>>}
Headers == {<<fn>>, <<h>>, <<h, CR, LF, fn>>, <<fn, CR, LF, h, h, h>>}
Parts == [headers : Headers, body : Bodies]
SmallParts == [headers : {<<fn>>, <<h>>}, body : {<<>>, <<x>>, <<CR, x>>, <<LF, x, x, CR>>}]

FormOf(parts) ==
  LET rest[k \in 0 .. Len(parts)] ==
        IF k = Len(parts) THEN <<Dash, Dash>> \o CRLF ELSE PartOf(parts[k + 1], rest[k + 1])
  IN [parts |-> parts, rest |-> rest]
SomeForms == {FormOf(parts) : parts \in {<<>>} \cup [1 .. 1 -> Parts] \cup [1 .. 2 -> SmallParts]}

LongHeaders == [headers : {<<h, h, h, h, h, h, fn>>}, body : {<<>>, <<x, CR>>}]

Cut(s, n) == SubSeq(s, 1, n)
OnePart(p) == Encode(FormOf(<<p>>))
CutForms == {Cut(OnePart(p), n) : p \in SmallParts, n \in 0 .. 16}
LateForms == {before \o OnePart(p) : p \in SmallParts, before \in {<<x>>, <<Dash>>, CRLF}}
OtherTexts == UNION {[1 .. n -> {CR, LF, Dash, B}] : n \in 0 .. 5}

SomeInputs == {Encode(f) : f \in SomeForms} \cup CutForms
                \cup {OnePart(p) : p \in LongHeaders}
                \cup LateForms \cup OtherTexts
OneByte == <<B>>
FormStrings == {Delimiter, BlankLine, EndOfPart}
=============================================================================
