------------------------- MODULE MCHTMLStreamFilter -------------------------
(***************************************************************************)
(* A small instance of HTMLStreamFilter for TLC: pages of up to three      *)
(* turns, pages that are cut short, and texts of any shape.                *)
(***************************************************************************)
EXTENDS HTMLStreamFilter

CONSTANTS p, s, x, z

Bytes == {LT, GT, Space, NewLine, Slash, Bang, Dash, p, s, x, z}
GoodNames == {<<p>>}

Tag(name, attributes, text_) ==
  [name |-> name, attributes |-> attributes, inside |-> <<>>, close |-> <<>>,
   closed |-> TRUE, text |-> text_]
Element(name, attributes, inside_, close_) ==
  [Tag(name, attributes, <<>>) EXCEPT !.inside = inside_, !.close = close_]
OnlyTag(name, attributes, close_) == Element(name, attributes, <<>>, close_)
With(t, more) == [t EXCEPT !.text = @ \o more]

Paragraphs ==
  {Tag(<<p>>, <<>>, <<GT>>), Tag(<<Slash, p>>, <<>>, <<GT>>),
   Tag(<<p>>, <<Space, x>>, <<GT>>), Tag(<<p>>, <<>>, <<NewLine, x, GT>>)}
Texts == {<<x>>, <<x, GT, Space>>, <<Dash, Dash, GT>>}
Dropped ==
  {Element(<<s>>, <<>>, <<GT>> \o inside, <<>>) :
     inside \in {<<>>, <<z>>, <<LT, p, GT, z, LT, Slash, p, GT>>, <<LT, Dash, z>>}}
  \cup {Element(<<s>>, <<Space, z, NewLine, z>>, <<GT>>, <<>>),
        Element(<<s>>, <<>>, <<NewLine, z, GT, z>>, <<Space, z>>),
        OnlyTag(<<Slash, s>>, <<>>, <<>>), OnlyTag(<<Slash, s>>, <<Space, z>>, <<>>),
        Element(<<s, s, s, s, s>>, <<>>, <<GT, z>>, <<s>>),
        Element(Comment, <<>>, <<Space, z, LT, p, GT, z, Dash, Space>>, <<>>),
        Element(Comment, <<>>, <<Space, Dash, GT, z>>, <<>>)}

(* An inner element of the same name ends the outer one: what is behind it *)
(* is copied.  A comment without a blank is an element that never ends.    *)
Nested ==
  <<With(Element(<<s>>, <<>>, <<GT, z, LT, s, GT, z>>, <<>>), <<x>>),
    OnlyTag(<<Slash, s>>, <<>>, <<>>)>>
Endless ==
  [Element(Comment \o <<z, Dash, Dash>>, <<>>, <<GT, z, LT, Slash, p, GT, z>>, <<>>)
     EXCEPT !.closed = FALSE]

(* Too long for the cache: the end of the element is missed.               *)
Long == Element(<<s>>, <<>>, <<GT, z, LT, z, z, z, z, z, z, z, z, z>>, <<>>)

Document(turns_, before_) ==
  LET n == Len(turns_)
      rests[k \in 0 .. n] == IF k = n THEN <<>> ELSE TurnOf(turns_[k + 1], rests[k + 1])
      keeps[k \in 0 .. n] == IF k = 0 THEN <<>> ELSE Copied(turns_[k], keeps[k - 1])
  IN [before |-> before_, turns |-> turns_, rest |-> rests, kept |-> keeps]

Bad == Paragraphs \cup Dropped
Pieces == {<<t>> : t \in Bad}
CleanTurns ==
  {<<>>} \cup Pieces
    \cup {<<With(t, text_)>> : t \in Bad, text_ \in Texts}
    \cup {<<t, u>> : t \in Bad, u \in Bad}
    \cup {<<With(t, text_ \o more)>> : t \in Bad, text_ \in Texts, more \in Texts}
    \cup {<<With(t, text_), u>> : t \in Bad, text_ \in Texts, u \in Bad}
    \cup {Nested \o piece : piece \in Pieces}
    \cup {<<Nested[1], With(Nested[2], text_)>> : text_ \in Texts}
    \cup {<<t>> \o Nested : t \in Bad} \cup {Nested \o Nested}
    \cup {<<t, Endless>> : t \in Bad} \cup {Nested \o <<Endless>>}
LongTurns ==
  {<<t, Long, u>> : t \in Paragraphs, u \in Bad}
    \cup {<<Long, t, u>> : t \in Dropped, u \in Paragraphs}
    \cup {<<t, With(Long, text_)>> : t \in Paragraphs, text_ \in Texts}
Starts == {<<x, GT, Space>>}

Pages == {Document(turns_, <<>>) : turns_ \in CleanTurns \cup LongTurns}
           \cup {Document(<<t>>, start) : t \in Bad, start \in Starts}

CutPages == UNION {LET all == Whole(Document(<<a, b>>, <<>>))
                   IN {SubSeq(all, 1, n) : n \in 0 .. Len(all)} : a \in Dropped, b \in Dropped}
OtherTexts == UNION {[1 .. n -> {LT, GT, Space, Slash, p, s}] : n \in 0 .. 4}

SomeTargets == {{LT}, {GT}, TagEnds}
SomeStrings == {EndOfComment} \cup
               {EndTag(name) : name \in UNION {[1 .. n -> Bytes \ TagEnds] : n \in 0 .. SinkCap}}

SomeInputs == {Whole(d) : d \in Pages} \cup CutPages \cup OtherTexts
=============================================================================
