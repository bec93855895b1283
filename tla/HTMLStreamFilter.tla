-------------------------- MODULE HTMLStreamFilter --------------------------
(***************************************************************************)
(* HTMLStreamFilter::Parse: a page is copied without the elements that are *)
(* not in the white list.  The stage is the parser's call under way; when  *)
(* it has returned, Parse looks at its result and makes the next one.      *)
(***************************************************************************)
EXTENDS StreamParser

CONSTANTS
  LT, GT, Space, NewLine, Slash, Bang, Dash,   \* the bytes of the markup
  WhiteList,    \* the names of elements that are copied
  SinkCap,      \* the most a StringStream holds
  Documents,    \* pages: what Parse takes a turn of its loop for, see Whole
  Marker        \* a byte that is only inside of elements and comments to skip

Lacks(text, bytes) == \A i \in 1 .. Len(text) : text[i] \notin bytes

Comment == <<Bang, Dash, Dash>>
EndOfComment == <<Dash, Dash, GT>>
EndTag(name) == <<LT, Slash>> \o name
TagEnds == {Space, GT, NewLine}

ASSUME FilterAssumption ==
  /\ {LT, GT, Space, NewLine, Slash, Bang, Dash} \subseteq Byte
  /\ Space # LT /\ GT \notin {LT, Space} /\ LT \notin {NewLine, Slash}
  /\ \A name \in WhiteList : name \in Seq(Byte) /\ Lacks(name, {LT, Marker})
  /\ Marker \notin {LT, Slash}
  /\ SinkCap \in Nat \ {0}
  /\ {{LT}, {GT}, TagEnds} \subseteq Targets /\ 1 \in Counts
  /\ EndOfComment \in Strings
  /\ \A n \in 0 .. SinkCap : \A name \in [1 .. n -> Byte \ TagEnds] : EndTag(name) \in Strings

VARIABLES
  stage,    \* which call Parse is at
  tag,      \* what is behind the last "<"
  page      \* what has been written to the output

fvars == <<vars, stage, tag, page>>

Stage == {"before", "skip", "text", "open", "tag", "attributes", "comment",
          "badAttributes", "inside", "close", "closed"}

-----------------------------------------------------------------------------
Until(bytes) == Begin([op |-> "bytes", targets |-> bytes])
UntilString(s) == Begin([op |-> "string", string |-> s])
ConsumeOne == Begin([op |-> "consume", count |-> 1])

StrUnbounded == out   \* mutant: a StringStream without a limit
Stored(text) == SubSeq(text, 1, Least(SinkCap, Len(text)))
Str == Stored(out)

Returns(call_) == stage = call_ /\ pc = "idle"
Then(next) == stage' = next /\ UNCHANGED tag

IsEnd(name) == name # <<>> /\ name[1] = Slash
Name(name) == IF IsEnd(name) THEN Tail(name) ELSE name
CheckElement(name) == Name(name) \in WhiteList

(* Before the first tag everything is thrown away.                         *)
ReadBefore ==
  /\ Returns("before")
  /\ Until({LT}) /\ Then("skip") /\ UNCHANGED page

AtTagForEver ==   \* mutant: goes on at the end of the input
  /\ Returns("skip") \/ Returns("text")
  /\ page' = IF stage = "text" THEN page \o out ELSE page
  /\ ConsumeOne /\ Then("open")

AtTag ==
  /\ Returns("skip") \/ Returns("text")
  /\ page' = IF stage = "text" THEN page \o out ELSE page
  /\ IF found THEN ConsumeOne /\ Then("open")
     ELSE stage' = "done" /\ UNCHANGED <<vars, tag>>

ReadTag ==
  /\ Returns("open")
  /\ Until(TagEnds) /\ Then("tag") /\ UNCHANGED page

GoodTag ==
  /\ Returns("tag") /\ tag' = Str
  /\ CheckElement(Str)
  /\ page' = page \o <<LT>> \o Str
  /\ IF target = Space THEN Until({GT}) /\ stage' = "attributes"
     ELSE Until({LT}) /\ stage' = "text"

ReadComment ==
  /\ Returns("tag") /\ tag' = Str
  /\ ~CheckElement(Str) /\ Str = Comment
  /\ UntilString(EndOfComment) /\ stage' = "comment" /\ UNCHANGED page

(* A bad tag's attributes are skipped, then what is inside of its element, *)
(* then what is left of its end tag.                                       *)
SkipInside(name) ==
  IF IsEnd(name) THEN Until({GT}) /\ stage' = "close"
  ELSE UntilString(EndTag(name)) /\ stage' = "inside"

BadTag ==
  /\ Returns("tag") /\ tag' = Str
  /\ ~CheckElement(Str) /\ Str # Comment
  /\ IF target = Space THEN Until({GT}) /\ stage' = "badAttributes"
     ELSE SkipInside(Str)
  /\ UNCHANGED page

AfterBadAttributes ==
  /\ Returns("badAttributes")
  /\ SkipInside(tag) /\ UNCHANGED <<tag, page>>

AfterInsideKept ==   \* mutant: what is inside goes to the output
  /\ Returns("inside")
  /\ page' = page \o out
  /\ Until({GT}) /\ Then("close")

AfterInside ==
  /\ Returns("inside")
  /\ Until({GT}) /\ Then("close") /\ UNCHANGED page

AfterCloseLeaves ==   \* mutant: the ">" of the end tag is left
  /\ Returns("close")
  /\ Until({LT}) /\ Then("text") /\ UNCHANGED page

AfterClose ==
  /\ Returns("close")
  /\ IF found THEN ConsumeOne /\ Then("closed") ELSE Until({LT}) /\ Then("text")
  /\ UNCHANGED page

ReadText ==
  /\ Returns("attributes") \/ Returns("comment") \/ Returns("closed")
  /\ page' = IF stage = "attributes" THEN page \o out ELSE page
  /\ Until({LT}) /\ Then("text")

Parse ==
  \/ ReadBefore \/ AtTag \/ ReadTag
  \/ GoodTag \/ ReadComment \/ BadTag
  \/ AfterBadAttributes \/ AfterInside \/ AfterClose \/ ReadText

Read == Run /\ UNCHANGED <<stage, tag, page>>

FilterInit == Init /\ stage = "before" /\ tag = <<>> /\ page = <<>>
FilterNext == Parse \/ Read
FilterSpec == FilterInit /\ [][FilterNext]_fvars
FairFilterSpec == FilterSpec /\ WF_fvars(FilterNext)

-----------------------------------------------------------------------------
(* A page as Parse takes it: some text, then turns.  A turn is a tag with  *)
(* its attributes, what is left out with it, and the text behind that.  Of *)
(* a bad tag's element, and of a comment, it has what is inside up to the  *)
(* string that Parse looks for (Ending), and of an element or an end tag   *)
(* what is before the last ">".  What is inside may not be closed.         *)
Good(t) == CheckElement(Stored(t.name))
IsComment(t) == ~Good(t) /\ Stored(t.name) = Comment
IsEndTag(t) == ~Good(t) /\ ~IsComment(t) /\ IsEnd(Stored(t.name))
Ending(t) == IF IsComment(t) THEN EndOfComment ELSE EndTag(Stored(t.name))

Closes(t, more) == IF IsComment(t) THEN more ELSE t.close \o (<<GT>> \o more)
LeavesOut(t, more) ==
  CASE Good(t) -> more
    [] IsEndTag(t) -> Closes(t, more)
    [] OTHER -> IF t.closed THEN t.inside \o (Ending(t) \o Closes(t, more)) ELSE t.inside

Turns == [name : Seq(Byte), attributes : Seq(Byte), inside : Seq(Byte), close : Seq(Byte),
          closed : BOOLEAN, text : Seq(Byte)]

(* A turn with the rest of the page behind it, and with the output before. *)
TurnOf(t, rest) == <<LT>> \o (t.name \o (t.attributes \o LeavesOut(t, t.text \o rest)))
Copied(t, before) ==
  IF Good(t) THEN before \o <<LT>> \o Stored(t.name) \o t.attributes \o t.text
  ELSE before \o t.text

(* Where a name and the attributes end, and what each cannot hold.         *)
WellFormed(t, rest) ==
  /\ Lacks(t.name, TagEnds) /\ Lacks(t.attributes, {GT})
  /\ Lacks(t.close, {GT}) /\ Lacks(t.text, {LT})
  /\ LET next == LeavesOut(t, t.text \o rest)
     IN /\ next # <<>>
        /\ IF t.attributes = <<>>
             THEN next[1] \in TagEnds /\ (next[1] = Space => IsComment(t))
             ELSE t.attributes[1] = Space /\ next[1] = GT /\ ~IsComment(t)

ASSUME DocumentsAssumption ==
  \A d \in Documents :
    LET n == Len(d.turns)
    IN /\ d.before \in Seq(Byte) /\ Lacks(d.before, {LT})
       /\ d.turns \in Seq(Turns)
       /\ d.rest \in [0 .. n -> Seq(Byte)] /\ d.rest[n] = <<>>
       /\ d.kept \in [0 .. n -> Seq(Byte)] /\ d.kept[0] = <<>>
       /\ \A k \in 1 .. n :
            LET t == d.turns[k]
            IN /\ d.rest[k - 1] = TurnOf(t, d.rest[k])
               /\ d.kept[k] = Copied(t, d.kept[k - 1])
               /\ WellFormed(t, d.rest[k])
               /\ ~t.closed => k = n /\ t.text = <<>>

Whole(d) == d.before \o d.rest[0]
CutFrom(d) == Len(input) <= Len(Whole(d)) /\ input = SubSeq(Whole(d), 1, Len(input))

(* The end of what is inside is found: it is nowhere else in it, and what  *)
(* looks like it is no further than a cache from it.                       *)
EndsPlainly(t) ==
  Good(t) \/ IsEndTag(t) \/
    IF t.closed
      THEN /\ Len(Ending(t)) <= Cap
           /\ \A i \in Hits(Ending(t), t.inside \o Ending(t)) : i = Len(t.inside) + 1
           /\ \A i \in 1 .. Len(t.inside) :
                t.inside[i] = Ending(t)[1] => Near(i, Len(t.inside) + Len(Ending(t)))
      ELSE Hits(Ending(t), t.inside) = {}
Clean(d) == \A k \in 1 .. Len(d.turns) : EndsPlainly(d.turns[k])

(* Otherwise a later one is: then what follows that, up to a turn or to the*)
(* end of the page, is text to copy.                                       *)
TextAt(d, pos) ==
  \E k \in 0 .. Len(d.turns), next \in pos .. Len(Whole(d)) :
    /\ Drop(Whole(d), next) = d.rest[k]
    /\ \A i \in pos + 1 .. next : Whole(d)[i] \notin {LT, Marker}
FirstGT(d, pos, i) ==
  /\ i \in pos + 1 .. Len(Whole(d)) /\ Whole(d)[i] = GT
  /\ \A j \in pos + 1 .. i - 1 : Whole(d)[j] # GT
EndsInText(d, k) ==
  LET t == d.turns[k]
      start == Len(Whole(d)) - Len(LeavesOut(t, t.text \o d.rest[k]))
  IN \A i \in Hits(Ending(t), Whole(d)) :
       i > start =>
         LET end == i - 1 + Len(Ending(t))
         IN IF IsComment(t) THEN TextAt(d, end)
            ELSE \A j \in end + 1 .. Len(Whole(d)) : FirstGT(d, end, j) => TextAt(d, j)
Fenced(d) ==
  \A k \in 1 .. Len(d.turns) :
    LET t == d.turns[k]
    IN /\ EndsPlainly(t) \/ EndsInText(d, k)
       /\ Lacks(t.text, {Marker}) /\ (Good(t) => Lacks(t.attributes, {Marker}))

(* The stage stays in its type and a tag in its StringStream.              *)
FilterTypeOK ==
  /\ stage \in Stage \cup {"done"}
  /\ tag \in Seq(Byte) /\ Len(tag) <= SinkCap
  /\ page \in Seq(Byte)

(* Of a whole page the tags of the white list are copied, with their       *)
(* attributes and the text between, and nothing else.  Of a page that is   *)
(* cut short, or where a search misses the end of an element, nothing is   *)
(* copied that is inside of an element or a comment to skip.               *)
PageFiltered ==
  /\ stage = "done" =>
       \A d \in Documents : input = Whole(d) /\ Clean(d) => page = d.kept[Len(d.turns)]
  /\ Lacks(page, {Marker}) \/ \A d \in Documents : CutFrom(d) => ~Fenced(d)

(* A "<" that was copied begins a tag whose name is in the white list, up  *)
(* to its blank or ">" or as far as the page goes by now, or it is one of  *)
(* the attributes of such a tag.  No other text the filter copies holds    *)
(* markup, however names are cut off and whichever searches fail.          *)
GoodName(text, i, n) == CheckElement(SubSeq(text, i + 1, n))
BeginsTag(text, i) ==
  \E n \in i .. Len(text) - 1 : GoodName(text, i, n) /\ text[n + 1] \in TagEnds
IsAttribute(text, i) ==
  \E j \in 1 .. i - 1 :
    /\ text[j] = LT
    /\ \E n \in j .. i - 1 :
         /\ GoodName(text, j, n) /\ text[n + 1] = Space
         /\ \A k \in n + 1 .. i : text[k] # GT
Settled(text) ==
  \A i \in 1 .. Len(text) : text[i] = LT => BeginsTag(text, i) \/ IsAttribute(text, i)
WellTagged(text) ==
  \A i \in 1 .. Len(text) :
    text[i] = LT =>
      BeginsTag(text, i) \/ IsAttribute(text, i) \/ GoodName(text, i, Len(text))
OnlyGoodTags == WellTagged(page)

(* The inductive invariant of the proofs: which call Parse is at, and what *)
(* is next in the input while the last tag of the page has no end.         *)
Ahead == IF from < Len(input) THEN {input[from + 1]} ELSE {}
BytesCall(bytes) == [op |-> "bytes", targets |-> bytes]
StageInv ==
  /\ stage = "before" => pc = "idle"
  /\ stage \in {"skip", "text"} => call = BytesCall({LT})
  /\ stage = "tag" => call = BytesCall(TagEnds)
  /\ stage = "attributes" => call = BytesCall({GT})
  /\ stage = "badAttributes" => \A i \in 1 .. Len(tag) : tag[i] \notin TagEnds
  /\ stage \notin {"text", "attributes", "done"} => Settled(page)
  /\ stage = "text" => Ahead \subseteq TagEnds \/ Settled(page)
  /\ stage = "attributes" =>
       /\ Ahead = {Space}
       /\ \E j \in 1 .. Len(page) : page[j] = LT /\ GoodName(page, j, Len(page))
FilterInv == FilterTypeOK /\ ParserInv /\ (target # None => found) /\ StageInv /\ OnlyGoodTags

(* Parse ends for every input.                                             *)
ParseEnds == <>(stage = "done")
=============================================================================
