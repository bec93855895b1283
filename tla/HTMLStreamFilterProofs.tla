----------------------- MODULE HTMLStreamFilterProofs -----------------------
(***************************************************************************)
(* Theorems about HTMLStreamFilter, for any white list, any sink and cache *)
(* and any page: they rest on what StreamParserProofs shows of the parser. *)
(***************************************************************************)
EXTENDS HTMLStreamFilter, StreamParserProofs

OneCall == [op |-> "consume", count |-> 1]

(* What Parse may have kept of a tag: a name that no byte ends.            *)
IsName(name) ==
  /\ name \in Seq(Byte) /\ Len(name) <= SinkCap
  /\ \A i \in 1 .. Len(name) : name[i] \notin TagEnds

LEMMA Calls ==
  /\ BytesCall({LT}) \in Call /\ BytesCall({GT}) \in Call /\ BytesCall(TagEnds) \in Call
  /\ OneCall \in Call /\ StringCall(EndOfComment) \in Call
  BY FilterAssumption DEF Call, BytesCall, StringCall, OneCall

LEMMA EndTagCall ==
  ASSUME NEW name, IsName(name)
  PROVE  StringCall(EndTag(name)) \in Call
  <1>1. Len(name) \in 0 .. SinkCap
    BY FilterAssumption, LenProperties DEF IsName
  <1>2. name \in [1 .. Len(name) -> Byte \ TagEnds]
    BY LenProperties, ElementOfSeq DEF IsName
  <1>3. EndTag(name) \in Strings
    BY <1>1, <1>2, FilterAssumption
  <1> QED BY <1>3 DEF Call, StringCall

-----------------------------------------------------------------------------
(* The markup of a text that grows.                                        *)
LEMMA Grows ==
  ASSUME NEW p \in Seq(Byte), NEW q \in Seq(Byte)
  PROVE  /\ p \o q \in Seq(Byte) /\ Len(p \o q) = Len(p) + Len(q)
         /\ Len(p) \in Nat /\ Len(q) \in Nat
         /\ \A i \in 1 .. Len(p) : (p \o q)[i] = p[i]
         /\ \A i \in 1 .. Len(q) : (p \o q)[Len(p) + i] = q[i]
  <1>1. p \o q \in Seq(Byte) /\ Len(p \o q) = Len(p) + Len(q)
        /\ \A i \in 1 .. Len(p) + Len(q) :
             (p \o q)[i] = IF i <= Len(p) THEN p[i] ELSE q[i - Len(p)]
    BY ConcatProperties
  <1>2. Len(p) \in Nat /\ Len(q) \in Nat
    BY LenProperties
  <1>3. ASSUME NEW i \in 1 .. Len(p) PROVE (p \o q)[i] = p[i]
    BY <1>1, <1>2
  <1>4. ASSUME NEW i \in 1 .. Len(q) PROVE (p \o q)[Len(p) + i] = q[i]
    <2>1. /\ Len(p) + i \in 1 .. Len(p) + Len(q) /\ ~(Len(p) + i <= Len(p))
          /\ (Len(p) + i) - Len(p) = i
      BY <1>2
    <2> QED BY <1>1, <2>1
  <1> QED BY <1>1, <1>2, <1>3, <1>4

LEMMA GoodNameKept ==
  ASSUME NEW p \in Seq(Byte), NEW q \in Seq(Byte), NEW i \in 1 .. Len(p), NEW n \in i .. Len(p)
  PROVE  GoodName(p \o q, i, n) = GoodName(p, i, n)
  <1> DEFINE w == p \o q
  <1>1. /\ w \in Seq(Byte) /\ Len(w) = Len(p) + Len(q) /\ Len(p) \in Nat /\ Len(q) \in Nat
        /\ \A k \in 1 .. Len(p) : w[k] = p[k]
    BY Grows
  <1> HIDE DEF w
  <1>2. i \in Nat /\ n \in Nat /\ i <= n /\ n <= Len(p) /\ n <= Len(w)
    BY <1>1
  <1>3. Slice(w, i, n) \in Seq(Byte) /\ Len(Slice(w, i, n)) = n - i
        /\ Slice(p, i, n) \in Seq(Byte) /\ Len(Slice(p, i, n)) = n - i
    BY <1>1, <1>2, SliceType, ZenonT(60)
  <1>4. ASSUME NEW k \in 1 .. n - i PROVE Slice(w, i, n)[k] = Slice(p, i, n)[k]
    <2>1. i + k \in 1 .. Len(p)
      BY <1>1, <1>2
    <2>2. Slice(w, i, n)[k] = w[i + k] /\ Slice(p, i, n)[k] = p[i + k]
      BY <1>1, <1>2, SliceElements
    <2> QED BY <1>1, <2>1, <2>2
  <1>5. Slice(w, i, n) = Slice(p, i, n)
    BY <1>3, <1>4, SeqEqual
  <1> QED BY <1>5 DEF GoodName, Slice, w

LEMMA BeginsTagKept ==
  ASSUME NEW p \in Seq(Byte), NEW q \in Seq(Byte), NEW i \in 1 .. Len(p), BeginsTag(p, i)
  PROVE  BeginsTag(p \o q, i)
  <1>1. /\ Len(p \o q) = Len(p) + Len(q) /\ Len(p) \in Nat /\ Len(q) \in Nat
        /\ \A k \in 1 .. Len(p) : (p \o q)[k] = p[k]
    BY Grows
  <1>2. PICK n \in i .. Len(p) - 1 : GoodName(p, i, n) /\ p[n + 1] \in TagEnds
    BY DEF BeginsTag
  <1>3. n \in i .. Len(p) /\ n + 1 \in 1 .. Len(p) /\ n \in i .. Len(p \o q) - 1
    BY <1>1
  <1>4. GoodName(p \o q, i, n)
    BY <1>2, <1>3, GoodNameKept
  <1> QED BY <1>1, <1>2, <1>3, <1>4 DEF BeginsTag

LEMMA IsAttributeKept ==
  ASSUME NEW p \in Seq(Byte), NEW q \in Seq(Byte), NEW i \in 1 .. Len(p), IsAttribute(p, i)
  PROVE  IsAttribute(p \o q, i)
  <1>1. /\ Len(p) \in Nat /\ \A k \in 1 .. Len(p) : (p \o q)[k] = p[k]
    BY Grows
  <1>2. PICK j \in 1 .. i - 1 :
          /\ p[j] = LT
          /\ \E n \in j .. i - 1 :
               /\ GoodName(p, j, n) /\ p[n + 1] = Space
               /\ \A k \in n + 1 .. i : p[k] # GT
    BY DEF IsAttribute
  <1>3. PICK n \in j .. i - 1 : /\ GoodName(p, j, n) /\ p[n + 1] = Space
                                /\ \A k \in n + 1 .. i : p[k] # GT
    BY <1>2
  <1>4. /\ j \in 1 .. Len(p) /\ n \in j .. Len(p) /\ n + 1 \in 1 .. Len(p)
        /\ \A k \in n + 1 .. i : k \in 1 .. Len(p)
    BY <1>1
  <1>5. GoodName(p \o q, j, n)
    BY <1>3, <1>4, GoodNameKept
  <1>6. /\ (p \o q)[j] = LT /\ (p \o q)[n + 1] = Space
        /\ \A k \in n + 1 .. i : (p \o q)[k] # GT
    BY <1>1, <1>2, <1>3, <1>4
  <1> QED BY <1>5, <1>6 DEF IsAttribute

(* A tag that was not at its end by now is, when a byte that ends one      *)
(* follows.                                                                *)
LEMMA TagEnded ==
  ASSUME NEW p \in Seq(Byte), NEW q \in Seq(Byte), NEW i \in 1 .. Len(p),
         GoodName(p, i, Len(p)), Len(q) > 0, q[1] \in TagEnds
  PROVE  BeginsTag(p \o q, i)
  <1>1. /\ Len(p \o q) = Len(p) + Len(q) /\ Len(p) \in Nat /\ Len(q) \in Nat
        /\ \A k \in 1 .. Len(q) : (p \o q)[Len(p) + k] = q[k]
    BY Grows
  <1>2. Len(p) \in i .. Len(p) /\ Len(p) \in i .. Len(p \o q) - 1 /\ 1 \in 1 .. Len(q)
    BY <1>1
  <1>3. GoodName(p \o q, i, Len(p)) /\ (p \o q)[Len(p) + 1] \in TagEnds
    BY <1>1, <1>2, GoodNameKept
  <1> QED BY <1>2, <1>3 DEF BeginsTag

(* Text holds no "<", and comes behind the end of the last tag.            *)
LEMMA AddsText ==
  ASSUME NEW p \in Seq(Byte), NEW q \in Seq(Byte), WellTagged(p),
         \A i \in 1 .. Len(q) : q[i] # LT,
         Settled(p) \/ (Len(q) > 0 => q[1] \in TagEnds)
  PROVE  /\ WellTagged(p \o q)
         /\ Len(q) > 0 \/ Settled(p) => Settled(p \o q)
  <1>1. /\ p \o q \in Seq(Byte) /\ Len(p \o q) = Len(p) + Len(q)
        /\ Len(p) \in Nat /\ Len(q) \in Nat
        /\ \A i \in 1 .. Len(p) : (p \o q)[i] = p[i]
        /\ \A i \in 1 .. Len(q) : (p \o q)[Len(p) + i] = q[i]
    BY Grows
  <1>2. ASSUME NEW i \in 1 .. Len(p \o q), (p \o q)[i] = LT
        PROVE  i \in 1 .. Len(p) /\ p[i] = LT
    <2>1. CASE i \in 1 .. Len(p)
      BY <1>1, <1>2, <2>1
    <2>2. CASE i \notin 1 .. Len(p)
      <3>1. i - Len(p) \in 1 .. Len(q) /\ Len(p) + (i - Len(p)) = i
        BY <1>1, <2>2
      <3> QED BY <1>1, <1>2, <3>1
    <2> QED BY <2>1, <2>2
  <1>3. CASE Len(q) > 0 \/ Settled(p)
    <2>1. ASSUME NEW i \in 1 .. Len(p \o q), (p \o q)[i] = LT
          PROVE  BeginsTag(p \o q, i) \/ IsAttribute(p \o q, i)
      <3>1. i \in 1 .. Len(p) /\ p[i] = LT
        BY <1>2, <2>1
      <3>2. \/ BeginsTag(p, i) \/ IsAttribute(p, i)
            \/ GoodName(p, i, Len(p)) /\ Len(q) > 0 /\ q[1] \in TagEnds
        BY <1>3, <3>1 DEF WellTagged, Settled
      <3> QED BY <3>1, <3>2, BeginsTagKept, IsAttributeKept, TagEnded
    <2> QED BY <2>1 DEF Settled, WellTagged
  <1>4. CASE ~(Len(q) > 0 \/ Settled(p))
    <2>1. q = <<>>
      BY <1>1, <1>4, EmptySeq
    <2> QED BY <2>1, <1>4, ConcatEmptySeq
  <1> QED BY <1>3, <1>4

(* Attributes are behind a blank and hold no ">".                          *)
LEMMA AddsAttributes ==
  ASSUME NEW p \in Seq(Byte), NEW q \in Seq(Byte), WellTagged(p),
         NEW j \in 1 .. Len(p), p[j] = LT, GoodName(p, j, Len(p)),
         Len(q) > 0, q[1] = Space, \A i \in 1 .. Len(q) : q[i] # GT
  PROVE  Settled(p \o q)
  <1>1. /\ Len(p \o q) = Len(p) + Len(q) /\ Len(p) \in Nat /\ Len(q) \in Nat
        /\ \A i \in 1 .. Len(p) : (p \o q)[i] = p[i]
        /\ \A i \in 1 .. Len(q) : (p \o q)[Len(p) + i] = q[i]
    BY Grows
  <1> SUFFICES ASSUME NEW i \in 1 .. Len(p \o q), (p \o q)[i] = LT
               PROVE  BeginsTag(p \o q, i) \/ IsAttribute(p \o q, i)
    BY DEF Settled
  <1>2. CASE i \in 1 .. Len(p)
    <2>1. BeginsTag(p, i) \/ IsAttribute(p, i) \/ GoodName(p, i, Len(p))
      BY <1>1, <1>2 DEF WellTagged
    <2> QED BY <1>2, <2>1, BeginsTagKept, IsAttributeKept, TagEnded DEF TagEnds
  <1>3. CASE i \notin 1 .. Len(p)
    <2>1. /\ Len(p) \in j .. Len(p) /\ Len(p) \in j .. i - 1 /\ j \in 1 .. i - 1
          /\ 1 \in 1 .. Len(q)
      BY <1>1, <1>3
    <2>2. GoodName(p \o q, j, Len(p)) /\ (p \o q)[j] = LT /\ (p \o q)[Len(p) + 1] = Space
      BY <1>1, <2>1, GoodNameKept
    <2>3. ASSUME NEW k \in Len(p) + 1 .. i PROVE (p \o q)[k] # GT
      <3>1. k - Len(p) \in 1 .. Len(q) /\ Len(p) + (k - Len(p)) = k
        BY <1>1
      <3> QED BY <1>1, <3>1
    <2> QED BY <2>1, <2>2, <2>3 DEF IsAttribute
  <1> QED BY <1>2, <1>3

(* A name of the white list holds no "<", and no byte of what is skipped.  *)
LEMMA NameLacks ==
  ASSUME NEW name \in Seq(Byte), CheckElement(name)
  PROVE  Lacks(name, {LT, Marker})
  <1>1. Len(name) \in Nat
    BY LenProperties
  <1> SUFFICES ASSUME NEW i \in 1 .. Len(name) PROVE name[i] \notin {LT, Marker}
    BY DEF Lacks
  <1>2. CASE IsEnd(name)
    <2>1. name # <<>> /\ name[1] = Slash /\ Tail(name) \in WhiteList
      BY <1>2 DEF IsEnd, CheckElement, Name
    <2>2. Len(Tail(name)) = Len(name) - 1 /\ \A k \in 1 .. Len(Tail(name)) : Tail(name)[k] = name[k + 1]
      BY <2>1, HeadTailProperties
    <2>3. CASE i = 1
      BY <2>1, <2>3, FilterAssumption
    <2>4. CASE i # 1
      <3>1. i - 1 \in 1 .. Len(Tail(name)) /\ (i - 1) + 1 = i
        BY <1>1, <2>2, <2>4
      <3>2. Tail(name)[i - 1] \notin {LT, Marker}
        BY <2>1, <3>1, FilterAssumption DEF Lacks
      <3> QED BY <2>2, <3>1, <3>2
    <2> QED BY <2>3, <2>4
  <1>3. CASE ~IsEnd(name)
    BY <1>3, FilterAssumption DEF CheckElement, Name, Lacks
  <1> QED BY <1>2, <1>3

(* A tag is added where all the others have ended.                         *)
LEMMA AddsTag ==
  ASSUME NEW p \in Seq(Byte), Settled(p), NEW name \in Seq(Byte), CheckElement(name)
  PROVE  LET q == p \o <<LT>> \o name
         IN /\ q \in Seq(Byte) /\ WellTagged(q)
            /\ Len(p) + 1 \in 1 .. Len(q) /\ q[Len(p) + 1] = LT
            /\ GoodName(q, Len(p) + 1, Len(q))
  <1> DEFINE b == p \o <<LT>>
             q == b \o name
  <1>1. <<LT>> \in Seq(Byte) /\ Len(<<LT>>) = 1 /\ <<LT>>[1] = LT
    BY FilterAssumption
  <1>2. /\ b \in Seq(Byte) /\ Len(b) = Len(p) + 1 /\ Len(p) \in Nat
        /\ \A i \in 1 .. Len(p) : b[i] = p[i]
        /\ b[Len(p) + 1] = LT
    <2>1. /\ b \in Seq(Byte) /\ Len(b) = Len(p) + Len(<<LT>>) /\ Len(p) \in Nat
          /\ \A i \in 1 .. Len(p) : b[i] = p[i]
          /\ \A i \in 1 .. Len(<<LT>>) : b[Len(p) + i] = <<LT>>[i]
      BY <1>1, Grows
    <2> QED BY <1>1, <2>1
  <1>3. ASSUME NEW i \in 1 .. Len(p), p[i] = LT
        PROVE  BeginsTag(b, i) \/ IsAttribute(b, i)
    BY <1>1, <1>3, BeginsTagKept, IsAttributeKept DEF Settled
  <1> HIDE DEF b
  <1>4. /\ q \in Seq(Byte) /\ Len(q) = Len(b) + Len(name) /\ Len(name) \in Nat
        /\ \A i \in 1 .. Len(b) : q[i] = b[i]
        /\ \A i \in 1 .. Len(name) : q[Len(b) + i] = name[i]
    BY <1>2, Grows
  <1>5. ASSUME NEW i \in 1 .. Len(p), p[i] = LT
        PROVE  BeginsTag(q, i) \/ IsAttribute(q, i)
    <2>1. i \in 1 .. Len(b)
      BY <1>2
    <2> QED BY <1>2, <1>3, <1>5, <2>1, BeginsTagKept, IsAttributeKept
  <1> HIDE DEF q
  <1>6. SubSeq(q, Len(b) + 1, Len(q)) = name
    <2>1. /\ Len(b) \in Nat /\ Len(q) \in Nat /\ Len(b) <= Len(q) /\ Len(q) <= Len(q)
          /\ Len(q) - Len(b) = Len(name)
      BY <1>2, <1>4
    <2>2. Slice(q, Len(b), Len(q)) \in Seq(Byte) /\ Len(Slice(q, Len(b), Len(q))) = Len(name)
      <3>1. /\ Slice(q, Len(b), Len(q)) \in Seq(Byte)
            /\ Len(Slice(q, Len(b), Len(q))) = Len(q) - Len(b)
        BY <1>4, <2>1, SliceType, ZenonT(60)
      <3> QED BY <2>1, <3>1
    <2>3. \A i \in 1 .. Len(name) : Slice(q, Len(b), Len(q))[i] = name[i]
      <3>1. \A i \in 1 .. Len(q) - Len(b) : Slice(q, Len(b), Len(q))[i] = q[Len(b) + i]
        BY <1>4, <2>1, SliceElements
      <3> QED BY <1>4, <2>1, <3>1
    <2>4. Slice(q, Len(b), Len(q)) = name
      BY <2>2, <2>3, SeqEqual
    <2> QED BY <2>4 DEF Slice
  <1>7. GoodName(q, Len(p) + 1, Len(q))
    BY <1>2, <1>6 DEF GoodName
  <1>8. Len(p) + 1 \in 1 .. Len(q) /\ q[Len(p) + 1] = LT
    BY <1>2, <1>4
  <1>9. WellTagged(q)
    <2> SUFFICES ASSUME NEW i \in 1 .. Len(q), q[i] = LT
                 PROVE  BeginsTag(q, i) \/ IsAttribute(q, i) \/ GoodName(q, i, Len(q))
      BY DEF WellTagged
    <2>1. CASE i \in 1 .. Len(p)
      BY <1>2, <1>4, <1>5, <2>1
    <2>2. CASE i = Len(p) + 1
      BY <1>7, <2>2
    <2>3. CASE i \notin 1 .. Len(p) + 1
      <3>1. i - Len(b) \in 1 .. Len(name) /\ Len(b) + (i - Len(b)) = i
        BY <1>2, <1>4, <2>3
      <3> QED BY <1>4, <3>1, NameLacks DEF Lacks
    <2> QED BY <1>2, <2>1, <2>2, <2>3
  <1> QED BY <1>4, <1>7, <1>8, <1>9 DEF b, q

-----------------------------------------------------------------------------
(* The parser below Parse.                                                 *)
LEMMA BeginIs ==
  ASSUME NEW c, Begin(c)
  PROVE  /\ call' = c /\ from' = taken /\ input' = input
         /\ found' = FALSE /\ target' = None
  BY DEF Begin, source

LEMMA StrIs ==
  ASSUME TypeOK
  PROVE  /\ Str \in Seq(Byte) /\ Len(Str) <= SinkCap /\ Len(Str) <= Len(out)
         /\ \A i \in 1 .. Len(Str) : i \in 1 .. Len(out) /\ Str[i] = out[i]
  <1> DEFINE n == Least(SinkCap, Len(out))
  <1>1. /\ out \in Seq(Byte) /\ Len(out) \in Nat /\ SinkCap \in Nat
        /\ n \in Nat /\ 0 \in Nat /\ 0 <= n /\ n <= Len(out) /\ n <= SinkCap /\ n - 0 = n
    BY Typed, FilterAssumption DEF Sane, Least
  <1> HIDE DEF n
  <1>2. Slice(out, 0, n) \in Seq(Byte) /\ Len(Slice(out, 0, n)) = n
    <2>1. Slice(out, 0, n) \in Seq(Byte) /\ Len(Slice(out, 0, n)) = n - 0
      BY <1>1, SliceType
    <2> QED BY <1>1, <2>1
  <1>3. \A i \in 1 .. n : Slice(out, 0, n)[i] = out[i]
    <2>1. \A i \in 1 .. n - 0 : Slice(out, 0, n)[i] = out[0 + i]
      BY <1>1, SliceElements
    <2> QED BY <1>1, <2>1
  <1>4. Slice(out, 0, n) = Str
    BY DEF Slice, Str, Stored, n
  <1> QED BY <1>1, <1>2, <1>3, <1>4

(* What a call that reads until one of some bytes has done when Parse goes *)
(* on: it has copied what is ahead of it, up to such a byte.               *)
LEMMA BytesBack ==
  ASSUME ParserInv, pc = "idle", NEW bytes, call = BytesCall(bytes), call \in Call
  PROVE  /\ out \in Seq(Byte) /\ Len(out) \in Nat
         /\ \A i \in 1 .. Len(out) : out[i] \notin bytes
         /\ Len(out) > 0 => Ahead = {out[1]}
         /\ Ahead # {} => Len(out) > 0 \/ Ahead \subseteq bytes
         /\ taken \in Nat /\ (found => Ahead # {})
         /\ found => taken < Len(input) /\ input[taken + 1] = target /\ target \in bytes
         /\ ~found => taken = Len(input)
  <1>1. Sane /\ taken <= at /\ cache = Slice(input, taken, at) /\ Len(cache) = at - taken
    BY Typed, CacheLength DEF ParserInv
  <1>2. Returned("bytes") /\ call.targets = bytes
    BY CallAssumption DEF Returned, BytesCall
  <1>3. /\ out = Text
        /\ \A i \in 1 .. Len(out) : out[i] \notin bytes
        /\ IF found THEN taken < at /\ target = cache[1] /\ target \in bytes
                    ELSE taken = Len(input)
    BY <1>2 DEF ParserInv, BytesReturn
  <1>4. /\ input \in Seq(Byte) /\ Len(input) \in Nat /\ at \in Nat /\ at <= Len(input)
        /\ taken \in Nat /\ from \in Nat /\ from <= taken /\ taken <= Len(input)
        /\ out \in Seq(Byte) /\ Len(out) \in Nat
    BY <1>1 DEF Sane
  <1>5. Len(out) = taken - from /\ \A i \in 1 .. taken - from : out[i] = input[from + i]
    <2>1. out = Slice(input, from, taken)
      BY <1>3 DEF Text, Slice
    <2>2. Len(Slice(input, from, taken)) = taken - from
      BY <1>4, SliceType
    <2>3. \A i \in 1 .. taken - from : Slice(input, from, taken)[i] = input[from + i]
      BY <1>4, SliceElements
    <2> QED BY <2>1, <2>2, <2>3
  <1>6. ASSUME found
        PROVE  taken < Len(input) /\ input[taken + 1] = target /\ target \in bytes
    <2>1. 1 \in 1 .. at - taken
      BY <1>3, <1>4, <1>6
    <2>2. cache[1] = input[taken + 1]
      BY <1>1, <1>4, <2>1, SliceElements
    <2> QED BY <1>3, <1>4, <1>6, <2>2
  <1>7. ASSUME Len(out) > 0 PROVE Ahead = {out[1]}
    BY <1>4, <1>5, <1>7 DEF Ahead
  <1>8. ASSUME Ahead # {}, ~(Len(out) > 0) PROVE Ahead \subseteq bytes
    <2>1. taken = from /\ from < Len(input)
      BY <1>4, <1>5, <1>8 DEF Ahead
    <2>2. found
      BY <1>3, <1>4, <2>1
    <2> QED BY <1>6, <2>1, <2>2 DEF Ahead
  <1>9. ASSUME found PROVE Ahead # {}
    BY <1>4, <1>6, <1>9 DEF Ahead
  <1> QED BY <1>3, <1>4, <1>6, <1>7, <1>8, <1>9

LEMMA TagIsName ==
  ASSUME FilterInv, Returns("tag")
  PROVE  IsName(Str)
  <1>1. TypeOK /\ call = BytesCall(TagEnds) /\ pc = "idle"
    BY DEF FilterInv, ParserInv, StageInv, Returns
  <1>2. \A i \in 1 .. Len(out) : out[i] \notin TagEnds
    BY <1>1, Calls, BytesBack DEF FilterInv
  <1> QED BY <1>1, <1>2, StrIs DEF IsName

LEMMA SkipCalls ==
  ASSUME NEW name, IsName(name), SkipInside(name)
  PROVE  \E c \in Call : Begin(c) /\ stage' \in {"close", "inside"}
  BY EndTagCall, Calls DEF SkipInside, Until, UntilString, StringCall, BytesCall

(* Every step of Parse is a step of the parser or leaves it alone.         *)
LEMMA FilterIsParser ==
  ASSUME FilterInv, [FilterNext]_fvars
  PROVE  [Next]_vars
  <1>1. CASE ReadBefore
    BY <1>1, Calls DEF ReadBefore, Until, BytesCall, Next
  <1>2. CASE AtTag
    BY <1>2, Calls DEF AtTag, ConsumeOne, OneCall, Next
  <1>3. CASE ReadTag
    BY <1>3, Calls DEF ReadTag, Until, BytesCall, Next
  <1>4. CASE GoodTag
    BY <1>4, Calls DEF GoodTag, Until, BytesCall, Next
  <1>5. CASE ReadComment
    BY <1>5, Calls DEF ReadComment, UntilString, StringCall, Next
  <1>6. CASE BadTag
    <2>1. CASE target = Space
      BY <1>6, <2>1, Calls DEF BadTag, Until, BytesCall, Next
    <2>2. CASE target # Space
      BY <1>6, <2>2, TagIsName, SkipCalls DEF BadTag, Next
    <2> QED BY <2>1, <2>2
  <1>7. CASE AfterBadAttributes
    <2>1. IsName(tag)
      BY <1>7 DEF AfterBadAttributes, Returns, FilterInv, FilterTypeOK, StageInv, IsName
    <2> QED BY <1>7, <2>1, SkipCalls DEF AfterBadAttributes, Next
  <1>8. CASE AfterInside
    BY <1>8, Calls DEF AfterInside, Until, BytesCall, Next
  <1>9. CASE AfterClose
    BY <1>9, Calls DEF AfterClose, Until, ConsumeOne, BytesCall, OneCall, Next
  <1>10. CASE ReadText
    BY <1>10, Calls DEF ReadText, Until, BytesCall, Next
  <1>11. CASE Read
    BY <1>11 DEF Read, Next
  <1>12. CASE UNCHANGED fvars
    BY <1>12 DEF fvars
  <1> QED BY <1>1, <1>2, <1>3, <1>4, <1>5, <1>6, <1>7, <1>8, <1>9, <1>10, <1>11, <1>12
          DEF FilterNext, Parse

-----------------------------------------------------------------------------
(* A byte that was found is only set when it was, and while the parser     *)
(* works it serves the same call.                                          *)
LEMMA TargetKept ==
  ASSUME target # None => found, [Next]_vars
  PROVE  (target # None => found)'
  <1>1. ASSUME NEW c \in Call, Begin(c) PROVE (target # None => found)'
    BY <1>1, BeginIs
  <1>2. CASE Run
    BY <1>2 DEF Run, ConsumeLoop, Starved, FindUntil, ReadUntil, TopUp, Search, Skip, result
  <1>3. CASE UNCHANGED vars
    BY <1>3 DEF vars
  <1> QED BY <1>1, <1>2, <1>3 DEF Next

LEMMA RunServes ==
  ASSUME Run
  PROVE  pc # "idle" /\ UNCHANGED <<input, call, from>>
  BY DEF Run, ConsumeLoop, Starved, FindUntil, ReadUntil, TopUp, Search, Skip, source

LEMMA SettledIsGood == ASSUME NEW text, Settled(text) PROVE WellTagged(text)
  BY DEF Settled, WellTagged

FilterGoes == FilterTypeOK' /\ StageInv' /\ OnlyGoodTags'

(* A step that copies nothing while no tag is under way.                   *)
LEMMA GoesOn ==
  ASSUME FilterInv, Settled(page), UNCHANGED page,
         stage' \in {"skip", "open", "comment", "inside", "close", "closed"},
         stage' = "skip" => call' = BytesCall({LT}),
         tag' \in Seq(Byte), Len(tag') <= SinkCap
  PROVE  FilterGoes
  <1>1. Settled(page)' /\ WellTagged(page)'
    BY SettledIsGood
  <1> QED BY <1>1 DEF FilterGoes, FilterInv, FilterTypeOK, StageInv, OnlyGoodTags, Stage

LEMMA TextGoesOn ==
  ASSUME FilterInv, Settled(page), UNCHANGED <<page, tag>>, stage' = "text",
         call' = BytesCall({LT})
  PROVE  FilterGoes
  <1>1. Settled(page)' /\ WellTagged(page)'
    BY SettledIsGood
  <1> QED BY <1>1 DEF FilterGoes, FilterInv, FilterTypeOK, StageInv, OnlyGoodTags, Stage

LEMMA AtTagGoes ==
  ASSUME FilterInv, AtTag
  PROVE  FilterGoes
  <1>1. pc = "idle" /\ call = BytesCall({LT}) /\ stage \in {"skip", "text"} /\ page \in Seq(Byte)
    BY DEF FilterInv, FilterTypeOK, StageInv, AtTag, Returns
  <1>2. /\ out \in Seq(Byte) /\ Len(out) \in Nat
        /\ \A i \in 1 .. Len(out) : out[i] \notin {LT}
        /\ Len(out) > 0 => Ahead = {out[1]}
        /\ Ahead # {} => Len(out) > 0 \/ Ahead \subseteq {LT}
        /\ found => Ahead # {}
    BY <1>1, Calls, BytesBack DEF FilterInv
  <1>3. page' \in Seq(Byte) /\ WellTagged(page') /\ (found => Settled(page'))
    <2>1. CASE stage = "skip"
      BY <1>1, <2>1, SettledIsGood DEF AtTag, FilterInv, StageInv
    <2>2. CASE stage = "text"
      <3>1. page' = page \o out /\ WellTagged(page)
            /\ (Ahead \subseteq TagEnds \/ Settled(page))
        BY <2>2 DEF AtTag, FilterInv, StageInv, OnlyGoodTags
      <3>2. Settled(page) \/ (Len(out) > 0 => out[1] \in TagEnds)
        BY <1>2, <3>1
      <3>3. WellTagged(page') /\ (Len(out) > 0 \/ Settled(page) => Settled(page'))
        BY <1>1, <1>2, <3>1, <3>2, AddsText
      <3>4. ASSUME found PROVE Len(out) > 0 \/ Settled(page)
        <4>1. LT \notin TagEnds
          BY FilterAssumption DEF TagEnds
        <4> QED BY <1>2, <3>1, <3>4, <4>1
      <3> QED BY <1>1, <1>2, <3>1, <3>3, <3>4, Grows
    <2> QED BY <1>1, <2>1, <2>2
  <1>4. stage' = (IF found THEN "open" ELSE "done") /\ tag' = tag
    BY DEF AtTag, Then
  <1> QED BY <1>3, <1>4 DEF FilterGoes, FilterInv, FilterTypeOK, StageInv, OnlyGoodTags, Stage

LEMMA GoodTagGoes ==
  ASSUME FilterInv, GoodTag
  PROVE  FilterGoes
  <1>1. /\ pc = "idle" /\ call = BytesCall(TagEnds) /\ page \in Seq(Byte) /\ Settled(page)
        /\ CheckElement(Str) /\ tag' = Str /\ page' = page \o <<LT>> \o Str
        /\ Returns("tag")
    BY DEF FilterInv, FilterTypeOK, StageInv, GoodTag, Returns
  <1>2. IsName(Str)
    BY <1>1, TagIsName
  <1>3. /\ taken \in Nat
        /\ found => taken < Len(input) /\ input[taken + 1] = target /\ target \in TagEnds
        /\ ~found => taken = Len(input)
    BY <1>1, Calls, BytesBack DEF FilterInv
  <1>4. /\ page' \in Seq(Byte) /\ WellTagged(page')
        /\ Len(page) + 1 \in 1 .. Len(page') /\ page'[Len(page) + 1] = LT
        /\ GoodName(page', Len(page) + 1, Len(page'))
    BY <1>1, <1>2, AddsTag DEF IsName
  <1>5. FilterTypeOK' /\ OnlyGoodTags'
    BY <1>1, <1>2, <1>4 DEF GoodTag, FilterTypeOK, OnlyGoodTags, IsName, Stage
  <1>6. CASE target = Space
    <2>1. /\ call' = BytesCall({GT}) /\ from' = taken /\ input' = input /\ stage' = "attributes"
      BY <1>6, BeginIs DEF GoodTag, Until, BytesCall
    <2>2. found
      BY <1>6, ParserAssumption, FilterAssumption DEF FilterInv
    <2>3. Ahead' = {Space}
      BY <1>3, <1>6, <2>1, <2>2 DEF Ahead
    <2>4. StageInv'
      BY <1>4, <2>1, <2>3 DEF StageInv
    <2> QED BY <1>5, <2>4 DEF FilterGoes
  <1>7. CASE target # Space
    <2>1. /\ call' = BytesCall({LT}) /\ from' = taken /\ input' = input /\ stage' = "text"
      BY <1>7, BeginIs DEF GoodTag, Until, BytesCall
    <2>2. Ahead' \subseteq TagEnds
      BY <1>3, <2>1 DEF Ahead
    <2>3. StageInv'
      BY <2>1, <2>2 DEF StageInv
    <2> QED BY <1>5, <2>3 DEF FilterGoes
  <1> QED BY <1>6, <1>7

LEMMA BadTagGoes ==
  ASSUME FilterInv, BadTag
  PROVE  FilterGoes
  <1>1. Settled(page) /\ tag' = Str /\ page' = page /\ IsName(Str)
    BY TagIsName DEF FilterInv, StageInv, BadTag, Returns
  <1>2. CASE target = Space
    <2>1. stage' = "badAttributes"
      BY <1>2 DEF BadTag
    <2>2. Settled(page)' /\ WellTagged(page)'
      BY <1>1, SettledIsGood
    <2> QED BY <1>1, <2>1, <2>2
            DEF FilterGoes, FilterInv, FilterTypeOK, StageInv, OnlyGoodTags, Stage, IsName
  <1>3. CASE target # Space
    <2>1. stage' \in {"close", "inside"}
      BY <1>1, <1>3, SkipCalls DEF BadTag
    <2> QED BY <1>1, <2>1, GoesOn DEF IsName
  <1> QED BY <1>2, <1>3

LEMMA ReadTextGoes ==
  ASSUME FilterInv, ReadText
  PROVE  FilterGoes
  <1>1. /\ call' = BytesCall({LT}) /\ stage' = "text" /\ tag' = tag
        /\ pc = "idle" /\ page \in Seq(Byte) /\ WellTagged(page)
    BY BeginIs DEF ReadText, Until, BytesCall, Then, Returns, FilterInv, FilterTypeOK, OnlyGoodTags
  <1>2. CASE stage = "attributes"
    <2>1. call = BytesCall({GT}) /\ Ahead = {Space} /\ page' = page \o out
      BY <1>2 DEF FilterInv, StageInv, ReadText
    <2>2. PICK j \in 1 .. Len(page) : page[j] = LT /\ GoodName(page, j, Len(page))
      BY <1>2 DEF FilterInv, StageInv
    <2>3. /\ out \in Seq(Byte) /\ Len(out) \in Nat
          /\ \A i \in 1 .. Len(out) : out[i] \notin {GT}
          /\ Len(out) > 0 => Ahead = {out[1]}
          /\ Ahead # {} => Len(out) > 0 \/ Ahead \subseteq {GT}
      BY <1>1, <2>1, Calls, BytesBack DEF FilterInv
    <2>4. Len(out) > 0 /\ out[1] = Space
      BY <2>1, <2>3, FilterAssumption
    <2>5. page' \in Seq(Byte) /\ Settled(page')
      BY <1>1, <2>1, <2>2, <2>3, <2>4, AddsAttributes, Grows
    <2>6. WellTagged(page')
      BY <2>5, SettledIsGood
    <2> QED BY <1>1, <2>5, <2>6
            DEF FilterGoes, FilterInv, FilterTypeOK, StageInv, OnlyGoodTags, Stage
  <1>3. CASE stage # "attributes"
    <2>1. page' = page /\ Settled(page)
      BY <1>3 DEF ReadText, Returns, FilterInv, StageInv
    <2> QED BY <1>1, <2>1, TextGoesOn
  <1> QED BY <1>2, <1>3

LEMMA FilterStep ==
  ASSUME FilterInv, [FilterNext]_fvars
  PROVE  FilterInv'
  <1>1. ParserInv' /\ (target # None => found)'
    BY FilterIsParser, ParserStep, TargetKept DEF FilterInv
  <1>2. tag \in Seq(Byte) /\ Len(tag) <= SinkCap
    BY DEF FilterInv, FilterTypeOK
  <1> SUFFICES FilterGoes
    BY <1>1 DEF FilterGoes, FilterInv
  <1>3. CASE ReadBefore
    <2>1. Settled(page) /\ call' = BytesCall({LT})
      BY <1>3, BeginIs DEF ReadBefore, Returns, Until, BytesCall, FilterInv, StageInv
    <2> QED BY <1>2, <1>3, <2>1, GoesOn DEF ReadBefore, Then
  <1>4. CASE ReadTag
    <2>1. Settled(page) /\ call' = BytesCall(TagEnds) /\ stage' = "tag" /\ UNCHANGED <<tag, page>>
      BY <1>4, BeginIs DEF ReadTag, Returns, Until, BytesCall, Then, FilterInv, StageInv
    <2>2. Settled(page)' /\ WellTagged(page)'
      BY <2>1, SettledIsGood
    <2> QED BY <2>1, <2>2
            DEF FilterGoes, FilterInv, FilterTypeOK, StageInv, OnlyGoodTags, Stage
  <1>5. CASE ReadComment
    <2>1. Settled(page) /\ IsName(Str)
      BY <1>5, TagIsName DEF ReadComment, Returns, FilterInv, StageInv
    <2> QED BY <1>5, <2>1, GoesOn DEF ReadComment, IsName
  <1>6. CASE AfterBadAttributes
    <2>1. Settled(page) /\ IsName(tag)
      BY <1>2, <1>6 DEF AfterBadAttributes, Returns, FilterInv, StageInv, IsName
    <2>2. stage' \in {"close", "inside"}
      BY <1>6, <2>1, SkipCalls DEF AfterBadAttributes
    <2> QED BY <1>2, <1>6, <2>1, <2>2, GoesOn DEF AfterBadAttributes
  <1>7. CASE AfterInside
    <2>1. Settled(page)
      BY <1>7 DEF AfterInside, Returns, FilterInv, StageInv
    <2> QED BY <1>2, <1>7, <2>1, GoesOn DEF AfterInside, Then
  <1>8. CASE AfterClose
    <2>1. Settled(page) /\ UNCHANGED <<tag, page>>
      BY <1>8 DEF AfterClose, Returns, Then, FilterInv, StageInv
    <2>2. CASE found
      BY <1>2, <1>8, <2>1, <2>2, GoesOn DEF AfterClose, Then
    <2>3. CASE ~found
      <3>1. call' = BytesCall({LT}) /\ stage' = "text"
        BY <1>8, <2>3, BeginIs DEF AfterClose, Until, BytesCall, Then
      <3> QED BY <2>1, <3>1, TextGoesOn
    <2> QED BY <2>2, <2>3
  <1>9. CASE Read
    <2>1. pc # "idle" /\ UNCHANGED <<input, call, from, stage, tag, page>>
      BY <1>9, RunServes DEF Read
    <2>2. Ahead' = Ahead
      BY <2>1 DEF Ahead
    <2> QED BY <2>1, <2>2
            DEF FilterGoes, FilterInv, FilterTypeOK, StageInv, OnlyGoodTags
  <1>10. CASE UNCHANGED fvars
    <2>1. UNCHANGED <<pc, input, call, from, stage, tag, page>>
      BY <1>10 DEF fvars, vars
    <2>2. Ahead' = Ahead
      BY <2>1 DEF Ahead
    <2> QED BY <2>1, <2>2
            DEF FilterGoes, FilterInv, FilterTypeOK, StageInv, OnlyGoodTags
  <1> QED BY <1>3, <1>4, <1>5, <1>6, <1>7, <1>8, <1>9, <1>10,
             AtTagGoes, GoodTagGoes, BadTagGoes, ReadTextGoes
          DEF FilterNext, Parse

LEMMA FilterStarts == FilterInit => FilterInv
  <1> SUFFICES ASSUME FilterInit PROVE FilterInv
    OBVIOUS
  <1>1. ParserInv
    BY InitKeeps DEF FilterInit
  <1>2. /\ stage = "before" /\ pc = "idle" /\ target = None /\ tag = <<>> /\ page = <<>>
    BY DEF FilterInit, Init
  <1>3. Settled(page) /\ WellTagged(page)
    BY <1>2 DEF Settled, WellTagged
  <1>4. FilterTypeOK
    BY <1>2, FilterAssumption DEF FilterTypeOK, Stage
  <1> QED BY <1>1, <1>2, <1>3, <1>4 DEF FilterInv, StageInv, OnlyGoodTags

THEOREM FilterInvariant == FilterSpec => []FilterInv
  BY FilterStarts, FilterStep, PTL DEF FilterSpec

(* What Parse keeps of a tag never outgrows its StringStream, and it is    *)
(* always at one of its calls (HTMLStreamFilter.cc:97, StringStream.cc:50).*)
THEOREM FilterTypes == FilterSpec => []FilterTypeOK
  BY FilterInvariant, PTL DEF FilterInv

(* Whatever the page, however the reads cut it and whichever searches      *)
(* fail, every "<" that is copied begins a tag of the white list or is one *)
(* of the attributes of such a tag (HTMLStreamFilter.cc:101-137).          *)
THEOREM CopiesOnlyGoodTags == FilterSpec => []OnlyGoodTags
  BY FilterInvariant, PTL DEF FilterInv

-----------------------------------------------------------------------------
(* The parser in a page that is cut short, or is not: what a call does is  *)
(* said of the text that it began at.                                      *)
CutOf(whole) == Len(input) <= Len(whole) /\ input = SubSeq(whole, 1, Len(input))

(* Behind its first pos bytes, a text is a and then b.                     *)
Parts(w, pos, a, b) == Drop(w, pos) = a \o b

LEMMA DropJoined ==
  ASSUME NEW w \in Seq(Byte), NEW pos \in 0 .. Len(w), NEW a \in Seq(Byte), NEW b \in Seq(Byte),
         Parts(w, pos, a, b)
  PROVE  /\ Len(w) \in Nat /\ Len(a) \in Nat /\ Len(b) \in Nat
         /\ pos + Len(a) + Len(b) = Len(w)
         /\ \A i \in 1 .. Len(a) : w[pos + i] = a[i]
         /\ Slice(w, pos, pos + Len(a)) = a /\ Drop(w, pos + Len(a)) = b
  <1> DEFINE l == Len(w)
             m == Len(a)
             n == Len(b)
             r == a \o b
  <1>1. l \in Nat /\ m \in Nat /\ n \in Nat /\ pos \in Nat /\ pos <= l /\ l <= l
    BY LenProperties
  <1>2. /\ Slice(r, 0, m) = a /\ Slice(r, m, m + n) = b /\ Len(r) = m + n
        /\ r \in Seq(Byte) /\ \A i \in 1 .. m : r[i] = a[i]
    <2>1. /\ Slice(r, 0, m) = a /\ Slice(r, m, m + n) = b /\ Len(r) = m + n
          /\ r \in Seq(Byte)
      BY FirstPart
    <2> QED BY <2>1, Grows
  <1>3. r = Slice(w, pos, l)
    BY DEF Drop, Slice, Parts
  <1> HIDE DEF r, l, m, n
  <1>4. m + n = l - pos
    <2>1. Len(Slice(w, pos, l)) = l - pos
      <3>1. l <= Len(w)
        BY <1>1 DEF l
      <3> QED BY <1>1, <3>1, SliceType
    <2> QED BY <1>2, <1>3, <2>1
  <1>5. ASSUME NEW i \in 1 .. m PROVE w[pos + i] = a[i]
    <2>1. i \in 1 .. l - pos /\ l <= Len(w)
      BY <1>1, <1>4 DEF l
    <2>2. Slice(w, pos, l)[i] = w[pos + i]
      BY <1>1, <2>1, SliceElements
    <2> QED BY <1>2, <1>3, <2>2
  <1>6. Drop(w, pos + m) = b
    <2>1. /\ m <= m + n /\ m + n <= l - pos /\ l <= Len(w) /\ pos + (m + n) = l /\ m + n \in Nat
      BY <1>1, <1>4 DEF l
    <2>2. Slice(Slice(w, pos, l), m, m + n) = Slice(w, pos + m, pos + (m + n))
      BY <1>1, <2>1, SliceOfSlice
    <2> QED BY <1>2, <1>3, <2>1, <2>2 DEF Drop, Slice, l
  <1>7. Slice(w, pos, pos + m) = a
    <2>1. /\ 0 \in Nat /\ 0 <= m /\ m <= l - pos /\ l <= Len(w) /\ pos + 0 = pos
      BY <1>1, <1>4 DEF l
    <2>2. Slice(Slice(w, pos, l), 0, m) = Slice(w, pos + 0, pos + m)
      BY <1>1, <2>1, SliceOfSlice
    <2> QED BY <1>2, <1>3, <2>1, <2>2
  <1>8. pos + m + n = l
    BY <1>1, <1>4
  <1> QED BY <1>1, <1>5, <1>6, <1>7, <1>8 DEF l, m, n

LEMMA CutBytes ==
  ASSUME NEW w \in Seq(Byte), CutOf(w), input \in Seq(Byte)
  PROVE  /\ Len(input) \in Nat /\ Len(w) \in Nat /\ Len(input) <= Len(w)
         /\ \A i \in 1 .. Len(input) : input[i] = w[i]
         /\ Len(input) = Len(w) => input = w
  <1>1. Len(input) \in Nat /\ Len(w) \in Nat /\ Len(input) <= Len(w)
    BY LenProperties DEF CutOf
  <1>2. \A i \in 1 .. Len(input) : input[i] = w[i]
    <2>1. input = Slice(w, 0, Len(input)) /\ 0 \in Nat /\ 0 <= Len(input)
      BY <1>1 DEF CutOf, Slice
    <2>2. \A i \in 1 .. Len(input) - 0 : Slice(w, 0, Len(input))[i] = w[0 + i]
      BY <1>1, <2>1, SliceElements
    <2>3. Len(input) - 0 = Len(input) /\ \A i \in 1 .. Len(input) : 0 + i = i
      BY <1>1
    <2>4. ASSUME NEW i \in 1 .. Len(input) PROVE input[i] = w[i]
      <3>1. Slice(w, 0, Len(input))[i] = w[0 + i] /\ 0 + i = i
        BY <2>2, <2>3
      <3> QED BY <2>1, <3>1
    <2> QED BY <2>4
  <1>3. ASSUME Len(input) = Len(w) PROVE input = w
    BY <1>2, <1>3, SeqEqual
  <1> QED BY <1>1, <1>2, <1>3

(* ReadUntil one of some bytes, before a text without any and one of them. *)
LEMMA ReadsUpTo ==
  ASSUME ParserInv, pc = "idle", NEW bytes, call = BytesCall(bytes), call \in Call,
         NEW w \in Seq(Byte), CutOf(w), NEW a \in Seq(Byte), NEW b \in Seq(Byte),
         Parts(w, from, a, b), Lacks(a, bytes), b = <<>> \/ b[1] \in bytes
  PROVE  \/ /\ found /\ out = a /\ Drop(w, taken) = b /\ b # <<>> /\ target = b[1]
            /\ taken < Len(input)
         \/ /\ ~found /\ taken = Len(input) /\ Len(out) <= Len(a)
            /\ \A i \in 1 .. Len(out) : out[i] = a[i]
            /\ input = w => out = a /\ b = <<>>
  <1>1. /\ out \in Seq(Byte) /\ Len(out) \in Nat
        /\ \A i \in 1 .. Len(out) : out[i] \notin bytes
        /\ found => taken < Len(input) /\ input[taken + 1] = target /\ target \in bytes
        /\ ~found => taken = Len(input)
    BY BytesBack
  <1>2. /\ input \in Seq(Byte) /\ Len(input) \in Nat /\ from \in Nat /\ taken \in Nat
        /\ from <= taken /\ taken <= Len(input)
        /\ Text = Slice(input, from, taken) /\ Len(Text) = taken - from
    BY TextType
  <1>3. out = Text
    <2>1. Returned("bytes")
      BY CallAssumption DEF Returned, BytesCall
    <2> QED BY <2>1 DEF ParserInv, BytesReturn
  <1>4. Len(out) = taken - from /\ \A i \in 1 .. Len(out) : out[i] = input[from + i]
    <2>1. Len(out) = taken - from /\ out = Slice(input, from, taken)
      BY <1>2, <1>3
    <2>2. \A i \in 1 .. taken - from : Slice(input, from, taken)[i] = input[from + i]
      BY <1>2, SliceElements
    <2> QED BY <2>1, <2>2
  <1>5. /\ Len(input) <= Len(w) /\ Len(w) \in Nat
        /\ \A i \in 1 .. Len(input) : input[i] = w[i]
    BY <1>2, CutBytes
  <1>6. /\ Len(a) \in Nat /\ Len(b) \in Nat /\ from + Len(a) + Len(b) = Len(w)
        /\ \A i \in 1 .. Len(a) : w[from + i] = a[i]
        /\ Drop(w, from + Len(a)) = b
    <2>1. from \in 0 .. Len(w)
      BY <1>2, <1>5
    <2> QED BY <2>1, DropJoined
  <1>7. b # <<>> => Len(b) > 0 /\ w[from + Len(a) + 1] = b[1] /\ b[1] \in bytes
    <2> SUFFICES ASSUME b # <<>> PROVE Len(b) > 0 /\ w[from + Len(a) + 1] = b[1]
      OBVIOUS
    <2>1. Len(b) > 0
      BY <1>6, EmptySeq
    <2>2. from + Len(a) \in 0 .. Len(w) /\ Parts(w, from + Len(a), b, <<>>) /\ <<>> \in Seq(Byte)
      <3>1. from + Len(a) \in 0 .. Len(w)
        BY <1>2, <1>6
      <3> QED BY <1>6, <3>1, ConcatEmptySeq, EmptySeq DEF Parts
    <2>3. \A i \in 1 .. Len(b) : w[from + Len(a) + i] = b[i]
      BY <2>2, DropJoined
    <2>4. 1 \in 1 .. Len(b)
      BY <1>6, <2>1
    <2> QED BY <2>1, <2>3, <2>4
  <1>8. ASSUME NEW i \in 1 .. Len(out) PROVE out[i] = w[from + i]
    <2>1. from + i \in 1 .. Len(input)
      BY <1>2, <1>4
    <2> QED BY <1>4, <1>5, <2>1
  <1>9. Len(out) <= Len(a)
    <2> SUFFICES ASSUME Len(out) > Len(a) PROVE FALSE
      BY <1>1, <1>6
    <2>1. Len(a) + 1 \in 1 .. Len(out) /\ from + Len(a) < Len(w)
      BY <1>1, <1>2, <1>4, <1>5, <1>6
    <2>2. b # <<>>
      BY <1>2, <1>6, <2>1, EmptySeq
    <2>3. out[Len(a) + 1] = w[from + (Len(a) + 1)] /\ from + (Len(a) + 1) = from + Len(a) + 1
      BY <1>2, <1>6, <1>8, <2>1
    <2> QED BY <1>1, <1>7, <2>1, <2>2, <2>3
  <1>10. \A i \in 1 .. Len(out) : out[i] = a[i]
    <2> SUFFICES ASSUME NEW i \in 1 .. Len(out) PROVE out[i] = a[i]
      OBVIOUS
    <2>1. i \in 1 .. Len(a)
      BY <1>1, <1>6, <1>9
    <2> QED BY <1>6, <1>8, <2>1
  <1>11. Len(out) = Len(a) => out = a
    BY <1>1, <1>10, SeqEqual
  <1>12. CASE found
    <2>1. Len(out) = Len(a)
      <3> SUFFICES ASSUME Len(out) < Len(a) PROVE FALSE
        BY <1>1, <1>6, <1>9
      <3>0. /\ Len(out) \in Nat /\ Len(a) \in Nat /\ taken < Len(input) /\ Len(out) = taken - from
            /\ taken \in Nat /\ from \in Nat /\ Len(input) \in Nat
        BY <1>1, <1>2, <1>4, <1>6, <1>12
      <3>1. Len(out) + 1 \in 1 .. Len(a) /\ taken + 1 \in 1 .. Len(input)
            /\ taken + 1 = from + (Len(out) + 1)
        BY <3>0
      <3>2. input[taken + 1] = a[Len(out) + 1]
        BY <1>5, <1>6, <3>1
      <3> QED BY <1>1, <1>12, <3>1, <3>2 DEF Lacks
    <2>2. taken = from + Len(a) /\ taken + 1 \in 1 .. Len(input)
      BY <1>1, <1>2, <1>4, <1>12, <2>1
    <2>3. b # <<>>
      <3>1. taken < Len(w)
        BY <1>1, <1>2, <1>5, <1>12
      <3>2. Len(b) # 0
        BY <1>2, <1>6, <2>2, <3>1
      <3> QED BY <3>2, EmptySeq
    <2>4. target = b[1]
      BY <1>1, <1>5, <1>7, <1>12, <2>2, <2>3
    <2> QED BY <1>1, <1>6, <1>11, <1>12, <2>1, <2>2, <2>3, <2>4
  <1>13. CASE ~found
    <2>1. ASSUME input = w PROVE out = a /\ b = <<>>
      <3>1. Len(out) = Len(a) + Len(b)
        <4>1. taken = Len(w) /\ Len(w) \in Nat /\ Len(out) = taken - from
          BY <1>1, <1>4, <1>5, <1>13, <2>1
        <4>2. \A l, n, o, f, u \in Nat : u = l - f /\ f + n + o = l => u = n + o
          OBVIOUS
        <4>3. from + Len(a) + Len(b) = Len(w) /\ Len(out) = Len(w) - from
          BY <1>6, <4>1
        <4> QED BY <1>1, <1>2, <1>6, <4>1, <4>2, <4>3
      <3>2. Len(b) = 0 /\ Len(out) = Len(a)
        BY <1>1, <1>6, <1>9, <3>1
      <3> QED BY <1>11, <3>2, EmptySeq
    <2> QED BY <1>1, <1>9, <1>10, <1>13, <2>1
  <1> QED BY <1>12, <1>13

(* Consume(1), before a byte.                                              *)
LEMMA TakesOne ==
  ASSUME ParserInv, pc = "idle", call = OneCall, from < Len(input)
  PROVE  taken = from + 1
  <1>1. Returned("consume")
    BY Calls, CallAssumption DEF Returned, OneCall
  <1>2. consumed = Least(1, Len(input) - from)
    BY <1>1 DEF ParserInv, ConsumeReturns, OneCall
  <1>3. /\ input \in Seq(Byte) /\ Len(input) \in Nat /\ from \in Nat /\ taken \in Nat
    BY TextType
  <1> QED BY <1>2, <1>3 DEF consumed, Least

LEMMA SliceOfCut ==
  ASSUME NEW w \in Seq(Byte), CutOf(w), input \in Seq(Byte),
         NEW m \in Nat, NEW n \in Nat, m <= n, n <= Len(input)
  PROVE  Slice(input, m, n) = Slice(w, m, n)
  <1> DEFINE l == Len(input)
  <1>1. l \in Nat /\ l <= Len(w) /\ input = Slice(w, 0, l)
    BY LenProperties DEF CutOf, Slice
  <1> HIDE DEF l
  <1>2. 0 \in Nat /\ 0 <= l /\ n <= l - 0 /\ 0 + m = m /\ 0 + n = n
    BY <1>1 DEF l
  <1>3. Slice(Slice(w, 0, l), m, n) = Slice(w, 0 + m, 0 + n)
    BY <1>1, <1>2, SliceOfSlice
  <1> QED BY <1>1, <1>2, <1>3

(* A place of a string in a part of a text.                                *)
LEMMA HitInside ==
  ASSUME NEW w \in Seq(Byte), NEW s \in Seq(Byte), NEW i \in Hits(s, w),
         NEW pos \in Nat, NEW upto \in Nat, pos < i, i - 1 + Len(s) <= upto, upto <= Len(w)
  PROVE  i - pos \in Hits(s, Slice(w, pos, upto))
  <1> DEFINE part == Slice(w, pos, upto)
             l == Len(s)
             m == (i - pos) - 1
  <1>1. l \in Nat /\ Len(w) \in Nat /\ i \in Nat /\ SubSeq(w, i, i + l - 1) = s
    BY LenProperties DEF Hits, IsAt
  <1>2. m \in Nat /\ m + l \in Nat /\ m <= m + l /\ m + l <= upto - pos /\ pos <= upto
        /\ pos + m = i - 1 /\ pos + (m + l) = i + l - 1 /\ (i - 1) + 1 = i
        /\ m + 1 = i - pos /\ m + l = (i - pos) + l - 1
    BY <1>1
  <1>3. part \in Seq(Byte) /\ Len(part) = upto - pos
    BY <1>2, SliceType
  <1>4. Slice(part, m, m + l) = Slice(w, pos + m, pos + (m + l))
    BY <1>1, <1>2, SliceOfSlice
  <1>5. SubSeq(part, i - pos, (i - pos) + l - 1) = s
    BY <1>1, <1>2, <1>4 DEF Slice
  <1>6. i - pos \in 1 .. Len(part) - l + 1
    BY <1>1, <1>2, <1>3
  <1> HIDE DEF part
  <1> QED BY <1>5, <1>6 DEF Hits, IsAt, l, part

(* ReadUntil a string: it has read everything, or up to one of its places. *)
LEMMA FindsAny ==
  ASSUME ParserInv, pc = "idle", NEW s, call = StringCall(s), s \in Strings,
         NEW w \in Seq(Byte), CutOf(w)
  PROVE  \/ taken = Len(input)
         \/ \E i \in Hits(s, w) : from < i /\ taken = i - 1 + Len(s)
  <1>1. Returned("string") /\ call.string = s
    <2>1. call \in Call
      BY DEF Call, StringCall
    <2> QED BY <2>1, CallAssumption DEF StringCall, Returned
  <1>2. /\ input \in Seq(Byte) /\ Len(input) \in Nat /\ from \in Nat /\ taken \in Nat
        /\ from <= taken /\ taken <= Len(input)
        /\ Text = Slice(input, from, taken) /\ Len(Text) = taken - from
    BY TextType
  <1>3. s \in Seq(Byte) /\ Len(s) \in Nat /\ out \in Seq(Byte) /\ Len(out) \in Nat
    BY ParserAssumption, LenProperties, Typed DEF Sane, ParserInv
  <1>4. CASE ~found
    BY <1>1, <1>4 DEF ParserInv, StringReturns
  <1>5. CASE found
    <2> DEFINE m == Len(out)
               l == Len(s)
               i == from + m + 1
    <2>1. Text = out \o s
      BY <1>1, <1>5 DEF ParserInv, StringReturns
    <2>2. Slice(Text, m, m + l) = s /\ Len(Text) = m + l
      BY <1>3, <2>1, FirstPart
    <2>3. m \in Nat /\ l \in Nat /\ m + l = taken - from
      BY <1>2, <1>3, <2>2
    <2> HIDE DEF m, l
    <2>4. /\ m + l \in Nat /\ m <= m + l /\ m + l <= taken - from /\ from + m \in Nat
          /\ from + (m + l) = taken /\ from + m <= taken /\ i + l - 1 = taken
          /\ i - 1 + l = taken /\ from < i /\ i \in Nat
      BY <1>2, <2>3
    <2>5. Slice(Slice(input, from, taken), m, m + l) = Slice(input, from + m, from + (m + l))
      BY <1>2, <2>3, <2>4, SliceOfSlice
    <2>6. Slice(input, from + m, taken) = Slice(w, from + m, taken)
      BY <1>2, <2>4, SliceOfCut
    <2>7. SubSeq(w, i, i + l - 1) = s
      BY <1>2, <2>2, <2>4, <2>5, <2>6 DEF Slice
    <2>8. i \in 1 .. Len(w) - l + 1
      <3>1. Len(w) \in Nat /\ taken <= Len(w)
        BY <1>2, CutBytes
      <3> QED BY <1>2, <2>3, <2>4, <3>1
    <2>9. i \in Hits(s, w) /\ taken = i - 1 + Len(s)
      BY <2>4, <2>7, <2>8 DEF Hits, IsAt, l
    <2> QED BY <2>4, <2>9
  <1> QED BY <1>4, <1>5

(* ReadUntil a string that is in no text ahead reads everything.           *)
LEMMA MissesAll ==
  ASSUME ParserInv, pc = "idle", NEW s, call = StringCall(s), s \in Strings,
         NEW w \in Seq(Byte), CutOf(w), NEW a \in Seq(Byte),
         Drop(w, from) = a, Hits(s, a) = {}
  PROVE  taken = Len(input)
  <1>1. /\ s \in Seq(Byte) /\ Len(s) \in Nat /\ from \in Nat /\ Len(w) \in Nat
    BY ParserAssumption, LenProperties, TextType
  <1>2. ASSUME NEW i \in Hits(s, w), from < i PROVE FALSE
    <2>1. i - 1 + Len(s) <= Len(w) /\ Len(w) <= Len(w)
      BY <1>1 DEF Hits
    <2>2. i - from \in Hits(s, Slice(w, from, Len(w)))
      BY <1>1, <1>2, <2>1, HitInside
    <2> QED BY <2>2 DEF Drop, Slice
  <1> QED BY <1>2, FindsAny

EndsWith(a, s) ==
  /\ \A i \in Hits(s, a \o s) : i = Len(a) + 1
  /\ \A i \in 1 .. Len(a) : a[i] = s[1] => Near(i, Len(a) + Len(s))

(* ReadUntil a string that ends a text plainly reads just that, or, if it  *)
(* is cut off, everything.                                                 *)
LEMMA ReadsClosed ==
  ASSUME ParserInv, FoundInv, pc = "idle", NEW s, call = StringCall(s), s \in Strings,
         Len(s) <= Cap, NEW w \in Seq(Byte), CutOf(w), NEW a \in Seq(Byte), NEW b \in Seq(Byte),
         Parts(w, from, a, s \o b), EndsWith(a, s)
  PROVE  \/ Drop(w, taken) = b
         \/ taken = Len(input) /\ input # w
  <1> DEFINE mid == from + Len(a)
             end == mid + Len(s)
             sb == s \o b
  <1>1. /\ input \in Seq(Byte) /\ Len(input) \in Nat /\ from \in Nat /\ taken \in Nat
        /\ from <= taken /\ taken <= Len(input)
    BY TextType
  <1>2. /\ s \in Seq(Byte) /\ Len(s) \in Nat /\ sb \in Seq(Byte) /\ Len(a) \in Nat
        /\ Len(b) \in Nat /\ Len(sb) \in Nat /\ Parts(w, from, a, sb)
    BY ParserAssumption, LenProperties, ConcatProperties
  <1>3. Len(input) <= Len(w) /\ Len(w) \in Nat
    BY <1>1, CutBytes
  <1> HIDE DEF sb
  <1>4. Slice(w, from, mid) = a /\ Drop(w, mid) = sb /\ mid + Len(sb) = Len(w)
    <2>1. from \in 0 .. Len(w)
      BY <1>1, <1>3
    <2> QED BY <1>2, <2>1, DropJoined
  <1>5. Slice(w, mid, end) = s /\ Drop(w, end) = b /\ end + Len(b) = Len(w)
        /\ mid \in Nat /\ end \in Nat /\ from <= mid /\ mid <= end /\ end <= Len(w)
    <2>1. mid \in Nat /\ Len(sb) \in Nat
      BY <1>1, <1>2
    <2>2. mid \in 0 .. Len(w) /\ Parts(w, mid, s, b)
      <3>1. mid <= Len(w)
        BY <1>3, <1>4, <2>1
      <3> QED BY <1>4, <2>1, <3>1 DEF Parts, sb
    <2>3. Slice(w, mid, end) = s /\ Drop(w, end) = b /\ end + Len(b) = Len(w)
      BY <1>2, <2>2, DropJoined
    <2> QED BY <1>1, <1>2, <1>3, <2>1, <2>3
  <1> HIDE DEF mid, end
  <1>6. CASE end <= Len(input)
    <2> DEFINE l == Len(input)
               more == Slice(w, end, l)
    <2>0. /\ l \in Nat /\ end \in Nat /\ mid \in Nat /\ from \in Nat
          /\ from <= mid /\ mid <= end /\ end <= l /\ l <= Len(w) /\ mid <= l
      BY <1>1, <1>3, <1>5, <1>6
    <2>1. more \in Seq(Byte) /\ Len(more) = Len(input) - end
      <3> HIDE DEF l
      <3>1. Slice(w, end, l) \in Seq(Byte) /\ Len(Slice(w, end, l)) = l - end
        BY <2>0, SliceType
      <3> QED BY <3>1 DEF l
    <2>2. Slice(w, mid, l) = s \o more
      <3> HIDE DEF l
      <3>1. Slice(w, mid, end) \o Slice(w, end, l) = Slice(w, mid, l)
        BY <2>0, SlicesJoin
      <3> QED BY <1>5, <3>1
    <2>3. Slice(w, from, Len(input)) = a \o (s \o more)
      <3> HIDE DEF l, more
      <3>1. Slice(w, from, mid) \o Slice(w, mid, l) = Slice(w, from, l)
        BY <2>0, SlicesJoin
      <3> QED BY <1>4, <2>2, <3>1 DEF l
    <2>4. Rest(from) = Slice(w, from, Len(input))
      <3>1. from <= Len(input) /\ Len(input) <= Len(input)
        BY <1>1
      <3> QED BY <1>1, <3>1, SliceOfCut DEF Rest
    <2> HIDE DEF more
    <2>5. Rest(taken) = more
      <3>1. Rest(from) = a \o (s \o more)
        BY <2>3, <2>4
      <3> QED BY <2>1, <3>1, ReadsText DEF EndsWith
    <2>6. Len(input) - taken = Len(input) - end
      <3>1. Len(Slice(input, taken, Len(input))) = Len(input) - taken
        <4>1. Len(input) <= Len(input)
          BY <1>1
        <4> QED BY <1>1, <4>1, SliceType
      <3> QED BY <2>1, <2>5, <3>1 DEF Rest
    <2>7. taken = end
      BY <1>1, <1>5, <2>6
    <2> QED BY <1>5, <2>7
  <1>7. CASE ~(end <= Len(input))
    <2>1. Slice(w, from, end) = a \o s
      <3>1. Slice(w, from, mid) \o Slice(w, mid, end) = Slice(w, from, end)
        BY <1>1, <1>5, SlicesJoin
      <3> QED BY <1>4, <1>5, <3>1
    <2>2. ASSUME NEW i \in Hits(s, w), from < i, taken = i - 1 + Len(s) PROVE FALSE
      <3>0. i \in Nat
        BY DEF Hits
      <3>1. i \in Nat /\ i - 1 + Len(s) <= end
        BY <1>1, <1>5, <1>7, <2>2, <3>0
      <3>2. i - from \in Hits(s, Slice(w, from, end))
        BY <1>1, <1>2, <1>5, <2>2, <3>1, HitInside
      <3>3. i - from = Len(a) + 1
        BY <2>1, <3>2 DEF EndsWith
      <3>4. taken = end
        BY <1>1, <1>2, <2>2, <3>1, <3>3 DEF mid, end
      <3> QED BY <1>1, <1>5, <1>7, <3>4
    <2>3. taken = Len(input)
      BY <2>2, FindsAny
    <2>4. input # w
      BY <1>1, <1>5, <1>7
    <2> QED BY <2>3, <2>4
  <1> QED BY <1>6, <1>7

-----------------------------------------------------------------------------
(* The texts of a page.                                                    *)
LEMMA StoredIs ==
  ASSUME NEW text \in Seq(Byte)
  PROVE  /\ Stored(text) \in Seq(Byte) /\ Len(Stored(text)) <= SinkCap
         /\ Lacks(text, TagEnds) => IsName(Stored(text))
  <1> DEFINE n == Least(SinkCap, Len(text))
  <1>1. /\ Len(text) \in Nat /\ SinkCap \in Nat /\ n \in Nat /\ 0 \in Nat /\ 0 <= n
        /\ n <= Len(text) /\ n <= SinkCap /\ n - 0 = n
    BY FilterAssumption, LenProperties DEF Least
  <1> HIDE DEF n
  <1>2. Slice(text, 0, n) \in Seq(Byte) /\ Len(Slice(text, 0, n)) = n - 0
    BY <1>1, SliceType
  <1>3. \A i \in 1 .. n - 0 : Slice(text, 0, n)[i] = text[0 + i]
    BY <1>1, SliceElements
  <1>4. Slice(text, 0, n) = Stored(text)
    BY DEF Slice, Stored, n
  <1>5. Stored(text) \in Seq(Byte) /\ Len(Stored(text)) = n
    BY <1>1, <1>2, <1>4
  <1>6. ASSUME Lacks(text, TagEnds), NEW i \in 1 .. n PROVE Stored(text)[i] \notin TagEnds
    <2>1. i \in 1 .. Len(text) /\ Stored(text)[i] = text[i]
      BY <1>1, <1>3, <1>4
    <2> QED BY <1>6, <2>1 DEF Lacks
  <1> QED BY <1>1, <1>5, <1>6 DEF IsName

Tails(d, k) == d.turns[k].text \o d.rest[k]
Out(d, k) == LeavesOut(d.turns[k], Tails(d, k))
ClosedBy(d, k) == <<GT>> \o Tails(d, k)
Named(d, k) == d.turns[k].name \o (d.turns[k].attributes \o Out(d, k))
Joins(w, a, b) == w = a \o b

LEMMA PageTexts ==
  ASSUME NEW d \in Documents
  PROVE  /\ Len(d.turns) \in Nat /\ Whole(d) \in Seq(Byte) /\ Len(Whole(d)) \in Nat
         /\ d.before \in Seq(Byte) /\ Lacks(d.before, {LT}) /\ Whole(d) = d.before \o d.rest[0]
         /\ \A k \in 0 .. Len(d.turns) : d.rest[k] \in Seq(Byte) /\ d.kept[k] \in Seq(Byte)
         /\ d.rest[Len(d.turns)] = <<>> /\ d.kept[0] = <<>>
         /\ \A k \in 1 .. Len(d.turns) : d.turns[k] \in Turns
  <1> DEFINE n == Len(d.turns)
  <1>1. /\ d.before \in Seq(Byte) /\ Lacks(d.before, {LT})
        /\ d.turns \in Seq(Turns)
        /\ d.rest \in [0 .. n -> Seq(Byte)] /\ d.rest[n] = <<>>
        /\ d.kept \in [0 .. n -> Seq(Byte)] /\ d.kept[0] = <<>>
    BY DocumentsAssumption
  <1>2. n \in Nat /\ \A k \in 1 .. n : d.turns[k] \in Turns
    <2> HIDE DEF Turns
    <2> QED BY <1>1, LenProperties, ElementOfSeq
  <1>3. \A k \in 0 .. n : d.rest[k] \in Seq(Byte) /\ d.kept[k] \in Seq(Byte)
    BY <1>1
  <1>4. d.rest[0] \in Seq(Byte)
    BY <1>2, <1>3
  <1>5. Whole(d) \in Seq(Byte) /\ Len(Whole(d)) \in Nat
    BY <1>1, <1>4, ConcatProperties, LenProperties DEF Whole
  <1> QED BY <1>1, <1>2, <1>3, <1>5 DEF Whole

LEMMA EndingIs ==
  ASSUME NEW t \in Turns, Lacks(t.name, TagEnds)
  PROVE  Ending(t) \in Strings /\ Ending(t) \in Seq(Byte)
  <1>1. t.name \in Seq(Byte)
    BY DEF Turns
  <1>2. IsName(Stored(t.name))
    BY <1>1, StoredIs
  <1>3. StringCall(EndTag(Stored(t.name))) \in Call /\ StringCall(EndOfComment) \in Call
    BY <1>2, EndTagCall, Calls
  <1>4. EndTag(Stored(t.name)) \in Strings /\ EndOfComment \in Strings
    BY <1>3 DEF Call, StringCall
  <1> QED BY <1>4, ParserAssumption DEF Ending

LEMMA TurnTexts ==
  ASSUME NEW d \in Documents, NEW k \in 1 .. Len(d.turns), NEW t, t = d.turns[k]
  PROVE  /\ t \in Turns
         /\ t.name \in Seq(Byte) /\ t.attributes \in Seq(Byte) /\ t.inside \in Seq(Byte)
         /\ t.close \in Seq(Byte) /\ t.text \in Seq(Byte) /\ t.closed \in BOOLEAN
         /\ Ending(t) \in Seq(Byte) /\ Ending(t) \in Strings
         /\ d.rest[k] \in Seq(Byte) /\ Tails(d, k) \in Seq(Byte) /\ ClosedBy(d, k) \in Seq(Byte)
         /\ Closes(t, Tails(d, k)) \in Seq(Byte) /\ Out(d, k) \in Seq(Byte)
         /\ t.attributes \o Out(d, k) \in Seq(Byte)
         /\ Named(d, k) \in Seq(Byte) /\ Joins(Named(d, k), t.name, t.attributes \o Out(d, k))
         /\ Joins(d.rest[k - 1], <<LT>>, Named(d, k))
         /\ d.kept[k] = Copied(t, d.kept[k - 1])
         /\ WellFormed(t, d.rest[k])
         /\ ~t.closed => k = Len(d.turns) /\ t.text = <<>>
         /\ k - 1 \in 0 .. Len(d.turns) /\ k \in 0 .. Len(d.turns)
  <1>1. t \in Turns /\ Len(d.turns) \in Nat
    BY PageTexts
  <1>2. /\ t.name \in Seq(Byte) /\ t.attributes \in Seq(Byte) /\ t.inside \in Seq(Byte)
        /\ t.close \in Seq(Byte) /\ t.text \in Seq(Byte) /\ t.closed \in BOOLEAN
    BY <1>1 DEF Turns
  <1>3. k - 1 \in 0 .. Len(d.turns) /\ k \in 0 .. Len(d.turns)
    BY <1>1
  <1>4. /\ d.rest[k - 1] = TurnOf(t, d.rest[k])
        /\ d.kept[k] = Copied(t, d.kept[k - 1])
        /\ WellFormed(t, d.rest[k])
        /\ ~t.closed => k = Len(d.turns) /\ t.text = <<>>
    BY DocumentsAssumption
  <1>5. d.rest[k] \in Seq(Byte)
    BY <1>3, PageTexts
  <1>6. Ending(t) \in Strings /\ Ending(t) \in Seq(Byte)
    BY <1>1, <1>4, EndingIs DEF WellFormed
  <1> DEFINE more == Tails(d, k)
             out_ == Out(d, k)
  <1>7. more \in Seq(Byte) /\ <<GT>> \in Seq(Byte)
    BY <1>2, <1>5, ConcatProperties, FilterAssumption DEF Tails
  <1>8. d.rest[k - 1] = <<LT>> \o (t.name \o (t.attributes \o out_))
    BY <1>4 DEF TurnOf, Out, Tails
  <1>9. out_ = LeavesOut(t, more)
    BY DEF Out
  <1> HIDE DEF more, out_
  <1>10. <<GT>> \o more \in Seq(Byte)
    BY <1>7, ConcatProperties
  <1>11. Closes(t, more) \in Seq(Byte)
    <2>1. t.close \o (<<GT>> \o more) \in Seq(Byte)
      BY <1>2, <1>10, ConcatProperties
    <2> QED BY <1>7, <2>1 DEF Closes
  <1>12. out_ \in Seq(Byte)
    <2>1. Ending(t) \o Closes(t, more) \in Seq(Byte)
      BY <1>6, <1>11, ConcatProperties
    <2>2. t.inside \o (Ending(t) \o Closes(t, more)) \in Seq(Byte)
      BY <1>2, <2>1, ConcatProperties
    <2> QED BY <1>2, <1>7, <1>9, <1>11, <2>2 DEF LeavesOut
  <1>13. t.attributes \o out_ \in Seq(Byte)
    BY <1>2, <1>12, ConcatProperties
  <1>14. t.name \o (t.attributes \o out_) \in Seq(Byte)
    BY <1>2, <1>13, ConcatProperties
  <1>15. /\ Named(d, k) \in Seq(Byte) /\ Joins(Named(d, k), t.name, t.attributes \o out_)
         /\ Joins(d.rest[k - 1], <<LT>>, Named(d, k))
    BY <1>8, <1>14 DEF Named, Joins, out_
  <1> QED BY <1>1, <1>2, <1>3, <1>4, <1>5, <1>6, <1>7, <1>10, <1>11, <1>12, <1>13, <1>15
          DEF more, out_, ClosedBy

(* What is behind a text of a page is nothing or begins with a tag.        *)
LEMMA RestIs ==
  ASSUME NEW d \in Documents, NEW k \in 0 .. Len(d.turns)
  PROVE  /\ d.rest[k] \in Seq(Byte)
         /\ IF k = Len(d.turns) THEN d.rest[k] = <<>> ELSE d.rest[k] # <<>> /\ d.rest[k][1] = LT
  <1>1. Len(d.turns) \in Nat /\ d.rest[k] \in Seq(Byte)
    BY PageTexts
  <1>2. CASE k = Len(d.turns)
    BY <1>1, <1>2, PageTexts
  <1>3. CASE k # Len(d.turns)
    <2>1. PICK j \in 1 .. Len(d.turns) : j - 1 = k
      <3>1. k + 1 \in 1 .. Len(d.turns) /\ (k + 1) - 1 = k
        BY <1>1, <1>3
      <3> QED BY <3>1
    <2> DEFINE name == Named(d, j)
    <2>2. name \in Seq(Byte) /\ Joins(d.rest[j - 1], <<LT>>, name)
      BY TurnTexts
    <2> HIDE DEF name
    <2>3. <<LT>> \in Seq(Byte) /\ Len(<<LT>>) = 1 /\ <<LT>>[1] = LT
      BY FilterAssumption
    <2>4. /\ Len(<<LT>> \o name) = Len(<<LT>>) + Len(name) /\ Len(name) \in Nat
          /\ \A i \in 1 .. Len(<<LT>>) : (<<LT>> \o name)[i] = <<LT>>[i]
      BY <2>2, <2>3, Grows
    <2>5. Joins(d.rest[k], <<LT>>, name)
      BY <2>1, <2>2
    <2>6. d.rest[k] = <<LT>> \o name
      BY <2>5 DEF Joins
    <2>7. (<<LT>> \o name)[1] = LT /\ Len(<<LT>> \o name) # 0
      BY <2>3, <2>4
    <2> QED BY <1>1, <1>3, <2>6, <2>7, EmptySeq
  <1> QED BY <1>2, <1>3

-----------------------------------------------------------------------------
(* Where Parse is in a page: how much of what is to be kept it has written *)
(* (if the page is whole and clean), and what is next.                     *)
Last(d) == Len(d.turns)
Sure(d) == \A k \in 1 .. Last(d) : EndsPlainly(d.turns[k]) \/ EndsInText(d, k)
Exact(d, in) == in = Whole(d) /\ Clean(d)
PageIs(d, in, pg, k) == Exact(d, in) => pg = d.kept[k]

AtEnd(d, in, pg, pos) == pos = Len(in) /\ PageIs(d, in, pg, Last(d))
AtText(d, in, pg, pos) ==
  \E a \in Seq(Byte), k \in 0 .. Last(d) :
    /\ Parts(Whole(d), pos, a, d.rest[k]) /\ Lacks(a, {LT})
    /\ Exact(d, in) => pg \o a = d.kept[k]
    /\ Fenced(d) => Lacks(a, {Marker})
AtClose(d, in, pg, pos) ==
  /\ \A i : FirstGT(d, pos, i) => AtText(d, in, pg, i)
  /\ Exact(d, in) => \E i : FirstGT(d, pos, i)
AtTurn(d, in, pg, pos, k) == Drop(Whole(d), pos) = d.rest[k - 1] /\ PageIs(d, in, pg, k - 1)
AtName(d, in, pg, pos, k) == Drop(Whole(d), pos) = Named(d, k) /\ PageIs(d, in, pg, k - 1)
AtRest(d, in, pg, pos, k) == Drop(Whole(d), pos) = Out(d, k) /\ PageIs(d, in, pg, k - 1)
AtAttributes(d, pos, k) ==
  /\ d.turns[k].attributes # <<>>
  /\ Parts(Whole(d), pos, d.turns[k].attributes, Out(d, k))
Skipped(t) == ~Good(t) /\ ~IsComment(t)

WhatIsNext(d) ==
  /\ stage = "before" => taken = 0 /\ page = <<>>
  /\ stage = "skip" => from = 0 /\ page = <<>>
  /\ stage = "text" => AtEnd(d, input, page, from) \/ AtText(d, input, page, from)
  /\ stage = "open" =>
       call = OneCall /\ from < Len(input) /\ \E k \in 1 .. Last(d) : AtTurn(d, input, page, from, k)
  /\ stage = "tag" => \E k \in 1 .. Last(d) : AtName(d, input, page, from, k)
  /\ stage = "attributes" =>
       \E k \in 1 .. Last(d) :
         /\ Good(d.turns[k]) /\ AtAttributes(d, from, k)
         /\ Exact(d, input) => (page \o d.turns[k].attributes) \o d.turns[k].text = d.kept[k]
  /\ stage = "badAttributes" =>
       call = BytesCall({GT}) /\
       \E k \in 1 .. Last(d) :
         /\ Skipped(d.turns[k]) /\ tag = Stored(d.turns[k].name)
         /\ AtAttributes(d, from, k) /\ PageIs(d, input, page, k - 1)
  /\ stage = "comment" =>
       AtEnd(d, input, page, from) \/
       \E k \in 1 .. Last(d) :
         /\ IsComment(d.turns[k]) /\ call = StringCall(Ending(d.turns[k]))
         /\ AtRest(d, input, page, from, k)
  /\ stage = "inside" =>
       AtEnd(d, input, page, from) \/
       \E k \in 1 .. Last(d) :
         /\ Skipped(d.turns[k]) /\ ~IsEndTag(d.turns[k])
         /\ call = StringCall(Ending(d.turns[k])) /\ AtRest(d, input, page, from, k)
  /\ stage = "close" =>
       call = BytesCall({GT}) /\ (AtEnd(d, input, page, from) \/ AtClose(d, input, page, from))
  /\ stage = "closed" =>
       call = OneCall /\ from < Len(input) /\ AtText(d, input, page, from + 1)
  /\ stage = "done" => PageIs(d, input, page, Last(d))
Hides(d, pg) == Fenced(d) => Lacks(pg, {Marker})
PageInv == \A d \in Documents : CutFrom(d) /\ Sure(d) => WhatIsNext(d) /\ Hides(d, page)

LEMMA FencedIsSure == ASSUME NEW d \in Documents, Fenced(d) PROVE Sure(d)
  BY DEF Fenced, Sure, Last
LEMMA CleanIsSure == ASSUME NEW d \in Documents, Clean(d) PROVE Sure(d)
  BY DEF Clean, Sure, Last

LEMMA DropIsParts ==
  ASSUME NEW w, NEW pos, NEW a, NEW b, NEW c, Drop(w, pos) = c, Joins(c, a, b)
  PROVE  Parts(w, pos, a, b)
  BY DEF Parts, Joins

LEMMA PartsNothing ==
  ASSUME NEW w, NEW pos, NEW b \in Seq(Byte)
  PROVE  Parts(w, pos, <<>>, b) <=> Drop(w, pos) = b
  BY ConcatEmptySeq DEF Parts

LEMMA LacksParts ==
  ASSUME NEW a \in Seq(Byte), NEW b \in Seq(Byte), NEW bytes, Lacks(a, bytes), Lacks(b, bytes)
  PROVE  Lacks(a \o b, bytes)
  <1> DEFINE w == a \o b
  <1>1. /\ Len(w) = Len(a) + Len(b) /\ Len(a) \in Nat /\ Len(b) \in Nat
        /\ \A i \in 1 .. Len(a) : w[i] = a[i]
        /\ \A i \in 1 .. Len(b) : w[Len(a) + i] = b[i]
    BY Grows
  <1> HIDE DEF w
  <1>2. ASSUME NEW i \in 1 .. Len(w) PROVE w[i] \notin bytes
    <2>1. CASE i \in 1 .. Len(a)
      BY <1>1, <2>1 DEF Lacks
    <2>2. CASE i \notin 1 .. Len(a)
      <3>1. i - Len(a) \in 1 .. Len(b) /\ Len(a) + (i - Len(a)) = i
        BY <1>1, <2>2
      <3> QED BY <1>1, <3>1 DEF Lacks
    <2> QED BY <2>1, <2>2
  <1> QED BY <1>2 DEF Lacks, w

LEMMA LacksStart ==
  ASSUME NEW a, NEW b, NEW bytes, Len(a) \in Nat, Len(b) \in Nat, Len(b) <= Len(a),
         \A i \in 1 .. Len(b) : b[i] = a[i], Lacks(a, bytes)
  PROVE  Lacks(b, bytes)
  BY DEF Lacks

LEMMA TagLacks ==
  ASSUME NEW name \in Seq(Byte), CheckElement(name)
  PROVE  Lacks(<<LT>> \o name, {Marker})
  <1>1. Lacks(name, {Marker})
    BY NameLacks DEF Lacks
  <1>2. <<LT>> \in Seq(Byte) /\ Len(<<LT>>) = 1 /\ <<LT>>[1] = LT /\ Marker # LT
    BY FilterAssumption
  <1>3. Lacks(<<LT>>, {Marker})
    BY <1>2 DEF Lacks
  <1> QED BY <1>1, <1>2, <1>3, LacksParts

-----------------------------------------------------------------------------
(* What follows what, in a page.                                           *)
LEMMA OutIs ==
  ASSUME NEW d \in Documents, NEW k \in 1 .. Len(d.turns), NEW t, t = d.turns[k]
  PROVE  /\ Good(t) => Out(d, k) = Tails(d, k)
         /\ Skipped(t) /\ IsEndTag(t) => Joins(Out(d, k), t.close, ClosedBy(d, k))
         /\ Skipped(t) /\ IsEndTag(t) => Out(d, k) = Closes(t, Tails(d, k))
         /\ IsComment(t) => Closes(t, Tails(d, k)) = Tails(d, k)
         /\ Skipped(t) => Joins(Closes(t, Tails(d, k)), t.close, ClosedBy(d, k))
         /\ ~Good(t) /\ ~IsEndTag(t) =>
              IF t.closed THEN Joins(Out(d, k), t.inside, Ending(t) \o Closes(t, Tails(d, k)))
                          ELSE Out(d, k) = t.inside
  <1> DEFINE more == Tails(d, k)
  <1>1. Out(d, k) = LeavesOut(t, more)
    BY DEF Out
  <1> HIDE DEF more
  <1>3. IsEndTag(t) => ~Good(t) /\ ~IsComment(t)
    BY DEF IsEndTag
  <1>2. Good(t) => LeavesOut(t, more) = more
    BY <1>3 DEF LeavesOut
  <1>4. Skipped(t) => Closes(t, more) = t.close \o (<<GT>> \o more)
    BY DEF Closes, Skipped
  <1>5. IsComment(t) => Closes(t, more) = more
    BY DEF Closes
  <1>6. IsEndTag(t) => LeavesOut(t, more) = Closes(t, more)
    BY <1>3 DEF LeavesOut
  <1>7. ~Good(t) /\ ~IsEndTag(t) =>
          LeavesOut(t, more) = IF t.closed THEN t.inside \o (Ending(t) \o Closes(t, more)) ELSE t.inside
    BY DEF LeavesOut
  <1> QED BY <1>1, <1>2, <1>3, <1>4, <1>5, <1>6, <1>7 DEF Joins, more, ClosedBy

LEMMA WellFormedIs ==
  ASSUME NEW d \in Documents, NEW k \in 1 .. Len(d.turns), NEW t, t = d.turns[k]
  PROVE  /\ Lacks(t.name, TagEnds) /\ Lacks(t.attributes, {GT})
         /\ Lacks(t.close, {GT}) /\ Lacks(t.text, {LT})
         /\ Out(d, k) # <<>>
         /\ IF t.attributes = <<>>
              THEN Out(d, k)[1] \in TagEnds /\ (Out(d, k)[1] = Space => IsComment(t))
              ELSE t.attributes[1] = Space /\ Out(d, k)[1] = GT /\ ~IsComment(t)
  <1>1. WellFormed(t, d.rest[k]) /\ Out(d, k) = LeavesOut(t, t.text \o d.rest[k])
    BY TurnTexts DEF Out, Tails
  <1> QED BY <1>1 DEF WellFormed

(* Behind a turn's text is the next turn, or the end of the page.          *)
LEMMA TextFollows ==
  ASSUME NEW d \in Documents, NEW k \in 1 .. Len(d.turns), NEW t, t = d.turns[k],
         NEW in, NEW pg, NEW pos, Drop(Whole(d), pos) = Tails(d, k),
         Exact(d, in) => pg \o t.text = d.kept[k]
  PROVE  AtText(d, in, pg, pos)
  <1>1. t.text \in Seq(Byte) /\ k \in 0 .. Len(d.turns) /\ Lacks(t.text, {LT})
    BY TurnTexts, WellFormedIs
  <1>2. Parts(Whole(d), pos, t.text, d.rest[k])
    BY DEF Parts, Tails
  <1>3. Fenced(d) => Lacks(t.text, {Marker})
    BY DEF Fenced
  <1> QED BY <1>1, <1>2, <1>3 DEF AtText, Last

LEMMA KeptIs ==
  ASSUME NEW d \in Documents, NEW k \in 1 .. Len(d.turns), NEW t, t = d.turns[k]
  PROVE  d.kept[k] = IF Good(t) THEN ((d.kept[k - 1] \o <<LT>> \o Stored(t.name)) \o t.attributes) \o t.text
                     ELSE d.kept[k - 1] \o t.text
  <1>1. d.kept[k] = Copied(t, d.kept[k - 1])
    BY TurnTexts
  <1> QED BY <1>1 DEF Copied

LEMMA TextBehindSkipped ==
  ASSUME NEW d \in Documents, NEW k \in 1 .. Len(d.turns), NEW t, t = d.turns[k], ~Good(t),
         NEW in, NEW pg, NEW pos, Drop(Whole(d), pos) = Tails(d, k), PageIs(d, in, pg, k - 1)
  PROVE  AtText(d, in, pg, pos)
  <1>1. d.kept[k] = d.kept[k - 1] \o t.text
    BY KeptIs
  <1>2. Exact(d, in) => pg \o t.text = d.kept[k]
    BY <1>1 DEF PageIs
  <1> QED BY <1>2, TextFollows

LEMMA ByteJoined ==
  ASSUME NEW w \in Seq(Byte), NEW m \in 0 .. Len(w), NEW one \in Seq(Byte), NEW b \in Seq(Byte),
         Len(one) = 1, Parts(w, m, one, b)
  PROVE  m + 1 <= Len(w) /\ w[m + 1] = one[1] /\ Drop(w, m + 1) = b
  <1>1. Len(w) \in Nat /\ Len(one) \in Nat
    BY LenProperties
  <1>2. Len(w) \in Nat /\ Len(one) \in Nat /\ Len(b) \in Nat /\ m + Len(one) + Len(b) = Len(w)
    BY DropJoined, ZenonT(60)
  <1>3. \A i \in 1 .. Len(one) : w[m + i] = one[i]
    BY DropJoined
  <1>4. Drop(w, m + Len(one)) = b
    BY DropJoined
  <1>5. w[m + 1] = one[1]
    BY <1>1, <1>3
  <1> QED BY <1>1, <1>2, <1>4, <1>5

LEMMA UpToByte ==
  ASSUME NEW w \in Seq(Byte), NEW pos \in 0 .. Len(w), NEW a \in Seq(Byte), NEW b \in Seq(Byte),
         NEW c \in Seq(Byte), NEW one \in Seq(Byte), Len(one) = 1, Joins(c, one, b),
         Parts(w, pos, a, c)
  PROVE  /\ Len(a) \in Nat /\ pos + Len(a) + 1 <= Len(w)
         /\ w[pos + Len(a) + 1] = one[1] /\ Drop(w, pos + Len(a) + 1) = b
         /\ \A j \in pos + 1 .. pos + Len(a) : j - pos \in 1 .. Len(a) /\ w[j] = a[j - pos]
  <1> DEFINE n == Len(a)
             m == pos + n
  <1>2. Len(w) \in Nat /\ pos \in Nat /\ pos <= Len(w)
    BY LenProperties
  <1>3. /\ n \in Nat /\ Len(c) \in Nat /\ pos + n + Len(c) = Len(w)
        /\ \A i \in 1 .. n : w[pos + i] = a[i]
        /\ Drop(w, pos + n) = c
    <2>1. Len(a) \in Nat /\ Len(c) \in Nat
      BY LenProperties
    <2>2. pos + Len(a) + Len(c) = Len(w)
      BY <1>2, <2>1, DropJoined
    <2>3. \A i \in 1 .. Len(a) : w[pos + i] = a[i]
      BY DropJoined
    <2>4. Drop(w, pos + Len(a)) = c
      BY DropJoined
    <2> QED BY <2>1, <2>2, <2>3, <2>4
  <1>4. m \in 0 .. Len(w) /\ n \in Nat
    BY <1>2, <1>3
  <1>5. Parts(w, m, one, b)
    BY <1>3 DEF Parts, Joins
  <1>6. m = pos + n
    BY <1>2, <1>4
  <1> HIDE DEF m, n
  <1>7. m + 1 <= Len(w) /\ w[m + 1] = one[1] /\ Drop(w, m + 1) = b
    BY <1>4, <1>5, ByteJoined
  <1>9. ASSUME NEW j \in pos + 1 .. pos + n PROVE j - pos \in 1 .. n /\ w[j] = a[j - pos]
    <2>1. j - pos \in 1 .. n /\ pos + (j - pos) = j
      BY <1>2, <1>4
    <2> QED BY <1>3, <2>1
  <1> QED BY <1>4, <1>6, <1>7, <1>9 DEF n

(* Behind a skipped element its end tag is closed.                         *)
LEMMA CloseFollows ==
  ASSUME NEW d \in Documents, NEW k \in 1 .. Len(d.turns), NEW t, t = d.turns[k], Skipped(t),
         NEW in, NEW pg, NEW pos \in 0 .. Len(Whole(d)),
         Drop(Whole(d), pos) = Closes(t, Tails(d, k)), PageIs(d, in, pg, k - 1)
  PROVE  AtClose(d, in, pg, pos)
  <1> DEFINE w == Whole(d)
             mid == pos + Len(t.close) + 1
  <1>1. /\ t.close \in Seq(Byte) /\ Tails(d, k) \in Seq(Byte) /\ GT \in Byte
        /\ w \in Seq(Byte) /\ Len(w) \in Nat
    BY TurnTexts, PageTexts, FilterAssumption
  <1>2. Parts(w, pos, t.close, ClosedBy(d, k))
    BY OutIs, DropIsParts
  <1>3. pos \in 0 .. Len(w) /\ pos \in Nat
    BY <1>1
  <1> HIDE DEF w
  <1>7. /\ mid \in pos + 1 .. Len(w) /\ w[mid] = GT /\ Drop(w, mid) = Tails(d, k)
        /\ \A j \in pos + 1 .. mid - 1 : j - pos \in 1 .. Len(t.close) /\ w[j] = t.close[j - pos]
    <2> DEFINE close == t.close
               more == Tails(d, k)
               all == ClosedBy(d, k)
               gt == <<GT>>
    <2>1. close \in Seq(Byte) /\ more \in Seq(Byte) /\ Parts(w, pos, close, all) /\ all \in Seq(Byte)
      BY <1>1, <1>2, TurnTexts
    <2>2. Joins(all, gt, more)
      BY DEF Joins, ClosedBy
    <2>3. gt \in Seq(Byte) /\ Len(gt) = 1 /\ gt[1] = GT
      BY <1>1
    <2>4. mid = pos + Len(close) + 1
      OBVIOUS
    <2> HIDE DEF close, more, all, gt, mid
    <2>5. /\ Len(close) \in Nat /\ pos + Len(close) + 1 <= Len(w)
          /\ w[pos + Len(close) + 1] = gt[1] /\ Drop(w, pos + Len(close) + 1) = more
          /\ \A j \in pos + 1 .. pos + Len(close) : j - pos \in 1 .. Len(close) /\ w[j] = close[j - pos]
      <3>1. /\ w \in Seq(Byte) /\ close \in Seq(Byte) /\ more \in Seq(Byte) /\ all \in Seq(Byte)
            /\ gt \in Seq(Byte) /\ Len(gt) = 1 /\ Joins(all, gt, more) /\ Parts(w, pos, close, all)
            /\ pos \in 0 .. Len(w)
        BY <1>1, <1>3, <2>1, <2>2, <2>3
      <3> QED BY <3>1, UpToByte
    <2>6. mid \in pos + 1 .. Len(w) /\ mid - 1 = pos + Len(close)
      BY <1>1, <1>3, <2>4, <2>5
    <2> QED BY <2>3, <2>4, <2>5, <2>6 DEF close, more
  <1> HIDE DEF mid
  <1>8. ASSUME NEW j \in pos + 1 .. mid - 1 PROVE w[j] # GT
    <2>1. Lacks(t.close, {GT})
      BY WellFormedIs
    <2> QED BY <1>7, <2>1 DEF Lacks
  <1>9. FirstGT(d, pos, mid)
    BY <1>7, <1>8 DEF FirstGT, w
  <1>10. ASSUME NEW i, FirstGT(d, pos, i) PROVE i = mid
    <2>1. i \in pos + 1 .. Len(w) /\ w[i] = GT /\ \A j \in pos + 1 .. i - 1 : w[j] # GT
      BY <1>10 DEF FirstGT, w
    <2>2. ~(i < mid)
      BY <1>1, <1>7, <1>8, <2>1
    <2>3. ~(mid < i)
      BY <1>1, <1>7, <2>1
    <2>4. i \in Int /\ mid \in Int
      BY <1>1, <1>3, <1>7, <2>1
    <2> QED BY <2>2, <2>3, <2>4
  <1>11. AtText(d, in, pg, mid)
    BY <1>7, TextBehindSkipped DEF Skipped, w
  <1> QED BY <1>9, <1>10, <1>11 DEF AtClose

(* Where a later end of an element is found, in a page that is not clean.  *)
LEMMA TextFound ==
  ASSUME NEW d \in Documents, NEW in, NEW pg, NEW pos \in Nat, TextAt(d, pos), ~Exact(d, in)
  PROVE  AtText(d, in, pg, pos)
  <1> DEFINE w == Whole(d)
  <1>1. w \in Seq(Byte) /\ Len(w) \in Nat
    BY PageTexts
  <1>2. PICK k \in 0 .. Len(d.turns), next \in pos .. Len(w) :
          /\ Drop(w, next) = d.rest[k]
          /\ \A i \in pos + 1 .. next : w[i] \notin {LT, Marker}
    BY DEF TextAt
  <1> DEFINE a == Slice(w, pos, next)
  <1>3. next \in Nat /\ pos <= next /\ next <= Len(w) /\ Len(w) <= Len(w)
    BY <1>1, <1>2
  <1>4. Slice(w, pos, next) \in Seq(Byte) /\ Len(Slice(w, pos, next)) = next - pos
    BY <1>1, <1>3, SliceType
  <1>5. ASSUME NEW i \in 1 .. next - pos PROVE Slice(w, pos, next)[i] \notin {LT, Marker}
    <2>1. Slice(w, pos, next)[i] = w[pos + i]
      BY <1>1, <1>3, SliceElements
    <2>2. pos + i \in pos + 1 .. next
      BY <1>3
    <2> QED BY <1>2, <2>1, <2>2
  <1>6. Slice(w, pos, next) \o Slice(w, next, Len(w)) = Slice(w, pos, Len(w))
    BY <1>1, <1>3, SlicesJoin
  <1>7. Drop(w, pos) = a \o d.rest[k]
    BY <1>2, <1>6 DEF Drop, Slice
  <1>8. Parts(w, pos, a, d.rest[k])
    BY <1>7 DEF Parts
  <1>9. Lacks(a, {LT}) /\ Lacks(a, {Marker})
    BY <1>4, <1>5 DEF Lacks
  <1>10. a \in Seq(Byte)
    BY <1>4
  <1> HIDE DEF a, w
  <1> QED BY <1>8, <1>9, <1>10 DEF AtText, Last, w

-----------------------------------------------------------------------------
(* Parse in a page: what it finds where it looks.                          *)
LEMMA InPage ==
  ASSUME FilterInv, NEW d \in Documents, CutFrom(d)
  PROVE  /\ ParserInv /\ TypeOK /\ CutOf(Whole(d)) /\ Whole(d) \in Seq(Byte) /\ Len(Whole(d)) \in Nat
         /\ input \in Seq(Byte) /\ Len(input) \in Nat /\ Len(input) <= Len(Whole(d))
         /\ from \in Nat /\ taken \in Nat /\ from <= taken /\ taken <= Len(input)
         /\ from \in 0 .. Len(Whole(d)) /\ taken \in 0 .. Len(Whole(d))
         /\ Exact(d, input) => input = Whole(d)
  <1>1. ParserInv /\ TypeOK
    BY DEF FilterInv, ParserInv
  <1>2. Whole(d) \in Seq(Byte) /\ CutOf(Whole(d))
    BY PageTexts DEF CutFrom, CutOf
  <1>3. /\ input \in Seq(Byte) /\ Len(input) \in Nat /\ from \in Nat /\ taken \in Nat
        /\ from <= taken /\ taken <= Len(input)
    BY <1>1, TextType
  <1>4. Len(Whole(d)) \in Nat /\ Len(input) <= Len(Whole(d))
    BY <1>2, <1>3, CutBytes
  <1> QED BY <1>1, <1>2, <1>3, <1>4 DEF Exact

LEMMA DropNone == ASSUME NEW w \in Seq(Byte) PROVE Drop(w, 0) = w
  <1>1. Len(w) \in Nat /\ 0 \in Nat /\ 0 <= Len(w) /\ Len(w) <= Len(w) /\ Len(w) - 0 = Len(w)
    BY LenProperties
  <1>2. Slice(w, 0, Len(w)) \in Seq(Byte) /\ Len(Slice(w, 0, Len(w))) = Len(w) - 0
    BY <1>1, SliceType
  <1>3. \A i \in 1 .. Len(w) - 0 : Slice(w, 0, Len(w))[i] = w[0 + i]
    BY <1>1, SliceElements
  <1>4. \A i \in 1 .. Len(w) : Slice(w, 0, Len(w))[i] = w[i]
    BY <1>1, <1>3
  <1>5. Slice(w, 0, Len(w)) = w
    BY <1>1, <1>2, <1>4, SeqEqual
  <1> QED BY <1>5 DEF Drop, Slice

LEMMA FirstByte ==
  ASSUME NEW a \in Seq(Byte), NEW b \in Seq(Byte)
  PROVE  /\ a # <<>> => a \o b # <<>> /\ (a \o b)[1] = a[1]
         /\ a = <<>> => a \o b = b
  <1>1. ASSUME a # <<>> PROVE a \o b # <<>> /\ (a \o b)[1] = a[1]
    <2>1. Len(a) > 0
      BY <1>1, LenProperties, EmptySeq
    <2>2. /\ Len(a \o b) = Len(a) + Len(b) /\ Len(a) \in Nat /\ Len(b) \in Nat
          /\ \A i \in 1 .. Len(a) : (a \o b)[i] = a[i]
      BY Grows
    <2>3. (a \o b)[1] = a[1] /\ Len(a \o b) # 0
      BY <2>1, <2>2
    <2> QED BY <2>3, EmptySeq
  <1>2. a = <<>> => a \o b = b
    BY ConcatEmptySeq
  <1> QED BY <1>1, <1>2

(* At the end of the input nothing more is read.                           *)
LEMMA EndStays ==
  ASSUME FilterInv, NEW d \in Documents, CutFrom(d), NEW pg, AtEnd(d, input, pg, from)
  PROVE  AtEnd(d, input, pg, taken) /\ taken = Len(input) /\ from = Len(input)
  <1>1. from = Len(input) /\ taken = Len(input)
    BY InPage DEF AtEnd
  <1> QED BY <1>1 DEF AtEnd

LEMMA NothingRead ==
  ASSUME FilterInv, NEW bytes, pc = "idle", call = BytesCall(bytes), call \in Call,
         from = Len(input)
  PROVE  ~found /\ out = <<>>
  <1>1. ParserInv
    BY DEF FilterInv
  <1>2. /\ out \in Seq(Byte) /\ Len(out) \in Nat /\ (Len(out) > 0 => Ahead = {out[1]})
        /\ found => Ahead # {}
    BY <1>1, BytesBack
  <1>3. Ahead = {}
    BY <1>1, TextType DEF Ahead
  <1>4. Len(out) = 0
    BY <1>2, <1>3
  <1> QED BY <1>2, <1>3, <1>4, EmptySeq

LEMMA CutIsNotExact ==
  ASSUME FilterInv, NEW d \in Documents, CutFrom(d), input # Whole(d), NEW pg, NEW k,
         NEW pos, pos = Len(input)
  PROVE  ~Exact(d, input) /\ PageIs(d, input, pg, k) /\ AtEnd(d, input, pg, pos)
  BY DEF Exact, PageIs, AtEnd

(* ReadUntil "<" in a text.                                                *)
LEMMA TextRead ==
  ASSUME FilterInv, NEW d \in Documents, CutFrom(d), pc = "idle", call = BytesCall({LT}),
         NEW a \in Seq(Byte), NEW k \in 0 .. Len(d.turns),
         Parts(Whole(d), from, a, d.rest[k]), Lacks(a, {LT})
  PROVE  \/ /\ found /\ out = a /\ taken < Len(input)
            /\ k + 1 \in 1 .. Len(d.turns) /\ Drop(Whole(d), taken) = d.rest[(k + 1) - 1]
         \/ /\ ~found /\ Len(out) \in Nat /\ Len(out) <= Len(a)
            /\ \A i \in 1 .. Len(out) : out[i] = a[i]
            /\ input = Whole(d) => out = a /\ k = Len(d.turns)
  <1> DEFINE w == Whole(d)
             b == d.rest[k]
  <1>1. Len(d.turns) \in Nat /\ b \in Seq(Byte) /\ (b = <<>> \/ b[1] \in {LT})
        /\ (b = <<>> <=> k = Len(d.turns))
    BY PageTexts, RestIs
  <1>2. ParserInv /\ CutOf(w) /\ w \in Seq(Byte) /\ TypeOK
    BY InPage
  <1> HIDE DEF w, b
  <1>3. \/ /\ found /\ out = a /\ Drop(w, taken) = b /\ b # <<>> /\ target = b[1]
           /\ taken < Len(input)
        \/ /\ ~found /\ taken = Len(input) /\ Len(out) <= Len(a)
           /\ \A i \in 1 .. Len(out) : out[i] = a[i]
           /\ input = w => out = a /\ b = <<>>
    <2>1. call = BytesCall({LT}) /\ call \in Call /\ pc = "idle" /\ Parts(w, from, a, b)
          /\ Lacks(a, {LT}) /\ (b = <<>> \/ b[1] \in {LT}) /\ b \in Seq(Byte)
      BY <1>1, Calls DEF w, b
    <2> QED BY <1>2, <2>1, ReadsUpTo
  <1>4. Len(out) \in Nat
    BY <1>2, Typed DEF Sane
  <1>5. b # <<>> => k + 1 \in 1 .. Len(d.turns) /\ (k + 1) - 1 = k
    BY <1>1
  <1> QED BY <1>1, <1>3, <1>4, <1>5 DEF w, b

PageGoes(d) == WhatIsNext(d)' /\ Hides(d, page)'

LEMMA BeforeGoes ==
  ASSUME NEW d \in Documents, WhatIsNext(d), Hides(d, page), ReadBefore
  PROVE  PageGoes(d)
  <1>1. stage = "before" /\ stage' = "skip" /\ from' = taken /\ page' = page
    BY BeginIs DEF ReadBefore, Returns, Until, Then
  <1>2. taken = 0 /\ page = <<>>
    BY <1>1 DEF WhatIsNext
  <1>3. WhatIsNext(d)'
    BY <1>1, <1>2 DEF WhatIsNext
  <1> QED BY <1>1, <1>3 DEF PageGoes, Hides

(* Where the text ends: at the next turn's "<", or at the end of the input.*)
LEMMA TurnFollows ==
  ASSUME FilterInv, NEW d \in Documents, CutFrom(d), Hides(d, page), AtTag,
         call = BytesCall({LT}),
         NEW a \in Seq(Byte), NEW k \in 0 .. Len(d.turns),
         Parts(Whole(d), from, a, d.rest[k]), Lacks(a, {LT}),
         stage = "skip" => (Exact(d, input) => page = d.kept[k]),
         stage = "text" => (Exact(d, input) => page \o a = d.kept[k]),
         stage = "text" => (Fenced(d) => Lacks(a, {Marker}))
  PROVE  PageGoes(d)
  <1>1. /\ pc = "idle" /\ stage \in {"skip", "text"}
        /\ page' = IF stage = "text" THEN page \o out ELSE page
    BY DEF AtTag, Returns
  <1>2. page \in Seq(Byte) /\ out \in Seq(Byte) /\ Len(a) \in Nat
    BY LenProperties, InPage, Typed DEF FilterInv, FilterTypeOK, Sane
  <1>3. \/ /\ found /\ out = a /\ taken < Len(input)
           /\ k + 1 \in 1 .. Len(d.turns) /\ Drop(Whole(d), taken) = d.rest[(k + 1) - 1]
        \/ /\ ~found /\ Len(out) \in Nat /\ Len(out) <= Len(a)
           /\ \A i \in 1 .. Len(out) : out[i] = a[i]
           /\ input = Whole(d) => out = a /\ k = Len(d.turns)
    BY <1>1, TextRead
  <1>4. stage = "text" /\ Fenced(d) => Lacks(out, {Marker})
    BY <1>2, <1>3, LacksStart
  <1>5. Hides(d, page')
    BY <1>1, <1>2, <1>4, LacksParts DEF Hides
  <1>6. CASE found
    <2>1. call' = OneCall /\ from' = taken /\ input' = input /\ stage' = "open"
      BY <1>6, BeginIs DEF AtTag, ConsumeOne, OneCall, Then
    <2>2. Exact(d, input) => page' = d.kept[k]
      BY <1>1, <1>3, <1>6
    <2>3. k + 1 \in 1 .. Len(d.turns) /\ (k + 1) - 1 = k
      BY <1>3, <1>6
    <2>4. AtTurn(d, input, page', taken, k + 1)
      BY <1>3, <1>6, <2>2, <2>3 DEF AtTurn, PageIs
    <2>5. WhatIsNext(d)'
      BY <1>3, <1>6, <2>1, <2>3, <2>4 DEF WhatIsNext, Last
    <2> QED BY <1>5, <2>5 DEF PageGoes
  <1>7. CASE ~found
    <2>1. stage' = "done" /\ input' = input
      BY <1>7 DEF AtTag, vars, source
    <2>2. PageIs(d, input, page', Last(d))
      BY <1>1, <1>3, <1>7 DEF PageIs, Last, Exact
    <2>3. WhatIsNext(d)'
      BY <2>1, <2>2 DEF WhatIsNext
    <2> QED BY <1>5, <2>3 DEF PageGoes
  <1> QED BY <1>6, <1>7

LEMMA AtTagStays ==
  ASSUME FilterInv, NEW d \in Documents, CutFrom(d), Hides(d, page), AtTag,
         call = BytesCall({LT}), AtEnd(d, input, page, from)
  PROVE  PageGoes(d)
  <1>1. pc = "idle" /\ from = Len(input)
    BY EndStays DEF AtTag, Returns
  <1>2. ~found /\ out = <<>>
    BY <1>1, Calls, NothingRead
  <1>3. page \in Seq(Byte)
    BY DEF FilterInv, FilterTypeOK
  <1>4. page' = page
    BY <1>2, <1>3, ConcatEmptySeq DEF AtTag
  <1>5. stage' = "done" /\ input' = input
    BY <1>2 DEF AtTag, vars, source
  <1>6. WhatIsNext(d)'
    BY <1>4, <1>5 DEF WhatIsNext, AtEnd
  <1> QED BY <1>4, <1>6 DEF PageGoes, Hides

LEMMA AtTagPage ==
  ASSUME FilterInv, NEW d \in Documents, CutFrom(d), WhatIsNext(d), Hides(d, page), AtTag
  PROVE  PageGoes(d)
  <1>1. call = BytesCall({LT}) /\ stage \in {"skip", "text"}
    BY DEF FilterInv, StageInv, AtTag, Returns
  <1>2. CASE stage = "skip"
    <2>1. from = 0 /\ page = <<>>
      BY <1>2 DEF WhatIsNext
    <2>2. /\ d.before \in Seq(Byte) /\ Lacks(d.before, {LT}) /\ Len(d.turns) \in Nat
          /\ Whole(d) = d.before \o d.rest[0] /\ Whole(d) \in Seq(Byte) /\ d.kept[0] = <<>>
      BY PageTexts
    <2>3. Parts(Whole(d), from, d.before, d.rest[0])
      <3>1. Drop(Whole(d), from) = d.before \o d.rest[0]
        BY <2>1, <2>2, DropNone
      <3> QED BY <3>1 DEF Parts
    <2>4. 0 \in 0 .. Len(d.turns) /\ page = d.kept[0]
      BY <2>1, <2>2
    <2> QED BY <1>1, <1>2, <2>2, <2>3, <2>4, TurnFollows
  <1>3. CASE stage = "text"
    <2>1. CASE AtEnd(d, input, page, from)
      BY <1>1, <2>1, AtTagStays
    <2>2. CASE AtText(d, input, page, from)
      <3>1. PICK a \in Seq(Byte), k \in 0 .. Len(d.turns) :
              /\ Parts(Whole(d), from, a, d.rest[k]) /\ Lacks(a, {LT})
              /\ Exact(d, input) => page \o a = d.kept[k]
              /\ Fenced(d) => Lacks(a, {Marker})
        BY <2>2 DEF AtText, Last
      <3> QED BY <1>1, <1>3, <3>1, TurnFollows
    <2> QED BY <1>3, <2>1, <2>2 DEF WhatIsNext
  <1> QED BY <1>1, <1>2, <1>3

LEMMA ReadTagPage ==
  ASSUME FilterInv, NEW d \in Documents, CutFrom(d), WhatIsNext(d), Hides(d, page), ReadTag
  PROVE  PageGoes(d)
  <1>1. /\ stage = "open" /\ pc = "idle" /\ stage' = "tag" /\ from' = taken /\ input' = input
        /\ page' = page
    BY BeginIs DEF ReadTag, Returns, Until, Then
  <1>2. PICK k \in 1 .. Len(d.turns) : AtTurn(d, input, page, from, k)
    BY <1>1 DEF WhatIsNext, Last
  <1>3. call = OneCall /\ from < Len(input)
    BY <1>1 DEF WhatIsNext
  <1>4. taken = from + 1
    BY <1>1, <1>3, InPage, TakesOne
  <1>5. Drop(Whole(d), from) = d.rest[k - 1] /\ PageIs(d, input, page, k - 1)
    BY <1>2 DEF AtTurn
  <1> DEFINE lt == <<LT>>
             name == Named(d, k)
             w == Whole(d)
  <1>6. name \in Seq(Byte) /\ lt \in Seq(Byte) /\ Len(lt) = 1 /\ Parts(w, from, lt, name)
    <2>1. Named(d, k) \in Seq(Byte) /\ Joins(d.rest[k - 1], <<LT>>, Named(d, k))
      BY TurnTexts
    <2>2. <<LT>> \in Seq(Byte) /\ Len(<<LT>>) = 1
      BY FilterAssumption
    <2> QED BY <1>5, <2>1, <2>2, DropIsParts
  <1>7. w \in Seq(Byte) /\ from \in 0 .. Len(w)
    BY InPage
  <1> HIDE DEF lt, name, w
  <1>8. Drop(w, from + 1) = name
    BY <1>6, <1>7, ByteJoined
  <1>9. AtName(d, input, page, taken, k)
    BY <1>4, <1>5, <1>8 DEF AtName, w, name
  <1>10. WhatIsNext(d)'
    BY <1>1, <1>9 DEF WhatIsNext, Last
  <1> QED BY <1>1, <1>10 DEF PageGoes, Hides

(* A tag's name is read up to what ends it, unless the page is cut there.  *)
LEMMA NameRead ==
  ASSUME FilterInv, NEW d \in Documents, CutFrom(d), Returns("tag"),
         NEW k \in 1 .. Len(d.turns), NEW t, t = d.turns[k], AtName(d, input, page, from, k)
  PROVE  \/ /\ found /\ Str = Stored(t.name) /\ taken < Len(input)
            /\ Parts(Whole(d), taken, t.attributes, Out(d, k))
            /\ IF t.attributes = <<>> THEN target = Space => IsComment(t)
                                      ELSE target = Space /\ ~IsComment(t)
         \/ ~found /\ taken = Len(input) /\ input # Whole(d) /\ target # Space
  <1> DEFINE w == Whole(d)
             a == t.name
             b == t.attributes \o Out(d, k)
  <1>1. pc = "idle" /\ call = BytesCall(TagEnds) /\ call \in Call
    BY Calls DEF FilterInv, StageInv, Returns
  <1>2. ParserInv /\ CutOf(w) /\ w \in Seq(Byte) /\ TypeOK
    BY InPage
  <1>3. a \in Seq(Byte) /\ b \in Seq(Byte) /\ Lacks(a, TagEnds) /\ Parts(w, from, a, b)
    <2>1. Joins(Named(d, k), t.name, t.attributes \o Out(d, k)) /\ Drop(w, from) = Named(d, k)
      BY TurnTexts DEF AtName
    <2>2. Parts(w, from, t.name, t.attributes \o Out(d, k))
      BY <2>1, DropIsParts
    <2> QED BY <2>2, TurnTexts, WellFormedIs
  <1>4. b # <<>> /\ b[1] \in TagEnds
        /\ IF t.attributes = <<>> THEN b[1] = Space => IsComment(t)
                                  ELSE b[1] = Space /\ ~IsComment(t)
    <2>1. t.attributes \in Seq(Byte) /\ Out(d, k) \in Seq(Byte)
      BY TurnTexts
    <2>2. /\ t.attributes # <<>> => b # <<>> /\ b[1] = t.attributes[1]
          /\ t.attributes = <<>> => b = Out(d, k)
      BY <2>1, FirstByte
    <2>3. /\ Out(d, k) # <<>>
          /\ IF t.attributes = <<>>
               THEN Out(d, k)[1] \in TagEnds /\ (Out(d, k)[1] = Space => IsComment(t))
               ELSE t.attributes[1] = Space /\ Out(d, k)[1] = GT /\ ~IsComment(t)
      BY WellFormedIs
    <2> HIDE DEF b
    <2>4. Space \in TagEnds
      BY DEF TagEnds
    <2> QED BY <2>2, <2>3, <2>4
  <1>5. Drop(w, taken) = b => Parts(w, taken, t.attributes, Out(d, k))
    BY DEF Parts
  <1>6. target # None => found
    BY DEF FilterInv
  <1>7. Space # None
    BY ParserAssumption, FilterAssumption
  <1> HIDE DEF w, a, b
  <1>8. \/ /\ found /\ out = a /\ Drop(w, taken) = b /\ b # <<>> /\ target = b[1]
           /\ taken < Len(input)
        \/ /\ ~found /\ taken = Len(input) /\ Len(out) <= Len(a)
           /\ \A i \in 1 .. Len(out) : out[i] = a[i]
           /\ input = w => out = a /\ b = <<>>
    BY <1>1, <1>2, <1>3, <1>4, ReadsUpTo
  <1>9. out = a => Str = Stored(t.name)
    BY DEF Str, a
  <1> QED BY <1>4, <1>5, <1>6, <1>7, <1>8, <1>9 DEF w

(* A good tag goes to the output.                                          *)
LEMMA GoodTagPage ==
  ASSUME FilterInv, NEW d \in Documents, CutFrom(d), WhatIsNext(d), Hides(d, page), GoodTag
  PROVE  PageGoes(d)
  <1>1. /\ Returns("tag") /\ stage = "tag" /\ page' = page \o <<LT>> \o Str /\ CheckElement(Str)
        /\ from' = taken /\ input' = input
        /\ IF target = Space THEN stage' = "attributes" ELSE stage' = "text"
    BY BeginIs DEF GoodTag, Returns, Until
  <1>2. PICK k \in 1 .. Len(d.turns) : AtName(d, input, page, from, k)
    BY <1>1 DEF WhatIsNext, Last
  <1> DEFINE t == d.turns[k]
             tagText == <<LT>> \o Str
  <1>3. t = d.turns[k]
    OBVIOUS
  <1> HIDE DEF t
  <1>4. \/ /\ found /\ Str = Stored(t.name) /\ taken < Len(input)
           /\ Parts(Whole(d), taken, t.attributes, Out(d, k))
           /\ IF t.attributes = <<>> THEN target = Space => IsComment(t)
                                     ELSE target = Space /\ ~IsComment(t)
        \/ ~found /\ taken = Len(input) /\ input # Whole(d) /\ target # Space
    BY <1>1, <1>2, <1>3, NameRead
  <1>5. page \in Seq(Byte) /\ Str \in Seq(Byte) /\ tagText \in Seq(Byte) /\ <<LT>> \in Seq(Byte)
    <2>1. TypeOK
      BY InPage
    <2>2. page \in Seq(Byte) /\ Str \in Seq(Byte) /\ <<LT>> \in Seq(Byte)
      BY <2>1, StrIs, FilterAssumption DEF FilterInv, FilterTypeOK
    <2> QED BY <2>2, ConcatProperties
  <1>6. page' = page \o tagText
    <2>1. (page \o <<LT>>) \o Str = page \o (<<LT>> \o Str)
      BY <1>5, ConcatAssociative
    <2> QED BY <1>1, <2>1
  <1>7. Hides(d, page')
    <2>1. Lacks(tagText, {Marker})
      BY <1>1, <1>5, TagLacks
    <2> HIDE DEF tagText
    <2> QED BY <1>5, <1>6, <2>1, LacksParts DEF Hides
  <1>8. CASE found
    <2>1. Good(t) /\ ~IsComment(t) /\ Str = Stored(t.name)
      BY <1>1, <1>4, <1>8 DEF Good, IsComment
    <2>2. PageIs(d, input, page, k - 1)
      BY <1>2 DEF AtName
    <2>3. Exact(d, input) => (page' \o t.attributes) \o t.text = d.kept[k]
      <3>1. d.kept[k] = ((d.kept[k - 1] \o <<LT>> \o Stored(t.name)) \o t.attributes) \o t.text
        BY <1>3, <2>1, KeptIs
      <3> QED BY <1>1, <2>1, <2>2, <3>1 DEF PageIs
    <2>4. CASE t.attributes = <<>>
      <3>1. target # Space /\ stage' = "text"
        BY <1>1, <1>4, <1>8, <2>1, <2>4
      <3>2. Drop(Whole(d), taken) = Tails(d, k)
        <4>1. Out(d, k) = Tails(d, k) /\ Out(d, k) \in Seq(Byte)
          BY <1>3, <2>1, OutIs, TurnTexts
        <4> QED BY <1>4, <1>8, <2>4, <4>1, PartsNothing
      <3>3. page' \o t.attributes = page'
        <4>1. page' \in Seq(Byte)
          BY <1>5, <1>6, ConcatProperties
        <4> QED BY <2>4, <4>1, ConcatEmptySeq
      <3>4. Exact(d, input) => page' \o t.text = d.kept[k]
        BY <2>3, <3>3
      <3>5. AtText(d, input, page', taken)
        BY <1>3, <3>2, <3>4, TextFollows
      <3>6. WhatIsNext(d)'
        BY <1>1, <3>1, <3>5 DEF WhatIsNext
      <3> QED BY <1>7, <3>6 DEF PageGoes
    <2>5. CASE t.attributes # <<>>
      <3>1. target = Space /\ stage' = "attributes"
        BY <1>1, <1>4, <1>8, <2>5
      <3>2. AtAttributes(d, taken, k)
        BY <1>3, <1>4, <1>8, <2>5 DEF AtAttributes
      <3>3. WhatIsNext(d)'
        BY <1>1, <1>3, <2>1, <2>3, <3>1, <3>2 DEF WhatIsNext, Last
      <3> QED BY <1>7, <3>3 DEF PageGoes
    <2> QED BY <2>4, <2>5
  <1>9. CASE ~found
    <2>1. stage' = "text" /\ taken = Len(input) /\ input # Whole(d)
      BY <1>1, <1>4, <1>9
    <2>2. AtEnd(d, input, page', taken)
      BY <2>1, CutIsNotExact
    <2>3. WhatIsNext(d)'
      BY <1>1, <2>1, <2>2 DEF WhatIsNext
    <2> QED BY <1>7, <2>3 DEF PageGoes
  <1> QED BY <1>8, <1>9

(* A comment or a bad element goes nowhere.                                *)
LEMMA CommentPage ==
  ASSUME FilterInv, NEW d \in Documents, CutFrom(d), WhatIsNext(d), Hides(d, page), ReadComment
  PROVE  PageGoes(d)
  <1>1. /\ Returns("tag") /\ stage = "tag" /\ page' = page /\ ~CheckElement(Str) /\ Str = Comment
        /\ from' = taken /\ input' = input /\ stage' = "comment"
        /\ call' = StringCall(EndOfComment)
    BY BeginIs DEF ReadComment, Returns, UntilString, StringCall
  <1>2. PICK k \in 1 .. Len(d.turns) : AtName(d, input, page, from, k)
    BY <1>1 DEF WhatIsNext, Last
  <1> DEFINE t == d.turns[k]
  <1>3. t = d.turns[k]
    OBVIOUS
  <1> HIDE DEF t
  <1>4. \/ /\ found /\ Str = Stored(t.name) /\ taken < Len(input)
           /\ Parts(Whole(d), taken, t.attributes, Out(d, k))
           /\ IF t.attributes = <<>> THEN target = Space => IsComment(t)
                                     ELSE target = Space /\ ~IsComment(t)
        \/ ~found /\ taken = Len(input) /\ input # Whole(d) /\ target # Space
    BY <1>1, <1>2, <1>3, NameRead
  <1>5. CASE found
    <2>1. IsComment(t) /\ t.attributes = <<>>
      BY <1>1, <1>4, <1>5 DEF Good, IsComment
    <2>2. Drop(Whole(d), taken) = Out(d, k)
      <3>1. Out(d, k) \in Seq(Byte)
        BY <1>3, TurnTexts
      <3> QED BY <1>4, <1>5, <2>1, <3>1, PartsNothing
    <2>3. AtRest(d, input, page, taken, k) /\ Ending(t) = EndOfComment
      BY <1>2, <2>1, <2>2 DEF AtRest, AtName, Ending
    <2>4. WhatIsNext(d)'
      BY <1>1, <1>3, <2>1, <2>3 DEF WhatIsNext, Last
    <2> QED BY <1>1, <2>4 DEF PageGoes, Hides
  <1>6. CASE ~found
    <2>1. AtEnd(d, input, page, taken)
      BY <1>4, <1>6, CutIsNotExact
    <2>2. WhatIsNext(d)'
      BY <1>1, <2>1 DEF WhatIsNext
    <2> QED BY <1>1, <2>2 DEF PageGoes, Hides
  <1> QED BY <1>5, <1>6

(* What is inside of a bad element is skipped.                             *)
LEMMA SkipsInside ==
  ASSUME FilterInv, NEW d \in Documents, CutFrom(d), Hides(d, page), NEW name, SkipInside(name),
         UNCHANGED page,
         \/ AtEnd(d, input, page, taken)
         \/ \E k \in 1 .. Last(d) :
              /\ Skipped(d.turns[k]) /\ name = Stored(d.turns[k].name)
              /\ AtRest(d, input, page, taken, k)
  PROVE  PageGoes(d)
  <1>1. /\ from' = taken /\ input' = input
        /\ IF IsEnd(name) THEN stage' = "close" /\ call' = BytesCall({GT})
           ELSE stage' = "inside" /\ call' = StringCall(EndTag(name))
    <2>1. CASE IsEnd(name)
      <3>1. Begin(BytesCall({GT})) /\ stage' = "close"
        BY <2>1 DEF SkipInside, Until, BytesCall
      <3> QED BY <2>1, <3>1, BeginIs
    <2>2. CASE ~IsEnd(name)
      <3>1. Begin(StringCall(EndTag(name))) /\ stage' = "inside"
        BY <2>2 DEF SkipInside, UntilString, StringCall
      <3> QED BY <2>2, <3>1, BeginIs
    <2> QED BY <2>1, <2>2
  <1>2. Hides(d, page)'
    BY DEF Hides
  <1>3. CASE AtEnd(d, input, page, taken)
    <2>1. WhatIsNext(d)'
      BY <1>1, <1>3 DEF WhatIsNext
    <2> QED BY <1>2, <2>1 DEF PageGoes
  <1>4. ASSUME NEW k \in 1 .. Last(d), NEW t, t = d.turns[k], Skipped(t),
               name = Stored(t.name), AtRest(d, input, page, taken, k)
        PROVE  PageGoes(d)
    <2>1. k \in 1 .. Len(d.turns) /\ ~Good(t) /\ ~IsComment(t) /\ (IsEndTag(t) <=> IsEnd(name))
      BY <1>4 DEF Last, Skipped, IsEndTag
    <2>2. Drop(Whole(d), taken) = Out(d, k) /\ PageIs(d, input, page, k - 1)
      BY <1>4 DEF AtRest
    <2>3. CASE IsEnd(name)
      <3>1. Drop(Whole(d), taken) = Closes(t, Tails(d, k))
        BY <1>4, <2>1, <2>2, <2>3, OutIs
      <3>2. taken \in 0 .. Len(Whole(d))
        BY InPage
      <3>3. AtClose(d, input, page, taken)
        BY <1>4, <2>1, <2>2, <3>1, <3>2, CloseFollows
      <3>4. WhatIsNext(d)'
        BY <1>1, <2>3, <3>3 DEF WhatIsNext
      <3> QED BY <1>2, <3>4 DEF PageGoes
    <2>4. CASE ~IsEnd(name)
      <3>1. Ending(t) = EndTag(name) /\ ~IsEndTag(t)
        BY <1>4, <2>1, <2>4 DEF Ending
      <3>2. WhatIsNext(d)'
        BY <1>1, <1>4, <2>4, <3>1 DEF WhatIsNext
      <3> QED BY <1>2, <3>2 DEF PageGoes
    <2> QED BY <2>3, <2>4
  <1> QED BY <1>3, <1>4

LEMMA BadTagPage ==
  ASSUME FilterInv, NEW d \in Documents, CutFrom(d), WhatIsNext(d), Hides(d, page), BadTag
  PROVE  PageGoes(d)
  <1>1. /\ Returns("tag") /\ stage = "tag" /\ page' = page /\ tag' = Str
        /\ ~CheckElement(Str) /\ Str # Comment
        /\ IF target = Space THEN Until({GT}) /\ stage' = "badAttributes" ELSE SkipInside(Str)
    BY DEF BadTag, Returns
  <1>2. PICK k \in 1 .. Len(d.turns) : AtName(d, input, page, from, k)
    BY <1>1 DEF WhatIsNext, Last
  <1> DEFINE t == d.turns[k]
  <1>3. t = d.turns[k] /\ k \in 1 .. Last(d)
    BY DEF Last
  <1> HIDE DEF t
  <1>4. \/ /\ found /\ Str = Stored(t.name) /\ taken < Len(input)
           /\ Parts(Whole(d), taken, t.attributes, Out(d, k))
           /\ IF t.attributes = <<>> THEN target = Space => IsComment(t)
                                     ELSE target = Space /\ ~IsComment(t)
        \/ ~found /\ taken = Len(input) /\ input # Whole(d) /\ target # Space
    BY <1>1, <1>2, <1>3, NameRead
  <1>5. PageIs(d, input, page, k - 1)
    BY <1>2 DEF AtName
  <1>6. CASE found
    <2>1. Skipped(t) /\ Str = Stored(t.name)
      BY <1>1, <1>4, <1>6 DEF Good, IsComment, Skipped
    <2>2. CASE target = Space
      <3>1. t.attributes # <<>>
        BY <1>4, <1>6, <2>1, <2>2 DEF Skipped
      <3>2. AtAttributes(d, taken, k)
        BY <1>3, <1>4, <1>6, <3>1 DEF AtAttributes
      <3>3. /\ stage' = "badAttributes" /\ from' = taken /\ input' = input
            /\ call' = BytesCall({GT})
        BY <1>1, <2>2, BeginIs DEF Until, BytesCall
      <3>4. WhatIsNext(d)'
        BY <1>1, <1>3, <1>5, <2>1, <3>2, <3>3 DEF WhatIsNext
      <3> QED BY <1>1, <3>4 DEF PageGoes, Hides
    <2>3. CASE target # Space
      <3>1. t.attributes = <<>>
        BY <1>4, <1>6, <2>3
      <3>2. Drop(Whole(d), taken) = Out(d, k)
        <4>1. Out(d, k) \in Seq(Byte)
          BY <1>3, TurnTexts
        <4> QED BY <1>4, <1>6, <3>1, <4>1, PartsNothing
      <3>3. AtRest(d, input, page, taken, k)
        BY <1>5, <3>2 DEF AtRest
      <3> QED BY <1>1, <1>3, <2>1, <2>3, <3>3, SkipsInside
    <2> QED BY <2>2, <2>3
  <1>7. CASE ~found
    <2>1. AtEnd(d, input, page, taken)
      BY <1>4, <1>7, CutIsNotExact
    <2>2. SkipInside(Str)
      BY <1>1, <1>4, <1>7
    <2> QED BY <1>1, <2>1, <2>2, SkipsInside
  <1> QED BY <1>6, <1>7

(* A tag's attributes are read up to its ">", unless the page is cut there.*)
LEMMA AttributesRead ==
  ASSUME FilterInv, NEW d \in Documents, CutFrom(d), pc = "idle", call = BytesCall({GT}),
         NEW k \in 1 .. Len(d.turns), NEW t, t = d.turns[k], AtAttributes(d, from, k)
  PROVE  \/ found /\ out = t.attributes /\ Drop(Whole(d), taken) = Out(d, k)
         \/ /\ ~found /\ taken = Len(input) /\ input # Whole(d)
            /\ Len(out) \in Nat /\ Len(out) <= Len(t.attributes)
            /\ \A i \in 1 .. Len(out) : out[i] = t.attributes[i]
  <1> DEFINE w == Whole(d)
             a == t.attributes
             b == Out(d, k)
  <1>1. ParserInv /\ CutOf(w) /\ w \in Seq(Byte) /\ TypeOK
    BY InPage
  <1>2. a \in Seq(Byte) /\ b \in Seq(Byte) /\ Lacks(a, {GT}) /\ Parts(w, from, a, b) /\ a # <<>>
    BY TurnTexts, WellFormedIs DEF AtAttributes
  <1>3. b # <<>> /\ b[1] = GT
    BY <1>2, WellFormedIs
  <1> HIDE DEF w, a, b
  <1>4. b[1] \in {GT}
    BY <1>3
  <1>5. \/ /\ found /\ out = a /\ Drop(w, taken) = b /\ b # <<>> /\ target = b[1]
           /\ taken < Len(input)
        \/ /\ ~found /\ taken = Len(input) /\ Len(out) <= Len(a)
           /\ \A i \in 1 .. Len(out) : out[i] = a[i]
           /\ input = w => out = a /\ b = <<>>
    BY <1>1, <1>2, <1>4, Calls, ReadsUpTo
  <1>6. Len(out) \in Nat
    BY <1>1, Typed DEF Sane
  <1> QED BY <1>3, <1>5, <1>6 DEF w, a, b

LEMMA BadAttributesPage ==
  ASSUME FilterInv, NEW d \in Documents, CutFrom(d), WhatIsNext(d), Hides(d, page),
         AfterBadAttributes
  PROVE  PageGoes(d)
  <1>1. stage = "badAttributes" /\ pc = "idle" /\ SkipInside(tag) /\ UNCHANGED page
    BY DEF AfterBadAttributes, Returns
  <1>2. PICK k \in 1 .. Last(d) :
          /\ Skipped(d.turns[k]) /\ tag = Stored(d.turns[k].name)
          /\ AtAttributes(d, from, k) /\ PageIs(d, input, page, k - 1)
    BY <1>1 DEF WhatIsNext
  <1>3. call = BytesCall({GT}) /\ k \in 1 .. Len(d.turns)
    BY <1>1 DEF WhatIsNext, Last
  <1>4. \/ found /\ Drop(Whole(d), taken) = Out(d, k)
        \/ ~found /\ taken = Len(input) /\ input # Whole(d)
    BY <1>1, <1>2, <1>3, AttributesRead
  <1>5. CASE found
    <2>1. AtRest(d, input, page, taken, k)
      BY <1>2, <1>4, <1>5 DEF AtRest
    <2> QED BY <1>1, <1>2, <2>1, SkipsInside
  <1>6. CASE ~found
    <2>1. AtEnd(d, input, page, taken)
      BY <1>4, <1>6, CutIsNotExact
    <2> QED BY <1>1, <2>1, SkipsInside
  <1> QED BY <1>5, <1>6

(* The end of what is inside is found where it is, or at the end of the    *)
(* input, or, where the search missed it, before text.                     *)
LEMMA EndFound ==
  ASSUME FilterInv, FoundInv, NEW d \in Documents, CutFrom(d), Sure(d), pc = "idle",
         NEW k \in 1 .. Len(d.turns), NEW t, t = d.turns[k], ~Good(t), ~IsEndTag(t),
         call = StringCall(Ending(t)), AtRest(d, input, page, from, k)
  PROVE  \/ AtEnd(d, input, page, taken)
         \/ Drop(Whole(d), taken) = Closes(t, Tails(d, k))
         \/ /\ ~Exact(d, input)
            /\ IF IsComment(t) THEN TextAt(d, taken)
               ELSE \A i : FirstGT(d, taken, i) => TextAt(d, i)
  <1> DEFINE w == Whole(d)
             s == Ending(t)
             a == t.inside
             b == Closes(t, Tails(d, k))
             rest == Out(d, k)
  <1>1. ParserInv /\ CutOf(w) /\ w \in Seq(Byte) /\ Len(w) \in Nat /\ from \in Nat
        /\ from \in 0 .. Len(w)
    BY InPage
  <1>2. s \in Strings /\ s \in Seq(Byte) /\ a \in Seq(Byte) /\ b \in Seq(Byte) /\ rest \in Seq(Byte)
    BY TurnTexts
  <1>3. Drop(w, from) = rest /\ PageIs(d, input, page, k - 1) /\ call = StringCall(s)
    BY DEF AtRest
  <1>4. IF t.closed THEN Joins(rest, a, s \o b) ELSE rest = a
    BY OutIs
  <1>5. CASE EndsPlainly(t) /\ t.closed
    <2>1. Len(s) <= Cap /\ EndsWith(a, s)
      BY <1>5 DEF EndsPlainly, EndsWith
    <2>2. Parts(w, from, a, s \o b)
      BY <1>3, <1>4, <1>5, DropIsParts
    <2>3. input # Whole(d) /\ taken = Len(input) => AtEnd(d, input, page, taken)
      BY CutIsNotExact
    <2> HIDE DEF s, a, b, w, rest
    <2>4. Drop(w, taken) = b \/ (taken = Len(input) /\ input # w)
      BY <1>1, <1>2, <1>3, <2>1, <2>2, ReadsClosed
    <2> QED BY <2>3, <2>4 DEF w, b
  <1>6. CASE EndsPlainly(t) /\ ~t.closed
    <2>1. Hits(s, a) = {} /\ Drop(w, from) = a
      BY <1>3, <1>4, <1>6 DEF EndsPlainly
    <2>2. k = Len(d.turns) /\ t.text = <<>> /\ k - 1 \in 0 .. Len(d.turns)
      BY <1>6, TurnTexts
    <2>3. d.kept[k] = d.kept[k - 1] \o t.text
      BY KeptIs
    <2>7. d.kept[k - 1] \in Seq(Byte)
      BY <2>2, PageTexts
    <2>8. d.kept[k - 1] \o <<>> = d.kept[k - 1]
      BY <2>7, ConcatEmptySeq
    <2>4. d.kept[k] = d.kept[k - 1]
      BY <2>2, <2>3, <2>8
    <2>5. PageIs(d, input, page, Last(d))
      BY <1>3, <2>2, <2>4 DEF PageIs, Last
    <2> HIDE DEF s, a, b, w, rest
    <2>6. taken = Len(input)
      BY <1>1, <1>2, <1>3, <2>1, MissesAll
    <2> QED BY <2>5, <2>6 DEF AtEnd
  <1>7. CASE ~EndsPlainly(t)
    <2>1. EndsInText(d, k) /\ ~Exact(d, input)
      BY <1>7 DEF Sure, Last, Exact, Clean
    <2>2. Len(rest) = Len(w) - from
      <3> HIDE DEF rest, w
      <3>1. Drop(w, from) = Slice(w, from, Len(w)) /\ from <= Len(w) /\ Len(w) <= Len(w)
        BY <1>1 DEF Drop, Slice
      <3>2. Len(Slice(w, from, Len(w))) = Len(w) - from
        BY <1>1, <3>1, SliceType
      <3> QED BY <1>3, <3>1, <3>2
    <2>3. Len(w) - Len(LeavesOut(t, t.text \o d.rest[k])) = from
      <3>1. LeavesOut(t, t.text \o d.rest[k]) = rest
        BY DEF Out, Tails
      <3>2. Len(rest) = Len(LeavesOut(t, t.text \o d.rest[k]))
        BY <3>1
      <3> DEFINE n == Len(LeavesOut(t, t.text \o d.rest[k]))
                 m == Len(w)
      <3>3. m \in Nat /\ n = m - from
        BY <1>1, <2>2, <3>2
      <3> HIDE DEF n, m
      <3>4. m - n = from
        BY <1>1, <3>3
      <3> QED BY <3>4 DEF n, m
    <2>4. \A i \in Hits(s, w) :
            i > from =>
              IF IsComment(t) THEN TextAt(d, i - 1 + Len(s))
              ELSE \A j \in i - 1 + Len(s) + 1 .. Len(w) :
                     FirstGT(d, i - 1 + Len(s), j) => TextAt(d, j)
      BY <2>1, <2>3 DEF EndsInText
    <2>5. taken = Len(input) \/ \E i \in Hits(s, w) : from < i /\ taken = i - 1 + Len(s)
      <3> HIDE DEF s, w
      <3> QED BY <1>1, <1>2, <1>3, FindsAny
    <2>6. CASE taken = Len(input)
      BY <2>1, <2>6 DEF AtEnd, PageIs
    <2>7. ASSUME NEW i \in Hits(s, w), from < i, taken = i - 1 + Len(s)
          PROVE  IF IsComment(t) THEN TextAt(d, taken)
                 ELSE \A j : FirstGT(d, taken, j) => TextAt(d, j)
      <3>1. i \in Nat
        BY DEF Hits
      <3>2. i > from
        BY <1>1, <2>7, <3>1
      <3>3. IF IsComment(t) THEN TextAt(d, taken)
            ELSE \A j \in taken + 1 .. Len(w) : FirstGT(d, taken, j) => TextAt(d, j)
        BY <2>4, <2>7, <3>2
      <3>4. \A j : FirstGT(d, taken, j) => j \in taken + 1 .. Len(w)
        BY DEF FirstGT
      <3> QED BY <3>3, <3>4
    <2> QED BY <2>1, <2>5, <2>6, <2>7
  <1> QED BY <1>5, <1>6, <1>7

LEMMA InsidePage ==
  ASSUME FilterInv, FoundInv, NEW d \in Documents, CutFrom(d), Sure(d), WhatIsNext(d),
         Hides(d, page), AfterInside
  PROVE  PageGoes(d)
  <1>1. /\ stage = "inside" /\ pc = "idle" /\ page' = page /\ stage' = "close"
        /\ from' = taken /\ input' = input /\ call' = BytesCall({GT})
    BY BeginIs DEF AfterInside, Returns, Until, Then, BytesCall
  <1>2. AtEnd(d, input, page, taken) \/ AtClose(d, input, page, taken)
    <2>1. CASE AtEnd(d, input, page, from)
      BY <2>1, EndStays
    <2>2. ASSUME NEW k \in 1 .. Last(d), NEW t, t = d.turns[k], Skipped(t), ~IsEndTag(t),
                 call = StringCall(Ending(t)), AtRest(d, input, page, from, k)
          PROVE  AtEnd(d, input, page, taken) \/ AtClose(d, input, page, taken)
      <3>1. k \in 1 .. Len(d.turns) /\ ~Good(t) /\ ~IsComment(t) /\ PageIs(d, input, page, k - 1)
        BY <2>2 DEF Skipped, Last, AtRest
      <3>2. \/ AtEnd(d, input, page, taken)
            \/ Drop(Whole(d), taken) = Closes(t, Tails(d, k))
            \/ ~Exact(d, input) /\ \A i : FirstGT(d, taken, i) => TextAt(d, i)
        BY <1>1, <2>2, <3>1, EndFound
      <3>3. taken \in Nat /\ taken \in 0 .. Len(Whole(d))
        BY InPage
      <3>4. Drop(Whole(d), taken) = Closes(t, Tails(d, k)) => AtClose(d, input, page, taken)
        BY <2>2, <3>1, <3>3, CloseFollows
      <3>5. ASSUME ~Exact(d, input), \A i : FirstGT(d, taken, i) => TextAt(d, i)
            PROVE  AtClose(d, input, page, taken)
        <4>1. ASSUME NEW i, FirstGT(d, taken, i) PROVE AtText(d, input, page, i)
          <5>1. i \in Nat
            BY <3>3, <4>1 DEF FirstGT
          <5> QED BY <3>5, <4>1, <5>1, TextFound
        <4> QED BY <3>5, <4>1 DEF AtClose
      <3> QED BY <3>2, <3>4, <3>5
    <2> QED BY <1>1, <2>1, <2>2 DEF WhatIsNext
  <1>3. WhatIsNext(d)'
    BY <1>1, <1>2 DEF WhatIsNext
  <1> QED BY <1>1, <1>3 DEF PageGoes, Hides

LEMMA ClosePage ==
  ASSUME FilterInv, NEW d \in Documents, CutFrom(d), WhatIsNext(d), Hides(d, page), AfterClose
  PROVE  PageGoes(d)
  <1>1. /\ stage = "close" /\ pc = "idle" /\ page' = page /\ from' = taken /\ input' = input
        /\ IF found THEN stage' = "closed" /\ call' = OneCall ELSE stage' = "text"
    <2>1. CASE found
      BY <2>1, BeginIs DEF AfterClose, Returns, ConsumeOne, Then, OneCall
    <2>2. CASE ~found
      BY <2>2, BeginIs DEF AfterClose, Returns, Until, Then
    <2> QED BY <2>1, <2>2
  <1>2. call = BytesCall({GT}) /\ (AtEnd(d, input, page, from) \/ AtClose(d, input, page, from))
    BY <1>1 DEF WhatIsNext
  <1>3. CASE AtEnd(d, input, page, from)
    <2>1. ~found /\ AtEnd(d, input, page, taken)
      BY <1>1, <1>2, <1>3, Calls, EndStays, NothingRead
    <2>2. WhatIsNext(d)'
      BY <1>1, <2>1 DEF WhatIsNext
    <2> QED BY <1>1, <2>2 DEF PageGoes, Hides
  <1>4. CASE AtClose(d, input, page, from)
    <2>1. /\ input \in Seq(Byte) /\ Len(input) \in Nat /\ from \in Nat /\ taken \in Nat
          /\ from <= taken /\ taken <= Len(input) /\ Text = Slice(input, from, taken)
      BY TextType DEF FilterInv
    <2>2. /\ \A i \in 1 .. Len(out) : out[i] \notin {GT}
          /\ found => taken < Len(input) /\ input[taken + 1] = target /\ target \in {GT}
          /\ ~found => taken = Len(input)
      BY <1>1, <1>2, Calls, BytesBack DEF FilterInv
    <2>3. out = Text
      <3>1. Returned("bytes")
        BY <1>1, <1>2, CallAssumption, Calls DEF Returned, BytesCall
      <3> QED BY <3>1 DEF FilterInv, ParserInv, BytesReturn
    <2>4. ASSUME NEW j \in from + 1 .. taken PROVE input[j] # GT
      <3>1. j - from \in 1 .. taken - from /\ from + (j - from) = j
        BY <2>1
      <3>2. \A i \in 1 .. taken - from : Slice(input, from, taken)[i] = input[from + i]
        BY <2>1, SliceElements
      <3>3. Len(Slice(input, from, taken)) = taken - from
        <4>1. Text = Slice(input, from, taken) /\ Len(Text) = taken - from
          BY TextType DEF FilterInv
        <4> QED BY <4>1
      <3>4. out = Slice(input, from, taken)
        BY <2>1, <2>3
      <3>5. j - from \in 1 .. Len(out) /\ out[j - from] = input[j]
        BY <3>1, <3>2, <3>3, <3>4
      <3> QED BY <2>2, <3>5
    <2>5. /\ \A i \in 1 .. Len(input) : input[i] = Whole(d)[i]
          /\ Len(input) <= Len(Whole(d)) /\ Len(Whole(d)) \in Nat
      <3>1. CutOf(Whole(d)) /\ Whole(d) \in Seq(Byte)
        BY InPage
      <3> QED BY <2>1, <3>1, CutBytes
    <2>6. CASE found
      <3>1. taken + 1 \in 1 .. Len(input) /\ taken + 1 \in from + 1 .. Len(Whole(d))
            /\ input[taken + 1] = GT
        BY <2>1, <2>2, <2>5, <2>6
      <3>2. ASSUME NEW j \in from + 1 .. (taken + 1) - 1 PROVE Whole(d)[j] # GT
        <4>1. j \in from + 1 .. taken /\ j \in 1 .. Len(input)
          BY <2>1
        <4> QED BY <2>4, <2>5, <4>1
      <3>3. FirstGT(d, from, taken + 1)
        BY <2>5, <3>1, <3>2 DEF FirstGT
      <3>4. AtText(d, input, page, taken + 1)
        BY <1>4, <3>3 DEF AtClose
      <3>5. WhatIsNext(d)'
        BY <1>1, <2>2, <2>6, <3>4 DEF WhatIsNext
      <3> QED BY <1>1, <3>5 DEF PageGoes, Hides
    <2>7. CASE ~found
      <3>1. ASSUME Exact(d, input) PROVE FALSE
        <4>1. PICK i : FirstGT(d, from, i)
          BY <1>4, <3>1 DEF AtClose
        <4>2. i \in from + 1 .. Len(Whole(d)) /\ Whole(d)[i] = GT /\ input = Whole(d)
          BY <3>1, <4>1 DEF FirstGT, Exact
        <4>3. i \in from + 1 .. taken /\ input[i] = GT
          BY <2>2, <2>7, <4>2
        <4> QED BY <2>4, <4>3
      <3>2. AtEnd(d, input, page, taken)
        BY <2>2, <2>7, <3>1 DEF AtEnd, PageIs
      <3>3. WhatIsNext(d)'
        BY <1>1, <2>7, <3>2 DEF WhatIsNext
      <3> QED BY <1>1, <3>3 DEF PageGoes, Hides
    <2> QED BY <2>6, <2>7
  <1> QED BY <1>2, <1>3, <1>4

LEMMA ReadTextPage ==
  ASSUME FilterInv, FoundInv, NEW d \in Documents, CutFrom(d), Sure(d), WhatIsNext(d),
         Hides(d, page), ReadText
  PROVE  PageGoes(d)
  <1>1. /\ stage \in {"attributes", "comment", "closed"} /\ pc = "idle" /\ stage' = "text"
        /\ from' = taken /\ input' = input
        /\ page' = IF stage = "attributes" THEN page \o out ELSE page
    BY BeginIs DEF ReadText, Returns, Until, Then
  <1> SUFFICES /\ AtEnd(d, input, page', taken) \/ AtText(d, input, page', taken)
               /\ Hides(d, page')
    <2>1. AtEnd(d, input, page', taken) \/ AtText(d, input, page', taken) => WhatIsNext(d)'
      BY <1>1 DEF WhatIsNext
    <2> QED BY <2>1 DEF PageGoes
  <1>2. CASE stage = "attributes"
    <2>1. PICK k \in 1 .. Len(d.turns) :
            /\ Good(d.turns[k]) /\ AtAttributes(d, from, k)
            /\ Exact(d, input) => (page \o d.turns[k].attributes) \o d.turns[k].text = d.kept[k]
      BY <1>2 DEF WhatIsNext, Last
    <2> DEFINE t == d.turns[k]
    <2>2. t = d.turns[k]
      OBVIOUS
    <2> HIDE DEF t
    <2>3. call = BytesCall({GT}) /\ page \in Seq(Byte) /\ page' = page \o out
      BY <1>1, <1>2 DEF FilterInv, FilterTypeOK, StageInv
    <2>4. \/ found /\ out = t.attributes /\ Drop(Whole(d), taken) = Out(d, k)
          \/ /\ ~found /\ taken = Len(input) /\ input # Whole(d)
             /\ Len(out) \in Nat /\ Len(out) <= Len(t.attributes)
             /\ \A i \in 1 .. Len(out) : out[i] = t.attributes[i]
      BY <1>1, <2>1, <2>2, <2>3, AttributesRead
    <2>5. out \in Seq(Byte) /\ Len(t.attributes) \in Nat
      <3>1. t.attributes \in Seq(Byte) /\ TypeOK
        BY <2>2, TurnTexts, InPage
      <3> QED BY <3>1, LenProperties, Typed DEF Sane
    <2>6. Fenced(d) => Lacks(t.attributes, {Marker})
      BY <2>1, <2>2 DEF Fenced
    <2>7. Fenced(d) => Lacks(out, {Marker})
      BY <2>4, <2>5, <2>6, LacksStart
    <2>8. Hides(d, page')
      BY <2>3, <2>5, <2>7, LacksParts DEF Hides
    <2>9. CASE found
      <3>1. Out(d, k) = Tails(d, k)
        BY <2>1, <2>2, OutIs
      <3>2. Exact(d, input) => page' \o t.text = d.kept[k]
        BY <2>1, <2>2, <2>3, <2>4, <2>9
      <3>3. AtText(d, input, page', taken)
        BY <2>2, <2>4, <2>9, <3>1, <3>2, TextFollows
      <3> QED BY <2>8, <3>3
    <2>10. CASE ~found
      <3>1. AtEnd(d, input, page', taken)
        BY <2>4, <2>10, CutIsNotExact
      <3> QED BY <2>8, <3>1
    <2> QED BY <2>9, <2>10
  <1>3. CASE stage = "comment"
    <2>1. CASE AtEnd(d, input, page, from)
      BY <1>1, <1>3, <2>1, EndStays
    <2>2. ASSUME NEW k \in 1 .. Last(d), NEW t, t = d.turns[k], IsComment(t),
                 call = StringCall(Ending(t)), AtRest(d, input, page, from, k)
          PROVE  AtEnd(d, input, page, taken) \/ AtText(d, input, page, taken)
      <3>1. k \in 1 .. Len(d.turns) /\ ~Good(t) /\ ~IsEndTag(t) /\ PageIs(d, input, page, k - 1)
        BY <2>2 DEF IsComment, IsEndTag, Last, AtRest
      <3>2. \/ AtEnd(d, input, page, taken)
            \/ Drop(Whole(d), taken) = Closes(t, Tails(d, k))
            \/ ~Exact(d, input) /\ TextAt(d, taken)
        BY <1>1, <2>2, <3>1, EndFound
      <3>3. Drop(Whole(d), taken) = Closes(t, Tails(d, k)) => AtText(d, input, page, taken)
        BY <2>2, <3>1, OutIs, TextBehindSkipped
      <3>4. taken \in Nat
        BY InPage
      <3> QED BY <3>2, <3>3, <3>4, TextFound
    <2> QED BY <1>1, <1>3, <2>1, <2>2 DEF WhatIsNext
  <1>4. CASE stage = "closed"
    <2>1. call = OneCall /\ from < Len(input) /\ AtText(d, input, page, from + 1)
      BY <1>4 DEF WhatIsNext
    <2>2. taken = from + 1
      BY <1>1, <2>1, InPage, TakesOne
    <2> QED BY <1>1, <1>4, <2>1, <2>2
  <1> QED BY <1>1, <1>2, <1>3, <1>4

LEMMA ReadPage ==
  ASSUME FilterInv, NEW d \in Documents, WhatIsNext(d), Hides(d, page),
         Read \/ UNCHANGED fvars
  PROVE  PageGoes(d)
  <1>1. UNCHANGED <<input, call, from, stage, tag, page>> /\ (stage = "before" => taken' = taken)
    <2>1. CASE Read
      <3>1. pc # "idle" /\ UNCHANGED <<input, call, from, stage, tag, page>>
        BY <2>1, RunServes DEF Read
      <3> QED BY <3>1 DEF FilterInv, StageInv
    <2>2. CASE UNCHANGED fvars
      BY <2>2 DEF fvars, vars, source
    <2> QED BY <2>1, <2>2
  <1> SUFFICES WhatIsNext(d)'
    BY <1>1 DEF PageGoes, Hides
  <1>2. CASE stage \in {"before", "skip", "text", "close", "closed", "done"}
    BY <1>1, <1>2 DEF WhatIsNext
  <1>3. CASE stage = "open"
    BY <1>1, <1>3 DEF WhatIsNext
  <1>4. CASE stage = "tag"
    BY <1>1, <1>4 DEF WhatIsNext
  <1>5. CASE stage = "attributes"
    BY <1>1, <1>5 DEF WhatIsNext
  <1>6. CASE stage = "badAttributes"
    BY <1>1, <1>6 DEF WhatIsNext
  <1>7. CASE stage = "comment"
    BY <1>1, <1>7 DEF WhatIsNext
  <1>8. CASE stage = "inside"
    BY <1>1, <1>8 DEF WhatIsNext
  <1> QED BY <1>2, <1>3, <1>4, <1>5, <1>6, <1>7, <1>8 DEF FilterInv, FilterTypeOK, Stage

LEMMA InputKept == ASSUME FilterInv, [FilterNext]_fvars PROVE UNCHANGED input
  <1>1. [Next]_vars
    BY FilterIsParser
  <1>2. CASE Run
    BY <1>2, RunServes
  <1>3. ASSUME NEW c \in Call, Begin(c) PROVE UNCHANGED input
    BY <1>3, BeginIs
  <1> QED BY <1>1, <1>2, <1>3 DEF Next, vars, source

LEMMA PageStep ==
  ASSUME FilterInv, FoundInv, PageInv, [FilterNext]_fvars
  PROVE  PageInv'
  <1>1. UNCHANGED input
    BY InputKept
  <1> SUFFICES ASSUME NEW d \in Documents, CutFrom(d), Sure(d) PROVE PageGoes(d)
    BY <1>1 DEF PageInv, PageGoes, CutFrom
  <1>2. WhatIsNext(d) /\ Hides(d, page)
    BY DEF PageInv
  <1> QED BY <1>2, BeforeGoes, AtTagPage, ReadTagPage, GoodTagPage, CommentPage, BadTagPage,
             BadAttributesPage, InsidePage, ClosePage, ReadTextPage, ReadPage
          DEF FilterNext, Parse

LEMMA PageStarts == FilterInit => PageInv
  <1> SUFFICES ASSUME FilterInit, NEW d \in Documents PROVE WhatIsNext(d) /\ Hides(d, page)
    BY DEF PageInv
  <1>1. stage = "before" /\ taken = 0 /\ page = <<>>
    BY DEF FilterInit, Init
  <1>2. Hides(d, page)
    BY <1>1 DEF Hides, Lacks
  <1> QED BY <1>1, <1>2 DEF WhatIsNext

LEMMA PageInvIsFiltered == ASSUME PageInv PROVE PageFiltered
  <1>1. ASSUME NEW d \in Documents, stage = "done", input = Whole(d), Clean(d)
        PROVE  page = d.kept[Len(d.turns)]
    <2>1. Whole(d) \in Seq(Byte) /\ Len(Whole(d)) \in Nat
      BY PageTexts
    <2>2. Drop(Whole(d), 0) = Whole(d)
      BY <2>1, DropNone
    <2>3. CutFrom(d)
      BY <1>1, <2>1, <2>2 DEF CutFrom, Drop
    <2>4. WhatIsNext(d)
      BY <1>1, <2>3, CleanIsSure DEF PageInv
    <2>5. PageIs(d, input, page, Last(d))
      BY <1>1, <2>4 DEF WhatIsNext
    <2> QED BY <1>1, <2>5 DEF PageIs, Exact, Last
  <1>2. ASSUME NEW d \in Documents, CutFrom(d), Fenced(d) PROVE Lacks(page, {Marker})
    BY <1>2, FencedIsSure DEF PageInv, Hides
  <1> QED BY <1>1, <1>2 DEF PageFiltered

(* Of every page that is laid out in turns, for any cache and sink and a   *)
(* source that gives what it is asked for while it has it, Parse copies    *)
(* what it should (HTMLStreamFilter.cc:84-139): of a whole page whose      *)
(* elements end plainly exactly the tags of the white list with their      *)
(* attributes and the text between, and of one that is cut short, or where *)
(* an end is missed, nothing that is inside of what it skips.              *)
THEOREM FiltersPages == ASSUME ~ShortReads PROVE FilterSpec => []PageFiltered
  <1>1. FilterInit => FilterInv /\ FoundInv /\ PageInv
    BY FilterStarts, PageStarts DEF FilterInit, Init, FoundInv
  <1>2. FilterInv /\ FoundInv /\ PageInv /\ [FilterNext]_fvars => (FilterInv /\ FoundInv /\ PageInv)'
    BY FilterStep, FilterIsParser, FoundStep, PageStep DEF FilterInv
  <1>3. PageInv => PageFiltered
    BY PageInvIsFiltered
  <1> QED BY <1>1, <1>2, <1>3, PTL DEF FilterSpec
=============================================================================
