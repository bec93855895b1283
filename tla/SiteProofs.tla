------------------------------ MODULE SiteProofs ------------------------------
(***************************************************************************)
(* Theorems about the site: the start, for every configuration and every   *)
(* log; the data, for every history of saves and renames; and the answers, *)
(* for every spelling of a name.  The lemmas go from texts and what        *)
(* decoding makes of them, over names and paths, to the tree of the data   *)
(* and to where a request leads in it; SiteInv is the inductive invariant. *)
(***************************************************************************)
EXTENDS Site, TLAPS, SequenceTheorems, NaturalsInduction, WellFoundedInduction

(* Induction over the numbers, for a set of them.                          *)
LEMMA SetInduction ==
  ASSUME NEW T, 0 \in T, \A n \in Nat : n \in T => n + 1 \in T
  PROVE  \A n \in Nat : n \in T
  <1> DEFINE B == {n \in Nat : n \notin T}
  <1> SUFFICES ASSUME B # {} PROVE FALSE
    OBVIOUS
  <1>1. \E m \in B : \A k \in B : m <= k
    <2> DEFINE less == OpToRel(<, Nat)
    <2>1. less = {ss \in Nat \X Nat : ss[1] < ss[2]}
      BY DEF OpToRel
    <2> HIDE DEF less
    <2>2. \E m \in B : \A k \in B : ~(<<k, m>> \in less)
      <3>1. IsWellFoundedOn(less, Nat)
        BY NatLessThanWellFounded DEF less
      <3>2. B \subseteq Nat
        OBVIOUS
      <3> HIDE DEF B
      <3> QED BY <3>1, <3>2, WFMin
    <2>3. \A k, m \in Nat : ~(<<k, m>> \in less) => m <= k
      BY <2>1
    <2> QED BY <2>2, <2>3
  <1>2. PICK m \in B : \A k \in B : m <= k
    BY <1>1
  <1>3. m # 0 /\ m \in Nat
    BY <1>2
  <1>4. m - 1 \in Nat /\ m - 1 \notin B
    BY <1>2, <1>3
  <1>5. m - 1 \in T
    BY <1>4
  <1>6. m \in T
    BY <1>3, <1>4, <1>5
  <1> QED BY <1>2, <1>6

(* The equation of Chain's recursion, which ends as next only goes up.     *)
Links(n, next) == \A i \in 1 .. n : next[i] \in Nat /\ i < next[i]
LinkAt(n, text, next, f, i) == IF i \in 1 .. n THEN text[i] \o f[next[i]] ELSE <<>>
IsChain(n, text, next, f) == f = [i \in Nat |-> LinkAt(n, text, next, f, i)]
Follows(n, text, next, f) ==
  /\ \A i \in 1 .. n : f[i] = text[i] \o f[next[i]]
  /\ \A i \in Nat : i \notin 1 .. n => f[i] = <<>>
From(n, text, next) == CHOOSE f : f = [i \in Nat |-> IF i \in 1 .. n THEN text[i] \o f[next[i]] ELSE <<>>]

LEMMA ChainExists ==
  ASSUME NEW n \in Nat, NEW text, NEW next, Links(n, next)
  PROVE  \E f : IsChain(n, text, next, f)
  <1> DEFINE Good(g, k) == /\ g = [i \in Nat |-> g[i]]
                           /\ \A i \in Nat : i > n - k => g[i] = LinkAt(n, text, next, g, i)
             T == {k \in Nat : \E g : Good(g, k)}
  <1>1. 0 \in T
    <2> DEFINE g == [i \in Nat |-> <<>>]
    <2>1. g = [i \in Nat |-> g[i]]
      OBVIOUS
    <2>2. ASSUME NEW i \in Nat, i > n - 0 PROVE g[i] = LinkAt(n, text, next, g, i)
      <3>1. i \notin 1 .. n
        BY <2>2
      <3> QED BY <3>1 DEF LinkAt
    <2> HIDE DEF g
    <2>3. Good(g, 0)
      BY <2>1, <2>2
    <2> QED BY <2>3
  <1>2. ASSUME NEW k \in Nat, k \in T PROVE k + 1 \in T
    <2>1. PICK g : Good(g, k)
      BY <1>2
    <2> DEFINE h == [i \in Nat |-> IF i = n - k THEN LinkAt(n, text, next, g, i) ELSE g[i]]
    <2>2. h = [i \in Nat |-> h[i]]
      OBVIOUS
    <2>3. ASSUME NEW i \in Nat, i > n - (k + 1) PROVE h[i] = LinkAt(n, text, next, h, i)
      <3>1. h[i] = LinkAt(n, text, next, g, i)
        <4>1. CASE i = n - k
          BY <4>1
        <4>2. CASE i # n - k
          <5>1. i > n - k
            BY <2>3, <4>2
          <5> QED BY <2>1, <4>2, <5>1
        <4> QED BY <4>1, <4>2
      <3>2. i \in 1 .. n => h[next[i]] = g[next[i]]
        <4> SUFFICES ASSUME i \in 1 .. n PROVE h[next[i]] = g[next[i]]
          OBVIOUS
        <4>1. next[i] \in Nat /\ i < next[i]
          BY DEF Links
        <4>2. next[i] # n - k
          BY <2>3, <4>1
        <4> QED BY <4>1, <4>2
      <3> HIDE DEF h
      <3> QED BY <3>1, <3>2 DEF LinkAt
    <2> HIDE DEF h
    <2>4. Good(h, k + 1)
      BY <2>2, <2>3
    <2> HIDE DEF Good
    <2> QED BY <2>4
  <1>3. n + 1 \in T
    <2> HIDE DEF T
    <2> QED BY <1>1, <1>2, SetInduction
  <1>4. PICK g : Good(g, n + 1)
    BY <1>3
  <1>5. \A i \in Nat : g[i] = LinkAt(n, text, next, g, i)
    BY <1>4
  <1>6. g = [i \in Nat |-> LinkAt(n, text, next, g, i)]
    BY <1>4, <1>5
  <1> QED BY <1>6 DEF IsChain

LEMMA ChainIs ==
  ASSUME NEW n \in Nat, NEW text, NEW next, Links(n, next)
  PROVE  /\ Chain(n, text, next) = From(n, text, next)[1]
         /\ Follows(n, text, next, From(n, text, next))
  <1> DEFINE f == From(n, text, next)
  <1>1. Chain(n, text, next) = f[1]
    BY DEF Chain, From
  <1>2. \E g : g = [i \in Nat |-> IF i \in 1 .. n THEN text[i] \o g[next[i]] ELSE <<>>]
    <2>1. PICK g : IsChain(n, text, next, g)
      BY ChainExists, Zenon
    <2>2. g = [i \in Nat |-> IF i \in 1 .. n THEN text[i] \o g[next[i]] ELSE <<>>]
      BY <2>1, Zenon DEF IsChain, LinkAt
    <2> QED BY <2>2, Zenon
  <1>3. f = [i \in Nat |-> IF i \in 1 .. n THEN text[i] \o f[next[i]] ELSE <<>>]
    BY <1>2 DEF From
  <1> HIDE DEF f
  <1>4. \A i \in Nat : f[i] = IF i \in 1 .. n THEN text[i] \o f[next[i]] ELSE <<>>
    BY <1>3
  <1>5. ASSUME NEW i \in 1 .. n PROVE f[i] = text[i] \o f[next[i]]
    <2>1. i \in Nat
      OBVIOUS
    <2> QED BY <1>4, <2>1, Zenon
  <1>6. \A i \in Nat : i \notin 1 .. n => f[i] = <<>>
    BY <1>4
  <1>7. Follows(n, text, next, f)
    BY <1>5, <1>6, Zenon DEF Follows
  <1> QED BY <1>1, <1>7, Zenon DEF f

(* Behind its first piece a chain is the chain of what is behind.          *)
Behind(k, n, text, next, text2, next2) ==
  /\ Links(n, next) /\ Links(k + n, next2)
  /\ \A i \in 1 .. n : text2[k + i] = text[i] /\ next2[k + i] = k + next[i]
Shifts(k, n, text, next, text2, next2) ==
  From(k + n, text2, next2)[k + 1] = Chain(n, text, next)

LEMMA ChainShift ==
  ASSUME NEW k \in Nat, NEW n \in Nat, NEW text, NEW next, NEW text2, NEW next2,
         Behind(k, n, text, next, text2, next2)
  PROVE  Shifts(k, n, text, next, text2, next2)
  <1> DEFINE f == From(n, text, next)
             g == From(k + n, text2, next2)
             T == {m \in Nat : \A i \in Nat : i > 0 /\ i > n - m => g[k + i] = f[i]}
  <1>0. /\ Links(n, next) /\ Links(k + n, next2)
        /\ \A i \in 1 .. n : text2[k + i] = text[i] /\ next2[k + i] = k + next[i]
    BY DEF Behind
  <1>1. /\ Chain(n, text, next) = f[1]
        /\ Follows(n, text, next, f)
    BY <1>0, ChainIs, Zenon
  <1>2. Follows(k + n, text2, next2, g)
    <2>1. k + n \in Nat
      OBVIOUS
    <2> QED BY <1>0, <2>1, ChainIs, Zenon
  <1> HIDE DEF f, g
  <1>3. 0 \in T
    <2> SUFFICES ASSUME NEW i \in Nat, i > n PROVE g[k + i] = f[i]
      OBVIOUS
    <2> QED BY <1>1, <1>2 DEF Follows
  <1>4. ASSUME NEW m \in Nat, m \in T PROVE m + 1 \in T
    <2> SUFFICES ASSUME NEW i \in Nat, i > 0, i > n - (m + 1) PROVE g[k + i] = f[i]
      OBVIOUS
    <2>1. CASE i > n - m
      BY <1>4, <2>1
    <2>2. CASE i \in 1 .. n /\ i = n - m
      <3>1. next[i] \in Nat /\ i < next[i]
        BY <1>0, <2>2 DEF Links
      <3>2. g[k + next[i]] = f[next[i]]
        BY <1>4, <2>2, <3>1
      <3>3. g[k + i] = text2[k + i] \o g[next2[k + i]] /\ f[i] = text[i] \o f[next[i]]
        <4>1. k + i \in 1 .. k + n
          BY <2>2
        <4> QED BY <1>1, <1>2, <2>2, <4>1, Zenon DEF Follows
      <3> QED BY <1>0, <2>2, <3>2, <3>3
    <2> QED BY <2>1, <2>2
  <1>5. n + 1 \in T
    <2> HIDE DEF T
    <2> QED BY <1>3, <1>4, SetInduction
  <1>6. g[k + 1] = f[1]
    BY <1>5
  <1> QED BY <1>1, <1>6 DEF g, Shifts

-----------------------------------------------------------------------------
(* Texts.                                                                  *)
LEMMA Cat ==
  ASSUME NEW a \in Text, NEW b \in Text
  PROVE  /\ a \o b \in Text /\ Len(a \o b) = Len(a) + Len(b)
         /\ \A i \in 1 .. Len(a) : (a \o b)[i] = a[i]
         /\ \A i \in 1 .. Len(b) : (a \o b)[Len(a) + i] = b[i]
  <1>1. Len(a) \in Nat /\ Len(b) \in Nat
    BY LenProperties DEF Text
  <1>2. /\ a \o b \in Text /\ Len(a \o b) = Len(a) + Len(b)
        /\ \A i \in 1 .. Len(a) + Len(b) : (a \o b)[i] = IF i <= Len(a) THEN a[i] ELSE b[i - Len(a)]
    BY ConcatProperties DEF Text
  <1>3. ASSUME NEW i \in 1 .. Len(b) PROVE (a \o b)[Len(a) + i] = b[i]
    <2>1. Len(a) + i \in 1 .. Len(a) + Len(b) /\ ~(Len(a) + i <= Len(a)) /\ (Len(a) + i) - Len(a) = i
      BY <1>1
    <2> QED BY <1>2, <2>1
  <1> QED BY <1>1, <1>2, <1>3

LEMMA Assoc == \A a, b, c \in Text : (a \o b) \o c = a \o (b \o c)
  BY ConcatAssociative DEF Text

LEMMA TextIs ==
  ASSUME NEW a \in Text
  PROVE  /\ Len(a) \in Nat /\ DOMAIN a = 1 .. Len(a)
         /\ \A i \in 1 .. Len(a) : a[i] \in Char
         /\ a # <<>> => Len(a) > 0
         /\ a \o <<>> = a /\ <<>> \o a = a
         /\ <<>> \in Text /\ Len(<<>>) = 0
  <1>1. a \in Seq(Char)
    BY DEF Text
  <1>2. Len(a) \in Nat /\ DOMAIN a = 1 .. Len(a) /\ \A i \in 1 .. Len(a) : a[i] \in Char
    BY <1>1, LenProperties, ElementOfSeq
  <1>3. (a # <<>> => Len(a) > 0) /\ <<>> \in Text /\ Len(<<>>) = 0
    BY <1>1, EmptySeq DEF Text
  <1>4. a \o <<>> = a /\ <<>> \o a = a
    BY <1>1, ConcatEmptySeq
  <1> QED BY <1>2, <1>3, <1>4

LEMMA SameText ==
  ASSUME NEW a \in Text, NEW b \in Text, Len(a) = Len(b), \A i \in 1 .. Len(a) : a[i] = b[i]
  PROVE  a = b
  BY SeqEqual DEF Text

LEMMA Part ==
  ASSUME NEW a \in Text, NEW i \in Nat, NEW j \in Nat, 1 <= i, i <= j + 1, j <= Len(a)
  PROVE  /\ SubSeq(a, i, j) \in Text /\ Len(SubSeq(a, i, j)) = (j - i) + 1
         /\ \A k \in 1 .. (j - i) + 1 : SubSeq(a, i, j)[k] = a[(i + k) - 1]
  <1>1. Len(a) \in Nat
    BY TextIs
  <1>2. \A k \in i .. j : a[k] \in Char
    BY <1>1, TextIs
  <1>3. /\ SubSeq(a, i, j) \in Seq(Char) /\ Len(SubSeq(a, i, j)) = IF i <= j THEN j - i + 1 ELSE 0
        /\ \A k \in 1 .. j - i + 1 : SubSeq(a, i, j)[k] = a[i + k - 1]
    BY <1>2, SubSeqProperties
  <1> QED BY <1>1, <1>3 DEF Text

LEMMA PartBehind ==
  ASSUME NEW a \in Text, NEW b \in Text, NEW i \in 1 .. Len(b), NEW j \in 1 .. Len(b)
  PROVE  SubSeq(a \o b, Len(a) + i, Len(a) + j) = SubSeq(b, i, j)
  <1>1. Len(a) \in Nat /\ Len(b) \in Nat
    BY TextIs
  <1>2. /\ Len(a) + i \in Len(a) + 1 .. Len(a) + Len(b) /\ (Len(a) + i) - Len(a) = i
        /\ Len(a) + j \in Len(a) + 1 .. Len(a) + Len(b) /\ (Len(a) + j) - Len(a) = j
    BY <1>1
  <1> QED BY <1>2, SubSeqOfConcat2 DEF Text

(* The first i characters, and those behind them.                          *)
LEMMA Split ==
  ASSUME NEW a \in Text, NEW i \in 0 .. Len(a)
  PROVE  /\ SubSeq(a, 1, i) \in Text /\ Len(SubSeq(a, 1, i)) = i
         /\ SubSeq(a, i + 1, Len(a)) \in Text /\ Len(SubSeq(a, i + 1, Len(a))) = Len(a) - i
         /\ a = SubSeq(a, 1, i) \o SubSeq(a, i + 1, Len(a))
  <1>1. Len(a) \in Nat
    BY TextIs
  <1>2. /\ SubSeq(a, 1, i) \in Text /\ Len(SubSeq(a, 1, i)) = (i - 1) + 1
        /\ \A k \in 1 .. (i - 1) + 1 : SubSeq(a, 1, i)[k] = a[(1 + k) - 1]
    BY <1>1, Part
  <1>3. /\ SubSeq(a, i + 1, Len(a)) \in Text
        /\ Len(SubSeq(a, i + 1, Len(a))) = (Len(a) - (i + 1)) + 1
    BY <1>1, Part
  <1>4. a = SubSeq(a, 1, i) \o SubSeq(a, i + 1, Len(a))
    <2>1. SubSeq(a, 1, i) \o SubSeq(a, i + 1, Len(a)) = SubSeq(a, 1, Len(a))
      <3>1. 1 \in 1 .. Len(a) + 1 /\ i \in 1 - 1 .. Len(a) /\ Len(a) \in i .. Len(a)
        BY <1>1
      <3> QED BY <3>1, ConcatAdjacentSubSeq DEF Text
    <2>2. SubSeq(a, 1, Len(a)) = a
      BY SubSeqFull DEF Text
    <2> QED BY <2>1, <2>2
  <1>5. (i - 1) + 1 = i /\ (Len(a) - (i + 1)) + 1 = Len(a) - i
    BY <1>1
  <1> QED BY <1>2, <1>3, <1>4, <1>5

LEMMA Parts ==
  ASSUME NEW a \in Text, NEW b \in Text
  PROVE  SubSeq(a \o b, 1, Len(a)) = a /\ SubSeq(a \o b, Len(a) + 1, Len(a \o b)) = b
  <1> DEFINE c == a \o b
             front == SubSeq(c, 1, Len(a))
             back == SubSeq(c, Len(a) + 1, Len(c))
  <1>1. /\ c \in Text /\ Len(c) = Len(a) + Len(b)
        /\ \A i \in 1 .. Len(a) : c[i] = a[i]
        /\ \A i \in 1 .. Len(b) : c[Len(a) + i] = b[i]
    BY Cat
  <1>2. Len(a) \in Nat /\ Len(b) \in Nat
    BY TextIs
  <1> HIDE DEF c
  <1>3. front \in Text /\ Len(front) = Len(a) /\ \A i \in 1 .. Len(a) : front[i] = c[i]
    <2>1. /\ front \in Text /\ Len(front) = (Len(a) - 1) + 1
          /\ \A k \in 1 .. (Len(a) - 1) + 1 : front[k] = c[(1 + k) - 1]
      BY <1>1, <1>2, Part
    <2> QED BY <1>2, <2>1
  <1>4. back \in Text /\ Len(back) = Len(b) /\ \A i \in 1 .. Len(b) : back[i] = c[Len(a) + i]
    <2>1. /\ back \in Text /\ Len(back) = (Len(c) - (Len(a) + 1)) + 1
          /\ \A k \in 1 .. (Len(c) - (Len(a) + 1)) + 1 : back[k] = c[((Len(a) + 1) + k) - 1]
      BY <1>1, <1>2, Part
    <2> QED BY <1>1, <1>2, <2>1
  <1> HIDE DEF front, back
  <1>5. front = a
    BY <1>1, <1>3, SameText
  <1>6. back = b
    BY <1>1, <1>4, SameText
  <1> QED BY <1>5, <1>6 DEF front, back, c

-----------------------------------------------------------------------------
(* DecodePercent, piece by piece.                                          *)
LEMMA PieceIs ==
  ASSUME NEW t \in Text, NEW i \in 1 .. Len(t)
  PROVE  /\ Piece(t, i) \in Text /\ Piece(t, i)[1] = t[i]
         /\ Len(Piece(t, i)) \in 1 .. 3 /\ i + Len(Piece(t, i)) <= Len(t) + 1
         /\ t[i] # "%" => Len(Piece(t, i)) = 1
         /\ t[i] = "%" /\ i + 2 <= Len(t) => Len(Piece(t, i)) = 3
         /\ t[i] = "%" /\ Len(t) < i + 2 => i + Len(Piece(t, i)) = Len(t) + 1
  <1> DEFINE end == IF t[i] = "%" THEN i + 2 ELSE i
             last == IF end <= Len(t) THEN end ELSE Len(t)
  <1>1. Len(t) \in Nat
    BY TextIs
  <1>2. last \in Nat /\ i <= last /\ last <= Len(t) /\ last <= i + 2
    BY <1>1
  <1>3. Piece(t, i) = SubSeq(t, i, last)
    BY DEF Piece
  <1>4. t[i] # "%" => last = i
    BY <1>1
  <1>5. t[i] = "%" => last = IF i + 2 <= Len(t) THEN i + 2 ELSE Len(t)
    OBVIOUS
  <1> HIDE DEF last
  <1>6. /\ SubSeq(t, i, last) \in Text /\ Len(SubSeq(t, i, last)) = (last - i) + 1
        /\ \A k \in 1 .. (last - i) + 1 : SubSeq(t, i, last)[k] = t[(i + k) - 1]
    BY <1>1, <1>2, Part
  <1> QED BY <1>1, <1>2, <1>3, <1>4, <1>5, <1>6

LEMMA PieceShift ==
  ASSUME NEW a \in Text, NEW b \in Text, NEW i \in 1 .. Len(b)
  PROVE  Piece(a \o b, Len(a) + i) = Piece(b, i)
  <1> DEFINE c == a \o b
  <1>1. /\ Len(a) \in Nat /\ Len(b) \in Nat /\ Len(c) = Len(a) + Len(b) /\ c[Len(a) + i] = b[i]
    BY TextIs, Cat
  <1>2. ASSUME NEW j \in 1 .. Len(b) PROVE SubSeq(c, Len(a) + i, Len(a) + j) = SubSeq(b, i, j)
    BY PartBehind
  <1> HIDE DEF c
  <1>3. CASE b[i] = "%" /\ i + 2 <= Len(b)
    <2>1. Piece(c, Len(a) + i) = SubSeq(c, Len(a) + i, Len(a) + (i + 2))
      BY <1>1, <1>3 DEF Piece
    <2>2. Piece(b, i) = SubSeq(b, i, i + 2) /\ i + 2 \in 1 .. Len(b)
      BY <1>1, <1>3 DEF Piece
    <2> QED BY <1>2, <2>1, <2>2 DEF c
  <1>4. CASE b[i] = "%" /\ ~(i + 2 <= Len(b))
    <2>1. Piece(c, Len(a) + i) = SubSeq(c, Len(a) + i, Len(a) + Len(b))
      BY <1>1, <1>4 DEF Piece
    <2>2. Piece(b, i) = SubSeq(b, i, Len(b)) /\ Len(b) \in 1 .. Len(b)
      BY <1>1, <1>4 DEF Piece
    <2> QED BY <1>2, <2>1, <2>2 DEF c
  <1>5. CASE b[i] # "%"
    <2>1. Piece(c, Len(a) + i) = SubSeq(c, Len(a) + i, Len(a) + i)
      BY <1>1, <1>5 DEF Piece
    <2>2. Piece(b, i) = SubSeq(b, i, i)
      BY <1>1, <1>5 DEF Piece
    <2> QED BY <1>2, <2>1, <2>2 DEF c
  <1> QED BY <1>3, <1>4, <1>5

(* A piece that is all there.                                              *)
Full(p) ==
  /\ p \in Text
  /\ (Len(p) = 1 /\ p[1] # "%") \/ (Len(p) = 3 /\ p[1] = "%")
(* A percent sign at the end.                                              *)
Short(p) == p \in Text /\ Len(p) \in 1 .. 2 /\ p[1] = "%"

LEMMA FullPiece ==
  ASSUME NEW p, Full(p), NEW r \in Text
  PROVE  Piece(p \o r, 1) = p
  <1> DEFINE c == p \o r
  <1>0. p \in Text /\ Len(p) \in {1, 3} /\ (Len(p) = 3 <=> p[1] = "%")
    BY DEF Full
  <1>1. /\ p \in Text /\ Len(p) \in {1, 3} /\ (Len(p) = 3 <=> p[1] = "%") /\ c[1] = p[1]
        /\ Len(c) = Len(p) + Len(r) /\ Len(r) \in Nat /\ SubSeq(c, 1, Len(p)) = p
    <2>1. Len(r) \in Nat /\ 1 \in 1 .. Len(p)
      BY <1>0, TextIs
    <2>2. SubSeq(c, 1, Len(p)) = p
      BY <1>0, Parts
    <2>3. Len(c) = Len(p) + Len(r) /\ c[1] = p[1]
      BY <1>0, <2>1, Cat
    <2> QED BY <1>0, <2>1, <2>2, <2>3
  <1> HIDE DEF c
  <1>2. Piece(c, 1) = SubSeq(c, 1, Len(p))
    <2>1. CASE p[1] = "%"
      <3>1. 1 + 2 = 3 /\ Len(p) = 3 /\ c[1] = "%"
        BY <1>1, <2>1
      <3>2. 3 <= Len(c)
        BY <1>1, <3>1
      <3> QED BY <3>1, <3>2, Zenon DEF Piece
    <2>2. CASE p[1] # "%"
      <3>1. Len(p) = 1 /\ c[1] # "%"
        BY <1>1, <2>2
      <3>2. 1 <= Len(c)
        BY <1>1, <3>1
      <3> QED BY <3>1, <3>2, Zenon DEF Piece
    <2> QED BY <2>1, <2>2
  <1> QED BY <1>1, <1>2 DEF c

LEMMA TakesPiece ==
  ASSUME NEW u \in Text, u # <<>>
  PROVE  \/ Short(u)
         \/ \E p, r \in Text : Full(p) /\ u = p \o r /\ Len(r) < Len(u)
  <1>1. Len(u) \in Nat /\ 0 < Len(u)
    BY TextIs
  <1> DEFINE k == IF u[1] = "%" THEN 3 ELSE 1
  <1>2. CASE u[1] = "%" /\ Len(u) < 3
    <2>1. \A n \in Nat : 0 < n /\ n < 3 => n \in 1 .. 2
      OBVIOUS
    <2>2. Len(u) \in 1 .. 2
      BY <1>1, <1>2, <2>1, Zenon
    <2> QED BY <1>2, <2>2 DEF Short
  <1>3. CASE ~(u[1] = "%" /\ Len(u) < 3)
    <2>1. k \in 0 .. Len(u)
      BY <1>1, <1>3
    <2> DEFINE p == SubSeq(u, 1, k)
               r == SubSeq(u, k + 1, Len(u))
    <2>2. p \in Text /\ Len(p) = k /\ r \in Text /\ Len(r) = Len(u) - k /\ u = p \o r
      BY <2>1, Split
    <2> HIDE DEF p, r
    <2>3. u[1] = p[1]
      <3>1. 1 \in 1 .. Len(p)
        BY <2>2
      <3> QED BY <2>2, <3>1, Cat
    <2>4. Full(p) /\ Len(r) < Len(u)
      <3>1. (Len(p) = 1 /\ p[1] # "%") \/ (Len(p) = 3 /\ p[1] = "%")
        BY <2>2, <2>3
      <3>2. Len(r) < Len(u)
        BY <1>1, <2>2
      <3> QED BY <2>2, <3>1, <3>2 DEF Full
    <2> QED BY <2>2, <2>4
  <1> QED BY <1>2, <1>3

Pieces(u, src, target) == [i \in DOMAIN u |-> Decoded(Piece(u, i), src, target)]
Skips(u) == [i \in DOMAIN u |-> i + Len(Piece(u, i))]

LEMMA SkipsLink == ASSUME NEW u \in Text PROVE Links(Len(u), Skips(u))
  <1>1. DOMAIN u = 1 .. Len(u) /\ Len(u) \in Nat
    BY TextIs
  <1> SUFFICES ASSUME NEW i \in 1 .. Len(u) PROVE Skips(u)[i] \in Nat /\ i < Skips(u)[i]
    BY DEF Links
  <1>2. Skips(u)[i] = i + Len(Piece(u, i)) /\ Len(Piece(u, i)) \in 1 .. 3
    <2>1. Len(Piece(u, i)) \in 1 .. 3
      BY PieceIs
    <2> QED BY <1>1, <2>1 DEF Skips
  <1>3. \A k \in 1 .. 3 : i + k \in Nat /\ i < i + k
    OBVIOUS
  <1> QED BY <1>2, <1>3, Zenon

TakesFirst(p, r, src, target) ==
  DecodePercent(p \o r, src, target) = Decoded(p, src, target) \o DecodePercent(r, src, target)

LEMMA DecodesFull ==
  ASSUME NEW p, Full(p), NEW r \in Text, NEW src, NEW target
  PROVE  TakesFirst(p, r, src, target)
  <1> DEFINE u == p \o r
             k == Len(p)
             n == Len(r)
             f == From(k + n, Pieces(u, src, target), Skips(u))
  <1>1. /\ p \in Text /\ k \in Nat \ {0} /\ n \in Nat /\ u \in Text /\ Len(u) = k + n
        /\ DOMAIN u = 1 .. k + n /\ DOMAIN r = 1 .. n /\ Piece(u, 1) = p
    <2>1. p \in Text /\ k \in Nat \ {0}
      BY DEF Full
    <2>2. n \in Nat /\ DOMAIN r = 1 .. n
      BY TextIs
    <2>3. u \in Text /\ Len(u) = k + n
      BY <2>1, Cat
    <2>4. DOMAIN u = 1 .. k + n
      <3> HIDE DEF u, k, n
      <3> QED BY <2>3, TextIs
    <2>5. Piece(u, 1) = p
      BY FullPiece
    <2> QED BY <2>1, <2>2, <2>3, <2>4, <2>5
  <1>2. Links(k + n, Skips(u)) /\ Links(n, Skips(r))
    BY <1>1, SkipsLink
  <1>3. ASSUME NEW i \in 1 .. n
        PROVE  /\ Pieces(u, src, target)[k + i] = Pieces(r, src, target)[i]
               /\ Skips(u)[k + i] = k + Skips(r)[i]
    <2>1. Piece(u, k + i) = Piece(r, i) /\ Len(Piece(r, i)) \in Nat
      BY <1>1, PieceShift, PieceIs
    <2>2. k + i \in 1 .. k + n
      BY <1>1
    <2> HIDE DEF u
    <2> QED BY <1>1, <2>1, <2>2 DEF Pieces, Skips
  <1>4. DecodePercent(r, src, target) = Chain(n, Pieces(r, src, target), Skips(r))
    BY DEF DecodePercent, Pieces, Skips
  <1>5. DecodePercent(u, src, target) = Chain(Len(u), Pieces(u, src, target), Skips(u))
    BY DEF DecodePercent, Pieces, Skips
  <1> HIDE DEF u, k, n
  <1>6. f[k + 1] = DecodePercent(r, src, target)
    <2>1. Behind(k, n, Pieces(r, src, target), Skips(r), Pieces(u, src, target), Skips(u))
      BY <1>2, <1>3 DEF Behind
    <2>2. k \in Nat /\ n \in Nat
      BY <1>1
    <2>3. Shifts(k, n, Pieces(r, src, target), Skips(r), Pieces(u, src, target), Skips(u))
      BY <2>1, <2>2, ChainShift, Zenon
    <2> QED BY <1>4, <2>3 DEF Shifts
  <1>7. DecodePercent(u, src, target) = f[1] /\ Follows(k + n, Pieces(u, src, target), Skips(u), f)
    <2>1. k + n \in Nat
      BY <1>1
    <2> QED BY <1>1, <1>2, <1>5, <2>1, ChainIs
  <1>8. f[1] = Pieces(u, src, target)[1] \o f[Skips(u)[1]]
    <2>1. 1 \in 1 .. k + n
      BY <1>1
    <2> QED BY <1>7, <2>1, Zenon DEF Follows
  <1>9. Pieces(u, src, target)[1] = Decoded(p, src, target) /\ Skips(u)[1] = k + 1
    <2>1. 1 \in DOMAIN u
      BY <1>1
    <2>2. 1 + k = k + 1
      BY <1>1
    <2> QED BY <1>1, <2>1, <2>2 DEF Pieces, Skips, k
  <1> QED BY <1>6, <1>7, <1>8, <1>9 DEF u, TakesFirst

LEMMA DecodesNothing == \A src, target : DecodePercent(<<>>, src, target) = <<>>
  <1> SUFFICES ASSUME NEW src, NEW target PROVE DecodePercent(<<>>, src, target) = <<>>
    OBVIOUS
  <1>1. <<>> \in Text /\ Len(<<>>) = 0
    BY EmptySeq DEF Text
  <1>2. Links(0, Skips(<<>>))
    BY <1>1, SkipsLink
  <1> DEFINE f == From(0, Pieces(<<>>, src, target), Skips(<<>>))
  <1>3. DecodePercent(<<>>, src, target) = Chain(0, Pieces(<<>>, src, target), Skips(<<>>))
    BY <1>1 DEF DecodePercent, Pieces, Skips
  <1>4. DecodePercent(<<>>, src, target) = f[1] /\ Follows(0, Pieces(<<>>, src, target), Skips(<<>>), f)
    BY <1>2, <1>3, ChainIs
  <1> HIDE DEF f
  <1> QED BY <1>4 DEF Follows

LEMMA DecodesShort ==
  ASSUME NEW p, Short(p), NEW src, NEW target
  PROVE  DecodePercent(p, src, target) = p
  <1> DEFINE n == Len(p)
             f == From(n, Pieces(p, src, target), Skips(p))
  <1>1. p \in Text /\ n \in 1 .. 2 /\ p[1] = "%" /\ DOMAIN p = 1 .. n /\ n \in Nat
    BY TextIs DEF Short
  <1>2. Piece(p, 1) = p
    <2>1. SubSeq(p, 1, Len(p)) = p
      BY <1>1, SubSeqFull DEF Text
    <2> QED BY <1>1, <2>1 DEF Piece
  <1>3. Letter(p) = Nul
    <2>1. p # <<>>
      BY <1>1, EmptySeq
    <2>2. Len(Tail(p)) = n - 1
      BY <1>1, <2>1, HeadTailProperties DEF Text
    <2>3. Tail(p) \notin DOMAIN Octet
      <3>1. \A d \in DOMAIN Octet : Len(d) = 2
        BY NameAssumption
      <3>2. n - 1 # 2
        BY <1>1
      <3> QED BY <2>2, <3>1, <3>2, Zenon
    <2> QED BY <1>1, <2>3 DEF Letter
  <1>4. Decoded(p, src, target) = p
    BY <1>1, <1>3 DEF Decoded, IsEscape, Nul, Marked
  <1>5. Links(n, Skips(p))
    BY <1>1, SkipsLink
  <1>6. DecodePercent(p, src, target) = f[1] /\ Follows(n, Pieces(p, src, target), Skips(p), f)
    <2>1. DecodePercent(p, src, target) = Chain(n, Pieces(p, src, target), Skips(p))
      BY DEF DecodePercent, Pieces, Skips
    <2> HIDE DEF n
    <2> QED BY <1>1, <1>5, <2>1, ChainIs
  <1>7. Pieces(p, src, target)[1] = p /\ Skips(p)[1] = 1 + n
    BY <1>1, <1>2, <1>4 DEF Pieces, Skips
  <1> HIDE DEF f, n
  <1>8. f[1] = p \o f[1 + n] /\ f[1 + n] = <<>>
    <2>1. 1 \in 1 .. n /\ 1 + n \in Nat /\ 1 + n \notin 1 .. n
      BY <1>1
    <2> QED BY <1>6, <1>7, <2>1, Zenon DEF Follows
  <1> QED BY <1>1, <1>6, <1>8, TextIs

LEMMA PieceInduction ==
  ASSUME NEW T, <<>> \in T, \A p : Short(p) => p \in T,
         \A p, r : Full(p) /\ r \in Text /\ r \in T => p \o r \in T
  PROVE  \A u \in Text : u \in T
  <1> DEFINE G == {n \in Nat : \A u \in Text : Len(u) < n => u \in T}
  <1>1. 0 \in G
    <2> SUFFICES ASSUME NEW u \in Text, Len(u) < 0 PROVE FALSE
      OBVIOUS
    <2> QED BY TextIs
  <1>2. ASSUME NEW n \in Nat, n \in G PROVE n + 1 \in G
    <2> SUFFICES ASSUME NEW u \in Text, Len(u) < n + 1 PROVE u \in T
      OBVIOUS
    <2>1. CASE u = <<>> \/ Short(u)
      BY <2>1
    <2>2. CASE u # <<>> /\ ~Short(u)
      <3>1. PICK p, r \in Text : Full(p) /\ u = p \o r /\ Len(r) < Len(u)
        BY <2>2, TakesPiece
      <3>2. Len(r) \in Nat /\ Len(u) \in Nat
        BY TextIs
      <3>3. Len(r) < n
        BY <3>1, <3>2
      <3>4. r \in T
        BY <1>2, <3>3
      <3> QED BY <3>1, <3>4
    <2> QED BY <2>1, <2>2
  <1>3. \A n \in Nat : n \in G
    <2> HIDE DEF G
    <2> QED BY <1>1, <1>2, SetInduction
  <1> SUFFICES ASSUME NEW u \in Text PROVE u \in T
    OBVIOUS
  <1>4. Len(u) \in Nat
    BY TextIs
  <1>5. Len(u) + 1 \in G /\ Len(u) < Len(u) + 1
    BY <1>3, <1>4
  <1> QED BY <1>5

-----------------------------------------------------------------------------
(* What a path is decoded to, and what a URI is compared with.             *)
D(u) == DecodePercent(u, " ", "_")
Plain(u) == DecodePercent(u, " ", " ")

LEMMA Single == ASSUME NEW S, NEW m \in S PROVE <<m>> \in Seq(S) /\ Len(<<m>>) = 1 /\ <<m>>[1] = m
  OBVIOUS
LEMMA OneChar == ASSUME NEW m \in Char PROVE <<m>> \in Text /\ Len(<<m>>) = 1 /\ <<m>>[1] = m
  BY Single, Zenon DEF Text

LEMMA OneLetter ==
  ASSUME NEW m \in Char, m \notin {"%", " "}
  PROVE  /\ Full(<<m>>)
         /\ Decoded(<<m>>, " ", "_") = <<m>> /\ Decoded(<<m>>, " ", " ") = <<m>>
  <1>1. <<m>> \in Text /\ Len(<<m>>) = 1 /\ <<m>>[1] = m
    BY OneChar, Zenon
  <1>2. Full(<<m>>)
    BY <1>1 DEF Full
  <1>3. Letter(<<m>>) = m /\ ~IsEscape(<<m>>)
    BY <1>1 DEF Letter, IsEscape
  <1> QED BY <1>2, <1>3 DEF Decoded, Mapped

(* A piece is already what it decodes to, or becomes one character, which  *)
(* is not the one it began with.                                           *)
LEMMA DecodedIs ==
  ASSUME NEW p, Full(p)
  PROVE  \/ Decoded(p, " ", "_") = p /\ Decoded(p, " ", " ") = p
         \/ /\ p[1] \in {"%", " "}
            /\ \E m \in Marked \ {" "} : Decoded(p, " ", "_") = <<m>>
            /\ \E m \in Marked : Decoded(p, " ", " ") = <<m>>
  <1>1. p \in Text /\ (p[1] # "%" => Len(p) = 1)
    BY DEF Full
  <1>2. CASE IsEscape(p)
    BY <1>2 DEF Decoded
  <1>3. CASE ~IsEscape(p) /\ p[1] # "%"
    <2>1. p \in Seq(Char) /\ Len(p) = 1
      BY <1>1, <1>3 DEF Text
    <2>2. p = <<p[1]>>
      BY <2>1
    <2>3. Letter(p) = p[1]
      BY <1>3 DEF Letter
    <2>4. CASE p[1] = " "
      <3>1. Decoded(p, " ", "_") = <<"_">>
        BY <1>3, <2>3, <2>4 DEF Decoded, Mapped
      <3>2. Decoded(p, " ", " ") = <<" ">>
        BY <1>3, <2>3, <2>4 DEF Decoded, Mapped
      <3>3. "_" \in Marked \ {" "} /\ " " \in Marked
        BY DEF Marked
      <3> QED BY <2>4, <3>1, <3>2, <3>3
    <2>5. CASE p[1] # " "
      <3>1. Decoded(p, " ", "_") = <<p[1]>> /\ Decoded(p, " ", " ") = <<p[1]>>
        BY <1>3, <2>3, <2>5 DEF Decoded, Mapped
      <3> QED BY <2>2, <3>1
    <2> QED BY <2>4, <2>5
  <1>4. CASE ~IsEscape(p) /\ p[1] = "%"
    <2>1. Letter(p) \in Marked
      BY <1>4 DEF IsEscape
    <2>2. Mapped(Letter(p), " ", "_") \in Marked \ {" "}
      BY <2>1 DEF Mapped, Marked
    <2>3. Decoded(p, " ", "_") = <<Mapped(Letter(p), " ", "_")>>
      BY <1>4 DEF Decoded
    <2>4. Decoded(p, " ", " ") = <<Letter(p)>>
      BY <1>4 DEF Decoded, Mapped
    <2> QED BY <1>4, <2>1, <2>2, <2>3, <2>4
  <1> QED BY <1>2, <1>3, <1>4

LEMMA DecodedFull ==
  ASSUME NEW p, Full(p)
  PROVE  Full(Decoded(p, " ", "_")) /\ Decoded(Decoded(p, " ", "_"), " ", "_") = Decoded(p, " ", "_")
  <1>1. CASE Decoded(p, " ", "_") = p
    BY <1>1
  <1>2. ASSUME NEW m \in Marked \ {" "}, Decoded(p, " ", "_") = <<m>>
        PROVE  Full(Decoded(p, " ", "_")) /\ Decoded(Decoded(p, " ", "_"), " ", "_") = Decoded(p, " ", "_")
    <2>1. m \in Char /\ m \notin {"%", " "}
      <3>1. m \in Char
        BY NameAssumption
      <3>2. m # "%"
        BY DEF Marked
      <3> QED BY <3>1, <3>2
    <2>2. Full(<<m>>) /\ Decoded(<<m>>, " ", "_") = <<m>>
      BY <2>1, OneLetter
    <2> QED BY <1>2, <2>2
  <1> QED BY <1>1, <1>2, DecodedIs

(* The equations of D.                                                     *)
LEMMA DIs ==
  /\ D(<<>>) = <<>>
  /\ \A p : Short(p) => D(p) = p
  /\ \A p, r : Full(p) /\ r \in Text => D(p \o r) = Decoded(p, " ", "_") \o D(r)
  <1>1. D(<<>>) = <<>>
    BY DecodesNothing DEF D
  <1>2. \A p : Short(p) => D(p) = p
    BY DecodesShort DEF D
  <1>3. ASSUME NEW p, NEW r, Full(p), r \in Text PROVE D(p \o r) = Decoded(p, " ", "_") \o D(r)
    <2>1. TakesFirst(p, r, " ", "_")
      BY <1>3, DecodesFull, Zenon
    <2> QED BY <2>1 DEF D, TakesFirst
  <1> QED BY <1>1, <1>2, <1>3
LEMMA PlainIs ==
  /\ Plain(<<>>) = <<>>
  /\ \A p : Short(p) => Plain(p) = p
  /\ \A p, r : Full(p) /\ r \in Text => Plain(p \o r) = Decoded(p, " ", " ") \o Plain(r)
  <1>1. Plain(<<>>) = <<>>
    BY DecodesNothing DEF Plain
  <1>2. \A p : Short(p) => Plain(p) = p
    BY DecodesShort DEF Plain
  <1>3. ASSUME NEW p, NEW r, Full(p), r \in Text PROVE Plain(p \o r) = Decoded(p, " ", " ") \o Plain(r)
    <2>1. TakesFirst(p, r, " ", " ")
      BY <1>3, DecodesFull, Zenon
    <2> QED BY <2>1 DEF Plain, TakesFirst
  <1> QED BY <1>1, <1>2, <1>3

LEMMA EmptyText == <<>> \in Text
  BY EmptySeq DEF Text

LEMMA PlainText == \A u \in Text : Plain(u) \in Text
  <1> DEFINE T == {u \in Text : Plain(u) \in Text}
  <1>1. <<>> \in T
    BY PlainIs, EmptyText
  <1>2. \A p : Short(p) => p \in T
    BY PlainIs DEF Short
  <1>3. ASSUME NEW p, NEW r, Full(p), r \in Text, r \in T PROVE p \o r \in T
    <2>1. p \in Text
      BY <1>3 DEF Full
    <2>2. Decoded(p, " ", " ") \in Text
      <3>1. CASE Decoded(p, " ", " ") = p
        BY <2>1, <3>1
      <3>2. ASSUME NEW m \in Marked, Decoded(p, " ", " ") = <<m>> PROVE Decoded(p, " ", " ") \in Text
        BY <3>2, OneChar, NameAssumption
      <3> QED BY <1>3, <3>1, <3>2, DecodedIs
    <2>3. p \o r \in Text /\ Decoded(p, " ", " ") \o Plain(r) \in Text
      BY <1>3, <2>1, <2>2, Cat
    <2> QED BY <1>3, <2>3, PlainIs
  <1> HIDE DEF T
  <1>4. \A u \in Text : u \in T
    BY <1>1, <1>2, <1>3, PieceInduction
  <1> QED BY <1>4 DEF T

LEMMA DecodesText == \A u \in Text : D(u) \in Text
  <1> DEFINE T == {u \in Text : D(u) \in Text}
  <1>1. <<>> \in T
    BY DIs, EmptyText
  <1>2. \A p : Short(p) => p \in T
    BY DIs DEF Short
  <1>3. ASSUME NEW p, NEW r, Full(p), r \in Text, r \in T PROVE p \o r \in T
    <2>1. p \in Text /\ Decoded(p, " ", "_") \in Text
      BY <1>3, DecodedFull DEF Full
    <2>2. p \o r \in Text /\ Decoded(p, " ", "_") \o D(r) \in Text
      BY <1>3, <2>1, Cat
    <2> QED BY <1>3, <2>2, DIs
  <1> HIDE DEF T
  <1>4. \A u \in Text : u \in T
    BY <1>1, <1>2, <1>3, PieceInduction
  <1> QED BY <1>4 DEF T

(* To decode once more changes nothing.                                    *)
LEMMA DecodesOnce == \A u \in Text : D(D(u)) = D(u)
  <1> DEFINE T == {u \in Text : D(D(u)) = D(u)}
  <1>1. <<>> \in T
    BY DIs, EmptyText
  <1>2. \A p : Short(p) => p \in T
    BY DIs DEF Short
  <1>3. ASSUME NEW p, NEW r, Full(p), r \in Text, r \in T PROVE p \o r \in T
    <2> DEFINE q == Decoded(p, " ", "_")
    <2>1. Full(q) /\ Decoded(q, " ", "_") = q /\ D(r) \in Text
      BY <1>3, DecodedFull, DecodesText
    <2>2. D(p \o r) = q \o D(r)
      BY <1>3, DIs
    <2>3. D(q \o D(r)) = q \o D(D(r))
      <3> HIDE DEF q
      <3> QED BY <2>1, DIs, ZenonT(40)
    <2>4. p \o r \in Text
      BY <1>3, Cat DEF Full
    <2> QED BY <1>3, <2>2, <2>3, <2>4
  <1> HIDE DEF T
  <1>4. \A u \in Text : u \in T
    BY <1>1, <1>2, <1>3, PieceInduction
  <1> QED BY <1>4 DEF T

(* Which characters are in a text.                                         *)
LEMMA HasCat ==
  ASSUME NEW a \in Text, NEW b \in Text, NEW S
  PROVE  Has(a \o b, S) <=> Has(a, S) \/ Has(b, S)
  <1> DEFINE c == a \o b
  <1>1. /\ c \in Text /\ Len(c) = Len(a) + Len(b)
        /\ \A i \in 1 .. Len(a) : c[i] = a[i]
        /\ \A i \in 1 .. Len(b) : c[Len(a) + i] = b[i]
    BY Cat
  <1>2. /\ Len(a) \in Nat /\ DOMAIN a = 1 .. Len(a)
        /\ Len(b) \in Nat /\ DOMAIN b = 1 .. Len(b)
    BY TextIs
  <1>3. DOMAIN c = 1 .. Len(a) + Len(b)
    <2> HIDE DEF c
    <2> QED BY <1>1, TextIs
  <1> HIDE DEF c
  <1>4. ASSUME Has(c, S) PROVE Has(a, S) \/ Has(b, S)
    <2>1. PICK i \in DOMAIN c : c[i] \in S
      BY <1>4 DEF Has
    <2>2. CASE i <= Len(a)
      <3>1. i \in 1 .. Len(a)
        BY <1>2, <1>3, <2>2
      <3> QED BY <1>1, <1>2, <2>1, <3>1 DEF Has
    <2>3. CASE ~(i <= Len(a))
      <3>1. i - Len(a) \in 1 .. Len(b) /\ Len(a) + (i - Len(a)) = i
        BY <1>2, <1>3, <2>3
      <3>2. b[i - Len(a)] \in S
        BY <1>1, <2>1, <3>1
      <3> QED BY <1>2, <3>1, <3>2 DEF Has
    <2> QED BY <2>2, <2>3
  <1>5. ASSUME Has(a, S) PROVE Has(c, S)
    <2>1. PICK i \in DOMAIN a : a[i] \in S
      BY <1>5 DEF Has
    <2>2. i \in DOMAIN c /\ c[i] \in S
      BY <1>1, <1>2, <1>3, <2>1
    <2> QED BY <2>2 DEF Has
  <1>6. ASSUME Has(b, S) PROVE Has(c, S)
    <2>1. PICK i \in DOMAIN b : b[i] \in S
      BY <1>6 DEF Has
    <2>2. Len(a) + i \in DOMAIN c
      BY <1>2, <1>3, <2>1
    <2>3. c[Len(a) + i] \in S
      BY <1>1, <1>2, <2>1
    <2> QED BY <2>2, <2>3 DEF Has
  <1> QED BY <1>4, <1>5, <1>6 DEF c

LEMMA HasNothing == \A S : ~Has(<<>>, S)
  BY DEF Has
LEMMA HasOne == \A m, S : Has(<<m>>, S) <=> m \in S
  BY DEF Has

LEMMA Cancel == \A a, b, c \in Text : a \o b = a \o c => b = c
  <1> SUFFICES ASSUME NEW a \in Text, NEW b \in Text, NEW c \in Text, a \o b = a \o c PROVE b = c
    OBVIOUS
  <1>1. SubSeq(a \o b, Len(a) + 1, Len(a \o b)) = b
    BY Parts
  <1>2. SubSeq(a \o c, Len(a) + 1, Len(a \o c)) = c
    BY Parts
  <1> QED BY <1>1, <1>2

LEMMA FirstOf ==
  ASSUME NEW a \in Text, a # <<>>, NEW b \in Text
  PROVE  (a \o b)[1] = a[1] /\ a \o b # <<>>
  <1>1. Len(a) \in Nat /\ 1 \in 1 .. Len(a)
    BY TextIs
  <1>2. (a \o b)[1] = a[1] /\ Len(a \o b) = Len(a) + Len(b)
    BY <1>1, Cat
  <1>3. Len(a \o b) # 0
    BY <1>1, <1>2, TextIs
  <1> QED BY <1>2, <1>3, TextIs

LEMMA FullIs ==
  ASSUME NEW p, Full(p)
  PROVE  p \in Text /\ p # <<>> /\ 1 \in DOMAIN p
  <1>1. p \in Text /\ Len(p) # 0
    BY DEF Full
  <1>2. p # <<>>
    BY <1>1, EmptySeq
  <1>3. DOMAIN p = 1 .. Len(p) /\ Len(p) \in Nat
    BY <1>1, TextIs
  <1> QED BY <1>1, <1>2, <1>3

LEMMA TakesChar ==
  ASSUME NEW x \in Text, x # <<>>
  PROVE  /\ x[1] \in Char
         /\ \E t \in Text : x = <<x[1]>> \o t /\ Len(x) = Len(t) + 1
  <1>1. Len(x) \in Nat /\ Len(x) > 0
    BY TextIs
  <1>2. 1 \in 0 .. Len(x) /\ 1 \in 1 .. Len(x)
    BY <1>1
  <1> DEFINE y == SubSeq(x, 1, 1)
             t == SubSeq(x, 1 + 1, Len(x))
  <1>3. y \in Text /\ Len(y) = 1 /\ t \in Text /\ Len(t) = Len(x) - 1 /\ x = y \o t
    BY <1>2, Split
  <1> HIDE DEF y, t
  <1>4. x[1] \in Char
    BY <1>2, TextIs
  <1>5. <<x[1]>> \in Text /\ Len(<<x[1]>>) = 1 /\ <<x[1]>>[1] = x[1]
    BY <1>4, OneChar
  <1>6. x[1] = y[1]
    <2>1. 1 \in 1 .. Len(y)
      BY <1>3
    <2> QED BY <1>3, <2>1, Cat
  <1>7. \A k \in 1 .. 1 : k = 1
    OBVIOUS
  <1>8. y = <<x[1]>>
    BY <1>3, <1>5, <1>6, <1>7, SameText
  <1>9. Len(x) = Len(t) + 1
    BY <1>1, <1>3
  <1> QED BY <1>3, <1>4, <1>8, <1>9

-----------------------------------------------------------------------------
LEMMA DecodesHas ==
  ASSUME NEW c, c \notin Marked
  PROVE  \A u \in Text : ~Has(u, {c}) => ~Has(D(u), {c})
  <1> DEFINE T == {u \in Text : ~Has(u, {c}) => ~Has(D(u), {c})}
  <1>1. <<>> \in T
    BY DIs, EmptyText, HasNothing
  <1>2. \A p : Short(p) => p \in T
    BY DIs DEF Short
  <1>3. ASSUME NEW p, NEW r, Full(p), r \in Text, r \in T PROVE p \o r \in T
    <2>1. p \in Text /\ Decoded(p, " ", "_") \in Text /\ D(r) \in Text
      BY <1>3, DecodedFull, FullIs, DecodesText
    <2>2. p \o r \in Text /\ D(p \o r) = Decoded(p, " ", "_") \o D(r)
      BY <1>3, <2>1, Cat, DIs
    <2>3. ~Has(p, {c}) => ~Has(Decoded(p, " ", "_"), {c})
      <3>1. CASE Decoded(p, " ", "_") = p
        BY <3>1
      <3>2. ASSUME NEW m \in Marked \ {" "}, Decoded(p, " ", "_") = <<m>>
            PROVE  ~Has(Decoded(p, " ", "_"), {c})
        BY <3>2, HasOne
      <3> QED BY <1>3, <3>1, <3>2, DecodedIs
    <2>4. (Has(p \o r, {c}) <=> Has(p, {c}) \/ Has(r, {c}))
      BY <1>3, <2>1, HasCat
    <2>5. Has(Decoded(p, " ", "_") \o D(r), {c}) => Has(Decoded(p, " ", "_"), {c}) \/ Has(D(r), {c})
      BY <2>1, HasCat, Zenon
    <2> QED BY <1>3, <2>2, <2>3, <2>4, <2>5
  <1> HIDE DEF T
  <1>4. \A u \in Text : u \in T
    BY <1>1, <1>2, <1>3, PieceInduction
  <1> QED BY <1>4 DEF T

LEMMA DecodesSome == \A u \in Text : u # <<>> => D(u) # <<>>
  <1> SUFFICES ASSUME NEW u \in Text, u # <<>> PROVE D(u) # <<>>
    OBVIOUS
  <1>1. CASE Short(u)
    BY <1>1, DIs
  <1>2. CASE ~Short(u)
    <2>1. PICK p, r \in Text : Full(p) /\ u = p \o r
      BY <1>2, TakesPiece
    <2>2. Decoded(p, " ", "_") \in Text /\ Decoded(p, " ", "_") # <<>> /\ D(r) \in Text
      BY <2>1, DecodedFull, FullIs, DecodesText
    <2> QED BY <2>1, <2>2, DIs, FirstOf
  <1> QED BY <1>1, <1>2

(* A slash at the beginning is read as it stands, whatever a blank becomes.*)
LEMMA PlainSlash ==
  ASSUME NEW u \in Text, Plain(u) # <<>>, Plain(u)[1] = "/"
  PROVE  D(u) # <<>> /\ D(u)[1] = "/"
  <1>1. CASE u = <<>>
    BY <1>1, PlainIs
  <1>2. CASE Short(u)
    BY <1>2, DIs, PlainIs
  <1>3. CASE u # <<>> /\ ~Short(u)
    <2>1. PICK p, r \in Text : Full(p) /\ u = p \o r
      BY <1>3, TakesPiece
    <2>2. p # <<>> /\ D(r) \in Text
      BY <2>1, FullIs, DecodesText
    <2>3. Plain(u) = Decoded(p, " ", " ") \o Plain(r) /\ D(u) = Decoded(p, " ", "_") \o D(r)
      BY <2>1, PlainIs, DIs
    <2>4. CASE Decoded(p, " ", "_") = p /\ Decoded(p, " ", " ") = p
      <3>1. Plain(r) \in Text
        BY PlainText
      <3>2. Plain(u) = p \o Plain(r) /\ D(u) = p \o D(r)
        BY <2>3, <2>4
      <3>3. (p \o Plain(r))[1] = p[1]
        BY <2>2, <3>1, FirstOf
      <3>4. (p \o D(r))[1] = p[1] /\ p \o D(r) # <<>>
        BY <2>2, FirstOf
      <3> QED BY <3>2, <3>3, <3>4
    <2>5. ASSUME NEW m \in Marked, Decoded(p, " ", " ") = <<m>> PROVE FALSE
      <3>1. Plain(r) \in Text /\ m \in Char
        BY PlainText, NameAssumption
      <3>2. <<m>> \in Text /\ <<m>> # <<>> /\ <<m>>[1] = m
        BY <3>1, OneChar
      <3>3. (<<m>> \o Plain(r))[1] = m
        BY <3>1, <3>2, FirstOf
      <3>4. Plain(u)[1] = m
        BY <2>3, <2>5, <3>3
      <3>5. "/" \notin Marked
        BY DEF Marked
      <3> QED BY <3>4, <3>5
    <2> QED BY <2>1, <2>4, <2>5, DecodedIs
  <1> QED BY <1>1, <1>2, <1>3

-----------------------------------------------------------------------------
(* A text that decoding leaves alone.                                      *)
Stable(s) == D(s) = s

LEMMA StableFull ==
  ASSUME NEW p, Full(p), NEW r \in Text, Stable(p \o r)
  PROVE  Decoded(p, " ", "_") = p /\ Stable(r)
  <1>1. p \in Text /\ p # <<>> /\ D(r) \in Text
    BY FullIs, DecodesText
  <1>2. Decoded(p, " ", "_") \o D(r) = p \o r
    BY DIs DEF Stable
  <1>3. CASE Decoded(p, " ", "_") = p
    BY <1>1, <1>2, <1>3, Cancel DEF Stable
  <1>4. ASSUME p[1] \in {"%", " "}, NEW m \in Marked \ {" "}, Decoded(p, " ", "_") = <<m>> PROVE FALSE
    <2>1. m \in Char /\ m \notin {"%", " "}
      <3>1. m \in Char
        BY NameAssumption
      <3>2. m # "%"
        BY DEF Marked
      <3> QED BY <3>1, <3>2
    <2>2. <<m>> \in Text /\ <<m>> # <<>> /\ <<m>>[1] = m
      BY <2>1, OneChar
    <2>3. (<<m>> \o D(r))[1] = m
      BY <1>1, <2>2, FirstOf
    <2>4. (p \o r)[1] = p[1]
      BY <1>1, FirstOf
    <2> QED BY <1>2, <1>4, <2>1, <2>3, <2>4
  <1> QED BY <1>3, <1>4, DecodedIs

LEMMA StableOn ==
  ASSUME NEW p, Full(p), NEW r \in Text, Decoded(p, " ", "_") = p, Stable(r)
  PROVE  Stable(p \o r)
  <1>1. D(p \o r) = Decoded(p, " ", "_") \o D(r)
    BY DIs
  <1> QED BY <1>1 DEF Stable

LEMMA StablePrefix == \A s, r \in Text : Stable(s \o r) => Stable(s)
  <1> DEFINE T == {s \in Text : \A r \in Text : Stable(s \o r) => Stable(s)}
  <1>1. <<>> \in T
    BY DIs, EmptyText DEF Stable
  <1>2. \A p : Short(p) => p \in T
    BY DIs DEF Short, Stable
  <1>3. ASSUME NEW p, NEW s, Full(p), s \in Text, s \in T PROVE p \o s \in T
    <2>1. p \in Text /\ p \o s \in Text
      BY <1>3, FullIs, Cat
    <2>2. ASSUME NEW r \in Text, Stable((p \o s) \o r) PROVE Stable(p \o s)
      <3>1. s \o r \in Text
        BY <1>3, <2>2, Cat
      <3>0. (p \o s) \o r = p \o (s \o r)
        BY <1>3, <2>1, <2>2, Assoc, ZenonT(40)
      <3>2. Stable(p \o (s \o r))
        BY <2>2, <3>0
      <3>3. Decoded(p, " ", "_") = p /\ Stable(s \o r)
        BY <1>3, <3>1, <3>2, StableFull
      <3>4. Stable(s)
        BY <1>3, <3>3
      <3> QED BY <1>3, <3>3, <3>4, StableOn, Zenon
    <2> QED BY <2>1, <2>2
  <1> HIDE DEF T
  <1>4. \A u \in Text : u \in T
    BY <1>1, <1>2, <1>3, PieceInduction
  <1> QED BY <1>4 DEF T

LEMMA PlainStable == \A s \in Text : Stable(s) => Plain(s) = s
  <1> DEFINE T == {s \in Text : Stable(s) => Plain(s) = s}
  <1>1. <<>> \in T
    BY PlainIs, EmptyText
  <1>2. \A p : Short(p) => p \in T
    BY PlainIs DEF Short
  <1>3. ASSUME NEW p, NEW s, Full(p), s \in Text, s \in T PROVE p \o s \in T
    <2>1. p \in Text /\ p # <<>> /\ p \o s \in Text
      BY <1>3, FullIs, Cat
    <2>2. ASSUME Stable(p \o s) PROVE Plain(p \o s) = p \o s
      <3>1. Decoded(p, " ", "_") = p /\ Plain(s) = s
        BY <1>3, <2>2, StableFull
      <3>2. Decoded(p, " ", " ") = p
        <4>1. ASSUME p[1] \in {"%", " "}, NEW m \in Marked \ {" "}, p = <<m>> PROVE FALSE
          <5>1. p[1] = m /\ m # " "
            BY <4>1
          <5>2. m # "%"
            BY DEF Marked
          <5> QED BY <4>1, <5>1, <5>2
        <4> QED BY <1>3, <3>1, <4>1, DecodedIs
      <3>3. Plain(p \o s) = Decoded(p, " ", " ") \o Plain(s)
        BY <1>3, PlainIs
      <3> QED BY <3>1, <3>2, <3>3
    <2> QED BY <2>1, <2>2
  <1> HIDE DEF T
  <1>4. \A u \in Text : u \in T
    BY <1>1, <1>2, <1>3, PieceInduction
  <1> QED BY <1>4 DEF T

(* What has no percent sign comes through as it is, up to its blanks.      *)
LEMMA PlainBehind == \A w, s \in Text : ~Has(w, {"%"}) => Plain(w \o s) = w \o Plain(s)
  <1> DEFINE T == {w \in Text : ~Has(w, {"%"}) => \A s \in Text : Plain(w \o s) = w \o Plain(s)}
  <1>1. <<>> \in T
    BY PlainText, TextIs, EmptyText
  <1>2. ASSUME NEW p, Short(p) PROVE p \in T
    <2>1. p \in Text /\ Len(p) \in 1 .. 2 /\ p[1] = "%"
      BY <1>2 DEF Short
    <2>2. 1 \in DOMAIN p
      BY <2>1, TextIs
    <2> QED BY <2>1, <2>2 DEF Has
  <1>3. ASSUME NEW p, NEW r, Full(p), r \in Text, r \in T PROVE p \o r \in T
    <2>1. p \in Text /\ p \o r \in Text
      BY <1>3, FullIs, Cat
    <2>2. ASSUME ~Has(p \o r, {"%"}), NEW s \in Text PROVE Plain((p \o r) \o s) = (p \o r) \o Plain(s)
      <3>1. ~Has(p, {"%"}) /\ ~Has(r, {"%"})
        BY <1>3, <2>1, <2>2, HasCat
      <3>2. Plain(r \o s) = r \o Plain(s) /\ r \o s \in Text /\ Plain(s) \in Text
        BY <1>3, <2>2, <3>1, Cat, PlainText
      <3>3. Plain(p \o (r \o s)) = Decoded(p, " ", " ") \o Plain(r \o s)
        BY <1>3, <3>2, PlainIs
      <3>4. Decoded(p, " ", " ") = p
        <4>1. Len(p) = 1 /\ p[1] # "%"
          <5>1. 1 \in DOMAIN p
            BY <1>3, <2>1, TextIs DEF Full
          <5> QED BY <1>3, <3>1, <5>1 DEF Full, Has
        <4>2. p = <<p[1]>>
          BY <2>1, <4>1 DEF Text
        <4>3. Letter(p) = p[1] /\ ~IsEscape(p)
          BY <4>1 DEF Letter, IsEscape
        <4> QED BY <4>2, <4>3 DEF Decoded, Mapped
      <3>5. (p \o r) \o s = p \o (r \o s)
        BY <1>3, <2>1, <2>2, Assoc, ZenonT(40)
      <3>6. p \o (r \o Plain(s)) = (p \o r) \o Plain(s)
        BY <1>3, <2>1, <3>2, Assoc, ZenonT(40)
      <3> QED BY <3>2, <3>3, <3>4, <3>5, <3>6
    <2> QED BY <2>1, <2>2
  <1> HIDE DEF T
  <1>4. \A u \in Text : u \in T
    BY <1>1, <1>2, <1>3, PieceInduction
  <1> QED BY <1>4 DEF T

(* And a name that is spelled as it is meant.                              *)
LEMMA StableMeant == \A m \in Text : ~Has(m, {"%", " "}) => Stable(m)
  <1> DEFINE T == {m \in Text : ~Has(m, {"%", " "}) => Stable(m)}
  <1>1. <<>> \in T
    BY DIs, EmptyText DEF Stable
  <1>2. \A p : Short(p) => p \in T
    BY DIs DEF Stable, Short
  <1>3. ASSUME NEW p, NEW r, Full(p), r \in Text, r \in T PROVE p \o r \in T
    <2>1. p \in Text /\ 1 \in DOMAIN p
      BY <1>3, FullIs
    <2>0. p \o r \in Text
      BY <1>3, <2>1, Cat
    <2>2. ASSUME ~Has(p \o r, {"%", " "}) PROVE Stable(p \o r)
      <3>1. ~Has(p, {"%", " "}) /\ ~Has(r, {"%", " "})
        BY <1>3, <2>1, <2>2, HasCat
      <3>2. p[1] \notin {"%", " "}
        BY <2>1, <3>1 DEF Has
      <3>3. Decoded(p, " ", "_") = p
        BY <1>3, <3>2, DecodedIs
      <3> QED BY <1>3, <3>1, <3>3, StableOn, Zenon
    <2> QED BY <2>0, <2>2
  <1> HIDE DEF T
  <1>4. \A u \in Text : u \in T
    BY <1>1, <1>2, <1>3, PieceInduction
  <1> QED BY <1>4 DEF T

-----------------------------------------------------------------------------
(* A text in which every percent sign begins an escape is decoded without  *)
(* a look at what is behind it.                                            *)
EscapeAt(a, i) == i + 2 <= Len(a) /\ SubSeq(a, i + 1, i + 2) \in DOMAIN Octet

LEMMA EscapedBehind ==
  ASSUME NEW a \in Text, NEW b \in Text, Escaped(a \o b)
  PROVE  Escaped(b)
  <1> DEFINE c == a \o b
  <1>1. /\ Len(c) = Len(a) + Len(b)
        /\ \A i \in 1 .. Len(b) : c[Len(a) + i] = b[i]
    BY Cat
  <1>2. Len(a) \in Nat /\ Len(b) \in Nat /\ DOMAIN b = 1 .. Len(b)
    BY TextIs
  <1>3. DOMAIN c = 1 .. Len(a) + Len(b)
    BY Cat, TextIs
  <1> SUFFICES ASSUME NEW i \in 1 .. Len(b), b[i] = "%" PROVE EscapeAt(b, i)
    BY <1>2 DEF Escaped, EscapeAt
  <1>4. Len(a) + i \in DOMAIN c /\ c[Len(a) + i] = "%"
    BY <1>1, <1>2, <1>3
  <1>5. EscapeAt(c, Len(a) + i)
    BY <1>4, Zenon DEF Escaped, EscapeAt
  <1>6. (Len(a) + i) + 2 <= Len(c) /\ SubSeq(c, (Len(a) + i) + 1, (Len(a) + i) + 2) \in DOMAIN Octet
    BY <1>5 DEF EscapeAt
  <1>7. i + 1 \in 1 .. Len(b) /\ i + 2 \in 1 .. Len(b) /\ i + 2 <= Len(b)
        /\ (Len(a) + i) + 1 = Len(a) + (i + 1) /\ (Len(a) + i) + 2 = Len(a) + (i + 2)
    BY <1>1, <1>2, <1>6
  <1>8. SubSeq(c, Len(a) + (i + 1), Len(a) + (i + 2)) = SubSeq(b, i + 1, i + 2)
    BY <1>7, PartBehind, Zenon
  <1> QED BY <1>6, <1>7, <1>8 DEF EscapeAt

LEMMA PartFront ==
  ASSUME NEW a \in Text, NEW b \in Text, NEW i \in 1 .. Len(a), NEW j \in 1 .. Len(a), i <= j
  PROVE  SubSeq(a \o b, i, j) = SubSeq(a, i, j)
  <1> DEFINE c == a \o b
             s == SubSeq(c, i, j)
             t == SubSeq(a, i, j)
  <1>1. Len(a) \in Nat /\ Len(b) \in Nat
    BY TextIs
  <1>2. /\ c \in Text /\ Len(c) = Len(a) + Len(b) /\ \A k \in 1 .. Len(a) : c[k] = a[k]
    BY Cat
  <1> HIDE DEF c
  <1>3. /\ i \in Nat /\ j \in Nat /\ 1 <= i /\ i <= j + 1 /\ j <= Len(a) /\ j <= Len(c)
    BY <1>1, <1>2
  <1>4. s \in Text /\ Len(s) = (j - i) + 1 /\ \A k \in 1 .. (j - i) + 1 : s[k] = c[(i + k) - 1]
    BY <1>2, <1>3, Part
  <1>5. t \in Text /\ Len(t) = (j - i) + 1 /\ \A k \in 1 .. (j - i) + 1 : t[k] = a[(i + k) - 1]
    BY <1>3, Part
  <1>6. \A k \in 1 .. (j - i) + 1 : (i + k) - 1 \in 1 .. Len(a)
    BY <1>1
  <1> HIDE DEF s, t
  <1>7. \A k \in 1 .. Len(s) : s[k] = t[k]
    BY <1>2, <1>4, <1>5, <1>6
  <1>8. s = t
    BY <1>4, <1>5, <1>7, SameText
  <1> QED BY <1>8 DEF s, t, c

LEMMA EscapedFrom ==
  ASSUME NEW a \in Text, NEW b \in Text, Escaped(b),
         \A i \in 1 .. Len(a) : a[i] = "%" => EscapeAt(a \o b, i)
  PROVE  Escaped(a \o b)
  <1> DEFINE c == a \o b
  <1>1. /\ Len(c) = Len(a) + Len(b)
        /\ \A i \in 1 .. Len(a) : c[i] = a[i]
        /\ \A i \in 1 .. Len(b) : c[Len(a) + i] = b[i]
    BY Cat
  <1>2. Len(a) \in Nat /\ Len(b) \in Nat /\ DOMAIN b = 1 .. Len(b)
    BY TextIs
  <1>3. DOMAIN c = 1 .. Len(a) + Len(b)
    BY Cat, TextIs
  <1> SUFFICES ASSUME NEW i \in 1 .. Len(a) + Len(b), c[i] = "%" PROVE EscapeAt(c, i)
    BY <1>3 DEF Escaped, EscapeAt
  <1>4. CASE i <= Len(a)
    <2>1. i \in 1 .. Len(a)
      BY <1>2, <1>4
    <2>2. a[i] = "%"
      BY <1>1, <2>1
    <2> QED BY <2>1, <2>2
  <1>5. CASE ~(i <= Len(a))
    <2> DEFINE j == i - Len(a)
    <2>1. j \in 1 .. Len(b) /\ i = Len(a) + j
      BY <1>2, <1>5
    <2> HIDE DEF j
    <2>2. b[j] = "%" /\ j \in DOMAIN b
      BY <1>1, <1>2, <2>1
    <2>3. EscapeAt(b, j)
      BY <2>2, Zenon DEF Escaped, EscapeAt
    <2>4. j + 2 <= Len(b) /\ SubSeq(b, j + 1, j + 2) \in DOMAIN Octet
      BY <2>3 DEF EscapeAt
    <2>5. j + 1 \in 1 .. Len(b) /\ j + 2 \in 1 .. Len(b) /\ i + 2 <= Len(a) + Len(b)
          /\ i + 1 = Len(a) + (j + 1) /\ i + 2 = Len(a) + (j + 2)
      BY <1>2, <2>1, <2>4
    <2>6. SubSeq(c, Len(a) + (j + 1), Len(a) + (j + 2)) = SubSeq(b, j + 1, j + 2)
      BY <2>5, PartBehind, Zenon
    <2> QED BY <1>1, <2>4, <2>5, <2>6 DEF EscapeAt
  <1> QED BY <1>4, <1>5

LEMMA EscapedCat ==
  ASSUME NEW a \in Text, NEW b \in Text, Escaped(a), Escaped(b)
  PROVE  Escaped(a \o b)
  <1>1. Len(a) \in Nat /\ Len(b) \in Nat /\ DOMAIN a = 1 .. Len(a) /\ Len(a \o b) = Len(a) + Len(b)
    BY TextIs, Cat
  <1>2. ASSUME NEW i \in 1 .. Len(a), a[i] = "%" PROVE EscapeAt(a \o b, i)
    <2>1. EscapeAt(a, i)
      BY <1>1, <1>2, Zenon DEF Escaped, EscapeAt
    <2>2. i + 2 <= Len(a) /\ SubSeq(a, i + 1, i + 2) \in DOMAIN Octet
      BY <2>1 DEF EscapeAt
    <2>3. i + 1 \in 1 .. Len(a) /\ i + 2 \in 1 .. Len(a) /\ i + 1 <= i + 2 /\ i + 2 <= Len(a) + Len(b)
      BY <1>1, <2>2
    <2>4. SubSeq(a \o b, i + 1, i + 2) = SubSeq(a, i + 1, i + 2)
      BY <2>3, PartFront, Zenon
    <2> QED BY <1>1, <2>2, <2>3, <2>4 DEF EscapeAt
  <1> QED BY <1>2, EscapedFrom

LEMMA EscapedPlain == \A a \in Text : ~Has(a, {"%"}) => Escaped(a)
  BY DEF Escaped, Has

LEMMA DecodesEscaped == \A s, r \in Text : Escaped(s) => D(s \o r) = D(s) \o D(r)
  <1> DEFINE T == {s \in Text : Escaped(s) => \A r \in Text : D(s \o r) = D(s) \o D(r)}
  <1>1. <<>> \in T
    <2>1. \A r \in Text : <<>> \o r = r /\ <<>> \o D(r) = D(r)
      BY TextIs, DecodesText
    <2> QED BY <2>1, DIs, EmptyText
  <1>2. ASSUME NEW p, Short(p) PROVE p \in T
    <2>1. p \in Text /\ Len(p) \in 1 .. 2 /\ p[1] = "%"
      BY <1>2 DEF Short
    <2>2. 1 \in DOMAIN p /\ ~(1 + 2 <= Len(p))
      BY <2>1, TextIs
    <2>3. ~Escaped(p)
      BY <2>1, <2>2 DEF Escaped
    <2> QED BY <2>1, <2>3
  <1>3. ASSUME NEW p, NEW s, Full(p), s \in Text, s \in T PROVE p \o s \in T
    <2>1. p \in Text /\ Decoded(p, " ", "_") \in Text /\ D(s) \in Text
      BY <1>3, FullIs, DecodedFull, DecodesText
    <2>2. p \o s \in Text
      BY <1>3, <2>1, Cat
    <2>3. ASSUME Escaped(p \o s), NEW r \in Text PROVE D((p \o s) \o r) = D(p \o s) \o D(r)
      <3>1. Escaped(s)
        BY <1>3, <2>1, <2>3, EscapedBehind
      <3>2. s \o r \in Text /\ D(r) \in Text
        BY <1>3, <2>3, Cat, DecodesText
      <3>3. (p \o s) \o r = p \o (s \o r)
        BY <1>3, <2>1, <2>3, Assoc, ZenonT(40)
      <3>4. D(p \o (s \o r)) = Decoded(p, " ", "_") \o D(s \o r)
        BY <1>3, <3>2, DIs
      <3>5. D(s \o r) = D(s) \o D(r)
        BY <1>3, <2>3, <3>1
      <3>6. Decoded(p, " ", "_") \o (D(s) \o D(r)) = (Decoded(p, " ", "_") \o D(s)) \o D(r)
        BY <2>1, <3>2, Assoc, ZenonT(40)
      <3>7. D(p \o s) = Decoded(p, " ", "_") \o D(s)
        BY <1>3, DIs
      <3> QED BY <3>3, <3>4, <3>5, <3>6, <3>7
    <2> QED BY <2>2, <2>3
  <1> HIDE DEF T
  <1>4. \A u \in Text : u \in T
    BY <1>1, <1>2, <1>3, PieceInduction
  <1> QED BY <1>4 DEF T

-----------------------------------------------------------------------------
LEMMA SlashFull ==
  /\ Full(<<"/">>) /\ Decoded(<<"/">>, " ", "_") = <<"/">>
  /\ <<"/">> \in Text /\ <<"/">> # <<>> /\ Len(<<"/">>) = 1 /\ <<"/">>[1] = "/"
  <1>1. "/" \in Char
    BY NameAssumption
  <1>2. <<"/">> \in Text /\ Len(<<"/">>) = 1 /\ <<"/">>[1] = "/"
    BY <1>1, OneChar
  <1>3. <<"/">> # <<>>
    BY <1>2
  <1> QED BY <1>1, <1>2, <1>3, OneLetter

LEMMA SmallNumbers ==
  /\ 1 + 1 = 2 /\ 2 + 1 = 3 /\ 1 + 2 = 3
  /\ 1 \in 1 .. 1 /\ 1 \in 1 .. 2 /\ 2 \in 1 .. 2
  /\ \A n \in Nat : n > 0 => 1 \in 0 .. n
  /\ \A n \in 1 .. 2 : n = 1 \/ n = 2
  OBVIOUS

LEMMA DecodesSlash == \A s \in Text : D(<<"/">> \o s) = <<"/">> \o D(s)
  BY SlashFull, DIs

(* A piece with a slash in it is no escape of a character.                 *)
LEMMA SlashInPiece ==
  ASSUME NEW p \in Text, Len(p) = 3, p[1] = "%", p[2] = "/" \/ p[3] = "/"
  PROVE  Full(p) /\ Decoded(p, " ", "_") = p
  <1>1. Full(p)
    BY DEF Full
  <1>2. Tail(p) \notin DOMAIN Octet
    <2> SUFFICES ASSUME Tail(p) \in DOMAIN Octet PROVE FALSE
      OBVIOUS
    <2>1. ~Has(Tail(p), {"%", "/", "?", " ", "_"}) /\ Tail(p) \in Text
      BY NameAssumption
    <2>2. p # <<>>
      BY <1>1, FullIs
    <2>3. Len(Tail(p)) = 2 /\ Tail(p)[1] = p[2] /\ Tail(p)[2] = p[3]
      BY <2>2 DEF Text
    <2>4. 1 \in DOMAIN Tail(p) /\ 2 \in DOMAIN Tail(p)
      <3>1. DOMAIN Tail(p) = 1 .. 2
        BY <2>1, <2>3, TextIs
      <3> QED BY <3>1, SmallNumbers
    <2> QED BY <2>1, <2>3, <2>4 DEF Has
  <1>3. Letter(p) = Nul
    BY <1>2 DEF Letter
  <1>4. IsEscape(p)
    BY <1>3 DEF IsEscape, Nul, Marked
  <1> QED BY <1>1, <1>4 DEF Decoded

LEMMA PercentSlash ==
  ASSUME NEW p \in Text, Len(p) = 2, p[1] = "%"
  PROVE  Full(p \o <<"/">>) /\ Decoded(p \o <<"/">>, " ", "_") = p \o <<"/">>
  <1> DEFINE q == p \o <<"/">>
  <1>1. q \in Text /\ Len(q) = Len(p) + Len(<<"/">>)
    BY SlashFull, Cat
  <1>2. q[1] = p[1] /\ q[Len(p) + 1] = <<"/">>[1]
    <2>1. 1 \in 1 .. Len(p) /\ 1 \in 1 .. Len(<<"/">>)
      BY SlashFull, SmallNumbers
    <2> QED BY <2>1, SlashFull, Cat
  <1> HIDE DEF q
  <1>3. Len(q) = 3 /\ q[1] = "%" /\ q[3] = "/"
    BY <1>1, <1>2, SlashFull, SmallNumbers
  <1>4. Full(q) /\ Decoded(q, " ", "_") = q
    BY <1>1, <1>3, SlashInPiece
  <1> QED BY <1>4 DEF q

LEMMA PercentSlashOne ==
  ASSUME NEW p \in Text, Len(p) = 1, p[1] = "%", NEW a \in Text, Len(a) = 1
  PROVE  LET q == p \o (<<"/">> \o a) IN Full(q) /\ Decoded(q, " ", "_") = q /\ q \in Text
  <1> DEFINE x == <<"/">> \o a
             q == p \o x
  <1>1. x \in Text /\ Len(x) = Len(<<"/">>) + Len(a)
    BY SlashFull, Cat
  <1>2. x[1] = "/"
    BY SlashFull, Cat, SmallNumbers
  <1> HIDE DEF x
  <1>3. Len(x) = 2
    BY <1>1, SlashFull, SmallNumbers
  <1>4. q \in Text /\ Len(q) = Len(p) + Len(x)
    BY <1>1, Cat
  <1>5. q[1] = p[1] /\ q[Len(p) + 1] = x[1]
    <2>1. 1 \in 1 .. Len(p) /\ 1 \in 1 .. Len(x)
      BY <1>3, SmallNumbers
    <2> QED BY <1>1, <2>1, Cat, ZenonT(40)
  <1> HIDE DEF q
  <1>6. Len(q) = 3 /\ q[1] = "%" /\ q[2] = "/"
    BY <1>2, <1>3, <1>4, <1>5, SmallNumbers
  <1>7. Full(q) /\ Decoded(q, " ", "_") = q
    BY <1>4, <1>6, SlashInPiece
  <1> QED BY <1>4, <1>7 DEF q, x

(* So a stable text stays stable with a slash and such a name behind it.   *)
LEMMA StableThenSlash ==
  ASSUME NEW m \in Text, m # <<>>, ~Has(m, {"%", " "})
  PROVE  \A s \in Text : Stable(s) => Stable(s \o (<<"/">> \o m))
  <1> DEFINE x == <<"/">> \o m
             T == {s \in Text : Stable(s) => Stable(s \o x)}
  <1>0. x \in Text /\ Stable(x)
    <2>1. x \in Text
      BY SlashFull, Cat
    <2>2. Stable(m)
      BY StableMeant
    <2> QED BY <2>1, <2>2, SlashFull, StableOn
  <1>1. <<>> \in T
    <2>1. <<>> \o x = x
      BY <1>0, TextIs
    <2> QED BY <1>0, <2>1, EmptyText
  <1>2. ASSUME NEW p, Short(p) PROVE p \in T
    <2>1. p \in Text /\ p[1] = "%" /\ Len(p) \in 1 .. 2
      BY <1>2 DEF Short
    <2>2. CASE Len(p) = 2
      <3> DEFINE q == p \o <<"/">>
      <3>1. Full(q) /\ Decoded(q, " ", "_") = q
        BY <2>1, <2>2, PercentSlash
      <3>2. p \o x = q \o m
        BY <2>1, SlashFull, Assoc
      <3> HIDE DEF q
      <3>3. Stable(q \o m)
        BY <3>1, StableMeant, StableOn
      <3> QED BY <2>1, <3>2, <3>3
    <2>3. CASE Len(p) = 1
      <3>1. PICK a, b \in Text : Len(a) = 1 /\ m = a \o b
        <4>1. Len(m) \in Nat /\ Len(m) > 0
          BY TextIs
        <4>2. 1 \in 0 .. Len(m)
          BY <4>1, SmallNumbers
        <4> QED BY <4>2, Split, ZenonT(40)
      <3>2. ~Has(b, {"%", " "})
        BY <3>1, HasCat
      <3> DEFINE q == p \o (<<"/">> \o a)
      <3>3. Full(q) /\ Decoded(q, " ", "_") = q /\ q \in Text
        BY <2>1, <2>3, <3>1, PercentSlashOne
      <3>4. p \o x = q \o b
        <4>1. x = (<<"/">> \o a) \o b
          BY <3>1, SlashFull, Assoc, ZenonT(40)
        <4>2. <<"/">> \o a \in Text
          BY SlashFull, Cat
        <4>3. p \o ((<<"/">> \o a) \o b) = (p \o (<<"/">> \o a)) \o b
          BY <2>1, <4>2, Assoc, ZenonT(40)
        <4> QED BY <4>1, <4>3
      <3> HIDE DEF q
      <3>5. Stable(b)
        BY <3>2, StableMeant
      <3>6. Stable(q \o b)
        BY <3>3, <3>5, StableOn
      <3> QED BY <2>1, <3>4, <3>6
    <2>4. Len(p) = 1 \/ Len(p) = 2
      BY <2>1, SmallNumbers
    <2> QED BY <2>2, <2>3, <2>4
  <1> HIDE DEF x
  <1>3. ASSUME NEW p, NEW s, Full(p), s \in Text, s \in T PROVE p \o s \in T
    <2>1. p \in Text /\ p \o s \in Text /\ s \o x \in Text
      BY <1>0, <1>3, FullIs, Cat
    <2>2. ASSUME Stable(p \o s) PROVE Stable((p \o s) \o x)
      <3>1. Decoded(p, " ", "_") = p /\ Stable(s)
        BY <1>3, <2>2, StableFull
      <3>2. Stable(p \o (s \o x))
        BY <1>3, <2>1, <3>1, StableOn
      <3>3. (p \o s) \o x = p \o (s \o x)
        <4>1. p \in Text /\ s \in Text /\ x \in Text
          BY <1>0, <1>3, <2>1
        <4> HIDE DEF T
        <4> QED BY <4>1, Assoc, ZenonT(40)
      <3> QED BY <3>2, <3>3
    <2> QED BY <2>1, <2>2
  <1>4. \A u \in Text : u \in T
    <2> HIDE DEF T
    <2> QED BY <1>1, <1>2, <1>3, PieceInduction
  <1> QED BY <1>4 DEF x

(* The names on the way down.                                              *)
LEMMA Least ==
  ASSUME NEW S \in SUBSET Nat, S # {}
  PROVE  \E m \in S : \A k \in S : m <= k
  <1> SUFFICES ASSUME ~ \E m \in S : \A k \in S : m <= k PROVE FALSE
    OBVIOUS
  <1> DEFINE T == {n \in Nat : \A k \in S : n <= k}
  <1>1. 0 \in T
    OBVIOUS
  <1>2. ASSUME NEW n \in Nat, n \in T PROVE n + 1 \in T
    <2>1. n \notin S
      BY <1>2
    <2>2. \A k \in S : n <= k /\ k # n
      BY <1>2, <2>1
    <2>3. \A k \in S : n + 1 <= k
      BY <2>2
    <2> QED BY <2>3
  <1>3. \A n \in Nat : n \in T
    <2> HIDE DEF T
    <2> QED BY <1>1, <1>2, SetInduction
  <1>4. PICK k \in S : TRUE
    OBVIOUS
  <1>5. k + 1 \in T
    BY <1>3, <1>4
  <1> QED BY <1>4, <1>5

EndsAt(t, i, j) ==
  /\ j \in i .. Len(t) + 1
  /\ j \in Slashes(t) \/ j = Len(t) + 1
  /\ \A k \in i .. j - 1 : k \notin Slashes(t)

LEMMA EndIs ==
  ASSUME NEW t \in Text, NEW i \in 1 .. Len(t) + 1
  PROVE  EndsAt(t, i, EndOfName(t, i))
  <1>1. Len(t) \in Nat
    BY TextIs
  <1> DEFINE S == {j \in i .. Len(t) + 1 : j \in Slashes(t) \/ j = Len(t) + 1}
  <1>2. S \in SUBSET Nat /\ S # {}
    <2>1. Len(t) + 1 \in S
      BY <1>1
    <2> QED BY <1>1, <2>1
  <1>3. PICK m \in S : \A k \in S : m <= k
    <2> HIDE DEF S
    <2> QED BY <1>2, Least
  <1>4. \A k \in i .. m - 1 : k \notin Slashes(t)
    BY <1>1, <1>3
  <1>5. \E j \in i .. Len(t) + 1 : (j \in Slashes(t) \/ j = Len(t) + 1) /\ \A k \in i .. j - 1 : k \notin Slashes(t)
    BY <1>3, <1>4
  <1> QED BY <1>5 DEF EndOfName, EndsAt

LEMMA EndUnique ==
  ASSUME NEW t \in Text, NEW i \in 1 .. Len(t) + 1, NEW j, EndsAt(t, i, j)
  PROVE  j = EndOfName(t, i)
  <1> DEFINE e == EndOfName(t, i)
  <1>1. EndsAt(t, i, e)
    BY EndIs
  <1>2. Len(t) \in Nat /\ Slashes(t) \subseteq 1 .. Len(t)
    BY TextIs DEF Slashes
  <1> HIDE DEF e
  <1>3. ~(e < j)
    <2> SUFFICES ASSUME e < j PROVE FALSE
      OBVIOUS
    <2>1. e \in i .. j - 1 /\ e # Len(t) + 1
      BY <1>1, <1>2 DEF EndsAt
    <2> QED BY <1>1, <2>1 DEF EndsAt
  <1>4. ~(j < e)
    <2> SUFFICES ASSUME j < e PROVE FALSE
      OBVIOUS
    <2>1. j \in i .. e - 1 /\ j # Len(t) + 1
      BY <1>1, <1>2 DEF EndsAt
    <2> QED BY <1>1, <2>1 DEF EndsAt
  <1>5. e \in Nat /\ j \in Nat
    BY <1>1, <1>2 DEF EndsAt
  <1> QED BY <1>3, <1>4, <1>5 DEF e

LEMMA EndShift ==
  ASSUME NEW a \in Text, NEW r \in Text, NEW i \in 1 .. Len(r)
  PROVE  EndOfName(a \o r, Len(a) + i) = Len(a) + EndOfName(r, i)
  <1> DEFINE c == a \o r
             e == EndOfName(r, i)
             k == Len(a)
  <1>1. /\ c \in Text /\ Len(c) = k + Len(r)
        /\ \A j \in 1 .. Len(r) : c[k + j] = r[j]
    BY Cat
  <1>2. k \in Nat /\ Len(r) \in Nat /\ DOMAIN r = 1 .. Len(r)
    BY TextIs
  <1>3. DOMAIN c = 1 .. k + Len(r)
    BY <1>1, TextIs
  <1>4. EndsAt(r, i, e)
    <2>1. i \in 1 .. Len(r) + 1
      BY <1>2
    <2> QED BY <2>1, EndIs
  <1> HIDE DEF c, e, k
  <1>5. \A j \in 1 .. Len(r) : k + j \in Slashes(c) <=> j \in Slashes(r)
    BY <1>1, <1>2, <1>3 DEF Slashes
  <1>6. e \in i .. Len(r) + 1 /\ (e \in Slashes(r) \/ e = Len(r) + 1) /\ \A j \in i .. e - 1 : j \notin Slashes(r)
    BY <1>4 DEF EndsAt
  <1>7. EndsAt(c, k + i, k + e)
    <2>1. k + e \in k + i .. Len(c) + 1
      BY <1>1, <1>2, <1>6
    <2>2. k + e \in Slashes(c) \/ k + e = Len(c) + 1
      <3>1. CASE e = Len(r) + 1
        BY <1>1, <1>2, <3>1
      <3>2. CASE e # Len(r) + 1
        <4>1. e \in 1 .. Len(r) /\ e \in Slashes(r)
          BY <1>2, <1>6, <3>2
        <4> QED BY <1>5, <4>1
      <3> QED BY <3>1, <3>2
    <2>3. ASSUME NEW x \in k + i .. (k + e) - 1 PROVE x \notin Slashes(c)
      <3> DEFINE j == x - k
      <3>1. j \in i .. e - 1 /\ j \in 1 .. Len(r) /\ x = k + j
        BY <1>2, <1>6
      <3> HIDE DEF j
      <3> QED BY <1>5, <1>6, <3>1
    <2> QED BY <2>1, <2>2, <2>3 DEF EndsAt
  <1>8. k + i \in 1 .. Len(c) + 1
    BY <1>1, <1>2
  <1>9. k + e = EndOfName(c, k + i)
    BY <1>1, <1>7, <1>8, EndUnique
  <1> QED BY <1>9 DEF c, e, k

NoSlash(n) == n \in Text /\ ~Has(n, {"/"})
NameTexts(t) == [i \in DOMAIN t |-> Named(SubSeq(t, i, EndOfName(t, i) - 1))]
NameSkips(t) == [i \in DOMAIN t |-> EndOfName(t, i) + 1]

LEMMA SkipsNames == ASSUME NEW t \in Text PROVE Links(Len(t), NameSkips(t))
  <1>1. DOMAIN t = 1 .. Len(t) /\ Len(t) \in Nat
    BY TextIs
  <1> SUFFICES ASSUME NEW i \in 1 .. Len(t) PROVE NameSkips(t)[i] \in Nat /\ i < NameSkips(t)[i]
    BY DEF Links
  <1>2. i \in 1 .. Len(t) + 1
    BY <1>1
  <1>3. EndOfName(t, i) \in i .. Len(t) + 1
    BY <1>2, EndIs DEF EndsAt
  <1>4. NameSkips(t)[i] = EndOfName(t, i) + 1
    BY <1>1 DEF NameSkips
  <1>5. \A e \in i .. Len(t) + 1 : e + 1 \in Nat /\ i < e + 1
    BY <1>1
  <1> QED BY <1>3, <1>4, <1>5

LEMMA NamesOf == \A t : Names(t) = Chain(Len(t), NameTexts(t), NameSkips(t))
  BY DEF Names, NameTexts, NameSkips

(* The first name ends with the first slash.                               *)
LEMMA FirstEnd ==
  ASSUME NEW n, NoSlash(n), NEW t \in Text
  PROVE  EndOfName(n \o (<<"/">> \o t), 1) = Len(n) + 1
  <1> DEFINE x == <<"/">> \o t
             c == n \o x
  <1>1. n \in Text /\ ~Has(n, {"/"}) /\ Len(n) \in Nat
    BY TextIs DEF NoSlash
  <1>2. x \in Text /\ Len(x) \in Nat /\ 1 \in 1 .. Len(x) /\ x[1] = "/"
    <2>1. x \in Text /\ x # <<>> /\ x[1] = "/"
      BY SlashFull, Cat, FirstOf
    <2> HIDE DEF x
    <2>2. Len(x) \in Nat /\ Len(x) > 0
      BY <2>1, TextIs
    <2> QED BY <2>1, <2>2
  <1> HIDE DEF x
  <1>3. /\ c \in Text /\ Len(c) = Len(n) + Len(x)
        /\ \A i \in 1 .. Len(n) : c[i] = n[i]
        /\ c[Len(n) + 1] = "/"
    BY <1>1, <1>2, Cat
  <1>4. DOMAIN c = 1 .. Len(n) + Len(x) /\ DOMAIN n = 1 .. Len(n)
    BY <1>1, <1>3, TextIs
  <1> HIDE DEF c
  <1>5. Len(n) + 1 \in Slashes(c)
    BY <1>1, <1>2, <1>3, <1>4 DEF Slashes
  <1>6. \A k \in 1 .. Len(n) : k \notin Slashes(c)
    BY <1>1, <1>3, <1>4 DEF Slashes, Has
  <1>7. EndsAt(c, 1, Len(n) + 1)
    <2>1. Len(n) + 1 \in 1 .. Len(c) + 1 /\ (Len(n) + 1) - 1 = Len(n)
      BY <1>1, <1>2, <1>3
    <2> QED BY <1>5, <1>6, <2>1 DEF EndsAt
  <1>8. 1 \in 1 .. Len(c) + 1
    BY <1>1, <1>2, <1>3
  <1> QED BY <1>3, <1>7, <1>8, EndUnique DEF c, x

LEMMA PartBehindToo ==
  ASSUME NEW a \in Text, NEW b \in Text, NEW i \in 1 .. Len(b), NEW j \in i - 1 .. Len(b)
  PROVE  SubSeq(a \o b, Len(a) + i, Len(a) + j) = SubSeq(b, i, j)
  <1>1. Len(a) \in Nat /\ Len(b) \in Nat
    BY TextIs
  <1>2. CASE j = i - 1
    <2>1. SubSeq(b, i, j) = <<>>
      <3>1. \A k \in 1 .. 1 + j - i : FALSE
        BY <1>1, <1>2
      <3> QED BY <1>2, SubSeqEmpty
    <2>2. SubSeq(a \o b, Len(a) + i, Len(a) + j) = <<>>
      <3>1. Len(a) + i \in Nat /\ Len(a) + j \in Int /\ Len(a) + j < Len(a) + i
        BY <1>1, <1>2
      <3> QED BY <3>1, SubSeqEmpty
    <2> QED BY <2>1, <2>2
  <1>3. CASE j # i - 1
    <2>1. j \in 1 .. Len(b)
      BY <1>1, <1>3
    <2> QED BY <2>1, PartBehind
  <1> QED BY <1>2, <1>3

LEMMA NamedIs == \A n \in Text : Named(n) \in Seq(Text)
  <1> SUFFICES ASSUME NEW n \in Text PROVE Named(n) \in Seq(Text)
    OBVIOUS
  <1>1. <<n>> \in Seq(Text)
    BY Single
  <1>2. <<>> \in Seq(Text)
    BY EmptySeq
  <1> QED BY <1>1, <1>2 DEF Named

LEMMA NamesStep ==
  ASSUME NEW n, NoSlash(n), NEW t \in Text
  PROVE  Names(n \o (<<"/">> \o t)) = Named(n) \o Names(t)
  <1> DEFINE a == n \o <<"/">>
             c == a \o t
             k == Len(a)
             m == Len(t)
             f == From(k + m, NameTexts(c), NameSkips(c))
  <1>0. n \in Text
    BY DEF NoSlash
  <1>1. /\ a \in Text /\ k = Len(n) + 1 /\ k \in Nat /\ Len(n) \in Nat /\ m \in Nat
        /\ c = n \o (<<"/">> \o t)
    <2>1. a \in Text /\ k = Len(n) + 1
      BY <1>0, SlashFull, Cat
    <2>2. c = n \o (<<"/">> \o t)
      BY <1>0, SlashFull, Assoc
    <2>3. Len(n) \in Nat /\ m \in Nat
      BY <1>0, TextIs
    <2>4. \A x \in Nat : x + 1 \in Nat
      OBVIOUS
    <2>5. k \in Nat
      BY <2>1, <2>3, <2>4
    <2> QED BY <2>1, <2>2, <2>3, <2>5
  <1> HIDE DEF a
  <1>2. c \in Text /\ Len(c) = k + m
    BY <1>1, Cat
  <1>3. DOMAIN c = 1 .. k + m /\ DOMAIN t = 1 .. m
    <2> HIDE DEF c, m, k
    <2>1. DOMAIN c = 1 .. Len(c)
      BY <1>2, TextIs
    <2>2. DOMAIN t = 1 .. Len(t)
      BY TextIs
    <2> QED BY <1>2, <2>1, <2>2 DEF m
  <1>4. ASSUME NEW i \in 1 .. m
        PROVE  /\ NameTexts(c)[k + i] = NameTexts(t)[i]
               /\ NameSkips(c)[k + i] = k + NameSkips(t)[i]
    <2> DEFINE e == EndOfName(t, i)
    <2>1. EndOfName(c, k + i) = k + e
      BY <1>1, EndShift
    <2>2. e \in i .. m + 1
      <3>1. i \in 1 .. Len(t) + 1
        BY <1>1
      <3> QED BY <3>1, EndIs DEF EndsAt
    <2> HIDE DEF e
    <2>3. e - 1 \in i - 1 .. m /\ (k + e) - 1 = k + (e - 1) /\ (k + e) + 1 = k + (e + 1)
          /\ k + i \in 1 .. k + m
      BY <1>1, <2>2
    <2>4. SubSeq(c, k + i, k + (e - 1)) = SubSeq(t, i, e - 1)
      BY <1>1, <2>3, PartBehindToo
    <2>5. NameTexts(c)[k + i] = Named(SubSeq(c, k + i, (k + e) - 1))
      BY <1>3, <2>1, <2>3 DEF NameTexts
    <2>6. NameTexts(t)[i] = Named(SubSeq(t, i, e - 1))
      BY <1>3 DEF NameTexts, e
    <2>7. NameSkips(c)[k + i] = (k + e) + 1
      BY <1>3, <2>1, <2>3 DEF NameSkips
    <2>8. NameSkips(t)[i] = e + 1
      BY <1>3 DEF NameSkips, e
    <2> QED BY <2>3, <2>4, <2>5, <2>6, <2>7, <2>8
  <1>5. Links(m, NameSkips(t)) /\ Links(k + m, NameSkips(c))
    <2>1. Links(m, NameSkips(t))
      BY SkipsNames
    <2>2. Links(Len(c), NameSkips(c))
      BY <1>2, SkipsNames
    <2> QED BY <1>2, <2>1, <2>2
  <1>6. Names(t) = Chain(m, NameTexts(t), NameSkips(t)) /\ Names(c) = Chain(k + m, NameTexts(c), NameSkips(c))
    BY <1>2, NamesOf
  <1>7. NameTexts(c)[1] = Named(n) /\ NameSkips(c)[1] = k + 1
    <2>1. EndOfName(c, 1) = k
      BY <1>1, FirstEnd
    <2>2. 1 \in DOMAIN c /\ k - 1 = Len(n)
      BY <1>1, <1>3
    <2>3. SubSeq(c, 1, Len(n)) = n
      <3>1. <<"/">> \o t \in Text
        BY SlashFull, Cat
      <3> QED BY <1>0, <1>1, <3>1, Parts
    <2> QED BY <2>1, <2>2, <2>3 DEF NameTexts, NameSkips
  <1> HIDE DEF c, k, m
  <1>8. f[k + 1] = Names(t)
    <2>1. Behind(k, m, NameTexts(t), NameSkips(t), NameTexts(c), NameSkips(c))
      BY <1>4, <1>5 DEF Behind
    <2>2. k \in Nat /\ m \in Nat
      BY <1>1
    <2>3. Shifts(k, m, NameTexts(t), NameSkips(t), NameTexts(c), NameSkips(c))
      BY <2>1, <2>2, ChainShift, Zenon
    <2> QED BY <1>6, <2>3 DEF Shifts
  <1>9. Names(c) = f[1] /\ Follows(k + m, NameTexts(c), NameSkips(c), f)
    <2>1. k + m \in Nat
      BY <1>1
    <2> QED BY <1>5, <1>6, <2>1, ChainIs
  <1>10. f[1] = NameTexts(c)[1] \o f[NameSkips(c)[1]]
    <2>1. 1 \in 1 .. k + m
      BY <1>1
    <2> QED BY <1>9, <2>1, Zenon DEF Follows
  <1> QED BY <1>1, <1>7, <1>8, <1>9, <1>10

LEMMA NamesOne ==
  ASSUME NEW n, NoSlash(n)
  PROVE  Names(n) = Named(n)
  <1> DEFINE m == Len(n)
             f == From(m, NameTexts(n), NameSkips(n))
  <1>1. n \in Text /\ ~Has(n, {"/"}) /\ m \in Nat /\ DOMAIN n = 1 .. m
    BY TextIs DEF NoSlash
  <1>2. Names(n) = f[1] /\ Follows(m, NameTexts(n), NameSkips(n), f)
    <2>1. Links(m, NameSkips(n))
      BY <1>1, SkipsNames
    <2> QED BY <1>1, <2>1, NamesOf, ChainIs
  <1>3. CASE m = 0
    <2>1. n = <<>>
      BY <1>1, <1>3, TextIs
    <2>2. 1 \in Nat /\ 1 \notin 1 .. m
      BY <1>3
    <2>3. f[1] = <<>>
      BY <1>2, <2>2, Zenon DEF Follows
    <2> QED BY <1>2, <2>1, <2>3 DEF Named
  <1>4. CASE m # 0
    <2>1. 1 \in 1 .. m /\ 1 \in 1 .. m + 1
      BY <1>1, <1>4
    <2>2. EndOfName(n, 1) = m + 1
      <3>1. EndsAt(n, 1, m + 1)
        <4>1. m + 1 \in 1 .. Len(n) + 1 /\ (m + 1) - 1 = m
          BY <1>1
        <4>2. \A k \in 1 .. m : k \notin Slashes(n)
          BY <1>1 DEF Has, Slashes
        <4> QED BY <4>1, <4>2 DEF EndsAt
      <3> QED BY <1>1, <2>1, <3>1, EndUnique
    <2>3. (m + 1) - 1 = m /\ (m + 1) + 1 \in Nat /\ (m + 1) + 1 \notin 1 .. m
      BY <1>1
    <2>4. NameTexts(n)[1] = Named(SubSeq(n, 1, m)) /\ NameSkips(n)[1] = (m + 1) + 1
      BY <1>1, <2>1, <2>2, <2>3 DEF NameTexts, NameSkips
    <2>5. SubSeq(n, 1, m) = n
      BY <1>1, SubSeqFull DEF Text
    <2> HIDE DEF f, m
    <2>6. f[(m + 1) + 1] = <<>>
      BY <1>2, <2>3, Zenon DEF Follows
    <2>7. f[1] = NameTexts(n)[1] \o f[NameSkips(n)[1]]
      BY <1>2, <2>1, Zenon DEF Follows
    <2>8. Named(n) \o <<>> = Named(n)
      BY <1>1, NamedIs, ConcatEmptySeq
    <2> QED BY <1>2, <2>4, <2>5, <2>6, <2>7, <2>8
  <1> QED BY <1>3, <1>4

(* Every text is a name, or a name, a slash and what is behind it.         *)
LEMMA TakesName ==
  ASSUME NEW u \in Text
  PROVE  \/ NoSlash(u)
         \/ \E n, t \in Text : NoSlash(n) /\ u = n \o (<<"/">> \o t) /\ Len(t) < Len(u)
  <1> DEFINE e == EndOfName(u, 1)
  <1>1. Len(u) \in Nat /\ DOMAIN u = 1 .. Len(u)
    BY TextIs
  <1>2. /\ e \in 1 .. Len(u) + 1 /\ (e \in Slashes(u) \/ e = Len(u) + 1)
        /\ \A k \in 1 .. e - 1 : k \notin Slashes(u)
    <2>1. 1 \in 1 .. Len(u) + 1
      BY <1>1
    <2> QED BY <2>1, EndIs DEF EndsAt
  <1> HIDE DEF e
  <1>3. CASE e = Len(u) + 1
    <2>1. \A k \in 1 .. Len(u) : u[k] # "/"
      <3>1. e - 1 = Len(u)
        BY <1>1, <1>3
      <3> QED BY <1>1, <1>2, <3>1 DEF Slashes
    <2> QED BY <1>1, <2>1 DEF NoSlash, Has
  <1>4. CASE e # Len(u) + 1
    <2>1. e \in 1 .. Len(u) /\ u[e] = "/" /\ e - 1 \in 0 .. Len(u) /\ (e - 1) + 1 = e
      BY <1>1, <1>2, <1>4 DEF Slashes
    <2>2. PICK n, x \in Text : Len(n) = e - 1 /\ Len(x) = Len(u) - (e - 1) /\ u = n \o x
      BY <2>1, Split, ZenonT(40)
    <2>3. Len(x) \in Nat /\ 1 \in 1 .. Len(x) /\ Len(n) + 1 = e /\ 1 \in 0 .. Len(x) /\ 1 + 1 = 2
      BY <1>1, <2>1, <2>2
    <2>4. x[1] = "/" /\ \A k \in 1 .. Len(n) : n[k] = u[k]
      BY <2>1, <2>2, <2>3, Cat
    <2>5. PICK t \in Text : x = <<"/">> \o t /\ Len(x) = Len(t) + 1
      <3>1. x # <<>>
        BY <2>3, EmptySeq
      <3> QED BY <2>4, <3>1, TakesChar
    <2>7. NoSlash(n)
      <3>1. DOMAIN n = 1 .. e - 1
        BY <2>2, TextIs
      <3>2. \A k \in 1 .. e - 1 : n[k] # "/"
        BY <1>1, <1>2, <2>1, <2>2, <2>4 DEF Slashes
      <3> QED BY <3>1, <3>2 DEF NoSlash, Has
    <2>8. Len(t) < Len(u)
      <3>1. Len(t) \in Nat
        BY TextIs
      <3> QED BY <1>1, <2>1, <2>2, <2>5, <3>1
    <2> QED BY <2>2, <2>5, <2>7, <2>8
  <1> QED BY <1>3, <1>4

LEMMA NameInduction ==
  ASSUME NEW T, \A n : NoSlash(n) => n \in T,
         \A n, t : NoSlash(n) /\ t \in Text /\ t \in T => n \o (<<"/">> \o t) \in T
  PROVE  \A u \in Text : u \in T
  <1> DEFINE G == {n \in Nat : \A u \in Text : Len(u) < n => u \in T}
  <1>1. 0 \in G
    <2> SUFFICES ASSUME NEW u \in Text, Len(u) < 0 PROVE FALSE
      OBVIOUS
    <2> QED BY TextIs
  <1>2. ASSUME NEW n \in Nat, n \in G PROVE n + 1 \in G
    <2> SUFFICES ASSUME NEW u \in Text, Len(u) < n + 1 PROVE u \in T
      OBVIOUS
    <2>1. CASE NoSlash(u)
      BY <2>1
    <2>2. CASE ~NoSlash(u)
      <3>1. PICK name, r \in Text : NoSlash(name) /\ u = name \o (<<"/">> \o r) /\ Len(r) < Len(u)
        BY <2>2, TakesName
      <3>2. Len(r) \in Nat /\ Len(u) \in Nat
        BY TextIs
      <3>3. Len(r) < n
        BY <3>1, <3>2
      <3>4. r \in T
        BY <1>2, <3>3
      <3> QED BY <3>1, <3>4
    <2> QED BY <2>1, <2>2
  <1>3. \A n \in Nat : n \in G
    <2> HIDE DEF G
    <2> QED BY <1>1, <1>2, SetInduction
  <1> SUFFICES ASSUME NEW u \in Text PROVE u \in T
    OBVIOUS
  <1>4. Len(u) \in Nat
    BY TextIs
  <1>5. Len(u) + 1 \in G /\ Len(u) < Len(u) + 1
    BY <1>3, <1>4
  <1> QED BY <1>5

LEMMA EmptyIs == NoSlash(<<>>) /\ Named(<<>>) = <<>> /\ Names(<<>>) = <<>>
  <1>1. NoSlash(<<>>)
    BY EmptyText, HasNothing DEF NoSlash
  <1>2. Named(<<>>) = <<>>
    BY DEF Named
  <1> QED BY <1>1, <1>2, NamesOne

LEMMA SeqParts ==
  ASSUME NEW Y, NEW X, NEW a \in Seq(Y), NEW b \in Seq(Y)
  PROVE  a \o b \in Seq(X) <=> a \in Seq(X) /\ b \in Seq(X)
  <1> DEFINE c == a \o b
  <1>1. /\ c \in Seq(Y) /\ Len(c) = Len(a) + Len(b) /\ Len(a) \in Nat /\ Len(b) \in Nat
        /\ \A i \in 1 .. Len(a) + Len(b) : c[i] = IF i <= Len(a) THEN a[i] ELSE b[i - Len(a)]
    BY ConcatProperties, LenProperties
  <1> HIDE DEF c
  <1>2. ASSUME c \in Seq(X) PROVE a \in Seq(X) /\ b \in Seq(X)
    <2>1. \A i \in 1 .. Len(c) : c[i] \in X
      BY <1>2, ElementOfSeq
    <2>2. ASSUME NEW i \in 1 .. Len(a) PROVE a[i] \in X
      <3>1. i \in 1 .. Len(a) + Len(b) /\ i <= Len(a)
        BY <1>1
      <3>2. c[i] = a[i]
        BY <1>1, <3>1
      <3> QED BY <1>1, <2>1, <3>1, <3>2
    <2>3. ASSUME NEW i \in 1 .. Len(b) PROVE b[i] \in X
      <3>1. Len(a) + i \in 1 .. Len(a) + Len(b) /\ ~(Len(a) + i <= Len(a)) /\ (Len(a) + i) - Len(a) = i
        BY <1>1
      <3>2. c[Len(a) + i] = b[i]
        BY <1>1, <3>1
      <3> QED BY <1>1, <2>1, <3>1, <3>2
    <2> QED BY <2>2, <2>3, SeqDef
  <1>3. ASSUME a \in Seq(X), b \in Seq(X) PROVE c \in Seq(X)
    BY <1>3, ConcatProperties DEF c
  <1> QED BY <1>2, <1>3 DEF c

LEMMA NamesSeq == \A t \in Text : Names(t) \in Seq(Text)
  <1> DEFINE T == {t \in Text : Names(t) \in Seq(Text)}
  <1>1. ASSUME NEW n, NoSlash(n) PROVE n \in T
    BY <1>1, NamesOne, NamedIs DEF NoSlash
  <1>2. ASSUME NEW n, NEW t, NoSlash(n), t \in Text, t \in T PROVE n \o (<<"/">> \o t) \in T
    <2>1. n \in Text /\ <<"/">> \o t \in Text
      BY <1>2, SlashFull, Cat DEF NoSlash
    <2>2. n \o (<<"/">> \o t) \in Text
      BY <2>1, Cat
    <2>3. Named(n) \o Names(t) \in Seq(Text)
      BY <1>2, <2>1, NamedIs, ConcatProperties
    <2>4. Names(n \o (<<"/">> \o t)) = Named(n) \o Names(t)
      BY <1>2, NamesStep
    <2> QED BY <2>2, <2>3, <2>4
  <1>3. \A t \in Text : t \in T
    <2> HIDE DEF T
    <2> QED BY <1>1, <1>2, NameInduction
  <1> QED BY <1>3

Proper(avoid) == {n \in Text \ {<<>>, <<".">>} : ~Has(n, {"/"}) /\ ~Has(n, avoid)}

LEMMA NamesProper ==
  ASSUME NEW avoid
  PROVE  \A t \in Text : ~Has(t, avoid) => Names(t) \in Seq(Proper(avoid))
  <1> DEFINE T == {t \in Text : ~Has(t, avoid) => Names(t) \in Seq(Proper(avoid))}
  <1>0. ASSUME NEW n, NoSlash(n), ~Has(n, avoid) PROVE Named(n) \in Seq(Proper(avoid))
    <2>1. CASE n \in {<<>>, <<".">>}
      <3>1. Named(n) = <<>>
        BY <2>1 DEF Named
      <3> QED BY <3>1, EmptySeq
    <2>2. CASE n \notin {<<>>, <<".">>}
      <3>1. n \in Proper(avoid)
        BY <1>0, <2>2 DEF Proper, NoSlash
      <3>2. Named(n) = <<n>>
        BY <2>2 DEF Named
      <3> QED BY <3>1, <3>2, Single
    <2> QED BY <2>1, <2>2
  <1>1. ASSUME NEW n, NoSlash(n) PROVE n \in T
    BY <1>0, <1>1, NamesOne DEF NoSlash
  <1>2. ASSUME NEW n, NEW t, NoSlash(n), t \in Text, t \in T PROVE n \o (<<"/">> \o t) \in T
    <2>1. n \in Text /\ <<"/">> \o t \in Text
      BY <1>2, SlashFull, Cat DEF NoSlash
    <2>2. n \o (<<"/">> \o t) \in Text
      BY <2>1, Cat
    <2>3. ASSUME ~Has(n \o (<<"/">> \o t), avoid) PROVE Named(n) \o Names(t) \in Seq(Proper(avoid))
      <3>1. ~Has(n, avoid) /\ ~Has(<<"/">> \o t, avoid)
        BY <2>1, <2>3, HasCat
      <3>2. ~Has(t, avoid)
        BY <1>2, <3>1, SlashFull, HasCat
      <3>3. Named(n) \in Seq(Proper(avoid)) /\ Names(t) \in Seq(Proper(avoid))
        BY <1>0, <1>2, <3>1, <3>2
      <3> QED BY <3>3, ConcatProperties
    <2>4. Names(n \o (<<"/">> \o t)) = Named(n) \o Names(t)
      BY <1>2, NamesStep
    <2> QED BY <2>2, <2>3, <2>4
  <1>3. \A t \in Text : t \in T
    <2> HIDE DEF T
    <2> QED BY <1>1, <1>2, NameInduction
  <1> QED BY <1>3

LEMMA NamesCat == \A s, t \in Text : Names(s \o (<<"/">> \o t)) = Names(s) \o Names(t)
  <1> DEFINE T == {s \in Text : \A t \in Text : Names(s \o (<<"/">> \o t)) = Names(s) \o Names(t)}
  <1>1. ASSUME NEW n, NoSlash(n) PROVE n \in T
    <2>1. n \in Text
      BY <1>1 DEF NoSlash
    <2>2. Names(n) = Named(n)
      BY <1>1, NamesOne
    <2> QED BY <1>1, <2>1, <2>2, NamesStep
  <1>2. ASSUME NEW n, NEW s, NoSlash(n), s \in Text, s \in T PROVE n \o (<<"/">> \o s) \in T
    <2>1. n \in Text /\ <<"/">> \o s \in Text
      BY <1>2, SlashFull, Cat DEF NoSlash
    <2>2. n \o (<<"/">> \o s) \in Text
      BY <2>1, Cat
    <2>3. ASSUME NEW t \in Text
          PROVE  Names((n \o (<<"/">> \o s)) \o (<<"/">> \o t)) = Names(n \o (<<"/">> \o s)) \o Names(t)
      <3> DEFINE x == <<"/">> \o t
      <3>1. x \in Text
        BY SlashFull, Cat
      <3>2. s \o x \in Text /\ Names(s \o x) = Names(s) \o Names(t)
        BY <1>2, <2>3, <3>1, Cat
      <3> HIDE DEF x
      <3>3. (n \o (<<"/">> \o s)) \o x = n \o (<<"/">> \o (s \o x))
        <4>1. (n \o (<<"/">> \o s)) \o x = n \o ((<<"/">> \o s) \o x)
          BY <2>1, <3>1, Assoc, ZenonT(40)
        <4>2. (<<"/">> \o s) \o x = <<"/">> \o (s \o x)
          BY <1>2, <3>1, SlashFull, Assoc, Zenon
        <4> QED BY <4>1, <4>2
      <3>4. Names(n \o (<<"/">> \o (s \o x))) = Named(n) \o Names(s \o x)
        BY <1>2, <3>2, NamesStep
      <3>5. Names(n \o (<<"/">> \o s)) = Named(n) \o Names(s)
        BY <1>2, NamesStep
      <3>6. Named(n) \o (Names(s) \o Names(t)) = (Named(n) \o Names(s)) \o Names(t)
        <4>1. Named(n) \in Seq(Text) /\ Names(s) \in Seq(Text) /\ Names(t) \in Seq(Text)
          BY <1>2, <2>1, <2>3, NamedIs, NamesSeq
        <4> QED BY <4>1, ConcatAssociative
      <3> QED BY <3>2, <3>3, <3>4, <3>5, <3>6 DEF x
    <2> QED BY <2>2, <2>3
  <1>3. \A s \in Text : s \in T
    <2> HIDE DEF T
    <2> QED BY <1>1, <1>2, NameInduction
  <1> QED BY <1>3

EscapedTexts == {n \in Text : Escaped(n)}
LEMMA NamesEscaped == \A t \in Text : Names(t) \in Seq(EscapedTexts) => Escaped(t)
  <1> DEFINE T == {t \in Text : Names(t) \in Seq(EscapedTexts) => Escaped(t)}
  <1>0. ASSUME NEW n, NoSlash(n), Named(n) \in Seq(EscapedTexts) PROVE Escaped(n)
    <2>1. CASE n = <<>>
      BY <2>1, EscapedPlain, EmptyText, HasNothing
    <2>2. CASE n = <<".">>
      <3>1. ~Has(n, {"%"})
        BY <2>2, HasOne
      <3> QED BY <1>0, <3>1, EscapedPlain DEF NoSlash
    <2>3. CASE n \notin {<<>>, <<".">>}
      <3>1. <<n>> \in Seq(EscapedTexts)
        BY <1>0, <2>3 DEF Named
      <3>2. n \in EscapedTexts
        <4>1. Len(<<n>>) = 1 /\ <<n>>[1] = n
          OBVIOUS
        <4> QED BY <3>1, <4>1, ElementOfSeq, SmallNumbers
      <3> QED BY <3>2 DEF EscapedTexts
    <2> QED BY <2>1, <2>2, <2>3
  <1>1. ASSUME NEW n, NoSlash(n) PROVE n \in T
    BY <1>0, <1>1, NamesOne DEF NoSlash
  <1>2. ASSUME NEW n, NEW t, NoSlash(n), t \in Text, t \in T PROVE n \o (<<"/">> \o t) \in T
    <2>1. n \in Text /\ <<"/">> \o t \in Text
      BY <1>2, SlashFull, Cat DEF NoSlash
    <2>2. n \o (<<"/">> \o t) \in Text
      BY <2>1, Cat
    <2>3. ASSUME Names(n \o (<<"/">> \o t)) \in Seq(EscapedTexts) PROVE Escaped(n \o (<<"/">> \o t))
      <3>1. Named(n) \o Names(t) \in Seq(EscapedTexts)
        BY <1>2, <2>3, NamesStep
      <3>2. Named(n) \in Seq(Text) /\ Names(t) \in Seq(Text)
        BY <1>2, <2>1, NamedIs, NamesSeq
      <3>3. Named(n) \in Seq(EscapedTexts) /\ Names(t) \in Seq(EscapedTexts)
        BY <3>1, <3>2, SeqParts
      <3>4. Escaped(n) /\ Escaped(t)
        BY <1>0, <1>2, <3>3
      <3>5. Escaped(<<"/">>)
        <4>1. ~Has(<<"/">>, {"%"})
          BY HasOne
        <4> QED BY <4>1, EscapedPlain, SlashFull
      <3>6. Escaped(<<"/">> \o t)
        BY <1>2, <3>4, <3>5, SlashFull, EscapedCat
      <3> QED BY <2>1, <3>4, <3>6, EscapedCat
    <2> QED BY <2>2, <2>3
  <1>3. \A t \in Text : t \in T
    <2> HIDE DEF T
    <2> QED BY <1>1, <1>2, NameInduction
  <1> QED BY <1>3

-----------------------------------------------------------------------------
(* Paths: the last name, what is above it, and a name put below.           *)
Down(a, b) == a \o (<<"/">> \o b)

LEMMA DownIs ==
  ASSUME NEW a \in Text, NEW b \in Text
  PROVE  /\ Down(a, b) \in Text /\ Len(Down(a, b)) = Len(a) + 1 + Len(b)
         /\ Down(a, b)[Len(a) + 1] = "/" /\ Down(a, b) # <<>>
         /\ \A i \in 1 .. Len(b) : Down(a, b)[Len(a) + 1 + i] = b[i]
         /\ \A i \in 1 .. Len(a) : Down(a, b)[i] = a[i]
         /\ SubSeq(Down(a, b), 1, Len(a)) = a
         /\ SubSeq(Down(a, b), Len(a) + 1 + 1, Len(Down(a, b))) = b
  <1> DEFINE x == <<"/">> \o b
             c == a \o x
  <1>1. x \in Text /\ Len(x) = 1 + Len(b) /\ x[1] = "/" /\ \A i \in 1 .. Len(b) : x[1 + i] = b[i]
    BY SlashFull, Cat, FirstOf, ZenonT(40)
  <1>2. Len(a) \in Nat /\ Len(b) \in Nat
    BY TextIs
  <1> HIDE DEF x
  <1>3. /\ c \in Text /\ Len(c) = Len(a) + Len(x)
        /\ \A i \in 1 .. Len(x) : c[Len(a) + i] = x[i]
        /\ \A i \in 1 .. Len(a) : c[i] = a[i]
        /\ SubSeq(c, 1, Len(a)) = a
    BY <1>1, Cat, Parts
  <1> DEFINE y == a \o <<"/">>
  <1>4. y \in Text /\ Len(y) = Len(a) + 1
    BY SlashFull, Cat
  <1>5. y \o b = c
    BY SlashFull, Assoc DEF x
  <1>6. SubSeq(c, Len(a) + 1 + 1, Len(c)) = b
    <2> HIDE DEF y, c
    <2>1. SubSeq(y \o b, Len(y) + 1, Len(y \o b)) = b
      BY <1>4, Parts
    <2> QED BY <1>4, <1>5, <2>1
  <1> HIDE DEF c
  <1>7. Len(c) = Len(a) + 1 + Len(b) /\ 1 \in 1 .. Len(x)
        /\ \A i \in 1 .. Len(b) : 1 + i \in 1 .. Len(x) /\ Len(a) + 1 + i = Len(a) + (1 + i)
    BY <1>1, <1>2, <1>3
  <1>8. c[Len(a) + 1] = "/" /\ \A i \in 1 .. Len(b) : c[Len(a) + 1 + i] = b[i]
    BY <1>1, <1>3, <1>7
  <1>9. c # <<>>
    <2>1. Len(c) # 0
      BY <1>2, <1>7
    <2> QED BY <2>1, EmptySeq
  <1> QED BY <1>3, <1>6, <1>7, <1>8, <1>9 DEF Down, c, x

LEMMA TakesLast ==
  \A u \in Text : NoSlash(u) \/ \E a, b \in Text : NoSlash(b) /\ u = Down(a, b)
  <1> DEFINE T == {u \in Text : NoSlash(u) \/ \E a, b \in Text : NoSlash(b) /\ u = Down(a, b)}
  <1>1. ASSUME NEW n, NoSlash(n) PROVE n \in T
    BY <1>1 DEF NoSlash
  <1>2. ASSUME NEW n, NEW t, NoSlash(n), t \in Text, t \in T PROVE n \o (<<"/">> \o t) \in T
    <2>1. n \in Text
      BY <1>2 DEF NoSlash
    <2>2. n \o (<<"/">> \o t) = Down(n, t) /\ Down(n, t) \in Text
      BY <1>2, <2>1, DownIs DEF Down
    <2>3. CASE NoSlash(t)
      BY <1>2, <2>1, <2>2, <2>3
    <2>4. CASE ~NoSlash(t)
      <3>1. PICK a, b \in Text : NoSlash(b) /\ t = Down(a, b)
        BY <1>2, <2>4
      <3>2. Down(n, a) \in Text
        BY <2>1, <3>1, DownIs
      <3>3. n \o (<<"/">> \o t) = Down(Down(n, a), b)
        <4>1. <<"/">> \o b \in Text /\ <<"/">> \o a \in Text
          BY <3>1, SlashFull, Cat
        <4>2. <<"/">> \o (a \o (<<"/">> \o b)) = (<<"/">> \o a) \o (<<"/">> \o b)
          BY <3>1, <4>1, SlashFull, Assoc, ZenonT(40)
        <4>3. n \o ((<<"/">> \o a) \o (<<"/">> \o b)) = (n \o (<<"/">> \o a)) \o (<<"/">> \o b)
          BY <2>1, <4>1, Assoc, Zenon
        <4> QED BY <3>1, <4>2, <4>3 DEF Down
      <3> QED BY <2>2, <3>1, <3>2, <3>3
    <2> QED BY <2>3, <2>4
  <1>3. \A u \in Text : u \in T
    <2> HIDE DEF T
    <2> QED BY <1>1, <1>2, NameInduction
  <1> QED BY <1>3

LEMMA CutNone == \A b : NoSlash(b) => Slashes(b) = {} /\ Cut(b) = 0
  BY DEF NoSlash, Has, Slashes, Cut

LEMMA CutDown ==
  ASSUME NEW a \in Text, NEW b, NoSlash(b)
  PROVE  Cut(Down(a, b)) = Len(a) + 1
  <1> DEFINE c == Down(a, b)
  <1>1. b \in Text /\ ~Has(b, {"/"})
    BY DEF NoSlash
  <1>2. Len(a) \in Nat /\ Len(b) \in Nat /\ DOMAIN b = 1 .. Len(b)
    BY <1>1, TextIs
  <1>3. /\ c \in Text /\ Len(c) = Len(a) + 1 + Len(b) /\ c[Len(a) + 1] = "/"
        /\ \A i \in 1 .. Len(b) : c[Len(a) + 1 + i] = b[i]
    BY <1>1, DownIs
  <1> HIDE DEF c
  <1>4. DOMAIN c = 1 .. Len(c)
    BY <1>3, TextIs
  <1>5. Len(a) + 1 \in Slashes(c)
    BY <1>2, <1>3, <1>4 DEF Slashes
  <1>6. ASSUME NEW j \in Slashes(c) PROVE j <= Len(a) + 1
    <2> SUFFICES ASSUME ~(j <= Len(a) + 1) PROVE FALSE
      OBVIOUS
    <2> DEFINE i == j - (Len(a) + 1)
    <2>1. j \in 1 .. Len(c) /\ c[j] = "/"
      BY <1>4 DEF Slashes
    <2>2. i \in 1 .. Len(b) /\ j = Len(a) + 1 + i
      BY <1>2, <1>3, <2>1
    <2> HIDE DEF i
    <2>3. b[i] = "/"
      BY <1>3, <2>1, <2>2
    <2> QED BY <1>1, <1>2, <2>2, <2>3 DEF Has
  <1>7. Slashes(c) # {}
    BY <1>5
  <1> DEFINE m == CHOOSE i \in Slashes(c) : \A j \in Slashes(c) : j <= i
  <1>8. m \in Slashes(c) /\ \A j \in Slashes(c) : j <= m
    BY <1>5, <1>6
  <1>9. m \in Nat
    BY <1>3, <1>4, <1>8 DEF Slashes
  <1>10. Cut(c) = m
    BY <1>7 DEF Cut
  <1> HIDE DEF m
  <1>11. m <= Len(a) + 1 /\ Len(a) + 1 <= m
    BY <1>5, <1>6, <1>8
  <1>12. m = Len(a) + 1
    BY <1>2, <1>9, <1>11
  <1> QED BY <1>10, <1>12 DEF c

LEMMA FilenameOne == \A b : NoSlash(b) => Filename(b) = b
  <1> SUFFICES ASSUME NEW b, NoSlash(b) PROVE Filename(b) = b
    OBVIOUS
  <1>1. b \in Text /\ Len(b) \in Nat /\ b # <<"/">>
    BY TextIs, HasOne DEF NoSlash
  <1>2. Cut(b) = 0
    BY CutNone
  <1>3. b # <<>> => Cut(b) # Len(b)
    BY <1>1, <1>2, TextIs
  <1>4. SubSeq(b, 0 + 1, Len(b)) = b
    BY <1>1, SubSeqFull DEF Text
  <1> QED BY <1>1, <1>2, <1>3, <1>4 DEF Filename

LEMMA FilenameDown ==
  ASSUME NEW a \in Text, NEW b, NoSlash(b)
  PROVE  Filename(Down(a, b)) = IF b # <<>> THEN b ELSE IF a = <<>> THEN <<"/">> ELSE <<".">>
  <1> DEFINE c == Down(a, b)
  <1>1. b \in Text /\ Len(a) \in Nat /\ Len(b) \in Nat /\ (b # <<>> => Len(b) > 0) /\ (a # <<>> => Len(a) > 0)
    BY TextIs DEF NoSlash
  <1>2. /\ c \in Text /\ c # <<>> /\ Len(c) = Len(a) + 1 + Len(b)
        /\ SubSeq(c, Len(a) + 1 + 1, Len(c)) = b
    BY <1>1, DownIs
  <1>3. Cut(c) = Len(a) + 1
    BY CutDown
  <1>4. CASE b # <<>>
    <2>1. Len(c) # 1 /\ Cut(c) # Len(c)
      BY <1>1, <1>2, <1>3, <1>4
    <2>2. c # <<"/">>
      BY <2>1, SlashFull
    <2> HIDE DEF c
    <2>3. Filename(c) = b
      BY <1>2, <1>3, <2>1, <2>2 DEF Filename
    <2> QED BY <1>4, <2>3 DEF c
  <1>5. CASE b = <<>> /\ a # <<>>
    <2>1. Len(c) # 1 /\ Cut(c) = Len(c)
      BY <1>1, <1>2, <1>3, <1>5, EmptyText, TextIs
    <2>2. c # <<"/">>
      BY <2>1, SlashFull
    <2> HIDE DEF c
    <2>3. Filename(c) = <<".">>
      BY <1>2, <2>1, <2>2 DEF Filename
    <2> QED BY <1>5, <2>3 DEF c
  <1>6. CASE b = <<>> /\ a = <<>>
    <2>1. c = <<"/">>
      BY <1>6, SlashFull, TextIs DEF Down
    <2>2. Filename(c) = <<"/">>
      BY <2>1 DEF Filename
    <2> QED BY <1>6, <2>2
  <1> QED BY <1>4, <1>5, <1>6

LEMMA ParentOne == \A b : NoSlash(b) => ParentPath(b) = <<>>
  <1> SUFFICES ASSUME NEW b, NoSlash(b) PROVE ParentPath(b) = <<>>
    OBVIOUS
  <1>1. b # <<"/">> /\ Cut(b) = 0
    BY HasOne, CutNone DEF NoSlash
  <1>2. SubSeq(b, 1, 0 - 1) = <<>>
    BY SubSeqEmpty
  <1> QED BY <1>1, <1>2 DEF ParentPath

LEMMA ParentDown ==
  ASSUME NEW a \in Text, NEW b, NoSlash(b)
  PROVE  ParentPath(Down(a, b)) = IF a # <<>> THEN a ELSE IF b = <<>> THEN <<>> ELSE <<"/">>
  <1> DEFINE c == Down(a, b)
  <1>1. b \in Text /\ Len(a) \in Nat /\ Len(b) \in Nat /\ (b # <<>> => Len(b) > 0) /\ (a # <<>> => Len(a) > 0)
    BY TextIs DEF NoSlash
  <1>2. /\ c \in Text /\ Len(c) = Len(a) + 1 + Len(b) /\ SubSeq(c, 1, Len(a)) = a
    BY <1>1, DownIs
  <1>3. Cut(c) = Len(a) + 1 /\ (Len(a) + 1) - 1 = Len(a)
    BY <1>1, CutDown
  <1>4. CASE a # <<>>
    <2>1. Len(c) # 1 /\ Cut(c) # 1
      BY <1>1, <1>2, <1>3, <1>4
    <2>2. c # <<"/">>
      BY <2>1, SlashFull
    <2> HIDE DEF c
    <2>3. ParentPath(c) = a
      BY <1>2, <1>3, <2>1, <2>2 DEF ParentPath
    <2> QED BY <1>4, <2>3 DEF c
  <1>5. CASE a = <<>> /\ b # <<>>
    <2>0. Len(a) = 0
      BY <1>5, EmptySeq
    <2>1. Len(c) # 1 /\ Cut(c) = 1
      BY <1>1, <1>2, <1>3, <1>5, <2>0
    <2>2. c # <<"/">>
      BY <2>1, SlashFull
    <2> HIDE DEF c
    <2>3. ParentPath(c) = <<"/">>
      BY <2>1, <2>2 DEF ParentPath
    <2> QED BY <1>5, <2>3 DEF c
  <1>6. CASE b = <<>> /\ a = <<>>
    <2>1. c = <<"/">>
      BY <1>6, SlashFull, TextIs DEF Down
    <2>2. ParentPath(c) = <<>>
      BY <2>1 DEF ParentPath
    <2> QED BY <1>6, <2>2
  <1> QED BY <1>4, <1>5, <1>6

LEMMA LastDown ==
  ASSUME NEW a \in Text, NEW b, NoSlash(b)
  PROVE  Last(Down(a, b)) = "/" <=> b = <<>>
  <1> DEFINE c == Down(a, b)
  <1>1. b \in Text /\ ~Has(b, {"/"}) /\ Len(a) \in Nat /\ Len(b) \in Nat /\ DOMAIN b = 1 .. Len(b)
        /\ (b # <<>> => Len(b) > 0)
    BY TextIs DEF NoSlash
  <1>2. /\ Len(c) = Len(a) + 1 + Len(b) /\ c[Len(a) + 1] = "/"
        /\ \A i \in 1 .. Len(b) : c[Len(a) + 1 + i] = b[i]
    BY <1>1, DownIs
  <1> HIDE DEF c
  <1>3. Last(c) = c[Len(c)]
    BY DEF Last
  <1>4. CASE b = <<>>
    <2>1. Len(c) = Len(a) + 1
      BY <1>1, <1>2, <1>4, EmptySeq
    <2> QED BY <1>2, <1>3, <1>4, <2>1 DEF c
  <1>5. CASE b # <<>>
    <2>1. Len(b) \in 1 .. Len(b)
      BY <1>1, <1>5
    <2>2. b[Len(b)] # "/"
      BY <1>1, <2>1 DEF Has
    <2>3. c[Len(c)] = b[Len(b)]
      BY <1>2, <2>1
    <2> QED BY <1>3, <1>5, <2>2, <2>3 DEF c
  <1> QED BY <1>4, <1>5

LEMMA LastOne == \A b : NoSlash(b) /\ b # <<>> => Last(b) # "/" /\ b[1] # "/"
  <1> SUFFICES ASSUME NEW b, NoSlash(b), b # <<>> PROVE Last(b) # "/" /\ b[1] # "/"
    OBVIOUS
  <1>1. ~Has(b, {"/"}) /\ Len(b) \in Nat /\ DOMAIN b = 1 .. Len(b) /\ Len(b) > 0
    BY TextIs DEF NoSlash
  <1>2. Len(b) \in 1 .. Len(b) /\ 1 \in 1 .. Len(b)
    BY <1>1
  <1>3. b[Len(b)] # "/" /\ b[1] # "/"
    BY <1>1, <1>2 DEF Has
  <1> QED BY <1>3 DEF Last

LEMMA JoinIs ==
  ASSUME NEW t \in Text, NEW m, NoSlash(m), m # <<>>
  PROVE  \/ t = <<>> /\ Join(t, m) = m
         \/ \E a \in Text : Join(t, m) = Down(a, m) /\ (t = a \/ t = Down(a, <<>>))
  <1>1. m \in Text /\ m[1] # "/"
    BY LastOne DEF NoSlash
  <1>2. CASE t = <<>>
    BY <1>1, <1>2, TextIs DEF Join
  <1>3. CASE t # <<>> /\ Last(t) # "/"
    <2>1. Join(t, m) = (t \o <<"/">>) \o m
      BY <1>1, <1>3 DEF Join
    <2>2. (t \o <<"/">>) \o m = t \o (<<"/">> \o m)
      BY <1>1, SlashFull, Assoc
    <2> QED BY <2>1, <2>2 DEF Down
  <1>4. CASE t # <<>> /\ Last(t) = "/"
    <2>1. PICK a, b \in Text : NoSlash(b) /\ t = Down(a, b)
      BY <1>4, LastOne, TakesLast
    <2>2. b = <<>>
      BY <1>4, <2>1, LastDown
    <2>3. Join(t, m) = t \o m
      BY <1>4 DEF Join
    <2>4. Down(a, <<>>) \o m = Down(a, m)
      <3>1. <<"/">> \o <<>> = <<"/">>
        BY SlashFull, TextIs
      <3>2. (a \o <<"/">>) \o m = a \o (<<"/">> \o m)
        BY <1>1, SlashFull, Assoc
      <3> QED BY <3>1, <3>2 DEF Down
    <2> QED BY <2>1, <2>2, <2>3, <2>4
  <1> QED BY <1>2, <1>3, <1>4

LEMMA NamesDown == \A a, b \in Text : Names(Down(a, b)) = Names(a) \o Names(b)
  BY NamesCat DEF Down

LEMMA NamesEmpty == \A t \in Text : Names(t) \o <<>> = Names(t) /\ <<>> \o Names(t) = Names(t)
  BY NamesSeq, ConcatEmptySeq

LEMMA NamesJoin ==
  ASSUME NEW t \in Text, NEW m, NoSlash(m), m # <<>>
  PROVE  Names(Join(t, m)) = Names(t) \o Named(m)
  <1>1. m \in Text /\ Names(m) = Named(m)
    BY NamesOne DEF NoSlash
  <1>2. CASE t = <<>> /\ Join(t, m) = m
    BY <1>1, <1>2, EmptyIs, NamesEmpty
  <1>3. ASSUME NEW a \in Text, Join(t, m) = Down(a, m), t = a \/ t = Down(a, <<>>)
        PROVE  Names(Join(t, m)) = Names(t) \o Named(m)
    <2>1. Names(Down(a, <<>>)) = Names(a)
      BY NamesDown, EmptyText, EmptyIs, NamesEmpty
    <2>2. Names(Down(a, m)) = Names(a) \o Named(m)
      BY <1>1, NamesDown
    <2> QED BY <1>3, <2>1, <2>2
  <1> QED BY <1>2, <1>3, JoinIs

LEMMA FilenameJoin ==
  ASSUME NEW t \in Text, NEW m, NoSlash(m), m # <<>>
  PROVE  Filename(Join(t, m)) = m
  <1>1. CASE t = <<>> /\ Join(t, m) = m
    BY <1>1, FilenameOne
  <1>2. ASSUME NEW a \in Text, Join(t, m) = Down(a, m) PROVE Filename(Join(t, m)) = m
    BY <1>2, FilenameDown
  <1> QED BY <1>1, <1>2, JoinIs

LEMMA MainIs ==
  /\ NoSlash(MainPage) /\ MainPage \in Text /\ MainPage \notin {<<>>, <<".">>}
  /\ ~Has(MainPage, {"%", " "}) /\ ~Has(MainPage, {"?"}) /\ Named(MainPage) = <<MainPage>>
  /\ Stable(MainPage)
  <1>1. MainPage \in Text /\ MainPage \notin {<<>>, <<".">>} /\ ~Has(MainPage, {"%", "/", "?", " "})
    BY NameAssumption
  <1>2. ~Has(MainPage, {"/"}) /\ ~Has(MainPage, {"%", " "}) /\ ~Has(MainPage, {"?"})
    BY <1>1 DEF Has
  <1>3. Named(MainPage) = <<MainPage>>
    BY <1>1 DEF Named
  <1> QED BY <1>1, <1>2, <1>3, StableMeant DEF NoSlash

LEMMA StableDown ==
  ASSUME NEW a \in Text, NEW b \in Text, Stable(Down(a, b))
  PROVE  Stable(a)
  <1>1. <<"/">> \o b \in Text
    BY SlashFull, Cat
  <1> QED BY <1>1, StablePrefix, Zenon DEF Down

LEMMA StableMain == \A a \in Text : Stable(a) => Stable(Down(a, MainPage))
  BY MainIs, StableThenSlash DEF Down

LEMMA HasDown ==
  ASSUME NEW a \in Text, NEW b \in Text, NEW S, "/" \notin S
  PROVE  Has(Down(a, b), S) <=> Has(a, S) \/ Has(b, S)
  <1>1. <<"/">> \o b \in Text
    BY SlashFull, Cat
  <1>2. Has(<<"/">> \o b, S) <=> Has(b, S)
    BY SlashFull, HasCat, HasOne
  <1>3. Has(a \o (<<"/">> \o b), S) <=> Has(a, S) \/ Has(<<"/">> \o b, S)
    BY <1>1, HasCat
  <1> QED BY <1>2, <1>3 DEF Down

LEMMA JoinMain ==
  ASSUME NEW t \in Text
  PROVE  LET j == Join(t, MainPage)
         IN /\ j \in Text /\ j # <<>> /\ Names(j) = Names(t) \o <<MainPage>> /\ Filename(j) = MainPage
            /\ Stable(t) => Stable(j)
            /\ ~Has(t, {"?"}) => ~Has(j, {"?"})
            /\ t # <<>> => j[1] = t[1]
  <1> DEFINE j == Join(t, MainPage)
  <1>1. Names(j) = Names(t) \o <<MainPage>> /\ Filename(j) = MainPage
    BY MainIs, NamesJoin, FilenameJoin
  <1>2. CASE t = <<>> /\ j = MainPage
    BY <1>1, <1>2, MainIs
  <1>3. ASSUME NEW a \in Text, j = Down(a, MainPage), t = a \/ t = Down(a, <<>>)
        PROVE  /\ j \in Text /\ j # <<>>
               /\ Stable(t) => Stable(j)
               /\ ~Has(t, {"?"}) => ~Has(j, {"?"})
               /\ t # <<>> => j[1] = t[1]
    <2>0. Down(a, MainPage) \in Text /\ Down(a, MainPage) # <<>>
      BY MainIs, DownIs
    <2>1. j \in Text /\ j # <<>>
      BY <1>3, <2>0, Zenon
    <2>2. Stable(t) => Stable(a)
      BY <1>3, EmptyText, StableDown
    <2>3. Stable(t) => Stable(j)
      BY <1>3, <2>2, StableMain
    <2>4. Has(a, {"?"}) => Has(t, {"?"})
      BY <1>3, EmptyText, HasDown
    <2>7. Has(Down(a, MainPage), {"?"}) => Has(a, {"?"})
      BY MainIs, HasDown
    <2>5. ~Has(t, {"?"}) => ~Has(j, {"?"})
      BY <1>3, <2>4, <2>7, Zenon
    <2>6. t # <<>> => j[1] = t[1]
      <3>1. CASE a = <<>>
        <4>1. <<"/">> \o MainPage \in Text /\ (<<"/">> \o MainPage)[1] = "/" /\ <<"/">> \o <<>> = <<"/">>
          BY MainIs, SlashFull, Cat, FirstOf, TextIs
        <4>2. Down(<<>>, MainPage) = <<"/">> \o MainPage /\ Down(<<>>, <<>>) = <<"/">>
          BY <4>1, SlashFull, TextIs DEF Down
        <4> QED BY <1>3, <3>1, <4>1, <4>2, SlashFull
      <3>2. CASE a # <<>>
        <4>1. <<"/">> \o MainPage \in Text /\ <<"/">> \o <<>> \in Text
          BY MainIs, SlashFull, EmptyText, Cat
        <4>2. Down(a, MainPage)[1] = a[1] /\ Down(a, <<>>)[1] = a[1]
          BY <3>2, <4>1, FirstOf DEF Down
        <4> QED BY <1>3, <4>2
      <3> QED BY <3>1, <3>2
    <2> QED BY <2>1, <2>3, <2>5, <2>6
  <1>4. \/ t = <<>> /\ j = MainPage
        \/ \E a \in Text : j = Down(a, MainPage) /\ (t = a \/ t = Down(a, <<>>))
    BY MainIs, JoinIs
  <1> HIDE DEF j
  <1>5. /\ j \in Text /\ j # <<>>
        /\ Stable(t) => Stable(j)
        /\ ~Has(t, {"?"}) => ~Has(j, {"?"})
        /\ t # <<>> => j[1] = t[1]
    BY <1>2, <1>3, <1>4, MainIs
  <1> QED BY <1>1, <1>5 DEF j

-----------------------------------------------------------------------------
(* From the path to its URL and back.                                      *)
Below(path) == IF path[1] = "/" THEN path ELSE <<"/">> \o path

LEMMA RootIs ==
  /\ WbRoot \in Text /\ WbRoot # <<>> /\ Last(WbRoot) # "/" /\ ~Has(WbRoot, {"%"}) /\ ~Has(WbRoot, {"?"})
  <1>1. WbRoot \in Text /\ Len(WbRoot) > 1 /\ ~Has(WbRoot, {"%", "?"}) /\ WbRoot[Len(WbRoot)] # "/"
    BY NameAssumption
  <1>2. WbRoot # <<>>
    BY <1>1, EmptySeq
  <1> QED BY <1>1, <1>2 DEF Last, Has

LEMMA BelowIs ==
  ASSUME NEW path \in Text, path # <<>>
  PROVE  /\ UrlPath(path) = WbRoot \o Below(path)
         /\ Below(path) \in Text /\ Below(path) # <<>> /\ Below(path)[1] = "/"
         /\ Names(Below(path)) = Names(path)
         /\ Stable(path) => Stable(Below(path))
         /\ ~Has(path, {"?"}) => ~Has(Below(path), {"?"})
         /\ Filename(path) \notin {<<>>, <<".">>} => Filename(Below(path)) \notin {<<>>, <<".">>}
  <1>1. CASE path[1] = "/"
    <2>1. Below(path) = path
      BY <1>1 DEF Below
    <2>2. UrlPath(path) = WbRoot \o path
      BY <1>1 DEF UrlPath, Join
    <2> QED BY <1>1, <2>1, <2>2
  <1>2. CASE path[1] # "/"
    <2>1. Below(path) = <<"/">> \o path
      BY <1>2 DEF Below
    <2>2. UrlPath(path) = WbRoot \o Below(path)
      <3>1. UrlPath(path) = (WbRoot \o <<"/">>) \o path
        BY <1>2, RootIs DEF UrlPath, Join
      <3>2. (WbRoot \o <<"/">>) \o path = WbRoot \o (<<"/">> \o path)
        BY RootIs, SlashFull, Assoc
      <3> QED BY <2>1, <3>1, <3>2
    <2>3. Below(path) \in Text /\ Below(path) # <<>> /\ Below(path)[1] = "/"
      <3>1. <<"/">> \o path \in Text
        BY SlashFull, Cat
      <3>2. (<<"/">> \o path)[1] = "/" /\ <<"/">> \o path # <<>>
        BY SlashFull, FirstOf
      <3> QED BY <2>1, <3>1, <3>2
    <2>4. Below(path) = Down(<<>>, path)
      <3>1. <<>> \o (<<"/">> \o path) = <<"/">> \o path
        BY <2>1, <2>3, TextIs
      <3> QED BY <2>1, <3>1 DEF Down
    <2>5. Names(Below(path)) = Names(path)
      BY <2>4, NamesDown, EmptyText, EmptyIs, NamesEmpty
    <2>6. Stable(path) => Stable(Below(path))
      BY <2>1, SlashFull, StableOn
    <2>7. ~Has(path, {"?"}) => ~Has(Below(path), {"?"})
      <3>1. Has(Down(<<>>, path), {"?"}) <=> Has(<<>>, {"?"}) \/ Has(path, {"?"})
        BY EmptyText, HasDown
      <3> QED BY <2>4, <3>1, HasNothing
    <2>8. Filename(path) \notin {<<>>, <<".">>} => Filename(Below(path)) \notin {<<>>, <<".">>}
      <3>1. CASE NoSlash(path)
        <4>1. Filename(path) = path /\ Filename(Down(<<>>, path)) = path
          BY <3>1, EmptyText, FilenameOne, FilenameDown
        <4> QED BY <2>4, <4>1
      <3>2. ASSUME NEW a \in Text, NEW b \in Text, NoSlash(b), path = Down(a, b)
            PROVE  Filename(path) \notin {<<>>, <<".">>} => Filename(Below(path)) \notin {<<>>, <<".">>}
        <4>1. Below(path) = Down(<<"/">> \o a, b)
          <5>1. <<"/">> \o b \in Text
            BY SlashFull, Cat
          <5>2. (<<"/">> \o a) \o (<<"/">> \o b) = <<"/">> \o (a \o (<<"/">> \o b))
            BY <5>1, SlashFull, Assoc, ZenonT(40)
          <5> QED BY <2>1, <3>2, <5>2 DEF Down
        <4>2. <<"/">> \o a \in Text /\ <<"/">> \o a # <<>>
          BY SlashFull, Cat, FirstOf
        <4>3. a # <<>>
          <5> SUFFICES ASSUME a = <<>> PROVE FALSE
            OBVIOUS
          <5>1. <<"/">> \o b \in Text /\ (<<"/">> \o b)[1] = "/"
            BY SlashFull, Cat, FirstOf
          <5>2. Down(a, b) = <<"/">> \o b
            BY <5>1, TextIs DEF Down
          <5> QED BY <1>2, <3>2, <5>1, <5>2
        <4>4. Filename(path) = IF b # <<>> THEN b ELSE <<".">>
          BY <3>2, <4>3, FilenameDown
        <4>5. Filename(Below(path)) = IF b # <<>> THEN b ELSE <<".">>
          <5>1. \A x \in Text : x # <<>> => Filename(Down(x, b)) = IF b # <<>> THEN b ELSE <<".">>
            BY <3>2, FilenameDown
          <5> QED BY <4>1, <4>2, <5>1
        <4> QED BY <4>4, <4>5
      <3> QED BY <3>1, <3>2, TakesLast
    <2> QED BY <2>2, <2>3, <2>5, <2>6, <2>7, <2>8
  <1> QED BY <1>1, <1>2

(* The path of a URL below the root.                                       *)
Open(t) == Filename(t) \in {<<>>, <<".">>}
LEMMA PathIs ==
  ASSUME NEW b \in Text, NEW ds
  PROVE  LET path == Path(WbRoot \o b, ds)
         IN /\ path \in Text /\ path # <<>> /\ ~Open(path) /\ Stable(path)
            /\ ~Has(b, {"?"}) => ~Has(path, {"?"})
            /\ \/ path = D(b) /\ Names(D(b)) \notin ds /\ ~Open(D(b))
               \/ path = Join(D(b), MainPage) /\ (Open(D(b)) \/ Names(D(b)) \in ds)
  <1> DEFINE u == WbRoot \o b
             path == Path(u, ds)
             p == D(b)
  <1>1. SubSeq(u, Len(WbRoot) + 1, Len(u)) = b
    BY RootIs, Parts
  <1>2. path = IF Open(p) \/ Names(p) \in ds THEN Join(p, MainPage) ELSE p
    BY <1>1 DEF Path, Open, D
  <1> HIDE DEF u, path
  <1>3. p \in Text /\ Stable(p)
    BY DecodesText, DecodesOnce DEF Stable
  <1>4. ~Has(b, {"?"}) => ~Has(p, {"?"})
    <2>1. "?" \notin Marked
      BY DEF Marked
    <2> QED BY <2>1, DecodesHas
  <1> HIDE DEF p
  <1>5. CASE Open(p) \/ Names(p) \in ds
    <2> DEFINE j == Join(p, MainPage)
    <2>1. /\ j \in Text /\ j # <<>> /\ Filename(j) = MainPage
          /\ Stable(j) /\ (~Has(p, {"?"}) => ~Has(j, {"?"}))
      BY <1>3, JoinMain
    <2>2. path = j
      BY <1>2, <1>5
    <2> HIDE DEF j
    <2>3. ~Open(j)
      BY <2>1, MainIs DEF Open
    <2> QED BY <1>4, <1>5, <2>1, <2>2, <2>3 DEF j, path, u, p
  <1>6. CASE ~(Open(p) \/ Names(p) \in ds)
    <2>1. path = p
      BY <1>2, <1>6
    <2>2. p # <<>>
      <3>1. Filename(<<>>) = <<>>
        BY EmptyIs, FilenameOne
      <3> QED BY <1>6, <3>1 DEF Open
    <2> QED BY <1>3, <1>4, <1>6, <2>1, <2>2 DEF path, u, p
  <1> QED BY <1>5, <1>6

(* Only a path that begins with a slash is asked for without a redirect.   *)
LEMMA NoRedirSlash ==
  ASSUME NEW b \in Text, NEW path \in Text, path # <<>>, path = D(b) \/ path = Join(D(b), MainPage),
         ~CheckRedir(path, WbRoot \o b)
  PROVE  path[1] = "/"
  <1> DEFINE k == Len(WbRoot) + 1
             whole(p) == IF p # <<"/">> /\ p # <<>> /\ Last(p) = "/" THEN p \o <<".">> ELSE p
             s == UrlPath(path)
             t == Plain(WbRoot \o b)
             y == Plain(b)
  <1>1. whole(s) = whole(t)
    BY DEF CheckRedir, SamePath, Plain
  <1>2. t = WbRoot \o y /\ y \in Text
    BY RootIs, PlainBehind, PlainText
  <1>3. Len(WbRoot) \in Nat /\ WbRoot \in Text
    BY RootIs, TextIs
  <1> HIDE DEF s, t, y, whole
  <1>4. <<".">> \in Text /\ Len(<<".">>) = 1
    <2>1. "." \in Char
      BY NameAssumption DEF Marked
    <2> QED BY <2>1, OneChar
  <1>5. ASSUME NEW x \in Text, x # <<>>, NEW u, u = WbRoot \o x
        PROVE  whole(u)[k] = x[1] /\ Len(whole(u)) >= k
    <2>1. Len(x) \in Nat /\ 1 \in 1 .. Len(x)
      BY <1>5, TextIs
    <2>2. u \in Text /\ u[k] = x[1] /\ Len(u) = Len(WbRoot) + Len(x)
      BY <1>3, <1>5, <2>1, Cat
    <2>3. k \in 1 .. Len(u)
      BY <1>3, <2>1, <2>2
    <2>4. (u \o <<".">>)[k] = u[k] /\ Len(u \o <<".">>) = Len(u) + 1
      BY <1>4, <2>2, <2>3, Cat
    <2>5. whole(u) = u \/ whole(u) = u \o <<".">>
      BY DEF whole
    <2>6. Len(u) >= k /\ Len(u) + 1 >= k
      BY <1>3, <2>2, <2>3
    <2> QED BY <2>2, <2>4, <2>5, <2>6
  <1>6. whole(s)[k] = "/" /\ Len(whole(s)) >= k
    <2>1. s = WbRoot \o Below(path) /\ Below(path) \in Text /\ Below(path) # <<>> /\ Below(path)[1] = "/"
      BY BelowIs DEF s
    <2> QED BY <1>5, <2>1
  <1>7. y # <<>>
    <2> SUFFICES ASSUME y = <<>> PROVE FALSE
      OBVIOUS
    <2>1. t = WbRoot
      BY <1>2, <1>3, TextIs
    <2>2. whole(t) = WbRoot
      BY <2>1, RootIs DEF whole
    <2>3. ~(Len(WbRoot) >= k)
      BY <1>3
    <2> QED BY <1>1, <1>6, <2>2, <2>3
  <1>8. y[1] = "/"
    BY <1>1, <1>2, <1>5, <1>6, <1>7
  <1>9. D(b) # <<>> /\ D(b)[1] = "/"
    BY <1>7, <1>8, PlainSlash DEF y
  <1>10. Join(D(b), MainPage)[1] = "/"
    BY <1>9, DecodesText, JoinMain
  <1> QED BY <1>9, <1>10

(* A URL that is the path's own asks for no redirect.                      *)
LEMMA NoRedirStable ==
  ASSUME NEW s \in Text, s # <<>>, s[1] = "/", Stable(s)
  PROVE  ~CheckRedir(s, WbRoot \o s)
  <1>1. UrlPath(s) = WbRoot \o s
    BY BelowIs DEF Below
  <1>2. Plain(WbRoot \o s) = WbRoot \o s
    BY RootIs, PlainBehind, PlainStable
  <1> QED BY <1>1, <1>2 DEF CheckRedir, SamePath, Plain

-----------------------------------------------------------------------------
(* The query behind the first question mark comes off again.               *)
LEMMA AskIs ==
  ASSUME NEW url \in Text, ~Has(url, {"?"}), NEW q \in Text
  PROVE  /\ Ask(Location(url, q)) = [uri |-> Location(url, q), query |-> q]
         /\ SansQueryURI(Location(url, q), q) = url
  <1> DEFINE u == Location(url, q)
             marks == {i \in DOMAIN u : u[i] = "?"}
  <1>0. Len(url) \in Nat /\ Len(q) \in Nat /\ DOMAIN url = 1 .. Len(url)
    BY TextIs
  <1>1. CASE q = <<>>
    <2>1. u = url
      BY <1>1 DEF Location
    <2>2. marks = {}
      BY <2>1 DEF Has
    <2>3. Ask(u) = [uri |-> u, query |-> q]
      BY <1>1, <2>2 DEF Ask
    <2>4. Len(q) = 0
      BY <1>1, EmptySeq
    <2>5. SubSeq(url, 1, Len(url)) = url
      BY SubSeqFull DEF Text
    <2>6. SansQueryURI(url, q) = url
      <3>1. Len(url) - Len(q) = Len(url)
        BY <1>0, <2>4
      <3> QED BY <1>1, <2>5, <3>1 DEF SansQueryURI
    <2> QED BY <2>1, <2>3, <2>6
  <1>2. CASE q # <<>>
    <2> DEFINE a == url \o <<"?">>
    <2>1. <<"?">> \in Text /\ Len(<<"?">>) = 1 /\ <<"?">>[1] = "?"
      <3>1. "?" \in Char
        BY NameAssumption
      <3> QED BY <3>1, OneChar
    <2>2. a \in Text /\ Len(a) = Len(url) + 1 /\ a[Len(url) + 1] = "?" /\ \A i \in 1 .. Len(url) : a[i] = url[i]
      BY <2>1, Cat, SmallNumbers
    <2>3. u = a \o q
      BY <1>2 DEF Location
    <2> HIDE DEF a
    <2>4. /\ u \in Text /\ Len(u) = Len(url) + 1 + Len(q)
          /\ \A i \in 1 .. Len(a) : u[i] = a[i]
          /\ SubSeq(u, 1, Len(a)) = a /\ SubSeq(u, Len(a) + 1, Len(u)) = q
      <3>1. a \o q \in Text /\ Len(a \o q) = Len(a) + Len(q) /\ \A i \in 1 .. Len(a) : (a \o q)[i] = a[i]
        BY <2>2, Cat
      <3>2. SubSeq(a \o q, 1, Len(a)) = a /\ SubSeq(a \o q, Len(a) + 1, Len(a \o q)) = q
        BY <2>2, Parts
      <3> HIDE DEF u
      <3> QED BY <2>2, <2>3, <3>1, <3>2
    <2> HIDE DEF u
    <2>5. DOMAIN u = 1 .. Len(u)
      BY <2>4, TextIs
    <2>6. Len(url) + 1 \in marks
      <3>1. Len(url) + 1 \in 1 .. Len(a) /\ Len(url) + 1 \in 1 .. Len(u)
        BY <1>0, <2>2, <2>4
      <3> QED BY <2>2, <2>4, <2>5, <3>1
    <2>7. ASSUME NEW j \in marks PROVE Len(url) + 1 <= j
      <3> SUFFICES ASSUME j < Len(url) + 1 PROVE FALSE
        BY <1>0, <2>4, <2>5
      <3>1. j \in 1 .. Len(url) /\ j \in 1 .. Len(a) /\ u[j] = "?"
        BY <1>0, <2>2, <2>5
      <3>2. url[j] = "?"
        BY <2>2, <2>4, <3>1
      <3> QED BY <1>0, <3>1, <3>2 DEF Has
    <2> DEFINE m == CHOOSE i \in marks : \A j \in marks : i <= j
    <2>8. m = Len(url) + 1
      <3>1. m \in marks /\ \A j \in marks : m <= j
        BY <2>6, <2>7
      <3>2. m \in Nat
        BY <2>4, <2>5, <3>1
      <3> HIDE DEF m, marks
      <3>3. m <= Len(url) + 1 /\ Len(url) + 1 <= m
        BY <2>6, <2>7, <3>1
      <3> QED BY <1>0, <3>2, <3>3
    <2>9. Ask(u) = [uri |-> u, query |-> IF marks = {} THEN <<>> ELSE SubSeq(u, 1 + m, Len(u))]
      BY DEF Ask
    <2> HIDE DEF m
    <2>10. Ask(u) = [uri |-> u, query |-> q]
      <3>1. 1 + m = Len(a) + 1
        BY <1>0, <2>2, <2>8
      <3>2. marks # {}
        BY <2>6
      <3> QED BY <2>4, <2>9, <3>1, <3>2
    <2>11. SansQueryURI(u, q) = url
      <3>1. Len(u) - Len(q) = Len(a)
        BY <1>0, <2>2, <2>4
      <3>2. a # <<>> /\ Last(a) = "?"
        <4>1. Len(a) # 0
          BY <1>0, <2>2
        <4> QED BY <2>2, <4>1, EmptySeq DEF Last
      <3>3. Front(a) = url
        <4>1. Len(a) - 1 = Len(url)
          BY <1>0, <2>2
        <4>2. SubSeq(a, 1, Len(url)) = url
          BY <2>1, Parts DEF a
        <4> QED BY <4>1, <4>2 DEF Front
      <3> QED BY <1>2, <2>4, <3>1, <3>2, <3>3 DEF SansQueryURI
    <2> QED BY <2>10, <2>11 DEF u
  <1> QED BY <1>1, <1>2

LEMMA LocationText == \A url, q \in Text : Location(url, q) \in Text /\ (url # <<>> => Location(url, q) # <<>>)
  <1> SUFFICES ASSUME NEW url \in Text, NEW q \in Text
               PROVE  Location(url, q) \in Text /\ (url # <<>> => Location(url, q) # <<>>)
    OBVIOUS
  <1>1. <<"?">> \in Text
    <2>1. "?" \in Char
      BY NameAssumption
    <2> QED BY <2>1, OneChar
  <1>2. url \o <<"?">> \in Text /\ (url # <<>> => url \o <<"?">> # <<>>)
    BY <1>1, Cat, FirstOf
  <1>3. (url \o <<"?">>) \o q \in Text /\ (url # <<>> => (url \o <<"?">>) \o q # <<>>)
    BY <1>2, Cat, FirstOf
  <1> QED BY <1>3 DEF Location

(* What an older version called a name.                                    *)
LEMMA CharInduction ==
  ASSUME NEW T, <<>> \in T, \A c, r : c \in Char /\ r \in Text /\ r \in T => <<c>> \o r \in T
  PROVE  \A u \in Text : u \in T
  <1> DEFINE G == {n \in Nat : \A u \in Text : Len(u) < n => u \in T}
  <1>1. 0 \in G
    <2> SUFFICES ASSUME NEW u \in Text, Len(u) < 0 PROVE FALSE
      OBVIOUS
    <2> QED BY TextIs
  <1>2. ASSUME NEW n \in Nat, n \in G PROVE n + 1 \in G
    <2> SUFFICES ASSUME NEW u \in Text, Len(u) < n + 1 PROVE u \in T
      OBVIOUS
    <2>1. CASE u = <<>>
      BY <2>1
    <2>2. CASE u # <<>>
      <3>1. PICK r \in Text : u = <<u[1]>> \o r /\ Len(u) = Len(r) + 1
        BY <2>2, TakesChar
      <3>2. u[1] \in Char
        BY <2>2, TakesChar
      <3>3. Len(r) \in Nat /\ Len(u) \in Nat
        BY TextIs
      <3>4. Len(r) < n
        BY <3>1, <3>3
      <3>5. r \in T
        BY <1>2, <3>4
      <3> QED BY <3>1, <3>2, <3>5
    <2> QED BY <2>1, <2>2
  <1>3. \A n \in Nat : n \in G
    <2> HIDE DEF G
    <2> QED BY <1>1, <1>2, SetInduction
  <1> SUFFICES ASSUME NEW u \in Text PROVE u \in T
    OBVIOUS
  <1>4. Len(u) \in Nat
    BY TextIs
  <1>5. Len(u) + 1 \in G /\ Len(u) < Len(u) + 1
    BY <1>3, <1>4
  <1> QED BY <1>5

Blanked(c, blank) == IF c = "_" THEN blank ELSE <<c>>
BlankTexts(n, blank) == [i \in DOMAIN n |-> IF n[i] = "_" THEN blank ELSE <<n[i]>>]
BlankSkips(n) == [i \in DOMAIN n |-> i + 1]

LEMMA SkipsBlanks == ASSUME NEW n \in Text PROVE Links(Len(n), BlankSkips(n))
  <1>1. DOMAIN n = 1 .. Len(n) /\ Len(n) \in Nat
    BY TextIs
  <1> QED BY <1>1 DEF Links, BlankSkips

LEMMA UnblankedOf == \A n, blank : Unblanked(n, blank) = Chain(Len(n), BlankTexts(n, blank), BlankSkips(n))
  BY DEF Unblanked, BlankTexts, BlankSkips

LEMMA UnblankedNothing == \A blank : Unblanked(<<>>, blank) = <<>>
  <1> SUFFICES ASSUME NEW blank PROVE Unblanked(<<>>, blank) = <<>>
    OBVIOUS
  <1>1. Links(0, BlankSkips(<<>>)) /\ Len(<<>>) = 0
    BY EmptyText, SkipsBlanks, TextIs
  <1> DEFINE f == From(0, BlankTexts(<<>>, blank), BlankSkips(<<>>))
  <1>2. Unblanked(<<>>, blank) = Chain(0, BlankTexts(<<>>, blank), BlankSkips(<<>>))
    BY <1>1, UnblankedOf
  <1>3. Unblanked(<<>>, blank) = f[1] /\ Follows(0, BlankTexts(<<>>, blank), BlankSkips(<<>>), f)
    BY <1>1, <1>2, ChainIs
  <1> HIDE DEF f
  <1> QED BY <1>3 DEF Follows

LEMMA UnblankedStep ==
  ASSUME NEW c \in Char, NEW r \in Text, NEW blank
  PROVE  Unblanked(<<c>> \o r, blank) = Blanked(c, blank) \o Unblanked(r, blank)
  <1> DEFINE u == <<c>> \o r
             n == Len(r)
             f == From(1 + n, BlankTexts(u, blank), BlankSkips(u))
  <1>1. <<c>> \in Text /\ Len(<<c>>) = 1 /\ <<c>>[1] = c
    BY OneChar
  <1>2. /\ u \in Text /\ Len(u) = 1 + n /\ u[1] = c /\ \A i \in 1 .. n : u[1 + i] = r[i]
    BY <1>1, Cat, SmallNumbers
  <1>3. n \in Nat /\ DOMAIN r = 1 .. n
    BY TextIs
  <1> HIDE DEF u, n
  <1>4. DOMAIN u = 1 .. 1 + n
    BY <1>2, TextIs
  <1>5. ASSUME NEW i \in 1 .. n
        PROVE  /\ BlankTexts(u, blank)[1 + i] = BlankTexts(r, blank)[i]
               /\ BlankSkips(u)[1 + i] = 1 + BlankSkips(r)[i]
    <2>1. 1 + i \in DOMAIN u /\ i \in DOMAIN r /\ (1 + i) + 1 = 1 + (i + 1)
      BY <1>3, <1>4
    <2>2. BlankTexts(u, blank)[1 + i] = BlankTexts(r, blank)[i]
      BY <1>2, <2>1 DEF BlankTexts
    <2> QED BY <2>1, <2>2 DEF BlankSkips
  <1>6. Links(n, BlankSkips(r)) /\ Links(1 + n, BlankSkips(u))
    <2>1. Links(Len(r), BlankSkips(r)) /\ Links(Len(u), BlankSkips(u))
      BY <1>2, SkipsBlanks
    <2> QED BY <1>2, <2>1 DEF n
  <1>7. /\ Unblanked(r, blank) = Chain(n, BlankTexts(r, blank), BlankSkips(r))
        /\ Unblanked(u, blank) = Chain(1 + n, BlankTexts(u, blank), BlankSkips(u))
    BY <1>2, UnblankedOf DEF n
  <1>8. BlankTexts(u, blank)[1] = Blanked(c, blank) /\ BlankSkips(u)[1] = 1 + 1
    <2>1. 1 \in DOMAIN u
      BY <1>3, <1>4
    <2> QED BY <1>2, <2>1 DEF BlankTexts, BlankSkips, Blanked
  <1>9. f[1 + 1] = Unblanked(r, blank)
    <2>1. Behind(1, n, BlankTexts(r, blank), BlankSkips(r), BlankTexts(u, blank), BlankSkips(u))
      BY <1>5, <1>6 DEF Behind
    <2>2. 1 \in Nat
      OBVIOUS
    <2>3. Shifts(1, n, BlankTexts(r, blank), BlankSkips(r), BlankTexts(u, blank), BlankSkips(u))
      BY <1>3, <2>1, <2>2, ChainShift, Zenon
    <2> QED BY <1>7, <2>3 DEF Shifts
  <1>10. Unblanked(u, blank) = f[1] /\ Follows(1 + n, BlankTexts(u, blank), BlankSkips(u), f)
    <2>1. 1 + n \in Nat
      BY <1>3
    <2> QED BY <1>6, <1>7, <2>1, ChainIs
  <1> HIDE DEF f
  <1>11. f[1] = BlankTexts(u, blank)[1] \o f[BlankSkips(u)[1]]
    <2>1. 1 \in 1 .. 1 + n
      BY <1>3
    <2> QED BY <1>10, <2>1, Zenon DEF Follows
  <1> QED BY <1>8, <1>9, <1>10, <1>11 DEF u

OldBlank == {<<"%", "2", "0">>, <<" ">>}
LEMMA BlankText == \A blank \in OldBlank : blank \in Text /\ blank # <<>> /\ blank[1] \in {"%", " "}
  <1>1. "%" \in Char /\ "2" \in Char /\ "0" \in Char /\ " " \in Char
    BY NameAssumption DEF Marked
  <1>2. \A x, y, z \in Char : <<x, y, z>> \in Seq(Char) /\ <<x, y, z>>[1] = x /\ <<x, y, z>> # <<>>
    OBVIOUS
  <1>3. \A x \in Char : <<x>> \in Seq(Char) /\ <<x>>[1] = x /\ <<x>> # <<>>
    OBVIOUS
  <1>4. <<"%", "2", "0">> \in Text /\ <<"%", "2", "0">>[1] = "%" /\ <<"%", "2", "0">> # <<>>
    BY <1>1, <1>2, Zenon DEF Text
  <1>5. <<" ">> \in Text /\ <<" ">>[1] = " " /\ <<" ">> # <<>>
    BY <1>1, <1>3, Zenon DEF Text
  <1> QED BY <1>4, <1>5 DEF OldBlank

LEMMA UnblankedText ==
  ASSUME NEW blank \in OldBlank
  PROVE  \A n \in Text : Unblanked(n, blank) \in Text
  <1> DEFINE T == {n \in Text : Unblanked(n, blank) \in Text}
  <1>1. <<>> \in T
    BY EmptyText, UnblankedNothing
  <1>2. ASSUME NEW c, NEW r, c \in Char, r \in Text, r \in T PROVE <<c>> \o r \in T
    <2>1. <<c>> \in Text
      BY <1>2, OneChar
    <2>2. Blanked(c, blank) \in Text
      BY <2>1, BlankText DEF Blanked
    <2>3. <<c>> \o r \in Text /\ Blanked(c, blank) \o Unblanked(r, blank) \in Text
      BY <1>2, <2>1, <2>2, Cat
    <2> QED BY <1>2, <2>3, UnblankedStep
  <1>3. \A u \in Text : u \in T
    <2> HIDE DEF T
    <2> QED BY <1>1, <1>2, CharInduction
  <1> QED BY <1>3

(* A character that is no part of a blank's old spelling was there before. *)
LEMMA UnblankedFirst ==
  ASSUME NEW blank \in OldBlank, NEW n \in Text,
         Unblanked(n, blank) # <<>>, Unblanked(n, blank)[1] \notin {"%", " "}
  PROVE  \E r \in Text : /\ n = <<n[1]>> \o r /\ n[1] \in Char /\ Len(n) = Len(r) + 1
                         /\ Unblanked(n, blank) = <<n[1]>> \o Unblanked(r, blank)
  <1>1. n # <<>>
    BY UnblankedNothing
  <1>2. PICK r \in Text : n = <<n[1]>> \o r /\ Len(n) = Len(r) + 1
    BY <1>1, TakesChar
  <1>3. n[1] \in Char
    BY <1>1, TakesChar
  <1>4. Unblanked(n, blank) = Blanked(n[1], blank) \o Unblanked(r, blank)
    <2>1. \A c \in Char : Unblanked(<<c>> \o r, blank) = Blanked(c, blank) \o Unblanked(r, blank)
      BY UnblankedStep
    <2> QED BY <1>2, <1>3, <2>1
  <1>5. n[1] # "_"
    <2> SUFFICES ASSUME n[1] = "_" PROVE FALSE
      OBVIOUS
    <2>1. Unblanked(n, blank) = blank \o Unblanked(r, blank)
      BY <1>4 DEF Blanked
    <2>2. (blank \o Unblanked(r, blank))[1] = blank[1]
      BY BlankText, UnblankedText, FirstOf
    <2> QED BY <2>1, <2>2, BlankText
  <1> QED BY <1>2, <1>3, <1>4, <1>5 DEF Blanked

-----------------------------------------------------------------------------
(* A percent sign that began an escape then begins one now.                *)
LEMMA KeyChars ==
  ASSUME NEW u \in Text, NEW i \in 1 .. Len(u), u[i] = "%", EscapeAt(u, i)
  PROVE  /\ i + 2 <= Len(u)
         /\ u[i + 1] \notin {"%", " ", "_"} /\ u[i + 2] \notin {"%", " ", "_"}
  <1> DEFINE key == SubSeq(u, i + 1, i + 2)
  <1>1. i \in Nat /\ Len(u) \in Nat /\ i + 2 <= Len(u)
    BY TextIs DEF EscapeAt
  <1>2. key \in Text /\ Len(key) = 2 /\ key[1] = u[i + 1] /\ key[2] = u[i + 2]
    <2>1. i + 1 \in Nat /\ i + 2 \in Nat /\ 1 <= i + 1 /\ i + 1 <= (i + 2) + 1
      BY <1>1
    <2>2. ((i + 2) - (i + 1)) + 1 = 2 /\ ((i + 1) + 1) - 1 = i + 1 /\ ((i + 1) + 2) - 1 = i + 2
      BY <1>1
    <2>3. /\ key \in Text /\ Len(key) = ((i + 2) - (i + 1)) + 1
          /\ \A k \in 1 .. ((i + 2) - (i + 1)) + 1 : key[k] = u[((i + 1) + k) - 1]
      BY <1>1, <2>1, Part
    <2> HIDE DEF key
    <2> QED BY <2>2, <2>3, SmallNumbers
  <1>3. key \in DOMAIN Octet
    BY DEF EscapeAt
  <1> HIDE DEF key
  <1>4. ~Has(key, {"%", "/", "?", " ", "_"})
    BY <1>3, NameAssumption
  <1>5. DOMAIN key = 1 .. 2
    BY <1>2, TextIs
  <1>6. key[1] \notin {"%", " ", "_"} /\ key[2] \notin {"%", " ", "_"}
    BY <1>4, <1>5, SmallNumbers DEF Has
  <1> QED BY <1>1, <1>2, <1>6

LEMMA UnEscaped ==
  ASSUME NEW blank \in OldBlank
  PROVE  \A n \in Text : Escaped(Unblanked(n, blank)) => Escaped(n)
  <1> DEFINE T == {n \in Text : Escaped(Unblanked(n, blank)) => Escaped(n)}
  <1>1. <<>> \in T
    BY EmptyText, HasNothing, EscapedPlain
  <1>2. ASSUME NEW c, NEW r, c \in Char, r \in Text, r \in T PROVE <<c>> \o r \in T
    <2> DEFINE u == <<c>> \o r
               v == Unblanked(r, blank)
               w == Blanked(c, blank) \o v
    <2>1. <<c>> \in Text /\ Len(<<c>>) = 1 /\ <<c>>[1] = c
      BY <1>2, OneChar
    <2>2. u \in Text /\ Unblanked(u, blank) = w
      BY <1>2, <2>1, Cat, UnblankedStep
    <2>3. v \in Text /\ Blanked(c, blank) \in Text
      BY <1>2, <2>1, UnblankedText, BlankText DEF Blanked
    <2> SUFFICES ASSUME Escaped(w) PROVE Escaped(u)
      BY <2>2
    <2> HIDE DEF v
    <2>4. Escaped(v) /\ Escaped(r)
      <3>1. Escaped(v)
        BY <2>3, EscapedBehind
      <3> QED BY <1>2, <3>1 DEF v
    <2>5. CASE c # "%"
      <3>1. \A i \in 1 .. Len(<<c>>) : <<c>>[i] = "%" => EscapeAt(<<c>> \o r, i)
        BY <2>1, <2>5
      <3> QED BY <1>2, <2>1, <2>4, <3>1, EscapedFrom
    <2>6. CASE c = "%"
      <3>1. w = <<c>> \o v
        BY <2>6 DEF Blanked
      <3>2. w \in Text /\ Len(w) = 1 + Len(v) /\ w[1] = c /\ \A i \in 1 .. Len(v) : w[1 + i] = v[i]
        <4>1. /\ <<c>> \o v \in Text /\ Len(<<c>> \o v) = 1 + Len(v) /\ (<<c>> \o v)[1] = c
              /\ \A i \in 1 .. Len(v) : (<<c>> \o v)[1 + i] = v[i]
          BY <2>1, <2>3, Cat, SmallNumbers
        <4> HIDE DEF w
        <4> QED BY <3>1, <4>1
      <3> HIDE DEF w
      <3>3. Len(v) \in Nat /\ DOMAIN w = 1 .. Len(w) /\ Len(r) \in Nat
        BY <1>2, <2>3, <3>2, TextIs
      <3>4. 1 \in 1 .. Len(w)
        BY <3>2, <3>3
      <3>5. EscapeAt(w, 1)
        BY <2>6, <3>2, <3>3, <3>4 DEF Escaped, EscapeAt
      <3>6. 1 + 2 <= Len(w) /\ w[1 + 1] \notin {"%", " ", "_"} /\ w[1 + 2] \notin {"%", " ", "_"}
        BY <2>6, <3>2, <3>4, <3>5, KeyChars
      <3>7. 2 <= Len(v) /\ 1 \in 1 .. Len(v) /\ 2 \in 1 .. Len(v)
        <4>1. 1 + 2 <= 1 + Len(v)
          BY <3>2, <3>6
        <4>2. 2 <= Len(v)
          BY <3>3, <4>1
        <4> QED BY <3>3, <4>2
      <3>8. v[1] = w[1 + 1] /\ v[2] = w[1 + 2]
        BY <3>2, <3>7
      <3>9. v # <<>>
        BY <3>7, TextIs
      <3>10. PICK r1 \in Text : /\ r = <<r[1]>> \o r1 /\ r[1] \in Char /\ Len(r) = Len(r1) + 1
                                /\ v = <<r[1]>> \o Unblanked(r1, blank)
        <4>1. Unblanked(r, blank) # <<>> /\ Unblanked(r, blank)[1] \notin {"%", " "}
          BY <3>6, <3>8, <3>9 DEF v
        <4> QED BY <1>2, <4>1, UnblankedFirst DEF v
      <3> DEFINE v1 == Unblanked(r1, blank)
      <3>11. v1 \in Text /\ Len(v1) \in Nat
        BY UnblankedText, TextIs
      <3>12. Len(v) = 1 + Len(v1) /\ v[1] = r[1] /\ \A i \in 1 .. Len(v1) : v[1 + i] = v1[i]
        <4>1. <<r[1]>> \in Text /\ Len(<<r[1]>>) = 1 /\ <<r[1]>>[1] = r[1]
          BY <3>10, OneChar
        <4>2. v = <<r[1]>> \o v1
          BY <3>10
        <4> HIDE DEF v1
        <4>3. /\ Len(<<r[1]>> \o v1) = 1 + Len(v1) /\ (<<r[1]>> \o v1)[1] = r[1]
              /\ \A i \in 1 .. Len(v1) : (<<r[1]>> \o v1)[1 + i] = v1[i]
          BY <3>11, <4>1, Cat, SmallNumbers
        <4> QED BY <4>2, <4>3
      <3> HIDE DEF v1
      <3>13. 1 \in 1 .. Len(v1) /\ v1 # <<>> /\ v1[1] = v[2]
        <4>1. 1 \in 1 .. Len(v1)
          BY <3>7, <3>11, <3>12
        <4>2. v1 # <<>>
          BY <4>1, TextIs
        <4> QED BY <3>12, <4>1, <4>2, SmallNumbers
      <3>14. PICK r2 \in Text : r1 = <<r1[1]>> \o r2 /\ r1[1] \in Char /\ v1 = <<r1[1]>> \o Unblanked(r2, blank)
                                /\ Len(r1) = Len(r2) + 1
        <4>1. Unblanked(r1, blank) # <<>> /\ Unblanked(r1, blank)[1] \notin {"%", " "}
          BY <3>6, <3>8, <3>13 DEF v1
        <4>2. \E r2 \in Text : /\ r1 = <<r1[1]>> \o r2 /\ r1[1] \in Char /\ Len(r1) = Len(r2) + 1
                               /\ Unblanked(r1, blank) = <<r1[1]>> \o Unblanked(r2, blank)
          BY <4>1, UnblankedFirst
        <4> QED BY <4>2 DEF v1
      <3>15. v1[1] = r1[1]
        <4>1. <<r1[1]>> \in Text /\ Len(<<r1[1]>>) = 1 /\ <<r1[1]>>[1] = r1[1] /\ <<r1[1]>> # <<>>
          <5>1. <<r1[1]>> \in Text /\ Len(<<r1[1]>>) = 1 /\ <<r1[1]>>[1] = r1[1]
            BY <3>14, OneChar
          <5> QED BY <5>1
        <4>2. Unblanked(r2, blank) \in Text
          BY UnblankedText
        <4> QED BY <3>14, <4>1, <4>2, FirstOf
      <3>16. Len(r1) \in Nat /\ Len(r2) \in Nat
        BY TextIs
      <3>17. 2 <= Len(r) /\ r[2] = r1[1]
        <4>1. <<r[1]>> \in Text /\ Len(<<r[1]>>) = 1
          BY <3>10, OneChar
        <4>2. \A i \in 1 .. Len(r1) : (<<r[1]>> \o r1)[1 + i] = r1[i]
          BY <4>1, Cat
        <4>3. 1 \in 1 .. Len(r1)
          BY <3>14, <3>16
        <4>4. (<<r[1]>> \o r1)[2] = r1[1]
          BY <4>2, <4>3, SmallNumbers
        <4>5. 2 <= Len(r)
          BY <3>10, <3>14, <3>16
        <4> QED BY <3>10, <4>4, <4>5
      <3>18. r[1] = v[1] /\ r[2] = v[2]
        BY <3>12, <3>13, <3>15, <3>17
      <3>19. SubSeq(r, 1, 2) = SubSeq(v, 1, 2)
        <4>1. ASSUME NEW a \in Text, 2 <= Len(a)
              PROVE  /\ SubSeq(a, 1, 2) \in Text /\ Len(SubSeq(a, 1, 2)) = 2
                     /\ SubSeq(a, 1, 2)[1] = a[1] /\ SubSeq(a, 1, 2)[2] = a[2]
          <5>1. (2 - 1) + 1 = 2 /\ (1 + 1) - 1 = 1 /\ (1 + 2) - 1 = 2 /\ 1 <= 2 + 1 /\ 1 <= 1 /\ 1 \in Nat /\ 2 \in Nat
            OBVIOUS
          <5>2. /\ SubSeq(a, 1, 2) \in Text /\ Len(SubSeq(a, 1, 2)) = (2 - 1) + 1
                /\ \A k \in 1 .. (2 - 1) + 1 : SubSeq(a, 1, 2)[k] = a[(1 + k) - 1]
            BY <4>1, <5>1, Part
          <5> QED BY <5>1, <5>2, SmallNumbers
        <4>2. \A i \in 1 .. 2 : SubSeq(r, 1, 2)[i] = SubSeq(v, 1, 2)[i]
          BY <1>2, <2>3, <3>7, <3>17, <3>18, <4>1, SmallNumbers
        <4> QED BY <1>2, <2>3, <3>7, <3>17, <4>1, <4>2, SameText
      <3>20. ASSUME NEW a \in Text, 2 <= Len(a)
             PROVE  SubSeq(<<c>> \o a, 1 + 1, 1 + 2) = SubSeq(a, 1, 2)
        <4>1. 1 \in 1 .. Len(a) /\ 2 \in 1 .. Len(a)
          <5>1. Len(a) \in Nat
            BY TextIs
          <5> QED BY <3>20, <5>1
        <4> QED BY <2>1, <4>1, PartBehind
      <3>21. EscapeAt(u, 1)
        <4>1. SubSeq(u, 1 + 1, 1 + 2) = SubSeq(w, 1 + 1, 1 + 2)
          BY <1>2, <2>3, <3>1, <3>7, <3>17, <3>19, <3>20
        <4>2. Len(u) = 1 + Len(r)
          BY <1>2, <2>1, Cat
        <4>3. 1 + 2 <= Len(u)
          BY <3>3, <3>17, <4>2
        <4> HIDE DEF u
        <4> QED BY <3>5, <4>1, <4>3 DEF EscapeAt
      <3>22. \A i \in 1 .. Len(<<c>>) : <<c>>[i] = "%" => EscapeAt(<<c>> \o r, i)
        BY <2>1, <3>21
      <3> QED BY <1>2, <2>1, <2>4, <3>22, EscapedFrom
    <2> QED BY <2>5, <2>6
  <1>3. \A u \in Text : u \in T
    <2> HIDE DEF T
    <2> QED BY <1>1, <1>2, CharInduction
  <1> QED BY <1>3

(* The tree of the data: ways down, and how a rename moves them.           *)
Way == Seq(Text)

LEMMA WayIs ==
  ASSUME NEW p \in Way
  PROVE  Len(p) \in Nat /\ DOMAIN p = 1 .. Len(p) /\ \A k \in 1 .. Len(p) : p[k] \in Text
  BY LenProperties, ElementOfSeq DEF Way

LEMMA SameWay ==
  ASSUME NEW p \in Way, NEW q \in Way, Len(p) = Len(q), \A k \in 1 .. Len(p) : p[k] = q[k]
  PROVE  p = q
  BY SeqEqual DEF Way

LEMMA WayUp ==
  ASSUME NEW p \in Way, NEW n \in Nat, n <= Len(p)
  PROVE  /\ SubSeq(p, 1, n) \in Way /\ Len(SubSeq(p, 1, n)) = n
         /\ \A k \in 1 .. n : SubSeq(p, 1, n)[k] = p[k]
  <1>1. Len(p) \in Nat /\ \A k \in 1 .. Len(p) : p[k] \in Text
    BY WayIs
  <1>2. \A k \in 1 .. n : p[k] \in Text
    BY <1>1
  <1>3. /\ SubSeq(p, 1, n) \in Seq(Text) /\ Len(SubSeq(p, 1, n)) = IF 1 <= n THEN n - 1 + 1 ELSE 0
        /\ \A k \in 1 .. n - 1 + 1 : SubSeq(p, 1, n)[k] = p[1 + k - 1]
    BY <1>2, SubSeqProperties
  <1>4. (IF 1 <= n THEN n - 1 + 1 ELSE 0) = n /\ n - 1 + 1 = n /\ \A k \in 1 .. n : 1 + k - 1 = k
    OBVIOUS
  <1> QED BY <1>3, <1>4 DEF Way

LEMMA PrefixIs ==
  ASSUME NEW s \in Way, NEW t \in Way
  PROVE  IsPrefix(s, t) <=> Len(s) <= Len(t) /\ \A k \in 1 .. Len(s) : s[k] = t[k]
  <1>1. Len(s) \in Nat /\ Len(t) \in Nat
    BY WayIs
  <1>2. SubSeq(s, 1, Len(s)) \in Way /\ Len(SubSeq(s, 1, Len(s))) = Len(s)
        /\ \A k \in 1 .. Len(s) : SubSeq(s, 1, Len(s))[k] = s[k]
    BY <1>1, WayUp
  <1>3. ASSUME Len(s) <= Len(t)
        PROVE  /\ SubSeq(t, 1, Len(s)) \in Way /\ Len(SubSeq(t, 1, Len(s))) = Len(s)
               /\ \A k \in 1 .. Len(s) : SubSeq(t, 1, Len(s))[k] = t[k]
    BY <1>1, <1>3, WayUp
  <1>4. ASSUME Len(s) <= Len(t), SubSeq(s, 1, Len(s)) = SubSeq(t, 1, Len(s)), NEW k \in 1 .. Len(s)
        PROVE  s[k] = t[k]
    BY <1>2, <1>3, <1>4
  <1>5. ASSUME Len(s) <= Len(t), \A k \in 1 .. Len(s) : s[k] = t[k]
        PROVE  SubSeq(s, 1, Len(s)) = SubSeq(t, 1, Len(s))
    BY <1>2, <1>3, <1>5, SameWay
  <1> QED BY <1>4, <1>5 DEF IsPrefix

LEMMA MovedIs ==
  ASSUME NEW p \in Way, NEW old \in Way, NEW names \in Way, Len(old) = Len(names)
  PROVE  /\ Moved(p, old, names) \in Way /\ Len(Moved(p, old, names)) = Len(p)
         /\ \A k \in 1 .. Len(p) :
              Moved(p, old, names)[k] = IF IsPrefix(old, p) /\ k <= Len(names) THEN names[k] ELSE p[k]
  <1>1. CASE ~IsPrefix(old, p)
    BY <1>1 DEF Moved
  <1>2. CASE IsPrefix(old, p)
    <2> DEFINE n == Len(names)
               r == SubSeq(p, n + 1, Len(p))
               m == names \o r
    <2>1. n \in Nat /\ Len(p) \in Nat /\ n <= Len(p)
      <3>1. Len(old) <= Len(p)
        BY <1>2, PrefixIs
      <3> QED BY <3>1, WayIs
    <2>2. Moved(p, old, names) = m
      BY <1>2 DEF Moved
    <2>3. r \in Seq(Text) /\ Len(r) = Len(p) - n /\ \A k \in 1 .. Len(p) - n : r[k] = p[n + k]
      <3>1. \A k \in n + 1 .. Len(p) : p[k] \in Text
        BY <2>1, WayIs
      <3>2. n + 1 \in Int /\ Len(p) \in Int
        BY <2>1
      <3> HIDE DEF n
      <3>3. /\ r \in Seq(Text) /\ Len(r) = IF n + 1 <= Len(p) THEN Len(p) - (n + 1) + 1 ELSE 0
            /\ \A k \in 1 .. Len(p) - (n + 1) + 1 : r[k] = p[(n + 1) + k - 1]
        BY <3>1, <3>2, SubSeqProperties
      <3>4. /\ (IF n + 1 <= Len(p) THEN Len(p) - (n + 1) + 1 ELSE 0) = Len(p) - n
            /\ Len(p) - (n + 1) + 1 = Len(p) - n
            /\ \A k \in 1 .. Len(p) - n : (n + 1) + k - 1 = n + k
        BY <2>1
      <3> QED BY <3>3, <3>4
    <2> HIDE DEF r
    <2>4. /\ m \in Seq(Text) /\ Len(m) = n + Len(r)
          /\ \A k \in 1 .. n + Len(r) : m[k] = IF k <= n THEN names[k] ELSE r[k - n]
      BY <2>3, ConcatProperties DEF Way
    <2>5. Len(m) = Len(p)
      BY <2>1, <2>3, <2>4
    <2> HIDE DEF m, n
    <2>6. ASSUME NEW k \in 1 .. Len(p) PROVE m[k] = IF k <= n THEN names[k] ELSE p[k]
      <3>1. k \in 1 .. n + Len(r)
        BY <2>1, <2>3
      <3>2. CASE k <= n
        BY <2>4, <3>1, <3>2
      <3>3. CASE ~(k <= n)
        <4>1. k - n \in 1 .. Len(p) - n /\ n + (k - n) = k
          BY <2>1, <3>3
        <4>2. r[k - n] = p[k]
          BY <2>3, <4>1
        <4> QED BY <2>4, <3>1, <3>3, <4>2
      <3> QED BY <3>2, <3>3
    <2> QED BY <1>2, <2>2, <2>4, <2>5, <2>6 DEF Way, n
  <1> QED BY <1>1, <1>2

LEMMA TreeIs ==
  ASSUME NEW ds, NEW fs, Tree(ds, fs)
  PROVE  /\ <<>> \in ds /\ ds \cap fs = {}
         /\ \A p \in ds \cup fs : p \in Way /\ \A k \in 1 .. Len(p) : PageName(p[k])
         /\ \A p \in ds \cup fs : \A n \in Nat : n < Len(p) => SubSeq(p, 1, n) \in ds
         /\ \A p \in ds : \A k \in 1 .. Len(p) : Escaped(p[k])
  <1>1. <<>> \in ds /\ ds \cap fs = {}
    BY DEF Tree
  <1>2. ASSUME NEW p \in ds \cup fs
        PROVE  /\ p \in Way /\ DOMAIN p = 1 .. Len(p) /\ Len(p) \in Nat
               /\ \A k \in 1 .. Len(p) : PageName(p[k])
               /\ \A n \in Nat : n < Len(p) => SubSeq(p, 1, n) \in ds
    <2>1. /\ p \in Seq(Text) /\ \A k \in DOMAIN p : PageName(p[k])
          /\ \A n \in 0 .. Len(p) - 1 : SubSeq(p, 1, n) \in ds
      BY DEF Tree
    <2>2. p \in Way /\ DOMAIN p = 1 .. Len(p) /\ Len(p) \in Nat
      BY <2>1, WayIs DEF Way
    <2>3. \A n \in Nat : n < Len(p) => n \in 0 .. Len(p) - 1
      BY <2>2
    <2> QED BY <2>1, <2>2, <2>3
  <1>3. ASSUME NEW p \in ds, NEW k \in 1 .. Len(p) PROVE Escaped(p[k])
    <2>1. k \in DOMAIN p
      BY <1>2
    <2> QED BY <2>1 DEF Tree
  <1> QED BY <1>1, <1>2, <1>3

LEMMA IsTree ==
  ASSUME NEW ds, NEW fs,
         <<>> \in ds, ds \cap fs = {},
         \A p \in ds \cup fs : p \in Way /\ \A k \in 1 .. Len(p) : PageName(p[k]),
         \A p \in ds \cup fs : \A n \in Nat : n < Len(p) => SubSeq(p, 1, n) \in ds,
         \A p \in ds : \A k \in 1 .. Len(p) : Escaped(p[k])
  PROVE  Tree(ds, fs)
  <1>1. ASSUME NEW p \in ds \cup fs
        PROVE  /\ p \in Seq(Text) /\ \A k \in DOMAIN p : PageName(p[k])
               /\ \A n \in 0 .. Len(p) - 1 : SubSeq(p, 1, n) \in ds
    <2>1. p \in Way /\ DOMAIN p = 1 .. Len(p) /\ Len(p) \in Nat
      BY WayIs
    <2>2. \A n \in 0 .. Len(p) - 1 : n \in Nat /\ n < Len(p)
      BY <2>1
    <2> QED BY <2>1, <2>2 DEF Way
  <1>2. \A p \in ds : DOMAIN p = 1 .. Len(p)
    BY WayIs
  <1> QED BY <1>1, <1>2 DEF Tree

LEMMA TreeSaved ==
  ASSUME NEW ds, NEW fs, Tree(ds, fs), NEW above, NEW p, Tree(above, {p}),
         above \cap fs = {}, p \notin ds
  PROVE  Tree(ds \cup above, fs \cup {p})
  <1>1. \A q \in (ds \cup above) \cup (fs \cup {p}) : q \in Way /\ \A k \in 1 .. Len(q) : PageName(q[k])
    BY TreeIs
  <1>2. \A q \in (ds \cup above) \cup (fs \cup {p}) : \A n \in Nat : n < Len(q) => SubSeq(q, 1, n) \in ds \cup above
    BY TreeIs
  <1>3. \A q \in ds \cup above : \A k \in 1 .. Len(q) : Escaped(q[k])
    BY TreeIs
  <1>4. <<>> \in ds \cup above /\ (ds \cup above) \cap (fs \cup {p}) = {}
    BY TreeIs
  <1> QED BY <1>1, <1>2, <1>3, <1>4, IsTree

(* A page takes a name that is free, in a directory that is there, and     *)
(* everything below the old name goes with it.                             *)
LEMMA TreeMoved ==
  ASSUME NEW ds, NEW fs, Tree(ds, fs), NEW old \in ds \cup fs, NEW names \in Way,
         names \notin ds \cup fs, Front(names) \in ds, Len(old) = Len(names),
         \A k \in 1 .. Len(names) : PageName(names[k]),
         old \in ds => \A k \in 1 .. Len(names) : Escaped(names[k])
  PROVE  Tree({Moved(p, old, names) : p \in ds}, {Moved(p, old, names) : p \in fs})
  <1> DEFINE M(p) == Moved(p, old, names)
             n == Len(names)
             L(p) == IsPrefix(old, p)
  <1>1. old \in Way /\ n \in Nat /\ Len(old) = n
    BY TreeIs, WayIs
  <1>2. n > 0
    <2> SUFFICES ASSUME n = 0 PROVE FALSE
      BY <1>1
    <2>1. names = <<>>
      BY EmptySeq DEF Way
    <2> QED BY <2>1, TreeIs
  <1>3. ASSUME NEW p \in Way
        PROVE  /\ M(p) \in Way /\ Len(M(p)) = Len(p) /\ Len(p) \in Nat
               /\ \A k \in 1 .. Len(p) : M(p)[k] = IF L(p) /\ k <= n THEN names[k] ELSE p[k]
               /\ ~L(p) => M(p) = p
               /\ L(p) <=> n <= Len(p) /\ \A k \in 1 .. n : old[k] = p[k]
    BY <1>1, MovedIs, PrefixIs, WayIs DEF Moved
  <1>4. \A p \in ds \cup fs : p \in Way
    BY TreeIs
  <1>5. Front(names) = SubSeq(names, 1, n - 1)
    BY DEF Front
  <1>6. ASSUME NEW k \in Nat, k < n PROVE SubSeq(names, 1, k) \in ds
    <2> DEFINE f == SubSeq(names, 1, n - 1)
    <2>1. f \in ds
      BY <1>5
    <2>2. n - 1 \in Nat /\ n - 1 <= n /\ k <= n - 1 /\ k <= n
      BY <1>1, <1>2, <1>6
    <2>3. f \in Way /\ Len(f) = n - 1 /\ \A i \in 1 .. n - 1 : f[i] = names[i]
      BY <2>2, WayUp
    <2>4. SubSeq(names, 1, k) \in Way /\ Len(SubSeq(names, 1, k)) = k
          /\ \A i \in 1 .. k : SubSeq(names, 1, k)[i] = names[i]
      BY <2>2, WayUp
    <2> HIDE DEF f
    <2>5. CASE k = n - 1
      BY <2>1, <2>5 DEF f
    <2>6. CASE k < n - 1
      <3>1. SubSeq(f, 1, k) \in ds
        BY <2>1, <2>3, <2>6, TreeIs
      <3>2. SubSeq(f, 1, k) \in Way /\ Len(SubSeq(f, 1, k)) = k
            /\ \A i \in 1 .. k : SubSeq(f, 1, k)[i] = f[i]
        BY <2>2, <2>3, WayUp
      <3>3. \A i \in 1 .. k : i \in 1 .. n - 1
        BY <2>2
      <3>4. SubSeq(f, 1, k) = SubSeq(names, 1, k)
        BY <2>3, <2>4, <3>2, <3>3, SameWay
      <3> QED BY <3>1, <3>4
    <2> QED BY <2>2, <2>5, <2>6
  <1>7. ASSUME NEW p \in ds \cup fs, NEW k \in 1 .. Len(p) PROVE PageName(M(p)[k])
    <2>1. p \in Way /\ PageName(p[k])
      BY <1>7, TreeIs
    <2>2. M(p)[k] = IF L(p) /\ k <= n THEN names[k] ELSE p[k]
      BY <1>3, <2>1
    <2>3. k <= n => k \in 1 .. n
      BY <1>1
    <2> QED BY <2>1, <2>2, <2>3
  <1>8. ASSUME NEW p \in ds, NEW k \in 1 .. Len(p) PROVE Escaped(M(p)[k])
    <2>1. p \in Way /\ Escaped(p[k])
      BY <1>8, TreeIs
    <2>2. M(p)[k] = IF L(p) /\ k <= n THEN names[k] ELSE p[k]
      BY <1>3, <2>1
    <2>3. k <= n => k \in 1 .. n
      BY <1>1
    <2>4. ASSUME L(p) PROVE old \in ds
      <3>1. n <= Len(p) /\ Len(p) \in Nat /\ \A i \in 1 .. n : old[i] = p[i]
        BY <1>3, <2>1, <2>4
      <3>2. /\ SubSeq(p, 1, n) \in Way /\ Len(SubSeq(p, 1, n)) = n
            /\ \A i \in 1 .. n : SubSeq(p, 1, n)[i] = p[i]
        BY <1>1, <2>1, <3>1, WayUp
      <3>3. SubSeq(p, 1, n) = old
        BY <1>1, <3>1, <3>2, SameWay
      <3>4. CASE n < Len(p)
        BY <1>1, <3>3, <3>4, TreeIs
      <3>5. CASE n = Len(p)
        <4>1. p = old
          BY <1>1, <2>1, <3>1, <3>5, SameWay
        <4> QED BY <4>1
      <3> QED BY <1>1, <3>1, <3>4, <3>5
    <2> QED BY <2>1, <2>2, <2>3, <2>4
  <1> DEFINE ds2 == {M(p) : p \in ds}
             fs2 == {M(p) : p \in fs}
  <1>9. ASSUME NEW q \in ds, ~L(q) PROVE q \in ds2
    BY <1>3, <1>4, <1>9
  <1>10. ASSUME NEW p \in ds \cup fs, NEW k \in Nat, k < Len(p) PROVE SubSeq(M(p), 1, k) \in ds2
    <2> DEFINE q == SubSeq(p, 1, k)
               s == SubSeq(M(p), 1, k)
    <2>1. p \in Way /\ M(p) \in Way /\ Len(M(p)) = Len(p) /\ Len(p) \in Nat
      BY <1>3, <1>4
    <2>2. k <= Len(p)
      BY <1>10, <2>1
    <2>3. /\ q \in Way /\ Len(q) = k /\ \A i \in 1 .. k : q[i] = p[i]
          /\ s \in Way /\ Len(s) = k /\ \A i \in 1 .. k : s[i] = M(p)[i]
      <3>1. q \in Way /\ Len(q) = k /\ \A i \in 1 .. k : q[i] = p[i]
        BY <2>1, <2>2, WayUp
      <3>2. s \in Way /\ Len(s) = k /\ \A i \in 1 .. k : s[i] = M(p)[i]
        BY <2>1, <2>2, WayUp
      <3> QED BY <3>1, <3>2
    <2>4. q \in ds
      BY <1>10, TreeIs
    <2> HIDE DEF q, s
    <2>5. CASE ~L(p)
      <3>1. s = q
        BY <1>3, <2>1, <2>5 DEF s, q
      <3>2. ~L(q)
        <4> SUFFICES ASSUME L(q) PROVE L(p)
          BY <2>5
        <4>1. n <= k /\ \A i \in 1 .. n : old[i] = q[i]
          BY <1>3, <2>3
        <4>2. \A i \in 1 .. n : i \in 1 .. k
          BY <1>1, <4>1
        <4>3. n <= Len(p)
          BY <1>1, <2>1, <2>2, <4>1
        <4>4. \A i \in 1 .. n : old[i] = p[i]
          BY <2>3, <4>1, <4>2
        <4> QED BY <1>3, <2>1, <4>3, <4>4
      <3> QED BY <1>9, <2>4, <3>1, <3>2 DEF s
    <2>6. CASE L(p) /\ n <= k
      <3>1. \A i \in 1 .. n : old[i] = p[i]
        BY <1>3, <2>1, <2>6
      <3>2. \A i \in 1 .. n : i \in 1 .. k
        BY <1>1, <2>6
      <3>3. \A i \in 1 .. n : old[i] = q[i]
        BY <2>3, <3>1, <3>2
      <3>4. L(q)
        BY <1>3, <2>3, <2>6, <3>3
      <3>5. \A i \in 1 .. k : i \in 1 .. Len(p)
        BY <2>1, <2>2
      <3>6. M(q) \in Way /\ Len(M(q)) = k /\ \A i \in 1 .. k : M(q)[i] = IF i <= n THEN names[i] ELSE q[i]
        BY <1>3, <2>3, <3>4
      <3>7. \A i \in 1 .. Len(p) : M(p)[i] = IF i <= n THEN names[i] ELSE p[i]
        BY <1>3, <2>1, <2>6
      <3>8. \A i \in 1 .. k : s[i] = M(q)[i]
        BY <2>3, <3>5, <3>6, <3>7
      <3>9. s = M(q)
        BY <2>3, <3>6, <3>8, SameWay
      <3> QED BY <2>4, <3>9 DEF s
    <2>7. CASE L(p) /\ ~(n <= k)
      <3>1. k < n /\ k <= n
        BY <1>1, <2>7
      <3> DEFINE f == SubSeq(names, 1, k)
      <3>2. f \in ds
        BY <1>6, <3>1
      <3>3. f \in Way /\ Len(f) = k /\ \A i \in 1 .. k : f[i] = names[i]
        BY <3>1, WayUp
      <3> HIDE DEF f
      <3>4. \A i \in 1 .. k : i \in 1 .. Len(p) /\ i <= n
        BY <1>1, <2>1, <2>2, <3>1
      <3>5. \A i \in 1 .. Len(p) : M(p)[i] = IF i <= n THEN names[i] ELSE p[i]
        BY <1>3, <2>1, <2>7
      <3>6. \A i \in 1 .. k : s[i] = f[i]
        BY <2>3, <3>3, <3>4, <3>5
      <3>7. s = f
        BY <2>3, <3>3, <3>6, SameWay
      <3>8. ~L(f)
        BY <1>3, <2>7, <3>3
      <3> QED BY <1>9, <3>2, <3>7, <3>8 DEF s
    <2> QED BY <2>5, <2>6, <2>7
  <1>11. ASSUME NEW p \in ds \cup fs, NEW q \in ds \cup fs, L(p), ~L(q), M(p) = M(q) PROVE FALSE
    <2>1. p \in Way /\ q \in Way /\ M(q) = q /\ Len(p) = Len(q) /\ n <= Len(q) /\ Len(q) \in Nat
      BY <1>3, <1>4, <1>11
    <2>2. \A i \in 1 .. Len(q) : M(p)[i] = IF i <= n THEN names[i] ELSE p[i]
      BY <1>3, <1>11, <2>1
    <2>3. \A i \in 1 .. n : i \in 1 .. Len(q) /\ i <= n
      BY <1>1, <2>1
    <2>4. \A i \in 1 .. n : q[i] = names[i]
      BY <1>11, <2>1, <2>2, <2>3
    <2>5. /\ SubSeq(q, 1, n) \in Way /\ Len(SubSeq(q, 1, n)) = n
          /\ \A i \in 1 .. n : SubSeq(q, 1, n)[i] = q[i]
      BY <1>1, <2>1, WayUp
    <2>6. SubSeq(q, 1, n) = names
      BY <2>4, <2>5, SameWay
    <2>7. CASE n < Len(q)
      <3>1. SubSeq(q, 1, n) \in ds
        BY <1>1, <2>7, TreeIs
      <3> QED BY <2>6, <3>1
    <2>8. CASE n = Len(q)
      <3>1. q = names
        BY <2>1, <2>4, <2>8, SameWay
      <3> QED BY <3>1
    <2> QED BY <1>1, <2>1, <2>7, <2>8
  <1>12. ASSUME NEW p \in ds \cup fs, NEW q \in ds \cup fs, M(p) = M(q) PROVE p = q
    <2>1. p \in Way /\ q \in Way
      BY <1>4
    <2>2. CASE ~L(p) /\ ~L(q)
      BY <1>3, <1>12, <2>1, <2>2
    <2>3. CASE L(p) /\ L(q)
      <3>1. Len(p) = Len(q) /\ Len(p) \in Nat
        BY <1>3, <1>12, <2>1
      <3>2. ASSUME NEW i \in 1 .. Len(p) PROVE p[i] = q[i]
        <4>1. CASE i <= n
          <5>1. i \in 1 .. n
            BY <1>1, <4>1
          <5> QED BY <1>3, <2>1, <2>3, <5>1
        <4>2. CASE ~(i <= n)
          BY <1>3, <1>12, <2>1, <2>3, <3>1, <4>2
        <4> QED BY <4>1, <4>2
      <3> QED BY <2>1, <3>1, <3>2, SameWay
    <2>4. ~(L(p) /\ ~L(q)) /\ ~(L(q) /\ ~L(p))
      BY <1>11, <1>12
    <2> QED BY <2>2, <2>3, <2>4
  <1>13. ds2 \cap fs2 = {}
    <2> SUFFICES ASSUME NEW p \in ds, NEW q \in fs, M(p) = M(q) PROVE FALSE
      OBVIOUS
    <2>1. p = q
      BY <1>12
    <2> QED BY <2>1, TreeIs
  <1>14. <<>> \in ds2
    <2>1. <<>> \in ds /\ Len(<<>>) = 0 /\ <<>> \in Way
      BY TreeIs, EmptySeq DEF Way
    <2>2. ~L(<<>>)
      BY <1>1, <1>2, <1>3, <2>1
    <2> QED BY <1>9, <2>1, <2>2
  <1>15. \A p \in ds \cup fs : M(p) \in Way /\ Len(M(p)) = Len(p)
    BY <1>3, <1>4
  <1>16. \A r \in ds2 \cup fs2 : \E p \in ds \cup fs : r = M(p)
    OBVIOUS
  <1>17. \A r \in ds2 : \E p \in ds : r = M(p)
    OBVIOUS
  <1> HIDE DEF M, L
  <1>18. \A r \in ds2 \cup fs2 : r \in Way /\ \A k \in 1 .. Len(r) : PageName(r[k])
    BY <1>7, <1>15, <1>16
  <1>19. \A r \in ds2 \cup fs2 : \A k \in Nat : k < Len(r) => SubSeq(r, 1, k) \in ds2
    BY <1>10, <1>15, <1>16
  <1>20. \A r \in ds2 : \A k \in 1 .. Len(r) : Escaped(r[k])
    BY <1>8, <1>15, <1>17
  <1> HIDE DEF ds2, fs2
  <1>21. Tree(ds2, fs2)
    BY <1>13, <1>14, <1>18, <1>19, <1>20, IsTree
  <1> QED BY <1>21 DEF ds2, fs2, M

(* A name of the data, and what is above it.                               *)
Proud(f) == NoSlash(f) /\ f \in Text /\ f \notin {<<>>, <<".">>}

LEMMA ProudIs == \A f : Proud(f) => Named(f) = <<f>> /\ Names(f) = <<f>> /\ f # <<>>
  <1> SUFFICES ASSUME NEW f, Proud(f) PROVE Named(f) = <<f>> /\ Names(f) = <<f>> /\ f # <<>>
    OBVIOUS
  <1>1. Named(f) = <<f>> /\ f # <<>>
    BY DEF Proud, Named
  <1> QED BY <1>1, NamesOne DEF Proud

LEMMA WayPut ==
  ASSUME NEW p \in Way, NEW f \in Text
  PROVE  /\ p \o <<f>> \in Way /\ Len(p \o <<f>>) = Len(p) + 1
         /\ \A k \in 1 .. Len(p) : (p \o <<f>>)[k] = p[k]
         /\ (p \o <<f>>)[Len(p) + 1] = f
         /\ Front(p \o <<f>>) = p /\ Append(p, f) = p \o <<f>>
         /\ p \o <<f>> # <<>>
  <1> DEFINE q == p \o <<f>>
  <1>1. <<f>> \in Seq(Text) /\ Len(<<f>>) = 1 /\ <<f>>[1] = f
    BY Single
  <1>2. Len(p) \in Nat /\ p \in Seq(Text)
    BY WayIs DEF Way
  <1>3. /\ q \in Seq(Text) /\ Len(q) = Len(p) + Len(<<f>>)
        /\ \A i \in 1 .. Len(p) + Len(<<f>>) : q[i] = IF i <= Len(p) THEN p[i] ELSE <<f>>[i - Len(p)]
    BY <1>1, <1>2, ConcatProperties
  <1> HIDE DEF q
  <1>4. q \in Way /\ Len(q) = Len(p) + 1
    BY <1>1, <1>3 DEF Way
  <1>5. \A k \in 1 .. Len(p) : q[k] = p[k]
    BY <1>1, <1>2, <1>3
  <1>6. q[Len(p) + 1] = f
    <2>1. Len(p) + 1 \in 1 .. Len(p) + 1 /\ ~(Len(p) + 1 <= Len(p)) /\ (Len(p) + 1) - Len(p) = 1
      BY <1>2
    <2> QED BY <1>1, <1>3, <2>1
  <1>7. Front(q) = p
    <2>1. Len(q) - 1 = Len(p) /\ Len(p) <= Len(q)
      BY <1>2, <1>4
    <2>2. /\ SubSeq(q, 1, Len(p)) \in Way /\ Len(SubSeq(q, 1, Len(p))) = Len(p)
          /\ \A k \in 1 .. Len(p) : SubSeq(q, 1, Len(p))[k] = q[k]
      BY <1>2, <1>4, <2>1, WayUp
    <2>3. SubSeq(q, 1, Len(p)) = p
      BY <1>5, <2>2, SameWay
    <2> QED BY <2>1, <2>3 DEF Front
  <1>8. Append(p, f) = q
    BY <1>2, AppendIsConcat DEF q
  <1>9. q # <<>>
    <2>1. Len(q) # 0
      BY <1>2, <1>4
    <2> QED BY <2>1, EmptySeq
  <1> QED BY <1>4, <1>5, <1>6, <1>7, <1>8, <1>9 DEF q

LEMMA NamesLast ==
  ASSUME NEW a \in Text, NEW f, Proud(f)
  PROVE  /\ Names(Down(a, f)) = Names(a) \o <<f>> /\ Names(Down(a, f)) \in Way
         /\ Front(Names(Down(a, f))) = Names(a) /\ Names(a) \in Way
         /\ Names(Down(a, f)) = Append(Names(a), f)
  <1>1. f \in Text /\ Names(f) = <<f>>
    BY ProudIs DEF Proud
  <1>2. Names(a) \in Way
    BY NamesSeq DEF Way
  <1>3. Names(Down(a, f)) = Names(a) \o <<f>>
    BY <1>1, NamesDown
  <1> QED BY <1>1, <1>2, <1>3, WayPut

(* Above every page of the data a percent sign begins an escape.           *)
LEMMA EscapedAbove ==
  ASSUME NEW ds, NEW fs, Tree(ds, fs), NEW a \in Text, Names(a) \in ds
  PROVE  Escaped(a)
  <1> DEFINE p == Names(a)
  <1>1. p \in Way /\ Len(p) \in Nat /\ DOMAIN p = 1 .. Len(p)
    BY TreeIs, WayIs
  <1>2. \A k \in 1 .. Len(p) : p[k] \in EscapedTexts
    BY <1>1, TreeIs, WayIs DEF EscapedTexts
  <1>3. p \in [1 .. Len(p) -> EscapedTexts]
    BY <1>1, <1>2, LenProperties DEF Way
  <1>4. p \in Seq(EscapedTexts)
    BY <1>1, <1>3, SeqDef
  <1> QED BY <1>4, NamesEscaped

LEMMA DecodesDown ==
  ASSUME NEW a \in Text, Escaped(a), NEW x \in Text
  PROVE  D(Down(a, x)) = Down(D(a), D(x))
  <1>1. <<"/">> \o x \in Text
    BY SlashFull, Cat
  <1>2. D(a \o (<<"/">> \o x)) = D(a) \o D(<<"/">> \o x)
    BY <1>1, DecodesEscaped
  <1> QED BY <1>2, DecodesSlash DEF Down

LEMMA StableLast ==
  ASSUME NEW a \in Text, Escaped(a), NEW x \in Text, Stable(Down(a, x))
  PROVE  Stable(a) /\ Stable(x)
  <1>1. D(a) = a
    BY StableDown DEF Stable
  <1>2. D(x) \in Text
    BY DecodesText
  <1>3. a \o (<<"/">> \o D(x)) = a \o (<<"/">> \o x)
    BY <1>1, DecodesDown DEF Down, Stable
  <1>4. <<"/">> \o D(x) \in Text /\ <<"/">> \o x \in Text /\ <<"/">> \in Text
    BY <1>2, SlashFull, Cat
  <1>5. <<"/">> \o D(x) = <<"/">> \o x
    BY <1>3, <1>4, Cancel
  <1>6. D(x) = x
    BY <1>2, <1>4, <1>5, Cancel
  <1> QED BY <1>1, <1>6 DEF Stable

(* What is asked for without a redirect is a name below a directory.       *)
LEMMA PathLast ==
  ASSUME NEW b \in Text, NEW ds, <<>> \in ds, NEW path, path = Path(WbRoot \o b, ds), path[1] = "/"
  PROVE  \E a, f \in Text : Proud(f) /\ path = Down(a, f)
  <1>1. /\ path \in Text /\ path # <<>> /\ ~Open(path)
        /\ \/ path = D(b) /\ Names(D(b)) \notin ds
           \/ path = Join(D(b), MainPage)
    BY PathIs
  <1>2. ~NoSlash(path)
    BY <1>1, LastOne
  <1>3. PICK a, f \in Text : NoSlash(f) /\ path = Down(a, f)
    BY <1>1, <1>2, TakesLast
  <1>4. Filename(path) = IF f # <<>> THEN f ELSE IF a = <<>> THEN <<"/">> ELSE <<".">>
    BY <1>3, FilenameDown
  <1>5. ASSUME f = <<>> PROVE FALSE
    <2>1. a = <<>>
      BY <1>1, <1>4, <1>5 DEF Open
    <2>2. Filename(path) = <<"/">>
      BY <1>4, <1>5, <2>1
    <2>3. Names(path) = <<>>
      <3>1. Names(Down(<<>>, <<>>)) = <<>> \o <<>>
        BY NamesDown, EmptyIs, EmptyText
      <3>2. <<>> \o <<>> = <<>>
        BY EmptyText, TextIs
      <3> QED BY <1>3, <1>5, <2>1, <3>1, <3>2
    <2>4. path = Join(D(b), MainPage)
      BY <1>1, <2>3
    <2>5. D(b) \in Text
      BY DecodesText
    <2>6. Filename(path) = MainPage
      BY <2>4, <2>5, MainIs, FilenameJoin
    <2>7. ~NoSlash(<<"/">>)
      BY HasOne DEF NoSlash
    <2> QED BY <2>2, <2>6, <2>7, MainIs
  <1>6. f # <<".">>
    BY <1>1, <1>4, <1>5 DEF Open
  <1> QED BY <1>3, <1>5, <1>6 DEF Proud

(* And one that a page may have, when the directory is there.              *)
LEMMA NamesGood ==
  ASSUME NEW ds, NEW fs, Tree(ds, fs), NEW a \in Text, NEW f, Proud(f), Names(a) \in ds,
         Stable(Down(a, f)), ~Has(Down(a, f), {"?"})
  PROVE  \A k \in 1 .. Len(Names(Down(a, f))) : PageName(Names(Down(a, f))[k])
  <1> DEFINE p == Names(Down(a, f))
  <1>1. f \in Text \ {<<>>} /\ ~Has(f, {"/"}) /\ f # <<".">>
    BY DEF Proud, NoSlash
  <1>2. Stable(f)
    BY <1>1, EscapedAbove, StableLast
  <1>3. ~Has(f, {"?"})
    BY <1>1, HasDown
  <1>4. PageName(f)
    BY <1>1, <1>2, <1>3 DEF PageName, Stable, D, Has
  <1>5. p = Names(a) \o <<f>> /\ Names(a) \in Way
    BY NamesLast
  <1>6. Len(p) = Len(Names(a)) + 1 /\ p[Len(Names(a)) + 1] = f
        /\ \A k \in 1 .. Len(Names(a)) : p[k] = Names(a)[k]
    BY <1>1, <1>5, WayPut
  <1>7. Len(Names(a)) \in Nat
    BY <1>5, WayIs
  <1>8. \A k \in 1 .. Len(Names(a)) : PageName(Names(a)[k])
    BY TreeIs
  <1> HIDE DEF p
  <1>9. \A k \in 1 .. Len(p) : k \in 1 .. Len(Names(a)) \/ k = Len(Names(a)) + 1
    BY <1>6, <1>7
  <1>10. \A k \in 1 .. Len(p) : PageName(p[k])
    BY <1>4, <1>6, <1>8, <1>9
  <1> QED BY <1>10 DEF p

(* The page of an older version takes the place of the one asked for.      *)
LEMMA TreeRenamed ==
  ASSUME NEW ds, NEW fs, Tree(ds, fs), NEW a \in Text, NEW f, Proud(f),
         Stable(Down(a, f)), ~Has(Down(a, f), {"?"}), NEW names, names = Names(Down(a, f)),
         names \notin ds \cup fs, Front(names) \in ds,
         NEW blank \in OldBlank, NEW old \in ds \cup fs, old = Older(names, blank)
  PROVE  Tree({Moved(p, old, names) : p \in ds}, {Moved(p, old, names) : p \in fs})
  <1>1. names \in Way /\ Names(a) \in ds
    BY NamesLast
  <1>2. \A k \in 1 .. Len(names) : PageName(names[k])
    BY <1>1, NamesGood
  <1>3. DOMAIN names = 1 .. Len(names) /\ Len(names) \in Nat /\ \A k \in 1 .. Len(names) : names[k] \in Text
    BY <1>1, WayIs
  <1>4. DOMAIN old = 1 .. Len(names) /\ \A k \in 1 .. Len(names) : old[k] = Unblanked(names[k], blank)
    BY <1>3 DEF Older
  <1>5. old \in Way /\ Len(old) \in Nat /\ DOMAIN old = 1 .. Len(old)
    BY TreeIs, WayIs
  <1>6. Len(old) = Len(names)
    BY <1>3, <1>4, <1>5
  <1>7. ASSUME old \in ds, NEW k \in 1 .. Len(names) PROVE Escaped(names[k])
    <2>1. Escaped(old[k])
      BY <1>6, <1>7, TreeIs
    <2>2. Escaped(Unblanked(names[k], blank)) /\ names[k] \in Text
      BY <1>3, <1>4, <2>1
    <2> QED BY <2>2, UnEscaped
  <1> QED BY <1>1, <1>2, <1>6, <1>7, TreeMoved

(* What a browser asks for, and what it is after.                          *)
LEMMA MainsIs ==
  /\ Mains(0) = <<>>
  /\ \A k \in Nat : Mains(k) \in Way /\ Len(Mains(k)) = k /\ Mains(k) \o <<MainPage>> = Mains(k + 1)
  <1>1. ASSUME NEW k \in Nat
        PROVE  Mains(k) \in Way /\ Len(Mains(k)) = k /\ \A i \in 1 .. k : Mains(k)[i] = MainPage
    <2>1. Mains(k) \in [1 .. k -> Text]
      BY MainIs DEF Mains
    <2>2. Mains(k) \in Seq(Text)
      BY <2>1, SeqDef
    <2>3. Len(Mains(k)) \in Nat /\ DOMAIN Mains(k) = 1 .. Len(Mains(k)) /\ DOMAIN Mains(k) = 1 .. k
      BY <2>2, LenProperties DEF Mains
    <2>4. Len(Mains(k)) = k
      <3>1. \A m \in Nat : 1 .. m = 1 .. k => m = k
        OBVIOUS
      <3> QED BY <2>3, <3>1, Zenon
    <2> QED BY <2>2, <2>4 DEF Way, Mains
  <1>2. Mains(0) = <<>>
    <2>1. Mains(0) \in Seq(Text) /\ Len(Mains(0)) = 0
      BY <1>1 DEF Way
    <2> QED BY <2>1, EmptySeq
  <1>3. ASSUME NEW k \in Nat PROVE Mains(k) \o <<MainPage>> = Mains(k + 1)
    <2> DEFINE m == Mains(k) \o <<MainPage>>
    <2>1. Mains(k) \in Way /\ Len(Mains(k)) = k /\ \A i \in 1 .. k : Mains(k)[i] = MainPage
      BY <1>1
    <2>2. m \in Way /\ Len(m) = k + 1 /\ (\A i \in 1 .. k : m[i] = Mains(k)[i]) /\ m[k + 1] = MainPage
      <3> DEFINE p == Mains(k)
      <3>1. p \in Way /\ Len(p) = k /\ MainPage \in Text
        BY <2>1, MainIs
      <3> HIDE DEF p
      <3>2. /\ p \o <<MainPage>> \in Way /\ Len(p \o <<MainPage>>) = Len(p) + 1
            /\ \A i \in 1 .. Len(p) : (p \o <<MainPage>>)[i] = p[i]
            /\ (p \o <<MainPage>>)[Len(p) + 1] = MainPage
        BY <3>1, WayPut
      <3>3. /\ p \o <<MainPage>> \in Way /\ Len(p \o <<MainPage>>) = k + 1
            /\ \A i \in 1 .. k : (p \o <<MainPage>>)[i] = p[i]
            /\ (p \o <<MainPage>>)[k + 1] = MainPage
        BY <3>1, <3>2, Zenon
      <3> QED BY <3>3 DEF p
    <2>3. k + 1 \in Nat
      OBVIOUS
    <2>4. /\ Mains(k + 1) \in Way /\ Len(Mains(k + 1)) = k + 1
          /\ \A i \in 1 .. k + 1 : Mains(k + 1)[i] = MainPage
      BY <1>1, <2>3
    <2> HIDE DEF m
    <2>5. ASSUME NEW i \in 1 .. k + 1 PROVE m[i] = MainPage
      <3>1. i \in 1 .. k \/ i = k + 1
        OBVIOUS
      <3> QED BY <2>1, <2>2, <3>1
    <2>6. m = Mains(k + 1)
      BY <2>2, <2>4, <2>5, SameWay
    <2> QED BY <2>6 DEF m
  <1> QED BY <1>1, <1>2, <1>3

LEMMA MainsPut ==
  ASSUME NEW p \in Way, NEW k \in Nat
  PROVE  /\ p \o Mains(k) \in Way /\ Len(p \o Mains(k)) = Len(p) + k
         /\ (p \o Mains(k)) \o <<MainPage>> = p \o Mains(k + 1)
         /\ p \o Mains(0) = p
  <1>1. Mains(k) \in Way /\ Len(Mains(k)) = k /\ Mains(k) \o <<MainPage>> = Mains(k + 1)
    BY MainsIs
  <1>2. p \o Mains(k) \in Way /\ Len(p \o Mains(k)) = Len(p) + k
    BY <1>1, ConcatProperties DEF Way
  <1>3. <<MainPage>> \in Way
    BY MainIs, Single DEF Way
  <1>4. (p \o Mains(k)) \o <<MainPage>> = p \o (Mains(k) \o <<MainPage>>)
    BY <1>1, <1>3, ConcatAssociative, SMTT(30) DEF Way
  <1>5. p \o Mains(0) = p
    BY MainsIs, ConcatEmptySeq DEF Way
  <1> QED BY <1>1, <1>2, <1>4, <1>5

ReachedAt(ds, w, names, k) ==
  /\ names = w.names \o Mains(k)
  /\ \A j \in 0 .. k - 1 : w.names \o Mains(j) \in ds \/ (j = 0 /\ w.open)
Reached(ds, w, names) == \E k \in 0 .. Len(names) : ReachedAt(ds, w, names, k)
Leads(ds, w, t) == Reached(ds, w, Names(t)) /\ (Open(t) => Names(t) = w.names /\ w.open)
IsHtml(c, path) ==
  Html = IF Names(path) \in DOMAIN StoredType THEN StoredType[Names(path)]
         ELSE IF path[1] = "/" /\ Names(path) \in HostDirs THEN <<"inode", "/", "directory">>
         ELSE IF Extension(path) \in DOMAIN c.mime THEN c.mime[Extension(path)] ELSE Html
(* A link of a listing leads to its entry, or to the main page below it.   *)
IsMain(w, s) == w.open /\ w.query = <<>> /\ \E k \in Nat : k > 0 /\ Names(s) = w.names \o Mains(k)
IsEntry(c, fs, w, s) ==
  Names(s) = w.names /\ w.names \in fs /\ (w.query = <<"prop">> \/ (w.query = <<>> /\ IsHtml(c, s)))
Direct(c, fs, w, s) ==
  /\ Stable(s) /\ s # <<>> /\ s[1] = "/" /\ ~Open(s)
  /\ IsMain(w, s) \/ IsEntry(c, fs, w, s)
Goal(c, ds, fs, w, uri, b) ==
  /\ b \in Text /\ ~Has(b, {"?"}) /\ w.query \in Text /\ w.names \in Way
  /\ uri = Location(WbRoot \o b, w.query)
  /\ Leads(ds, w, D(b))
  /\ w.via = "link" => Direct(c, fs, w, b)

LEMMA ReachIs ==
  ASSUME NEW ds, NEW w, w.names \in Way, NEW names \in Way, NEW k \in Nat, ReachedAt(ds, w, names, k)
  PROVE  Reached(ds, w, names)
  <1>1. Len(names) = Len(w.names) + k /\ Len(w.names) \in Nat
    BY MainsPut, WayIs DEF ReachedAt
  <1>2. k \in 0 .. Len(names)
    BY <1>1
  <1> QED BY <1>2 DEF Reached

LEMMA ReachHere == ASSUME NEW ds, NEW w, w.names \in Way PROVE Reached(ds, w, w.names)
  <1>1. ReachedAt(ds, w, w.names, 0)
    <2>1. w.names \o Mains(0) = w.names
      BY MainsPut
    <2>2. \A j : j \notin 0 .. 0 - 1
      OBVIOUS
    <2> QED BY <2>1, <2>2 DEF ReachedAt
  <1> QED BY <1>1, ReachIs

(* From a directory, or from what was asked for as one, to its main page.  *)
LEMMA ReachMain ==
  ASSUME NEW ds, NEW w, w.names \in Way, NEW names \in Way, Reached(ds, w, names),
         names \in ds \/ (names = w.names /\ w.open)
  PROVE  Reached(ds, w, names \o <<MainPage>>)
  <1>1. CASE names = w.names /\ w.open
    <2>1. ReachedAt(ds, w, names \o <<MainPage>>, 1)
      <3>1. names \o <<MainPage>> = w.names \o Mains(1)
        <4>1. \A k \in Nat : (w.names \o Mains(k)) \o <<MainPage>> = w.names \o Mains(k + 1)
          BY MainsPut
        <4>2. (w.names \o Mains(0)) \o <<MainPage>> = w.names \o Mains(0 + 1) /\ 0 + 1 = 1
          <5>1. 0 \in Nat /\ 0 + 1 = 1
            OBVIOUS
          <5>2. (w.names \o Mains(0)) \o <<MainPage>> = w.names \o Mains(0 + 1)
            BY <4>1, <5>1, Zenon
          <5> QED BY <5>1, <5>2
        <4>3. w.names \o Mains(0) = w.names
          BY MainsPut
        <4> QED BY <1>1, <4>2, <4>3
      <3>2. \A j \in 0 .. 1 - 1 : j = 0
        OBVIOUS
      <3> QED BY <1>1, <3>1, <3>2 DEF ReachedAt
    <2>2. names \o <<MainPage>> \in Way
      BY MainIs, WayPut
    <2> QED BY <2>1, <2>2, ReachIs
  <1>2. CASE names \in ds
    <2>1. PICK k \in 0 .. Len(names) : ReachedAt(ds, w, names, k)
      BY DEF Reached
    <2>2. k \in Nat
      OBVIOUS
    <2>3. ReachedAt(ds, w, names \o <<MainPage>>, k + 1)
      <3>1. names \o <<MainPage>> = w.names \o Mains(k + 1)
        BY <2>1, <2>2, MainsPut DEF ReachedAt
      <3>2. \A j \in 0 .. (k + 1) - 1 : j \in 0 .. k - 1 \/ j = k
        BY <2>2
      <3>3. \A j \in 0 .. (k + 1) - 1 : w.names \o Mains(j) \in ds \/ (j = 0 /\ w.open)
        BY <1>2, <2>1, <3>2 DEF ReachedAt
      <3> QED BY <3>1, <3>3 DEF ReachedAt
    <2>4. names \o <<MainPage>> \in Way /\ k + 1 \in Nat
      <3>1. MainPage \in Text
        BY MainIs
      <3> QED BY <2>2, <3>1, WayPut
    <2> QED BY <2>3, <2>4, ReachIs
  <1> QED BY <1>1, <1>2

LEMMA ReachMore ==
  ASSUME NEW ds, NEW more, ds \subseteq more, NEW w, NEW names, Reached(ds, w, names)
  PROVE  Reached(more, w, names)
  BY DEF Reached, ReachedAt

LEMMA GoalMore ==
  ASSUME NEW ds, NEW more, ds \subseteq more, NEW fs, NEW mores, fs \subseteq mores,
         NEW c, NEW w, NEW uri, NEW b, Goal(c, ds, fs, w, uri, b)
  PROVE  Goal(c, more, mores, w, uri, b)
  <1>1. Leads(more, w, D(b))
    BY ReachMore DEF Goal, Leads
  <1>2. w.via = "link" => Direct(c, mores, w, b)
    BY DEF Goal, Direct, IsEntry
  <1> QED BY <1>1, <1>2 DEF Goal

(* Whatever is asked for, the path is on the way to what the user is after,*)
(* and so is the URL of a redirect to it.                                  *)
LEMMA LinkArrives ==
  ASSUME NEW ds, NEW fs, Tree(ds, fs), NEW c, NEW w, w.names \in Way,
         NEW b \in Text, Direct(c, fs, w, b),
         NEW path, path = Path(WbRoot \o b, ds)
  PROVE  /\ Direct(c, fs, w, path)
         /\ CheckRedir(path, WbRoot \o b) => Front(Names(path)) \in ds \ {w.names}
  <1>1. Stable(b) /\ b # <<>> /\ b[1] = "/" /\ ~Open(b) /\ D(b) = b
    BY DEF Direct, Stable
  <1>2. /\ path \in Text /\ path # <<>> /\ ~Open(path) /\ Stable(path)
        /\ \/ path = b /\ Names(b) \notin ds
           \/ path = Join(b, MainPage) /\ Names(b) \in ds
    BY <1>1, PathIs
  <1>3. CASE path = b
    <2>1. ~CheckRedir(path, WbRoot \o b)
      BY <1>1, <1>3, NoRedirStable
    <2> QED BY <1>3, <2>1
  <1>4. CASE path = Join(b, MainPage) /\ Names(b) \in ds
    <2>1. Names(path) = Names(b) \o <<MainPage>> /\ path[1] = "/"
      BY <1>1, <1>4, JoinMain
    <2>2. Names(b) \in Way
      BY NamesSeq DEF Way
    <2>3. Front(Names(path)) = Names(b)
      BY <2>1, <2>2, MainIs, WayPut
    <2>4. ~IsEntry(c, fs, w, b)
      BY <1>4, TreeIs DEF IsEntry
    <2>5. PICK k \in Nat : k > 0 /\ Names(b) = w.names \o Mains(k) /\ w.open /\ w.query = <<>>
      BY <2>4 DEF Direct, IsMain
    <2>6. Names(path) = w.names \o Mains(k + 1)
      <3>1. (w.names \o Mains(k)) \o <<MainPage>> = w.names \o Mains(k + 1)
        BY MainsPut
      <3> QED BY <2>1, <2>5, <3>1
    <2>7. k + 1 \in Nat /\ k + 1 > 0
      OBVIOUS
    <2>8. IsMain(w, path)
      BY <2>5, <2>6, <2>7 DEF IsMain
    <2>9. Names(b) # w.names
      <3>1. Len(w.names \o Mains(k)) = Len(w.names) + k /\ Len(w.names) \in Nat
        BY MainsPut, WayIs
      <3> QED BY <2>5, <3>1
    <2> QED BY <1>2, <1>4, <2>1, <2>3, <2>8, <2>9 DEF Direct
  <1> QED BY <1>2, <1>3, <1>4

LEMMA Arrives ==
  ASSUME NEW ds, NEW fs, Tree(ds, fs), NEW c, NEW w, NEW uri, NEW b, Goal(c, ds, fs, w, uri, b),
         NEW path, path = Path(WbRoot \o b, ds)
  PROVE  /\ path \in Text /\ Names(path) \in Way /\ Reached(ds, w, Names(path))
         /\ Goal(c, ds, fs, w, Location(UrlPath(path), w.query), Below(path))
         /\ w.via = "link" => Direct(c, fs, w, path)
         /\ w.via = "link" /\ CheckRedir(path, WbRoot \o b) => Front(Names(path)) \in ds \ {w.names}
  <1> DEFINE t == D(b)
  <1>1. b \in Text /\ ~Has(b, {"?"}) /\ w.names \in Way /\ w.query \in Text /\ Leads(ds, w, t)
    BY DEF Goal
  <1>2. /\ path \in Text /\ path # <<>> /\ ~Open(path) /\ Stable(path) /\ ~Has(path, {"?"})
        /\ \/ path = t /\ Names(t) \notin ds /\ ~Open(t)
           \/ path = Join(t, MainPage) /\ (Open(t) \/ Names(t) \in ds)
    BY <1>1, PathIs
  <1>3. t \in Text /\ Names(t) \in Way
    <2>1. t \in Text
      BY <1>1, DecodesText
    <2> HIDE DEF t
    <2> QED BY <2>1, NamesSeq DEF Way
  <1> HIDE DEF t
  <1>4. Reached(ds, w, Names(path))
    <2>1. CASE path = t
      BY <1>1, <2>1 DEF Leads
    <2>2. CASE path = Join(t, MainPage) /\ (Open(t) \/ Names(t) \in ds)
      <3>1. Names(path) = Names(t) \o <<MainPage>>
        BY <1>3, <2>2, JoinMain
      <3>2. Reached(ds, w, Names(t)) /\ (Names(t) \in ds \/ (Names(t) = w.names /\ w.open))
        BY <1>1, <2>2 DEF Leads
      <3>3. Reached(ds, w, Names(t) \o <<MainPage>>)
        BY <1>1, <1>3, <3>2, ReachMain
      <3> QED BY <3>1, <3>3
    <2> QED BY <1>2, <2>1, <2>2
  <1>5. Names(path) \in Way
    BY <1>2, NamesSeq DEF Way
  <1>6. /\ UrlPath(path) = WbRoot \o Below(path)
        /\ Below(path) \in Text /\ Names(Below(path)) = Names(path)
        /\ Stable(Below(path)) /\ ~Has(Below(path), {"?"}) /\ ~Open(Below(path))
    BY <1>2, BelowIs DEF Open
  <1>7. Leads(ds, w, D(Below(path)))
    BY <1>4, <1>6 DEF Leads, Stable
  <1>8. ASSUME w.via = "link"
        PROVE  /\ Direct(c, fs, w, path) /\ Below(path) = path
               /\ CheckRedir(path, WbRoot \o b) => Front(Names(path)) \in ds \ {w.names}
    <2>1. Direct(c, fs, w, b)
      BY <1>8 DEF Goal
    <2>2. /\ Direct(c, fs, w, path)
          /\ CheckRedir(path, WbRoot \o b) => Front(Names(path)) \in ds \ {w.names}
      BY <1>1, <2>1, LinkArrives
    <2>3. Below(path) = path
      BY <2>2 DEF Direct, Below
    <2> QED BY <2>2, <2>3
  <1>9. Goal(c, ds, fs, w, Location(UrlPath(path), w.query), Below(path))
    BY <1>1, <1>6, <1>7, <1>8 DEF Goal
  <1> QED BY <1>2, <1>4, <1>5, <1>8, <1>9

(* The server finds the URL and the query again.                           *)
LEMMA GoalAsks ==
  ASSUME NEW ds, NEW fs, NEW c, NEW w, NEW uri, NEW b, Goal(c, ds, fs, w, uri, b)
  PROVE  /\ Ask(uri) = [uri |-> uri, query |-> w.query]
         /\ SansQueryURI(uri, w.query) = WbRoot \o b
         /\ IsPrefix(WbRoot, uri)
  <1>1. b \in Text /\ ~Has(b, {"?"}) /\ w.query \in Text /\ uri = Location(WbRoot \o b, w.query)
    BY DEF Goal
  <1>2. WbRoot \o b \in Text /\ ~Has(WbRoot \o b, {"?"})
    BY <1>1, RootIs, Cat, HasCat
  <1>3. Ask(uri) = [uri |-> uri, query |-> w.query] /\ SansQueryURI(uri, w.query) = WbRoot \o b
    BY <1>1, <1>2, AskIs
  <1>4. ASSUME NEW x \in Text PROVE IsPrefix(WbRoot, WbRoot \o x)
    <2>1. Len(WbRoot \o x) = Len(WbRoot) + Len(x) /\ SubSeq(WbRoot \o x, 1, Len(WbRoot)) = WbRoot
      BY RootIs, Cat, Parts
    <2>2. SubSeq(WbRoot, 1, Len(WbRoot)) = WbRoot
      BY RootIs, SubSeqFull DEF Text
    <2>3. Len(WbRoot) \in Nat /\ Len(x) \in Nat
      BY RootIs, TextIs
    <2>4. Len(WbRoot) <= Len(WbRoot \o x)
      BY <2>1, <2>3
    <2> QED BY <2>1, <2>2, <2>4 DEF IsPrefix
  <1>5. IsPrefix(WbRoot, uri)
    <2>1. CASE w.query = <<>>
      BY <1>1, <1>4, <2>1 DEF Location
    <2>2. CASE w.query # <<>>
      <3>1. uri = ((WbRoot \o b) \o <<"?">>) \o w.query
        BY <1>1, <2>2 DEF Location
      <3>2. <<"?">> \in Text
        <4>1. "?" \in Char
          BY NameAssumption
        <4> QED BY <4>1, OneChar
      <3>3. (WbRoot \o b) \o <<"?">> = WbRoot \o (b \o <<"?">>) /\ b \o <<"?">> \in Text
        <4>1. b \o <<"?">> \in Text
          BY <1>1, <3>2, Cat
        <4>2. WbRoot \in Text
          BY RootIs
        <4>3. (WbRoot \o b) \o <<"?">> = WbRoot \o (b \o <<"?">>)
          BY <1>1, <3>2, <4>2, Assoc, Zenon
        <4> QED BY <4>1, <4>3
      <3>4. (WbRoot \o (b \o <<"?">>)) \o w.query = WbRoot \o ((b \o <<"?">>) \o w.query)
        BY <1>1, <3>3, RootIs, Assoc
      <3>5. (b \o <<"?">>) \o w.query \in Text
        BY <1>1, <3>3, Cat
      <3> QED BY <1>4, <3>1, <3>3, <3>4, <3>5
    <2> QED BY <2>1, <2>2
  <1> QED BY <1>3, <1>5

(* The links of a listing.                                                 *)
LEMMA FirstDown ==
  ASSUME NEW a \in Text, NEW x \in Text
  PROVE  Down(a, x)[1] = "/" <=> a = <<>> \/ a[1] = "/"
  <1>1. <<"/">> \o x \in Text /\ (<<"/">> \o x)[1] = "/"
    BY SlashFull, Cat, FirstOf
  <1>2. CASE a = <<>>
    <2>1. <<>> \o (<<"/">> \o x) = <<"/">> \o x
      BY <1>1, TextIs
    <2> QED BY <1>1, <1>2, <2>1 DEF Down
  <1>3. CASE a # <<>>
    BY <1>1, <1>3, FirstOf DEF Down
  <1> QED BY <1>2, <1>3

LEMMA RootDown ==
  ASSUME NEW a \in Text, NEW x \in Text
  PROVE  WbRoot \o Down(a, x) = Down(WbRoot \o a, x) /\ WbRoot \o a \in Text /\ WbRoot \o a # <<>>
  <1>1. <<"/">> \o x \in Text
    BY SlashFull, Cat
  <1>2. WbRoot \in Text /\ WbRoot # <<>>
    BY RootIs
  <1>3. (WbRoot \o a) \o (<<"/">> \o x) = WbRoot \o (a \o (<<"/">> \o x))
    BY <1>1, <1>2, Assoc, Zenon
  <1>4. WbRoot \o a \in Text /\ WbRoot \o a # <<>>
    BY <1>2, Cat, FirstOf
  <1> QED BY <1>3, <1>4 DEF Down

LEMMA SlashNames == Names(<<"/">>) = <<>>
  <1>1. <<"/">> \o <<>> = <<"/">> /\ <<>> \o <<"/">> = <<"/">>
    BY SlashFull, TextIs
  <1>2. Down(<<>>, <<>>) = <<"/">>
    BY <1>1 DEF Down
  <1>3. Names(Down(<<>>, <<>>)) = <<>> \o <<>>
    BY NamesDown, EmptyIs, EmptyText
  <1>4. <<>> \o <<>> = <<>>
    BY EmptyText, TextIs
  <1> QED BY <1>2, <1>3, <1>4

(* The directory of a path that is listed, and of its URL.                 *)
LEMMA ParentIs ==
  ASSUME NEW a \in Text, NEW f, NoSlash(f), NEW path, path = Down(a, f), path[1] = "/"
  PROVE  /\ UrlPath(path) = WbRoot \o path /\ ParentPath(UrlPath(path)) = WbRoot \o a
         /\ Names(ParentPath(path)) = Names(a)
         /\ a # <<>> => ParentPath(path) = a /\ a[1] = "/"
         /\ a = <<>> /\ f # <<>> => ParentPath(path) = <<"/">>
  <1>1. f \in Text
    BY DEF NoSlash
  <1>2. path \in Text /\ path # <<>>
    BY <1>1, DownIs
  <1>3. UrlPath(path) = WbRoot \o path
    BY <1>2, BelowIs DEF Below
  <1>4. WbRoot \o path = Down(WbRoot \o a, f) /\ WbRoot \o a \in Text /\ WbRoot \o a # <<>>
    BY <1>1, RootDown
  <1>5. ParentPath(Down(WbRoot \o a, f)) = WbRoot \o a
    BY <1>4, ParentDown
  <1>6. ParentPath(path) = IF a # <<>> THEN a ELSE IF f = <<>> THEN <<>> ELSE <<"/">>
    BY ParentDown
  <1>7. Names(ParentPath(path)) = Names(a)
    BY <1>6, SlashNames, EmptyIs
  <1>8. a # <<>> => a[1] = "/"
    BY <1>1, FirstDown
  <1> QED BY <1>3, <1>4, <1>5, <1>6, <1>7, <1>8

LEMMA BesideIs ==
  ASSUME NEW a \in Text, a = <<>> \/ a[1] = "/", NEW m, NoSlash(m), m # <<>>
  PROVE  \E y \in Text : /\ Join(WbRoot \o a, m) = WbRoot \o Down(y, m)
                         /\ Names(y) = Names(a) /\ (Stable(a) => Stable(y))
                         /\ ~Has(a, {"?"}) => ~Has(y, {"?"})
                         /\ y = <<>> \/ y[1] = "/"
  <1> DEFINE t == WbRoot \o a
  <1>1. t \in Text /\ t # <<>> /\ m \in Text
    BY RootDown DEF NoSlash
  <1> HIDE DEF t
  <1>2. PICK x \in Text : Join(t, m) = Down(x, m) /\ (t = x \/ t = Down(x, <<>>))
    BY <1>1, JoinIs
  <1>3. CASE t = x
    <2>1. Join(t, m) = WbRoot \o Down(a, m)
      BY <1>1, <1>2, <1>3, RootDown DEF t
    <2> QED BY <2>1 DEF t
  <1>4. CASE t = Down(x, <<>>)
    <2>1. Last(t) = "/"
      BY <1>4, LastDown, EmptyIs
    <2>2. a # <<>>
      <3> SUFFICES ASSUME a = <<>> PROVE FALSE
        OBVIOUS
      <3>1. t = WbRoot
        BY RootIs, TextIs DEF t
      <3> QED BY <2>1, <3>1, RootIs
    <2>3. ~NoSlash(a)
      BY <2>2, LastOne
    <2>4. PICK y, g \in Text : NoSlash(g) /\ a = Down(y, g)
      BY <2>3, TakesLast
    <2>5. t = Down(WbRoot \o y, g) /\ WbRoot \o y \in Text
      BY <2>4, RootDown DEF t
    <2>6. g = <<>>
      BY <2>1, <2>4, <2>5, LastDown
    <2>7. x = WbRoot \o y
      <3>1. /\ Len(Down(x, <<>>)) = Len(x) + 1 + Len(<<>>) /\ SubSeq(Down(x, <<>>), 1, Len(x)) = x
        BY DownIs, EmptyText
      <3> DEFINE z == WbRoot \o y
      <3>2. z \in Text /\ t = Down(z, <<>>)
        BY <2>5, <2>6
      <3> HIDE DEF z
      <3>3. /\ Len(Down(z, <<>>)) = Len(z) + 1 + Len(<<>>) /\ SubSeq(Down(z, <<>>), 1, Len(z)) = z
        BY <3>2, DownIs, EmptyText
      <3>4. Len(x) = Len(z)
        <4>1. Len(x) + 1 + Len(<<>>) = Len(z) + 1 + Len(<<>>)
          BY <1>4, <3>1, <3>2, <3>3
        <4>2. Len(x) \in Nat /\ Len(z) \in Nat /\ Len(<<>>) = 0
          BY <3>2, TextIs
        <4> QED BY <4>1, <4>2
      <3> QED BY <1>4, <3>1, <3>2, <3>3, <3>4 DEF z
    <2>8. Join(t, m) = WbRoot \o Down(y, m)
      BY <1>1, <1>2, <2>7, RootDown
    <2>9. Names(y) = Names(a)
      <3>1. Names(Down(y, <<>>)) = Names(y) \o Names(<<>>)
        BY NamesDown, EmptyText
      <3>2. Names(y) \o <<>> = Names(y)
        BY NamesEmpty
      <3> QED BY <2>4, <2>6, <3>1, <3>2, EmptyIs
    <2>10. Stable(a) => Stable(y)
      BY <2>4, StableDown
    <2>11. ~Has(a, {"?"}) => ~Has(y, {"?"})
      BY <2>4, HasDown
    <2>12. y = <<>> \/ y[1] = "/"
      BY <2>2, <2>4, FirstDown
    <2> QED BY <2>8, <2>9, <2>10, <2>11, <2>12 DEF t
  <1> QED BY <1>2, <1>3, <1>4

WantOf(link) ==
  [names |-> link.shown, query |-> Ask(link.href).query,
   via |-> IF link.shown = link.entry THEN "link" ELSE "renamed", open |-> link.class = Directory]

LEMMA PageNameIs ==
  ASSUME NEW name, PageName(name)
  PROVE  name \in Text /\ NoSlash(name) /\ name # <<>> /\ ~Has(name, {"?"}) /\ Proud(D(name))
  <1>1. name \in Text /\ name # <<>> /\ ~Has(name, {"/"}) /\ ~Has(name, {"?"}) /\ D(name) # <<".">>
    BY DEF PageName, D, Has
  <1>2. D(name) \in Text /\ D(name) # <<>>
    BY <1>1, DecodesText, DecodesSome
  <1>3. "/" \notin Marked
    BY DEF Marked
  <1>4. ~Has(D(name), {"/"})
    BY <1>1, <1>3, DecodesHas
  <1> QED BY <1>1, <1>2, <1>4 DEF NoSlash, Proud

(* What a link is named for is found on the way there.                     *)
Sibling(ds, s, shown) ==
  /\ s \in Text /\ s # <<>> /\ s[1] = "/" /\ ~Open(s) /\ Stable(s) /\ ~Has(s, {"?"})
  /\ UrlPath(s) = WbRoot \o s /\ shown \in Way
  /\ \/ Names(s) = shown /\ shown \notin ds
     \/ Names(s) = shown \o <<MainPage>> /\ shown \in ds

LEMMA SiblingIs ==
  ASSUME NEW ds, NEW fs, Tree(ds, fs),
         NEW a \in Text, NEW f, NoSlash(f), NEW path, path = Down(a, f), path[1] = "/",
         Stable(path), ~Has(path, {"?"}), Names(a) \in ds, NEW name, PageName(name),
         NEW s, s = Path(Join(ParentPath(UrlPath(path)), name), ds),
         NEW shown, shown = Append(Names(a), D(name))
  PROVE  Sibling(ds, s, shown)
  <1>1. name \in Text /\ NoSlash(name) /\ name # <<>> /\ ~Has(name, {"?"}) /\ Proud(D(name))
    BY PageNameIs
  <1>2. f \in Text /\ (a = <<>> \/ a[1] = "/")
    BY FirstDown DEF NoSlash
  <1>3. Stable(a) /\ ~Has(a, {"?"})
    BY <1>2, StableDown, HasDown
  <1>4. ParentPath(UrlPath(path)) = WbRoot \o a
    BY ParentIs
  <1>5. PICK y \in Text : /\ Join(WbRoot \o a, name) = WbRoot \o Down(y, name)
                          /\ Names(y) = Names(a) /\ Stable(y) /\ ~Has(y, {"?"}) /\ (y = <<>> \/ y[1] = "/")
    BY <1>1, <1>2, <1>3, BesideIs
  <1> DEFINE b == Down(y, name)
             t == Down(y, D(name))
  <1>6. b \in Text /\ ~Has(b, {"?"})
    BY <1>1, <1>5, DownIs, HasDown
  <1>7. D(b) = t
    BY <1>1, <1>5, EscapedAbove, DecodesDown DEF Stable
  <1>8. t \in Text /\ Names(t) = shown /\ shown \in Way /\ t # <<>> /\ t[1] = "/" /\ ~Open(t)
    <2>1. D(name) \in Text /\ NoSlash(D(name))
      BY <1>1 DEF Proud
    <2>2. t \in Text /\ t # <<>> /\ t[1] = "/"
      BY <1>5, <2>1, DownIs, FirstDown
    <2>3. Names(t) = Append(Names(y), D(name)) /\ Names(t) \in Way
      BY <1>1, NamesLast
    <2>4. Filename(t) = D(name)
      BY <1>1, <2>1, FilenameDown DEF Proud
    <2>5. ~Open(t)
      BY <1>1, <2>4 DEF Open, Proud
    <2> QED BY <1>5, <2>2, <2>3, <2>5
  <1>9. s = Path(WbRoot \o b, ds)
    BY <1>4, <1>5
  <1> HIDE DEF b, t
  <1>10. /\ s \in Text /\ s # <<>> /\ ~Open(s) /\ Stable(s) /\ ~Has(s, {"?"})
         /\ \/ s = t /\ shown \notin ds
            \/ s = Join(t, MainPage) /\ shown \in ds
    BY <1>6, <1>7, <1>8, <1>9, PathIs
  <1>11. s = Join(t, MainPage) => Names(s) = shown \o <<MainPage>> /\ s[1] = "/"
    BY <1>8, JoinMain
  <1>12. s[1] = "/"
    BY <1>8, <1>10, <1>11
  <1>13. UrlPath(s) = WbRoot \o s
    BY <1>10, <1>12, BelowIs DEF Below
  <1> QED BY <1>8, <1>10, <1>11, <1>12, <1>13 DEF Sibling

LinkGoal(c, ds, fs, link) == \E b : Goal(c, ds, fs, WantOf(link), link.href, b)

LEMMA AskQuery == \A url, q \in Text : ~Has(url, {"?"}) => Ask(Location(url, q)).query = q
  <1> SUFFICES ASSUME NEW url \in Text, NEW q \in Text, ~Has(url, {"?"})
               PROVE  Ask(Location(url, q)).query = q
    OBVIOUS
  <1>1. Ask(Location(url, q)) = [uri |-> Location(url, q), query |-> q]
    BY AskIs
  <1> QED BY <1>1

LEMMA OneQuery == <<"prop">> \in Text /\ <<"prop">> # <<>> /\ <<"prop">>[1] = "prop"
  <1>1. "prop" \in Char
    BY SiteAssumption
  <1>2. <<"prop">> \in Text /\ Len(<<"prop">>) = 1
    BY <1>1, OneChar
  <1> QED BY <1>2

LEMMA EntryGoal ==
  ASSUME Tree(dirs, files),
         NEW a \in Text, NEW f, NoSlash(f), NEW path, path = Down(a, f), path[1] = "/",
         Stable(path), ~Has(path, {"?"}), Names(a) \in dirs, NEW name, PageName(name),
         Append(Names(a), name) \in dirs \cup files
  PROVE  LinkGoal(cfg, dirs, files, LinkTo(path, name))
  <1> DEFINE link == LinkTo(path, name)
             s == Path(Join(ParentPath(UrlPath(path)), name), dirs)
             entry == Append(Names(a), name)
             shown == Append(Names(a), D(name))
             query == IF entry \in dirs \/ MimeType(s) = Html THEN <<>> ELSE <<"prop">>
             w == WantOf(link)
  <1>1. Names(ParentPath(path)) = Names(a)
    BY ParentIs
  <1>2. /\ link.href = Location(UrlPath(s), query) /\ link.entry = entry /\ link.shown = shown
        /\ entry \in dirs => link.class = Directory
    BY <1>1 DEF LinkTo, D
  <1>3. /\ s \in Text /\ s # <<>> /\ s[1] = "/" /\ ~Open(s) /\ Stable(s) /\ ~Has(s, {"?"})
        /\ UrlPath(s) = WbRoot \o s /\ shown \in Way
        /\ \/ Names(s) = shown /\ shown \notin dirs
           \/ Names(s) = shown \o <<MainPage>> /\ shown \in dirs
    <2>1. s = Path(Join(ParentPath(UrlPath(path)), name), dirs) /\ shown = Append(Names(a), D(name))
      OBVIOUS
    <2> HIDE DEF s, shown
    <2>2. Tree(dirs, files) /\ a \in Text /\ NoSlash(f) /\ path = Down(a, f) /\ path[1] = "/"
          /\ Stable(path) /\ ~Has(path, {"?"}) /\ Names(a) \in dirs /\ PageName(name)
      OBVIOUS
    <2>3. Sibling(dirs, s, shown)
      BY <2>1, <2>2, SiblingIs, Zenon
    <2> QED BY <2>3 DEF Sibling
  <1>4. query \in Text
    BY OneQuery, EmptyText
  <1>5. MimeType(s) = Html <=> IsHtml(cfg, s)
    BY DEF MimeType, DeducedType, IsHtml
  <1>6. entry \in dirs \cup files
    OBVIOUS
  <1>7. query = (IF entry \in dirs \/ MimeType(s) = Html THEN <<>> ELSE <<"prop">>)
    OBVIOUS
  <1> HIDE DEF s, link, entry, shown, query
  <1>8. WbRoot \o s \in Text /\ ~Has(WbRoot \o s, {"?"})
    BY <1>3, RootIs, Cat, HasCat
  <1>9. Ask(link.href).query = query
    BY <1>2, <1>3, <1>4, <1>8, AskQuery
  <1>10. /\ w.names = shown /\ w.query = query
         /\ w.via = (IF shown = entry THEN "link" ELSE "renamed")
         /\ entry \in dirs => w.open
    BY <1>2, <1>9 DEF WantOf
  <1> HIDE DEF w
  <1>11. Names(s) \in Way
    BY <1>3, NamesSeq DEF Way
  <1>12. Reached(dirs, w, Names(s))
    <2>1. Reached(dirs, w, shown)
      BY <1>3, <1>10, ReachHere
    <2>2. CASE Names(s) = shown
      BY <2>1, <2>2
    <2>3. CASE Names(s) = shown \o <<MainPage>> /\ shown \in dirs
      <3>1. Reached(dirs, w, shown \o <<MainPage>>)
        BY <1>3, <1>10, <2>1, <2>3, ReachMain
      <3> QED BY <2>3, <3>1
    <2> QED BY <1>3, <2>2, <2>3
  <1>13. Leads(dirs, w, D(s))
    BY <1>3, <1>12 DEF Leads, Stable
  <1>14. ASSUME w.via = "link" PROVE Direct(cfg, files, w, s)
    <2>1. shown = entry
      BY <1>10, <1>14
    <2>2. CASE entry \in dirs
      <3>1. Names(s) = shown \o <<MainPage>>
        BY <1>3, <2>1, <2>2
      <3>2. (shown \o Mains(0)) \o <<MainPage>> = shown \o Mains(1) /\ shown \o Mains(0) = shown
        <4>1. 0 \in Nat /\ 0 + 1 = 1
          OBVIOUS
        <4>2. /\ (shown \o Mains(0)) \o <<MainPage>> = shown \o Mains(0 + 1)
              /\ shown \o Mains(0) = shown
          BY <1>3, <4>1, MainsPut, Zenon
        <4> QED BY <4>1, <4>2
      <3>3. 1 \in Nat /\ 1 > 0
        OBVIOUS
      <3>4. Names(s) = w.names \o Mains(1)
        BY <1>10, <3>1, <3>2
      <3>5. IsMain(w, s)
        BY <1>7, <1>10, <2>2, <3>3, <3>4 DEF IsMain
      <3> QED BY <1>3, <3>5 DEF Direct
    <2>3. CASE entry \notin dirs
      <3>1. Names(s) = w.names /\ w.names \in files
        BY <1>3, <1>6, <1>10, <2>1, <2>3
      <3>2. IsEntry(cfg, files, w, s)
        BY <1>5, <1>7, <1>10, <2>3, <3>1 DEF IsEntry
      <3> QED BY <1>3, <3>2 DEF Direct
    <2> QED BY <2>2, <2>3
  <1>15. Goal(cfg, dirs, files, w, link.href, s)
    BY <1>2, <1>3, <1>4, <1>10, <1>13, <1>14 DEF Goal
  <1>16. LinkGoal(cfg, dirs, files, link)
    BY <1>15 DEF LinkGoal, w
  <1> QED BY <1>16 DEF link

(* The link to the directory above leads to its main page.                 *)
LEMMA ParentGoal ==
  ASSUME NEW a \in Text, NEW f, Proud(f), NEW path, path = Down(a, f), path[1] = "/",
         Stable(path), ~Has(path, {"?"}), ParentPath(path) # <<"/">>
  PROVE  LinkGoal(cfg, dirs, files, ParentLink(path))
  <1> DEFINE link == ParentLink(path)
             w == WantOf(link)
  <1>1. f \in Text /\ NoSlash(f) /\ f # <<>>
    BY DEF Proud
  <1>2. /\ ParentPath(UrlPath(path)) = WbRoot \o a /\ a # <<>> /\ ParentPath(path) = a /\ a[1] = "/"
    BY <1>1, ParentIs
  <1>3. ~NoSlash(a)
    BY <1>2, LastOne
  <1>4. PICK c, d \in Text : NoSlash(d) /\ a = Down(c, d)
    BY <1>3, TakesLast
  <1>5. WbRoot \o a = Down(WbRoot \o c, d) /\ WbRoot \o c \in Text /\ WbRoot \o c # <<>>
    BY <1>4, RootDown
  <1>6. ParentPath(ParentPath(UrlPath(path))) = WbRoot \o c
    <2>1. ParentPath(Down(WbRoot \o c, d)) = WbRoot \o c
      BY <1>4, <1>5, ParentDown
    <2> QED BY <1>2, <1>5, <2>1
  <1>7. Names(ParentPath(a)) = Names(c)
    BY <1>2, <1>4, ParentIs
  <1> DEFINE b == Down(c, MainPage)
  <1>8. link.href = WbRoot \o b
    <2>1. link.href = ((WbRoot \o c) \o <<"/">>) \o MainPage
      BY <1>6 DEF ParentLink
    <2>2. MainPage \in Text /\ <<"/">> \in Text
      BY MainIs, SlashFull
    <2>3. ((WbRoot \o c) \o <<"/">>) \o MainPage = (WbRoot \o c) \o (<<"/">> \o MainPage)
      BY <1>5, <2>2, Assoc, ZenonT(40)
    <2>4. WbRoot \o Down(c, MainPage) = Down(WbRoot \o c, MainPage)
      BY <2>2, RootDown
    <2> QED BY <2>1, <2>3, <2>4 DEF Down
  <1>9. /\ link.class = Directory /\ link.entry = Names(c) /\ link.shown = Names(c)
    BY <1>2, <1>7 DEF ParentLink
  <1>10. Stable(c) /\ ~Has(c, {"?"}) /\ (c = <<>> \/ c[1] = "/")
    <2>1. Stable(a) /\ ~Has(a, {"?"})
      BY <1>1, StableDown, HasDown
    <2> QED BY <1>2, <1>4, <2>1, StableDown, HasDown, FirstDown
  <1>11. /\ b \in Text /\ ~Has(b, {"?"}) /\ Stable(b) /\ b # <<>> /\ b[1] = "/"
         /\ Names(b) = Names(c) \o <<MainPage>> /\ ~Open(b)
    <2>1. MainPage \in Text /\ ~Has(MainPage, {"?"}) /\ NoSlash(MainPage) /\ MainPage \notin {<<>>, <<".">>}
      BY MainIs
    <2>2. b \in Text /\ b # <<>> /\ ~Has(b, {"?"}) /\ b[1] = "/"
      BY <1>10, <2>1, DownIs, HasDown, FirstDown
    <2>3. Names(b) = Names(c) \o <<MainPage>>
      BY <2>1, NamesLast DEF Proud
    <2>4. Filename(b) = MainPage
      BY <2>1, FilenameDown
    <2>5. Stable(b)
      BY <1>10, StableMain
    <2> QED BY <2>1, <2>2, <2>3, <2>4, <2>5 DEF Open
  <1> HIDE DEF b, link
  <1>12. WbRoot \o b \in Text /\ ~Has(WbRoot \o b, {"?"}) /\ Location(WbRoot \o b, <<>>) = WbRoot \o b
    BY <1>11, RootIs, Cat, HasCat DEF Location
  <1>13. Ask(link.href).query = <<>>
    <2>1. Ask(Location(WbRoot \o b, <<>>)).query = <<>>
      BY <1>12, AskQuery, EmptyText
    <2> QED BY <1>8, <1>12, <2>1
  <1>14. /\ w.names = Names(c) /\ w.query = <<>> /\ w.open /\ w.names \in Way
    BY <1>9, <1>13, NamesSeq DEF WantOf, Way
  <1> HIDE DEF w
  <1>15. Reached(dirs, w, Names(b))
    BY <1>11, <1>14, ReachHere, ReachMain
  <1>16. Leads(dirs, w, D(b))
    BY <1>11, <1>15 DEF Leads, Stable
  <1>17. IsMain(w, b)
    <2>1. 0 \in Nat /\ 0 + 1 = 1 /\ 1 \in Nat /\ 1 > 0
      OBVIOUS
    <2>2. /\ (w.names \o Mains(0)) \o <<MainPage>> = w.names \o Mains(0 + 1)
          /\ w.names \o Mains(0) = w.names
      BY <1>14, <2>1, MainsPut, Zenon
    <2>3. Names(b) = w.names \o Mains(1)
      BY <1>11, <1>14, <2>1, <2>2
    <2> QED BY <1>14, <2>1, <2>3 DEF IsMain
  <1>18. Direct(cfg, files, w, b)
    BY <1>11, <1>17 DEF Direct
  <1>19. Goal(cfg, dirs, files, w, link.href, b)
    BY <1>8, <1>11, <1>12, <1>14, <1>16, <1>18, EmptyText DEF Goal
  <1>20. LinkGoal(cfg, dirs, files, link)
    BY <1>19 DEF LinkGoal, w
  <1> QED BY <1>20 DEF link

(* The style sheet is made of the same types as the listing's classes, but *)
(* for those of stored metadata.                                           *)
StoredClasses == {CssMimeType(t) : t \in Range(StoredType)}
Classes == {CssMimeType(m) : m \in Range(cfg.mime)} \cup {Directory, OctetStream}
LEMMA ClassIs ==
  ASSUME NEW path
  PROVE  CssMimeType(MimeType(path)) \in Classes \cup StoredClasses \/ MimeType(path) = Html
  <1>1. CASE MimeType(path) = <<"inode", "/", "directory">>
    <2>1. CssMimeType(<<"inode", "/", "directory">>) = <<"inode", "-", "directory">>
      BY DEF CssMimeType
    <2> QED BY <1>1, <2>1 DEF Classes, Directory
  <1>2. CASE Extension(path) \in DOMAIN cfg.mime /\ MimeType(path) = cfg.mime[Extension(path)]
    BY <1>2 DEF Classes, Range
  <1>3. CASE Names(path) \in DOMAIN StoredType /\ MimeType(path) = StoredType[Names(path)]
    BY <1>3 DEF StoredClasses, Range
  <1> QED BY <1>1, <1>2, <1>3 DEF MimeType, DeducedType

Inner == {"config", "log", "server", "serve", "dead"}
(* A log that has been set up passes on what ends the process.             *)
Tells ==
  /\ log # <<>>
  /\ "stderr" \in DOMAIN log /\ "critical" \in log["stderr"]
  /\ "file" \in DOMAIN log => "critical" \in log["file"]

StartInv ==
  /\ pc \in Inner
  /\ own => pc = "dead"
  /\ pc \in {"config", "log"} => log = <<>>
  /\ pc \in {"log", "server", "serve"} =>
       json # NoFile /\ Missing = {} /\ cfg.mime = json.mime
  /\ pc \in {"server", "serve"} => Tells
  /\ StartSound

LEMMA StartInits == Init => StartInv
  BY DEF Init, StartInit, StartInv, Inner, StartSound

(* An exception is said wherever the logs of that moment pass it on.       *)
LEMMA Thrown ==
  ASSUME StartInv, Throw, log = <<>> \/ Tells
  PROVE  StartInv'
  <1>1. pc' = "dead" /\ own' /\ said' = Sinks("critical") /\ log' = log
    BY DEF Throw
  <1>2. "stderr" \in said'
    BY <1>1 DEF Sinks, Tells
  <1>3. log # <<>> /\ "file" \in DOMAIN log => "file" \in said'
    BY <1>1 DEF Sinks, Tells
  <1> QED BY <1>1, <1>2, <1>3 DEF StartInv, Inner, StartSound

LEMMA ConfigInits == ASSUME StartInv, ConfigInit PROVE StartInv'
  <1>1. pc = "config" /\ log = <<>> /\ ~own
    BY DEF StartInv, ConfigInit
  <1>2. CASE json = NoFile \/ Missing # {}
    <2>1. Throw
      BY <1>2 DEF ConfigInit
    <2> QED BY <1>1, <2>1, Thrown
  <1>3. CASE json # NoFile /\ Missing = {}
    <2>1. /\ json # NoFile /\ Missing = {} /\ pc' = "log" /\ cfg'.mime = json.mime
          /\ json' = json /\ log' = log /\ own' = own
      BY <1>3 DEF ConfigInit
    <2>2. Missing' = Missing
      BY <2>1 DEF Missing
    <2> QED BY <1>1, <2>1, <2>2 DEF StartInv, Inner, StartSound
  <1> QED BY <1>2, <1>3

LEMMA LogsTell == ASSUME StartInv, InitLog PROVE StartInv'
  <1>1. /\ pc = "log" /\ ~own /\ pc' = "server" /\ json' = json /\ cfg' = cfg /\ own' = own
        /\ json # NoFile /\ Missing = {} /\ cfg.mime = json.mime
    BY DEF StartInv, InitLog
  <1>2. PICK opens \in BOOLEAN :
          log' = [sink \in {"stderr"} \cup (IF cfg.file /\ opens THEN {"file"} ELSE {}) |->
                    IF sink = "stderr" THEN Console ELSE Severity]
    BY DEF InitLog
  <1>3. "critical" \in Console /\ "critical" \in Severity
    BY DEF Console, CommonLog, Severity
  <1>4. Tells'
    <2> DEFINE sinks == {"stderr"} \cup (IF cfg.file /\ opens THEN {"file"} ELSE {})
    <2>1. "stderr" \in sinks /\ sinks \subseteq {"stderr", "file"}
      OBVIOUS
    <2> HIDE DEF sinks
    <2>2. log' = [sink \in sinks |-> IF sink = "stderr" THEN Console ELSE Severity]
      BY <1>2 DEF sinks
    <2>3. DOMAIN log' = sinks /\ \A sink \in sinks : "critical" \in log'[sink]
      BY <2>2, <1>3
    <2>4. log' # <<>>
      BY <2>1, <2>3
    <2> QED BY <2>1, <2>3, <2>4 DEF Tells
  <1>5. Missing' = Missing
    BY <1>1 DEF Missing
  <1> QED BY <1>1, <1>4, <1>5 DEF StartInv, Inner, StartSound

LEMMA ServerMade == ASSUME StartInv, MakeServer PROVE StartInv'
  <1>1. /\ pc = "server" /\ ~own /\ Tells
        /\ json # NoFile /\ Missing = {} /\ cfg.mime = json.mime
    BY DEF StartInv, MakeServer
  <1>2. CASE Throw
    BY <1>1, <1>2, Thrown
  <1>3. CASE ThrowForeign
    BY <1>1, <1>3 DEF ThrowForeign, StartInv, Inner, StartSound
  <1>4. CASE ~Throw /\ ~ThrowForeign
    <2>1. /\ css' = GenerateMimeCss /\ html' = TRUE /\ pc' = "serve"
          /\ json' = json /\ cfg' = cfg /\ log' = log /\ own' = own
      BY <1>4 DEF MakeServer
    <2>2. Directory \in DOMAIN css'
      BY <2>1 DEF GenerateMimeCss
    <2>3. Missing' = Missing /\ Tells'
      BY <1>1, <2>1 DEF Missing, Tells
    <2> QED BY <1>1, <2>1, <2>2, <2>3 DEF StartInv, Inner, StartSound
  <1> QED BY <1>2, <1>3, <1>4

(* A request changes nothing of what the start has made, or ends the       *)
(* process.                                                                *)
LEMMA HandleKeeps ==
  ASSUME Handle
  PROVE  pc = "serve" /\ pc' \in {pc, "dead"} /\ UNCHANGED <<json, cfg, log, said, own, html, css>>
  <1>1. Work => pc' \in {pc, "dead"}
    <2> SUFFICES ASSUME Work PROVE pc' \in {pc, "dead"}
      OBVIOUS
    <2>1. ASSUME NEW path, NEW query, Load(path, query) PROVE pc' \in {pc, "dead"}
      <3>1. ASSUME NEW old, NEW names, Rename(old, names, path, query) PROVE pc' \in {pc, "dead"}
        BY <3>1 DEF Rename
      <3> QED BY <2>1, <3>1 DEF Load
    <2> QED BY <2>1 DEF Work
  <1> QED BY <1>1 DEF Handle

LEMMA StepStarts == StartInv /\ [Next]_vars => StartInv'
  <1> SUFFICES ASSUME StartInv, [Next]_vars PROVE StartInv'
    OBVIOUS
  <1>1. CASE StartNext
    BY <1>1, ConfigInits, LogsTell, ServerMade DEF StartNext
  <1>2. ASSUME UNCHANGED startVars PROVE StartInv'
    BY <1>2 DEF startVars, StartInv, StartSound, Missing, Tells
  <1>3. CASE Handle
    <2>1. /\ pc = "serve" /\ pc' \in {pc, "dead"} /\ ~own
          /\ UNCHANGED <<json, cfg, log, said, own, html, css>>
      BY <1>3, HandleKeeps DEF StartInv
    <2> QED BY <2>1 DEF StartInv, Inner, StartSound, Missing, Tells
  <1>4. CASE Type \/ Close \/ Follow \/ FollowLink \/ Save
    BY <1>2, <1>4 DEF Type, Close, Follow, FollowLink, Save
  <1>5. CASE UNCHANGED vars
    BY <1>2, <1>5 DEF vars
  <1> QED BY <1>1, <1>3, <1>4, <1>5 DEF Next

(* Whatever the configuration holds and whichever log file opens, the      *)
(* server only serves with all of its configuration, its index page and    *)
(* its style sheet, and a start that an exception of the program ends says *)
(* why in every log there is (main, Cfg::Init, InitLog, RootServer).       *)
THEOREM StartIsSound == Spec => []StartSound
  <1>1. StartInv => StartSound
    BY DEF StartInv
  <1> QED BY <1>1, StartInits, StepStarts, PTL DEF Spec

(* The invariant: every request, redirect and link is on its way to what   *)
(* the user is after, and every answer has come there.                     *)
ClassesOf(c) == {CssMimeType(m) : m \in Range(c.mime)} \cup {Directory, OctetStream}
AskOK(c, ds, fs, w, r) ==
  r # NoRequest => r.query = w.query /\ \E b : Goal(c, ds, fs, w, r.uri, b)
LinkAnswer(ds, w, r) ==
  \/ r.kind \in {"index", "lib"}
  \/ r.kind = "redirect" /\ Front(r.names) \in ds \ {w.names}
  \/ r.kind = "file" /\ w.open
ReplyOK(c, ds, fs, w, r) ==
  /\ r.kind = "redirect" => \E b : Goal(c, ds, fs, w, r.to, b)
  /\ \A link \in r.links : LinkGoal(c, ds, fs, link)
  /\ Html \in Range(c.mime) =>
       \A link \in r.links : link.class \in ClassesOf(c) \cup StoredClasses
  /\ r.kind # "none" => r.query = w.query /\ Reached(ds, w, r.names)
  /\ r.kind # "none" /\ w.via = "link" => LinkAnswer(ds, w, r)
SiteInv ==
  /\ StartInv
  /\ pc = "serve" => DOMAIN css = ClassesOf(cfg)
  /\ pc = "serve" \/ (request = NoRequest /\ reply = Nothing)
  /\ Tree(dirs, files)
  /\ AskOK(cfg, dirs, files, want, request)
  /\ ReplyOK(cfg, dirs, files, want, reply)
  /\ reply.kind \notin {"none", "redirect"} => request = NoRequest
  /\ saves \in 0 .. MaxSaves

LEMMA NothingOK == \A c, ds, fs, w : AskOK(c, ds, fs, w, NoRequest) /\ ReplyOK(c, ds, fs, w, Nothing)
  BY DEF AskOK, ReplyOK, Nothing

LEMMA LinkMore ==
  ASSUME NEW ds, NEW more, ds \subseteq more, NEW fs, NEW mores, fs \subseteq mores,
         NEW c, NEW link, LinkGoal(c, ds, fs, link)
  PROVE  LinkGoal(c, more, mores, link)
  <1>1. PICK b : Goal(c, ds, fs, WantOf(link), link.href, b)
    BY DEF LinkGoal
  <1>2. Goal(c, more, mores, WantOf(link), link.href, b)
    BY <1>1, GoalMore
  <1> QED BY <1>2 DEF LinkGoal

(* More pages do no harm.                                                  *)
LEMMA MoreOK ==
  ASSUME NEW ds, NEW more, ds \subseteq more, NEW fs, NEW mores, fs \subseteq mores, NEW c, NEW w
  PROVE  /\ \A r : AskOK(c, ds, fs, w, r) => AskOK(c, more, mores, w, r)
         /\ \A r : ReplyOK(c, ds, fs, w, r) => ReplyOK(c, more, mores, w, r)
  <1>1. ASSUME NEW uri, NEW b, Goal(c, ds, fs, w, uri, b) PROVE Goal(c, more, mores, w, uri, b)
    BY <1>1, GoalMore
  <1>2. ASSUME NEW r, ReplyOK(c, ds, fs, w, r) PROVE ReplyOK(c, more, mores, w, r)
    <2>1. r.kind = "redirect" => \E b : Goal(c, more, mores, w, r.to, b)
      BY <1>1, <1>2 DEF ReplyOK
    <2>2. \A link \in r.links : LinkGoal(c, more, mores, link)
      BY <1>2, LinkMore DEF ReplyOK
    <2>3. r.kind # "none" => r.query = w.query /\ Reached(more, w, r.names)
      BY <1>2, ReachMore DEF ReplyOK
    <2>4. r.kind # "none" /\ w.via = "link" => LinkAnswer(more, w, r)
      BY <1>2 DEF ReplyOK, LinkAnswer
    <2> QED BY <1>2, <2>1, <2>2, <2>3, <2>4 DEF ReplyOK
  <1>3. ASSUME NEW r, AskOK(c, ds, fs, w, r) PROVE AskOK(c, more, mores, w, r)
    BY <1>1, <1>3 DEF AskOK
  <1> QED BY <1>2, <1>3

LEMMA SavesBound == MaxSaves \in Nat
  BY SiteAssumption

LEMMA SiteInits == Init => SiteInv
  <1> SUFFICES ASSUME Init PROVE SiteInv
    OBVIOUS
  <1>1. StartInv
    BY StartInits
  <1>2. pc = "config" /\ request = NoRequest /\ reply = Nothing /\ saves = 0
    BY DEF Init, StartInit
  <1>3. Tree(dirs, files)
    BY SiteAssumption DEF Init
  <1>4. saves \in 0 .. MaxSaves
    BY <1>2, SavesBound
  <1>5. reply.kind = "none"
    BY <1>2 DEF Nothing
  <1> QED BY <1>1, <1>2, <1>3, <1>4, <1>5, NothingOK DEF SiteInv

LEMMA StartStep == ASSUME SiteInv, StartNext, UNCHANGED siteVars PROVE SiteInv'
  <1>1. StartInv'
    BY StepStarts DEF SiteInv, Next
  <1>2. pc \in {"config", "log", "server"}
    BY DEF StartNext, ConfigInit, InitLog, MakeServer
  <1>3. /\ request = NoRequest /\ reply = Nothing
        /\ request' = request /\ reply' = reply /\ want' = want
        /\ dirs' = dirs /\ files' = files /\ saves' = saves
    BY <1>2 DEF SiteInv, siteVars
  <1>4. pc' = "serve" => DOMAIN css' = ClassesOf(cfg')
    <2>1. ConfigInit \/ InitLog => pc' # "serve"
      BY DEF ConfigInit, InitLog, Throw
    <2>2. ASSUME MakeServer, pc' = "serve" PROVE css' = GenerateMimeCss /\ cfg' = cfg
      BY <2>2 DEF MakeServer, Throw, ThrowForeign
    <2>3. DOMAIN GenerateMimeCss = ClassesOf(cfg)
      BY DEF GenerateMimeCss, ClassesOf
    <2> QED BY <2>1, <2>2, <2>3 DEF StartNext
  <1>5. AskOK(cfg', dirs', files', want', request') /\ ReplyOK(cfg', dirs', files', want', reply')
    BY <1>3, NothingOK
  <1>6. reply'.kind = "none"
    BY <1>3 DEF Nothing
  <1> QED BY <1>1, <1>3, <1>4, <1>5, <1>6 DEF SiteInv

(* What leaves the server as it is.                                        *)
LEMMA OtherStep ==
  ASSUME SiteInv, [Next]_vars, UNCHANGED startVars, Tree(dirs', files'),
         pc = "serve" \/ (request' = NoRequest /\ reply' = Nothing),
         AskOK(cfg, dirs', files', want', request'), ReplyOK(cfg, dirs', files', want', reply'),
         reply'.kind \notin {"none", "redirect"} => request' = NoRequest,
         saves' \in 0 .. MaxSaves
  PROVE  SiteInv'
  <1>1. StartInv'
    BY StepStarts DEF SiteInv
  <1>2. pc' = pc /\ cfg' = cfg /\ css' = css
    BY DEF startVars
  <1> QED BY <1>1, <1>2 DEF SiteInv

LEMMA TypeStep == ASSUME SiteInv, Type PROVE SiteInv'
  <1>1. /\ pc = "serve" /\ reply = Nothing /\ UNCHANGED <<startVars, dirs, files, reply, saves>>
    BY DEF Type, AtRest
  <1>2. PICK t \in Typed, q \in Queries :
          /\ request' = Ask(Location(WbRoot \o t.spelling, q))
          /\ want' = [names |-> Names(t.means), query |-> q, via |-> "typed",
                      open |-> Filename(t.means) \in {<<>>, <<".">>}]
    BY DEF Type
  <1> DEFINE w == [names |-> Names(t.means), query |-> q, via |-> "typed",
                   open |-> Filename(t.means) \in {<<>>, <<".">>}]
             uri == Location(WbRoot \o t.spelling, q)
  <1>3. t.spelling \in Text /\ ~Has(t.spelling, {"?"}) /\ t.means = D(t.spelling) /\ q \in Text
    BY SiteAssumption DEF D
  <1>4. w.names = Names(t.means) /\ w.query = q /\ w.via # "link" /\ (Open(t.means) => w.open)
    BY DEF Open
  <1>5. t.means \in Text
    BY <1>3, DecodesText
  <1>6. w.names \in Way
    BY <1>4, <1>5, NamesSeq DEF Way
  <1> HIDE DEF w, uri
  <1>7. Reached(dirs, w, w.names)
    BY <1>6, ReachHere
  <1>8. Leads(dirs, w, D(t.spelling))
    BY <1>3, <1>4, <1>7 DEF Leads
  <1>9. Goal(cfg, dirs, files, w, uri, t.spelling)
    BY <1>3, <1>4, <1>6, <1>8 DEF Goal, uri
  <1>10. Ask(uri) = [uri |-> uri, query |-> w.query]
    BY <1>9, GoalAsks
  <1>11. request'.query = w.query /\ request'.uri = uri /\ want' = w
    BY <1>2, <1>10 DEF uri, w
  <1>12. AskOK(cfg, dirs', files', want', request')
    BY <1>1, <1>9, <1>11 DEF AskOK
  <1>13. ReplyOK(cfg, dirs', files', want', reply') /\ reply'.kind = "none"
    BY <1>1, NothingOK DEF Nothing
  <1> QED BY <1>1, <1>12, <1>13, OtherStep DEF SiteInv, Next

LEMMA CloseStep == ASSUME SiteInv, Close PROVE SiteInv'
  <1>1. /\ UNCHANGED <<startVars, dirs, files, request, saves>> /\ reply' = Nothing
        /\ request = NoRequest
    BY DEF Close, AtRest
  <1>2. AskOK(cfg, dirs', files', want', request') /\ ReplyOK(cfg, dirs', files', want', reply')
    BY <1>1, NothingOK
  <1> QED BY <1>1, <1>2, OtherStep DEF SiteInv, Next

LEMMA FollowStep == ASSUME SiteInv, Follow PROVE SiteInv'
  <1>1. /\ pc = "serve" /\ reply.kind = "redirect" /\ request' = Ask(reply.to)
        /\ UNCHANGED <<startVars, dirs, files, reply, want, saves>>
    BY DEF Follow
  <1>2. PICK b : Goal(cfg, dirs, files, want, reply.to, b)
    BY <1>1 DEF SiteInv, ReplyOK
  <1>3. Ask(reply.to) = [uri |-> reply.to, query |-> want.query]
    BY <1>2, GoalAsks
  <1>4. request'.query = want.query /\ request'.uri = reply.to
    BY <1>1, <1>3
  <1>5. AskOK(cfg, dirs', files', want', request')
    BY <1>1, <1>2, <1>4 DEF AskOK
  <1>6. ReplyOK(cfg, dirs', files', want', reply')
    BY <1>1 DEF SiteInv
  <1> QED BY <1>1, <1>5, <1>6, OtherStep DEF SiteInv, Next

LEMMA LinkStep == ASSUME SiteInv, FollowLink PROVE SiteInv'
  <1>1. pc = "serve" /\ reply' = Nothing /\ UNCHANGED <<startVars, dirs, files, saves>>
    BY DEF FollowLink, AtRest
  <1>2. PICK link \in reply.links : request' = Ask(link.href) /\ want' = WantOf(link)
    BY DEF FollowLink, WantOf
  <1>3. PICK b : Goal(cfg, dirs, files, WantOf(link), link.href, b)
    BY DEF SiteInv, ReplyOK, LinkGoal
  <1>4. Ask(link.href) = [uri |-> link.href, query |-> WantOf(link).query]
    BY <1>3, GoalAsks
  <1>5. request'.query = want'.query /\ request'.uri = link.href
    BY <1>2, <1>4
  <1>6. AskOK(cfg, dirs', files', want', request')
    BY <1>1, <1>2, <1>3, <1>5 DEF AskOK
  <1>7. ReplyOK(cfg, dirs', files', want', reply') /\ reply'.kind = "none"
    BY <1>1, NothingOK DEF Nothing
  <1> QED BY <1>1, <1>6, <1>7, OtherStep DEF SiteInv, Next

LEMMA SaveStep == ASSUME SiteInv, Save PROVE SiteInv'
  <1>1. /\ pc = "serve" /\ saves < MaxSaves /\ saves' = saves + 1
        /\ UNCHANGED <<startVars, request, reply, want>>
    BY DEF Save
  <1>2. PICK p \in NewFiles :
          LET above == {SubSeq(p, 1, n) : n \in 0 .. Len(p) - 1}
          IN /\ above \cap files = {} /\ p \notin dirs
             /\ files' = files \cup {p} /\ dirs' = dirs \cup above
    BY DEF Save
  <1> DEFINE above == {SubSeq(p, 1, n) : n \in 0 .. Len(p) - 1}
  <1>3. above \cap files = {} /\ p \notin dirs /\ files' = files \cup {p} /\ dirs' = dirs \cup above
    BY <1>2
  <1>4. Tree(above, {p})
    BY SiteAssumption
  <1> HIDE DEF above
  <1>5. Tree(dirs \cup above, files \cup {p})
    BY <1>3, <1>4, TreeSaved DEF SiteInv
  <1>6. Tree(dirs', files') /\ dirs \subseteq dirs' /\ files \subseteq files'
    BY <1>3, <1>5
  <1>7. AskOK(cfg, dirs', files', want, request) /\ ReplyOK(cfg, dirs', files', want, reply)
    BY <1>6, MoreOK DEF SiteInv
  <1>8. saves' \in 0 .. MaxSaves
    <2>1. saves \in 0 .. MaxSaves
      BY DEF SiteInv
    <2> QED BY <1>1, <2>1, SavesBound
  <1> QED BY <1>1, <1>6, <1>7, <1>8, OtherStep DEF SiteInv, Next

(* The answers.                                                            *)
LEMMA AnswerIs ==
  \A kind, path, query :
    /\ Answer(kind, path, query).kind = kind /\ Answer(kind, path, query).names = Names(path)
    /\ Answer(kind, path, query).query = query /\ Answer(kind, path, query).links = {}
  BY DEF Answer, Nothing

LEMMA AnswerOK ==
  ASSUME NEW c, NEW ds, NEW fs, NEW w, NEW path, Reached(ds, w, Names(path)),
         NEW kind, kind \notin {"none", "redirect"},
         w.via = "link" => kind \in {"index", "lib"} \/ (kind = "file" /\ w.open)
  PROVE  /\ ReplyOK(c, ds, fs, w, Answer(kind, path, w.query))
         /\ Answer(kind, path, w.query).kind \notin {"none", "redirect"}
  <1> DEFINE r == Answer(kind, path, w.query)
  <1>1. r.kind = kind /\ r.names = Names(path) /\ r.query = w.query /\ r.links = {}
    BY AnswerIs
  <1> HIDE DEF r
  <1>2. w.via = "link" => LinkAnswer(ds, w, r)
    BY <1>1 DEF LinkAnswer
  <1>3. ReplyOK(c, ds, fs, w, r) /\ r.kind \notin {"none", "redirect"}
    BY <1>1, <1>2 DEF ReplyOK
  <1> QED BY <1>3 DEF r

(* A rename leaves alone what is above the new name.                       *)
LEMMA ReachMoved ==
  ASSUME NEW ds, NEW fs, Tree(ds, fs), NEW old \in ds \cup fs, NEW names \in Way,
         Len(old) = Len(names), NEW w, w.names \in Way, Reached(ds, w, names)
  PROVE  Reached({Moved(p, old, names) : p \in ds}, w, names)
  <1>1. PICK k \in 0 .. Len(names) : ReachedAt(ds, w, names, k)
    BY DEF Reached
  <1>2. old \in Way /\ Len(names) \in Nat /\ k \in Nat /\ Len(w.names) \in Nat
    BY TreeIs, WayIs
  <1>3. names = w.names \o Mains(k) /\ Len(names) = Len(w.names) + k
    BY <1>1, <1>2, MainsPut DEF ReachedAt
  <1>4. ASSUME NEW j \in 0 .. k - 1, w.names \o Mains(j) \in ds
        PROVE  w.names \o Mains(j) \in {Moved(p, old, names) : p \in ds}
    <2> DEFINE q == w.names \o Mains(j)
    <2>1. j \in Nat /\ j < k
      BY <1>2
    <2>2. q \in Way /\ Len(q) = Len(w.names) + j
      BY <2>1, MainsPut
    <2>3. q \in ds
      BY <1>4
    <2> HIDE DEF q
    <2>4. ~(Len(old) <= Len(q))
      BY <1>2, <1>3, <2>1, <2>2
    <2>5. ~IsPrefix(old, q)
      BY <1>2, <2>2, <2>4, PrefixIs
    <2>6. Moved(q, old, names) = q
      BY <2>5 DEF Moved
    <2> QED BY <2>3, <2>6 DEF q
  <1>5. \A j \in 0 .. k - 1 :
          w.names \o Mains(j) \in {Moved(p, old, names) : p \in ds} \/ (j = 0 /\ w.open)
    BY <1>1, <1>4 DEF ReachedAt
  <1>6. ReachedAt({Moved(p, old, names) : p \in ds}, w, names, k)
    BY <1>3, <1>5 DEF ReachedAt
  <1> QED BY <1>6 DEF Reached

(* Work, with the query and the path it has found.                         *)
Done(path, query, redirected) ==
  /\ reply' =
       IF redirected
       THEN [Answer("redirect", path, query) EXCEPT !.to = Location(UrlPath(path), query)]
       ELSE CASE HandlerName(query) = "" -> DefaultPage(path, query)
              [] HandlerName(query) \in {"prop", "page"} -> Answer("index", path, query)
              [] HandlerName(query) = "index" -> ServeIndex(path, query)
              [] HandlerName(query) \in {"mime", "var", "meta", "stats"} ->
                   Answer(HandlerName(query), path, query)
              [] OTHER -> Answer("notfound", path, query)
  /\ UNCHANGED <<pc, dirs, files>>

(* A request that has come so far.                                         *)
Here(b, path) ==
  /\ b \in Text /\ ~Has(b, {"?"}) /\ path = Path(WbRoot \o b, dirs)
  /\ \E uri : Goal(cfg, dirs, files, want, uri, b)
Kept == UNCHANGED <<pc, dirs, files>> /\ ReplyOK(cfg, dirs, files, want, reply')

LEMMA HandleHere ==
  ASSUME SiteInv, Handle
  PROVE  \E b, path :
           /\ Here(b, path)
           /\ \/ /\ HandlerName(want.query) = "data" /\ ~CheckRedir(path, WbRoot \o b)
                 /\ Load(path, want.query)
              \/ Done(path, want.query, CheckRedir(path, WbRoot \o b))
  <1>1. request # NoRequest /\ Work
    BY DEF Handle
  <1>2. PICK b : request.query = want.query /\ Goal(cfg, dirs, files, want, request.uri, b)
    BY <1>1 DEF SiteInv, AskOK
  <1>3. SansQueryURI(request.uri, want.query) = WbRoot \o b
    BY <1>2, GoalAsks
  <1> DEFINE path == Path(WbRoot \o b, dirs)
  <1>4. Here(b, path)
    BY <1>2 DEF Here, Goal
  <1>5. PICK query \in {request.query} : \E sans \in {SansQueryURI(request.uri, query)} :
          \E p \in {Path(sans, dirs)} :
            IF HandlerName(query) = "data" /\ ~CheckRedir(p, sans) THEN Load(p, query)
            ELSE Done(p, query, CheckRedir(p, sans))
    BY <1>1 DEF Work, Done
  <1>6. query = want.query
    BY <1>2, <1>5
  <1>7. PICK sans \in {SansQueryURI(request.uri, query)} : \E p \in {Path(sans, dirs)} :
          IF HandlerName(query) = "data" /\ ~CheckRedir(p, sans) THEN Load(p, query)
          ELSE Done(p, query, CheckRedir(p, sans))
    BY <1>5
  <1>8. sans = WbRoot \o b
    BY <1>3, <1>6, <1>7
  <1>9. IF HandlerName(want.query) = "data" /\ ~CheckRedir(path, WbRoot \o b) THEN Load(path, want.query)
        ELSE Done(path, want.query, CheckRedir(path, WbRoot \o b))
    BY <1>6, <1>7, <1>8
  <1> HIDE DEF path
  <1> QED BY <1>4, <1>9

(* A listing is only served from the path's own URL.                       *)
LEMMA HereListed ==
  ASSUME Tree(dirs, files), NEW b, NEW path, Here(b, path), ~CheckRedir(path, WbRoot \o b)
  PROVE  /\ path \in Text /\ path[1] = "/" /\ Stable(path) /\ ~Has(path, {"?"})
         /\ \E a, f \in Text : Proud(f) /\ path = Down(a, f)
  <1>1. b \in Text /\ ~Has(b, {"?"}) /\ path = Path(WbRoot \o b, dirs)
    BY DEF Here
  <1>2. /\ path \in Text /\ path # <<>> /\ Stable(path) /\ ~Has(path, {"?"})
        /\ path = D(b) \/ path = Join(D(b), MainPage)
    BY <1>1, PathIs
  <1>3. path[1] = "/"
    BY <1>1, <1>2, NoRedirSlash
  <1>4. <<>> \in dirs
    BY TreeIs
  <1>5. \E a, f \in Text : Proud(f) /\ path = Down(a, f)
    BY <1>1, <1>3, <1>4, PathLast
  <1> QED BY <1>2, <1>3, <1>5

LEMMA ListingOK ==
  ASSUME Tree(dirs, files), NEW b, NEW path, Here(b, path), ~CheckRedir(path, WbRoot \o b),
         Reached(dirs, want, Names(path)), want.via # "link"
  PROVE  LET r == ServeIndex(path, want.query)
         IN ReplyOK(cfg, dirs, files, want, r) /\ r.kind \notin {"none", "redirect"}
  <1>1. path \in Text /\ path[1] = "/" /\ Stable(path) /\ ~Has(path, {"?"})
    BY HereListed
  <1>2. PICK a, f \in Text : Proud(f) /\ path = Down(a, f)
    BY HereListed
  <1> DEFINE in == Names(ParentPath(path))
             names == {n \in UNION {Range(p) : p \in dirs \cup files} : Append(in, n) \in dirs \cup files}
             up == IF ParentPath(path) # <<"/">> THEN {ParentLink(path)} ELSE {}
             links == up \cup (IF in \in dirs THEN {LinkTo(path, n) : n \in names} ELSE {})
             r == ServeIndex(path, want.query)
  <1>3. NoSlash(f) /\ in = Names(a)
    <2>1. NoSlash(f)
      BY <1>2 DEF Proud
    <2> QED BY <1>1, <1>2, <2>1, ParentIs
  <1>4. ASSUME NEW n \in names PROVE PageName(n) /\ Append(Names(a), n) \in dirs \cup files
    <2>1. PICK p \in dirs \cup files : n \in Range(p)
      BY <1>4
    <2>2. PICK k \in DOMAIN p : n = p[k]
      BY <2>1 DEF Range
    <2>3. PageName(p[k])
      BY <2>2 DEF Tree
    <2> QED BY <1>3, <1>4, <2>2, <2>3
  <1>5. ASSUME NEW link \in links
        PROVE  /\ LinkGoal(cfg, dirs, files, link)
               /\ Html \in Range(cfg.mime) => link.class \in ClassesOf(cfg) \cup StoredClasses
    <2>1. CASE link = ParentLink(path) /\ ParentPath(path) # <<"/">>
      <3>1. LinkGoal(cfg, dirs, files, ParentLink(path))
        BY <1>1, <1>2, <2>1, ParentGoal
      <3>2. link.class = Directory
        BY <2>1 DEF ParentLink
      <3> QED BY <2>1, <3>1, <3>2 DEF ClassesOf
    <2>2. ASSUME NEW n \in names, link = LinkTo(path, n), in \in dirs
          PROVE  /\ LinkGoal(cfg, dirs, files, link)
                 /\ Html \in Range(cfg.mime) =>
                      link.class \in ClassesOf(cfg) \cup StoredClasses
      <3>1. PageName(n) /\ Append(Names(a), n) \in dirs \cup files /\ Names(a) \in dirs
        BY <1>3, <1>4, <2>2
      <3>2. LinkGoal(cfg, dirs, files, LinkTo(path, n))
        BY <1>1, <1>2, <1>3, <3>1, EntryGoal
      <3>3. \E s : link.class \in {Directory, CssMimeType(MimeType(s))}
        BY <2>2 DEF LinkTo
      <3>4. ASSUME NEW s
            PROVE  Html \in Range(cfg.mime) =>
                     CssMimeType(MimeType(s)) \in ClassesOf(cfg) \cup StoredClasses
        <4>1. CssMimeType(MimeType(s)) \in Classes \cup StoredClasses \/ MimeType(s) = Html
          BY ClassIs
        <4> QED BY <4>1 DEF Classes, ClassesOf
      <3>5. Directory \in ClassesOf(cfg)
        BY DEF ClassesOf
      <3> QED BY <2>2, <3>2, <3>3, <3>4, <3>5
    <2>3. \/ link = ParentLink(path) /\ ParentPath(path) # <<"/">>
          \/ \E n \in names : link = LinkTo(path, n) /\ in \in dirs
      <3> HIDE DEF in, names
      <3> QED BY <1>5
    <2> QED BY <2>1, <2>2, <2>3
  <1>6. r.kind = "listing" /\ r.names = Names(path) /\ r.query = want.query /\ r.links = links
    <2>1. r = [Answer("listing", path, want.query) EXCEPT !.links = links]
      BY DEF ServeIndex
    <2> HIDE DEF links, r
    <2> QED BY <2>1 DEF Answer, Nothing
  <1> HIDE DEF r, links
  <1>7. ReplyOK(cfg, dirs, files, want, r) /\ r.kind \notin {"none", "redirect"}
    BY <1>5, <1>6 DEF ReplyOK
  <1> QED BY <1>7 DEF r

LEMMA HereGoal ==
  ASSUME Tree(dirs, files), NEW b, NEW path, Here(b, path)
  PROVE  /\ path \in Text /\ Names(path) \in Way /\ want.names \in Way /\ Reached(dirs, want, Names(path))
         /\ \E x : Goal(cfg, dirs, files, want, Location(UrlPath(path), want.query), x)
         /\ want.via = "link" => Direct(cfg, files, want, path)
         /\ want.via = "link" /\ CheckRedir(path, WbRoot \o b) =>
              Front(Names(path)) \in dirs \ {want.names}
  <1>1. path = Path(WbRoot \o b, dirs)
    BY DEF Here
  <1>2. PICK uri : Goal(cfg, dirs, files, want, uri, b)
    BY DEF Here
  <1>3. want.names \in Way
    BY <1>2 DEF Goal
  <1>4. /\ path \in Text /\ Names(path) \in Way /\ Reached(dirs, want, Names(path))
        /\ Goal(cfg, dirs, files, want, Location(UrlPath(path), want.query), Below(path))
        /\ want.via = "link" => Direct(cfg, files, want, path)
        /\ want.via = "link" /\ CheckRedir(path, WbRoot \o b) =>
             Front(Names(path)) \in dirs \ {want.names}
    BY <1>1, <1>2, Arrives
  <1> QED BY <1>3, <1>4

(* What a link asks for.                                                   *)
LEMMA LinkQuery ==
  ASSUME NEW path, Direct(cfg, files, want, path)
  PROVE  \/ HandlerName(want.query) = "" /\ (want.open \/ MimeType(path) = Html)
         \/ HandlerName(want.query) = "prop"
  <1>1. CASE IsMain(want, path)
    BY <1>1 DEF IsMain, HandlerName
  <1>2. CASE IsEntry(cfg, files, want, path)
    <2>1. IsHtml(cfg, path) => MimeType(path) = Html
      BY DEF MimeType, DeducedType, IsHtml
    <2> QED BY <1>2, <2>1, OneQuery DEF IsEntry, HandlerName
  <1> QED BY <1>1, <1>2 DEF Direct

LEMMA DoneOK ==
  ASSUME Tree(dirs, files), NEW b, NEW path, Here(b, path),
         Done(path, want.query, CheckRedir(path, WbRoot \o b))
  PROVE  Kept
  <1> DEFINE query == want.query
             name == HandlerName(query)
  <1>1. UNCHANGED <<pc, dirs, files>>
    BY DEF Done
  <1>2. CASE CheckRedir(path, WbRoot \o b)
    <2> DEFINE to == Location(UrlPath(path), query)
               r == [Answer("redirect", path, query) EXCEPT !.to = to]
    <2>1. reply' = r
      BY <1>2 DEF Done
    <2>2. PICK x : Goal(cfg, dirs, files, want, to, x)
      BY HereGoal
    <2> HIDE DEF to, query
    <2>3. r.kind = "redirect" /\ r.names = Names(path) /\ r.query = query /\ r.links = {} /\ r.to = to
      BY DEF Answer, Nothing
    <2> HIDE DEF r
    <2>4. Reached(dirs, want, Names(path))
      BY HereGoal
    <2>5. want.via = "link" => Front(Names(path)) \in dirs \ {want.names}
      BY <1>2, HereGoal
    <2>6. want.via = "link" => LinkAnswer(dirs, want, r)
      BY <2>3, <2>5 DEF LinkAnswer
    <2>7. ReplyOK(cfg, dirs, files, want, r)
      BY <2>2, <2>3, <2>4, <2>6 DEF ReplyOK, query
    <2> QED BY <1>1, <2>1, <2>7 DEF Kept
  <1>3. CASE ~CheckRedir(path, WbRoot \o b)
    <2>1. Reached(dirs, want, Names(path))
      BY HereGoal
    <2>2. want.via = "link" => Direct(cfg, files, want, path)
      BY HereGoal
    <2>3. want.via = "link" => (name = "" /\ (want.open \/ MimeType(path) = Html)) \/ name = "prop"
      BY <2>2, LinkQuery
    <2>4. ASSUME NEW kind, kind \notin {"none", "redirect"}, reply' = Answer(kind, path, query),
                 want.via = "link" => kind \in {"index", "lib"} \/ (kind = "file" /\ want.open)
          PROVE  ReplyOK(cfg, dirs, files, want, reply')
      BY <2>1, <2>4, AnswerOK
    <2>5. reply' = CASE name = "" -> DefaultPage(path, query)
                     [] name \in {"prop", "page"} -> Answer("index", path, query)
                     [] name = "index" -> ServeIndex(path, query)
                     [] name \in {"mime", "var", "meta", "stats"} -> Answer(name, path, query)
                     [] OTHER -> Answer("notfound", path, query)
      BY <1>3 DEF Done
    <2> HIDE DEF name, query
    <2>6. ASSUME name = "" PROVE ReplyOK(cfg, dirs, files, want, reply')
      <3>1. reply' = DefaultPage(path, query)
        BY <2>5, <2>6
      <3> DEFINE kind == IF IsLibFile(path) THEN "lib" ELSE IF MimeType(path) = Html THEN "index" ELSE "file"
      <3>2. reply' = Answer(kind, path, query)
        BY <3>1 DEF DefaultPage
      <3>3. kind \notin {"none", "redirect"}
        OBVIOUS
      <3>4. want.via = "link" => kind \in {"index", "lib"} \/ (kind = "file" /\ want.open)
        BY <2>3, <2>6
      <3> HIDE DEF kind
      <3> QED BY <2>4, <3>2, <3>3, <3>4
    <2>7. ASSUME name \in {"prop", "page"} PROVE ReplyOK(cfg, dirs, files, want, reply')
      <3>1. reply' = Answer("index", path, query)
        BY <2>5, <2>7
      <3> QED BY <2>4, <3>1
    <2>8. ASSUME name = "index" PROVE ReplyOK(cfg, dirs, files, want, reply')
      <3>1. reply' = ServeIndex(path, query)
        BY <2>5, <2>8
      <3>2. want.via # "link"
        BY <2>3, <2>8
      <3>3. ReplyOK(cfg, dirs, files, want, ServeIndex(path, want.query))
        BY <1>3, <2>1, <3>2, ListingOK
      <3> QED BY <3>1, <3>3 DEF query
    <2>9. ASSUME name \in {"mime", "var", "meta", "stats"} PROVE ReplyOK(cfg, dirs, files, want, reply')
      <3>1. reply' = Answer(name, path, query)
        BY <2>5, <2>9
      <3>2. name \notin {"none", "redirect"} /\ want.via # "link"
        BY <2>3, <2>9
      <3> QED BY <2>4, <3>1, <3>2
    <2>10. ASSUME name \notin {"", "prop", "page", "index", "mime", "var", "meta", "stats"}
           PROVE  ReplyOK(cfg, dirs, files, want, reply')
      <3>1. reply' = Answer("notfound", path, query)
        BY <2>5, <2>10
      <3>2. want.via # "link"
        BY <2>3, <2>10
      <3> QED BY <2>4, <3>1, <3>2
    <2> QED BY <1>1, <2>6, <2>7, <2>8, <2>9, <2>10 DEF Kept
  <1> QED BY <1>2, <1>3

(* Load answers with the page, as it is or renamed, or ends the process.   *)
LEMMA LoadOK ==
  ASSUME Tree(dirs, files), NEW b, NEW path, Here(b, path), ~CheckRedir(path, WbRoot \o b),
         HandlerName(want.query) = "data", Load(path, want.query)
  PROVE  /\ Tree(dirs', files')
         /\ \/ pc' = pc /\ ReplyOK(cfg, dirs', files', want, reply')
            \/ pc' = "dead" /\ reply' = Nothing
  <1> DEFINE names == Names(path)
  <1>1. /\ path \in Text /\ names \in Way /\ want.names \in Way /\ Reached(dirs, want, names)
    BY HereGoal
  <1>2. want.via # "link"
    <2> SUFFICES ASSUME want.via = "link" PROVE FALSE
      OBVIOUS
    <2>1. Direct(cfg, files, want, path)
      BY HereGoal
    <2> QED BY <2>1, LinkQuery
  <1>3. ASSUME NEW kind, kind \in {"file", "lib", "newpage"}, NEW ds, NEW fs, Reached(ds, want, names)
        PROVE  ReplyOK(cfg, ds, fs, want, Answer(kind, path, want.query))
    <2>1. kind \notin {"none", "redirect"}
      BY <1>3
    <2> QED BY <1>2, <1>3, <2>1, AnswerOK
  <1>4. \/ \E kind \in {"file", "lib", "newpage"} :
             reply' = Answer(kind, path, want.query) /\ UNCHANGED <<pc, dirs, files>>
        \/ /\ names \notin dirs \cup files
           /\ \E old \in OlderOf(names) : Rename(old, names, path, want.query)
    <2> DEFINE kind == IF names \in dirs \cup files THEN "file" ELSE IF IsLibFile(path) THEN "lib" ELSE "newpage"
    <2>1. \/ reply' = Answer(kind, path, want.query) /\ UNCHANGED <<pc, dirs, files>>
          \/ /\ names \notin dirs \cup files
             /\ \E old \in OlderOf(names) : Rename(old, names, path, want.query)
      BY DEF Load
    <2>2. kind \in {"file", "lib", "newpage"}
      OBVIOUS
    <2> HIDE DEF kind, names
    <2> QED BY <2>1, <2>2
  <1>5. ASSUME NEW kind \in {"file", "lib", "newpage"},
               reply' = Answer(kind, path, want.query), UNCHANGED <<pc, dirs, files>>
        PROVE  Tree(dirs', files') /\ pc' = pc /\ ReplyOK(cfg, dirs', files', want, reply')
    BY <1>1, <1>3, <1>5
  <1>6. ASSUME names \notin dirs \cup files,
               NEW old \in OlderOf(names), Rename(old, names, path, want.query), Front(names) \in dirs
        PROVE  Tree(dirs', files') /\ pc' = pc /\ ReplyOK(cfg, dirs', files', want, reply')
    <2> DEFINE ds == {Moved(p, old, names) : p \in dirs}
               fs == {Moved(p, old, names) : p \in files}
    <2>1. dirs' = ds /\ files' = fs /\ reply' = Answer("file", path, want.query) /\ pc' = pc
      BY <1>6 DEF Rename
    <2>2. PICK blank \in OldBlank : old = Older(names, blank) /\ old \in dirs \cup files
      <3> HIDE DEF names
      <3> QED BY <1>6 DEF OlderOf, OldBlank
    <2>3. Stable(path) /\ ~Has(path, {"?"})
      BY HereListed
    <2>4. PICK a, f \in Text : Proud(f) /\ path = Down(a, f)
      BY HereListed
    <2>5. Tree(ds, fs)
      BY <1>6, <2>2, <2>3, <2>4, TreeRenamed
    <2>6. Len(old) = Len(names)
      <3>1. old \in Way /\ Len(old) \in Nat /\ DOMAIN old = 1 .. Len(old)
        BY <2>2, TreeIs, WayIs
      <3>2. DOMAIN names = 1 .. Len(names) /\ Len(names) \in Nat
        BY <1>1, WayIs
      <3>3. DOMAIN old = DOMAIN names
        BY <2>2 DEF Older
      <3> HIDE DEF names
      <3>4. \A m, k \in Nat : 1 .. m = 1 .. k => m = k
        OBVIOUS
      <3> QED BY <3>1, <3>2, <3>3, <3>4
    <2>7. Reached(ds, want, names)
      BY <1>1, <2>2, <2>6, ReachMoved
    <2>8. ReplyOK(cfg, ds, fs, want, Answer("file", path, want.query))
      BY <1>3, <2>7
    <2> HIDE DEF ds, fs
    <2> QED BY <2>1, <2>5, <2>8
  <1>7. ASSUME NEW old \in OlderOf(names), Rename(old, names, path, want.query), Front(names) \notin dirs
        PROVE  Tree(dirs', files') /\ pc' = "dead" /\ reply' = Nothing
    BY <1>7 DEF Rename
  <1> HIDE DEF names
  <1> QED BY <1>4, <1>5, <1>6, <1>7

LEMMA HandleStep == ASSUME SiteInv, Handle PROVE SiteInv'
  <1>1. /\ pc = "serve" /\ pc' \in {pc, "dead"} /\ request' = NoRequest
        /\ UNCHANGED <<json, cfg, log, said, own, html, css, want, saves>>
    BY HandleKeeps DEF Handle
  <1>2. StartInv'
    BY StepStarts DEF SiteInv, Next
  <1>3. PICK b, path :
          /\ Here(b, path)
          /\ \/ /\ HandlerName(want.query) = "data" /\ ~CheckRedir(path, WbRoot \o b)
                /\ Load(path, want.query)
             \/ Done(path, want.query, CheckRedir(path, WbRoot \o b))
    BY HandleHere
  <1>4. Tree(dirs, files)
    BY DEF SiteInv
  <1>5. /\ Tree(dirs', files')
        /\ \/ pc' = pc /\ ReplyOK(cfg, dirs', files', want, reply')
           \/ pc' = "dead" /\ reply' = Nothing
    <2>1. CASE HandlerName(want.query) = "data" /\ ~CheckRedir(path, WbRoot \o b) /\ Load(path, want.query)
      BY <1>3, <1>4, <2>1, LoadOK
    <2>2. CASE Done(path, want.query, CheckRedir(path, WbRoot \o b))
      <3>1. Kept
        BY <1>3, <1>4, <2>2, DoneOK
      <3> QED BY <1>4, <3>1 DEF Kept
    <2> QED BY <1>3, <2>1, <2>2
  <1>6. AskOK(cfg', dirs', files', want', request') /\ ReplyOK(cfg', dirs', files', want', reply')
    BY <1>1, <1>5, NothingOK
  <1>7. pc' = "serve" \/ (request' = NoRequest /\ reply' = Nothing)
    BY <1>1, <1>5
  <1>8. /\ pc' = "serve" => DOMAIN css' = ClassesOf(cfg')
        /\ saves' \in 0 .. MaxSaves
    BY <1>1 DEF SiteInv
  <1> QED BY <1>1, <1>2, <1>5, <1>6, <1>7, <1>8 DEF SiteInv

LEMMA SiteKeeps == SiteInv /\ [Next]_vars => SiteInv'
  <1> SUFFICES ASSUME SiteInv, [Next]_vars PROVE SiteInv'
    OBVIOUS
  <1>1. CASE StartNext /\ UNCHANGED siteVars
    BY <1>1, StartStep
  <1>2. CASE Handle
    BY <1>2, HandleStep
  <1>3. CASE Type
    BY <1>3, TypeStep
  <1>4. CASE Close
    BY <1>4, CloseStep
  <1>5. CASE Follow
    BY <1>5, FollowStep
  <1>6. CASE FollowLink
    BY <1>6, LinkStep
  <1>7. CASE Save
    BY <1>7, SaveStep
  <1>8. CASE UNCHANGED vars
    <2>1. UNCHANGED startVars /\ UNCHANGED siteVars
      BY <1>8 DEF vars
    <2>2. /\ dirs' = dirs /\ files' = files /\ request' = request /\ reply' = reply
          /\ want' = want /\ saves' = saves
      BY <2>1 DEF siteVars
    <2> QED BY <2>1, <2>2, OtherStep DEF SiteInv
  <1> QED BY <1>1, <1>2, <1>3, <1>4, <1>5, <1>6, <1>7, <1>8 DEF Next

(* Whatever is asked for, saved and renamed, the data stays a tree of      *)
(* pages in which no directory is a file and nothing hangs in the air,     *)
(* every request is for a URL of this site and only a running server       *)
(* answers (Load, the rename of what an older version stored, PageStore,   *)
(* SeeOther, ServeIndex).                                                  *)
THEOREM SiteTypes == Spec => []SiteTypeOK
  <1>1. SiteInv => SiteTypeOK
    <2> SUFFICES ASSUME SiteInv PROVE SiteTypeOK
      OBVIOUS
    <2>1. pc \in {"config", "log", "server", "serve", "dead"} /\ Tree(dirs, files) /\ saves \in 0 .. MaxSaves
      BY DEF SiteInv, StartInv, Inner
    <2>2. request.uri # <<>> => IsPrefix(WbRoot, request.uri)
      <3>1. CASE request = NoRequest
        BY <3>1 DEF NoRequest
      <3>2. CASE request # NoRequest
        BY <3>2, GoalAsks DEF SiteInv, AskOK
      <3> QED BY <3>1, <3>2
    <2>3. reply.kind # "none" => pc = "serve" /\ html
      BY DEF SiteInv, StartInv, StartSound, Nothing
    <2> QED BY <2>1, <2>2, <2>3 DEF SiteTypeOK
  <1> QED BY <1>1, SiteInits, SiteKeeps, PTL DEF Spec

(* However a name is spelled, and whatever is saved on the way, the answer *)
(* is about what was asked for, or about the main page below it; a link    *)
(* of a listing leads to its entry without a redirect, except to a main    *)
(* page that is a directory; and, where text/html is a configured type,    *)
(* the style sheet knows every class of a listing that is not of a stored  *)
(* type (Resource, Work, SeeOther, ServeIndex, GenerateMimeCss).           *)
THEOREM AnswersMatch == Spec => []AnswersWhatWasAsked
  <1>1. SiteInv => AnswersWhatWasAsked
    <2> SUFFICES ASSUME SiteInv PROVE AnswersWhatWasAsked
      OBVIOUS
    <2>1. reply.kind # "none" => reply.query = want.query /\ Reaches(reply.names)
      BY DEF SiteInv, ReplyOK, Reached, ReachedAt, Reaches
    <2>2. reply.kind # "none" /\ want.via = "link" => LinkAnswer(dirs, want, reply)
      BY DEF SiteInv, ReplyOK
    <2>3. reply.links # {} => pc = "serve"
      BY DEF SiteInv, Nothing
    <2>4. \A link \in reply.links :
            Html \in Range(cfg.mime) =>
              link.class \in DOMAIN css \cup {CssMimeType(t) : t \in Range(StoredType)}
      BY <2>3 DEF SiteInv, ReplyOK, StoredClasses
    <2> QED BY <2>1, <2>2, <2>4 DEF AnswersWhatWasAsked, LinkAnswer
  <1> QED BY <1>1, SiteInits, SiteKeeps, PTL DEF Spec
===============================================================================
