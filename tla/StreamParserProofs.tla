------------------------- MODULE StreamParserProofs -------------------------
(***************************************************************************)
(* Theorems about StreamParser, for a cache of any size, any input and any *)
(* sizes of the reads.                                                     *)
(***************************************************************************)
EXTENDS StreamParser, SequenceTheorems, TLAPS

(* The part of s behind its first i elements, up to and with the jth.      *)
Slice(s, i, j) == SubSeq(s, i + 1, j)

LEMMA SliceType ==
  ASSUME NEW S, NEW s \in Seq(S), NEW i \in Nat, NEW j \in Nat,
         i <= j, j <= Len(s)
  PROVE  /\ Slice(s, i, j) \in Seq(S)
         /\ Len(Slice(s, i, j)) = j - i
  <1>1. \A k \in i + 1 .. j : s[k] \in S
    BY ElementOfSeq
  <1> QED BY <1>1, SubSeqProperties DEF Slice

LEMMA SliceElements ==
  ASSUME NEW S, NEW s \in Seq(S), NEW i \in Nat, NEW j \in Nat,
         i <= j, j <= Len(s), NEW k \in 1 .. j - i
  PROVE  Slice(s, i, j)[k] = s[i + k]
  <1>1. \A n \in i + 1 .. j : s[n] \in S
    BY ElementOfSeq
  <1> QED BY <1>1, SubSeqProperties DEF Slice

LEMMA SliceEmpty ==
  ASSUME NEW s, NEW i \in Nat
  PROVE  Slice(s, i, i) = <<>>
  BY SubSeqEmpty DEF Slice

LEMMA SlicesJoin ==
  ASSUME NEW S, NEW s \in Seq(S), NEW i \in Nat, NEW j \in Nat, NEW k \in Nat,
         i <= j, j <= k, k <= Len(s)
  PROVE  Slice(s, i, j) \o Slice(s, j, k) = Slice(s, i, k)
  <1>1. /\ i + 1 \in 1 .. Len(s) + 1
        /\ j \in (i + 1) - 1 .. Len(s)
        /\ k \in j .. Len(s)
    BY LenProperties
  <1> QED BY <1>1, ConcatAdjacentSubSeq DEF Slice

LEMMA SliceOfSlice ==
  ASSUME NEW S, NEW s \in Seq(S), NEW i \in Nat, NEW j \in Nat,
         i <= j, j <= Len(s),
         NEW m \in Nat, NEW n \in Nat, m <= n, n <= j - i
  PROVE  Slice(Slice(s, i, j), m, n) = Slice(s, i + m, i + n)
  <1> DEFINE whole == Slice(s, i, j)
             left  == Slice(whole, m, n)
             right == Slice(s, i + m, i + n)
  <1>1. whole \in Seq(S) /\ Len(whole) = j - i
        /\ \A k \in 1 .. j - i : whole[k] = s[i + k]
    BY SliceType, SliceElements
  <1>2. left \in Seq(S) /\ Len(left) = n - m
        /\ \A k \in 1 .. n - m : left[k] = whole[m + k]
    <2> HIDE DEF whole
    <2>1. n <= Len(whole)
      BY <1>1
    <2>2. left \in Seq(S) /\ Len(left) = n - m
      BY <1>1, <2>1, SliceType
    <2>3. ASSUME NEW k \in 1 .. n - m PROVE left[k] = whole[m + k]
      <3>1. whole \in Seq(S) /\ m \in Nat /\ n \in Nat /\ m <= n
        BY <1>1
      <3> QED BY <3>1, <2>1, SliceElements
    <2> QED BY <2>2, <2>3
  <1>3. right \in Seq(S) /\ Len(right) = n - m
        /\ \A k \in 1 .. n - m : right[k] = s[(i + m) + k]
    <2>1. i + m \in Nat /\ i + n \in Nat /\ i + m <= i + n /\ i + n <= Len(s)
          /\ (i + n) - (i + m) = n - m
      BY LenProperties
    <2>2. right \in Seq(S) /\ Len(right) = (i + n) - (i + m)
      BY <2>1, SliceType, ZenonT(60)
    <2>3. \A k \in 1 .. (i + n) - (i + m) : right[k] = s[(i + m) + k]
      BY <2>1, SliceElements
    <2> QED BY <2>1, <2>2, <2>3
  <1>4. \A k \in 1 .. Len(left) : left[k] = right[k]
    <2> SUFFICES ASSUME NEW k \in 1 .. n - m
                 PROVE  left[k] = right[k]
      BY <1>2
    <2>1. m + k \in 1 .. j - i /\ i + (m + k) = (i + m) + k
      OBVIOUS
    <2> QED BY <1>1, <1>2, <1>3, <2>1
  <1> HIDE DEF whole, left, right
  <1>5. left = right
    BY <1>2, <1>3, <1>4, SeqEqual
  <1> QED BY <1>5 DEF whole, left, right

(* What the constants and TypeOK say of the cache and the input.           *)
Sane ==
  /\ Cap \in Nat \ {0} /\ ShortReads \in BOOLEAN
  /\ input \in Seq(Byte) /\ Len(input) \in Nat
  /\ at \in Nat /\ at <= Len(input)
  /\ cache \in Seq(Byte) /\ Len(cache) \in Nat /\ Len(cache) <= Cap
  /\ taken \in Nat /\ from \in Nat /\ from <= taken
  /\ out \in Seq(Byte) /\ Len(out) \in Nat

LEMMA Typed == TypeOK => Sane
  BY ParserAssumption, LenProperties DEF TypeOK, Sane

LEMMA CacheLength ==
  ASSUME TypeOK, CacheMirrors
  PROVE  cache = Slice(input, taken, at) /\ taken <= at /\ Len(cache) = at - taken
  <1>1. cache = Slice(input, taken, at) /\ taken <= at
    BY DEF CacheMirrors, Slice
  <1>2. /\ input \in Seq(Byte) /\ taken \in Nat /\ at \in Nat
        /\ taken <= at /\ at <= Len(input)
    BY <1>1, Typed DEF Sane
  <1>3. Len(Slice(input, taken, at)) = at - taken
    BY <1>2, SliceType
  <1> QED BY <1>1, <1>3

(* A cache that mirrors the input from base on still does when refilled,   *)
(* and is empty only at the end of the input.                              *)
Refilled(base) ==
  /\ at' \in Nat /\ at <= at' /\ at' <= Len(input) /\ base <= at'
  /\ cache' \in Seq(Byte) /\ Len(cache') <= Cap
  /\ cache' = Slice(input, base, at')
  /\ Len(cache') = at' - base
  /\ cache' = <<>> => at' = Len(input)

LEMMA RefillMirrors ==
  ASSUME TypeOK, NEW c \in Seq(Byte), Len(c) <= Cap,
         NEW base \in Nat, base <= at, c = Slice(input, base, at),
         Refill(c)
  PROVE  Refilled(base)
  <1>0. Sane
    BY Typed
  <1>1. Len(c) = at - base
    <2>1. input \in Seq(Byte) /\ at \in Nat /\ at <= Len(input)
      BY <1>0 DEF Sane
    <2>2. Len(Slice(input, base, at)) = at - base
      BY <2>1, SliceType
    <2> QED BY <2>2
  <1>2. PICK n \in Reads(c) : /\ cache' = c \o Slice(input, at, at + n)
                              /\ at' = at + n
    BY DEF Refill, Slice
  <1>3. /\ n \in Nat /\ n <= Cap - Len(c) /\ n <= Len(input) - at
        /\ n = 0 => Len(c) = Cap \/ at = Len(input)
    BY <1>0, <1>1 DEF Reads, Least, Sane
  <1>4. cache' = Slice(input, base, at')
    <2>1. /\ input \in Seq(Byte) /\ at \in Nat /\ at + n \in Nat
          /\ base <= at /\ at <= at + n /\ at + n <= Len(input)
      BY <1>0, <1>3 DEF Sane
    <2>2. Slice(input, base, at) \o Slice(input, at, at + n) = Slice(input, base, at + n)
      BY <2>1, SlicesJoin
    <2> QED BY <1>2, <2>2
  <1>5. cache' \in Seq(Byte) /\ Len(cache') = at' - base
    <2>1. /\ input \in Seq(Byte) /\ at' \in Nat
          /\ base <= at' /\ at' <= Len(input)
      BY <1>0, <1>2, <1>3 DEF Sane
    <2> QED BY <1>4, <2>1, SliceType
  <1>6. cache' = <<>> => at' = Len(input)
    <2> HAVE cache' = <<>>
    <2>1. at' = base
      BY <1>0, <1>5, <1>2, <1>3, EmptySeq DEF Sane
    <2>2. n = 0 /\ Len(c) = 0
      BY <1>0, <2>1, <1>1, <1>2, <1>3 DEF Sane
    <2> QED BY <1>0, <2>2, <1>2, <1>3 DEF Sane
  <1>7. /\ at' \in Nat /\ at <= at' /\ at' <= Len(input) /\ base <= at'
    <2>1. at \in Nat /\ Len(input) \in Nat
      BY <1>0 DEF Sane
    <2> QED BY <2>1, <1>2, <1>3
  <1>8. Len(cache') <= Cap
    <2>1. Cap \in Nat /\ at \in Nat
      BY <1>0 DEF Sane
    <2> QED BY <2>1, <1>1, <1>2, <1>3, <1>5
  <1> QED BY <1>4, <1>5, <1>6, <1>7, <1>8 DEF Refilled

(* So does a cache some bytes of which are consumed; what goes to the sink *)
(* is the part of the input that was next.                                 *)
Passed(n, sink) ==
  /\ taken' = taken + n
  /\ Refilled(taken + n)
  /\ out' = IF sink THEN out \o Slice(input, taken, taken + n) ELSE out

LEMMA PassMirrors ==
  ASSUME TypeOK, CacheMirrors, NEW n \in 0 .. Len(cache), NEW sink \in BOOLEAN,
         Pass(n, sink)
  PROVE  Passed(n, sink)
  <1>0. Sane
    BY Typed
  <1>1. cache = Slice(input, taken, at) /\ taken <= at /\ Len(cache) = at - taken
    BY CacheLength
  <1>2. Slice(cache, 0, n) = Slice(input, taken, taken + n)
    <2>1. Slice(Slice(input, taken, at), 0, n) = Slice(input, taken + 0, taken + n)
      BY <1>0, <1>1, SliceOfSlice DEF Sane
    <2> QED BY <2>1, <1>0, <1>1 DEF Sane
  <1>3. /\ taken' = taken + n
        /\ out' = IF sink THEN out \o Slice(input, taken, taken + n) ELSE out
    <2>1. Slice(cache, 0, n) = SubSeq(cache, 1, n)
      BY DEF Slice
    <2> QED BY <1>2, <2>1 DEF Pass
  <1>4. CASE n = Len(cache)
    <2>1. Refill(<<>>)
      BY <1>4 DEF Pass
    <2>2. taken + n = at
      BY <1>0, <1>1, <1>4 DEF Sane
    <2>3. <<>> = Slice(input, at, at) /\ <<>> \in Seq(Byte) /\ Len(<<>>) <= Cap
      BY <1>0, SliceEmpty, EmptySeq DEF Sane
    <2>4. Refilled(at)
      <3>1. at \in Nat /\ at <= at
        BY <1>0 DEF Sane
      <3> QED BY <2>1, <2>3, <3>1, RefillMirrors
    <2> QED BY <1>3, <2>2, <2>4 DEF Passed
  <1>5. CASE n # Len(cache)
    <2>1. cache' = Slice(cache, n, Len(cache)) /\ at' = at
      BY <1>5 DEF Pass, Drop, Slice
    <2>2. cache' = Slice(input, taken + n, at)
      <3>1. Slice(Slice(input, taken, at), n, Len(cache))
              = Slice(input, taken + n, taken + Len(cache))
        BY <1>0, <1>1, SliceOfSlice DEF Sane
      <3>2. taken + Len(cache) = at
        BY <1>0, <1>1 DEF Sane
      <3> QED BY <3>1, <3>2, <2>1, <1>1
    <2>3. cache' \in Seq(Byte) /\ Len(cache') = at - (taken + n)
      <3>1. /\ input \in Seq(Byte) /\ taken + n \in Nat /\ at \in Nat
            /\ taken + n <= at /\ at <= Len(input)
        BY <1>0, <1>1 DEF Sane
      <3> QED BY <2>2, <3>1, SliceType
    <2>4. cache' # <<>>
      BY <2>3, <1>0, <1>1, <1>5, EmptySeq DEF Sane
    <2>5. Refilled(taken + n)
      BY <1>0, <1>1, <2>1, <2>2, <2>3, <2>4 DEF Sane, Refilled
    <2> QED BY <1>3, <2>5 DEF Passed
  <1> QED BY <1>4, <1>5

LEMMA ConsumeMirrors ==
  ASSUME TypeOK, CacheMirrors, NeverStarves,
         NEW n \in 0 .. Len(cache), NEW sink \in BOOLEAN, Consume(n, sink)
  PROVE  Passed(n, sink)
  <1>1. CASE n # 0
    BY <1>1, PassMirrors DEF Consume
  <1>2. CASE n = 0
    <2>0. Sane
      BY Typed
    <2>1. UNCHANGED <<at, cache, taken, out>> /\ taken + n = taken
      BY <2>0, <1>2 DEF Consume, Sane
    <2>2. Slice(input, taken, taken) = <<>>
      BY <2>0, SliceEmpty DEF Sane
    <2>3. out \o <<>> = out
      BY <2>0, ConcatEmptySeq DEF Sane
    <2>4. cache = Slice(input, taken, at) /\ taken <= at /\ Len(cache) = at - taken
      BY CacheLength
    <2>5. Refilled(taken)
      BY <2>0, <2>1, <2>4 DEF Refilled, NeverStarves, Sane
    <2> QED BY <2>1, <2>2, <2>3, <2>5 DEF Passed
  <1> QED BY <1>1, <1>2

(* What was copied so far grows by what is consumed.                       *)
LEMMA CopiesText ==
  ASSUME TypeOK, CacheMirrors, out = Text, NEW n \in 0 .. Len(cache),
         Passed(n, TRUE), UNCHANGED <<input, from>>
  PROVE  out' = Text' /\ out' \in Seq(Byte)
  <1>0. Sane /\ taken <= at /\ Len(cache) = at - taken
    BY Typed, CacheLength
  <1>1. taken + n \in Nat /\ taken + n <= Len(input)
    BY <1>0 DEF Sane
  <1>2. Slice(input, from, taken) \o Slice(input, taken, taken + n)
          = Slice(input, from, taken + n)
    <2>1. /\ input \in Seq(Byte) /\ from \in Nat /\ taken \in Nat
          /\ from <= taken /\ taken <= taken + n
      BY <1>0 DEF Sane
    <2> QED BY <1>1, <2>1, SlicesJoin
  <1>3. Slice(input, from, taken + n) \in Seq(Byte)
    BY <1>0, <1>1, SliceType DEF Sane
  <1> QED BY <1>2, <1>3 DEF Passed, Text, Slice

-----------------------------------------------------------------------------
(* What a call's record holds.                                             *)
LEMMA CallType ==
  ASSUME NEW c \in Call
  PROVE  /\ c.op \in {"consume", "bytes", "string"}
         /\ c.op = "consume" => c.count \in Nat \ {0}
         /\ c.op = "bytes" => c.targets \subseteq Byte
         /\ c.op = "string" => c.string \in Seq(Byte) /\ Len(c.string) \in Nat \ {0}
  <1>1. \A s \in Strings : s \in Seq(Byte) /\ Len(s) \in Nat \ {0}
    BY ParserAssumption, LenProperties
  <1> QED BY <1>1, ParserAssumption DEF Call

Where == {"idle", "consume", "find", "string", "topup", "search", "skip"}

(* A step that leaves the cache refilled keeps what does not depend on the *)
(* call under way.                                                         *)
LEMMA Carries ==
  ASSUME TypeOK, UNCHANGED <<input, from>>, NEW n \in Nat, taken' = taken + n,
         Refilled(taken'), pc' \in Where, call' \in Call \cup {None},
         found' \in BOOLEAN, target' \in Byte \cup {None}, out' \in Seq(Byte)
  PROVE  TypeOK' /\ CacheMirrors' /\ NeverStarves'
  <1>1. /\ taken' \in Nat /\ from' \in 0 .. taken'
        /\ at' \in 0 .. Len(input) /\ taken' <= at'
    BY Typed, SMTT(30) DEF Sane, Refilled
  <1>2. TypeOK'
    BY <1>1 DEF TypeOK, Refilled, Where
  <1>3. CacheMirrors'
    BY <1>1 DEF CacheMirrors, Refilled, Slice
  <1>4. NeverStarves'
    BY DEF NeverStarves, Refilled
  <1> QED BY <1>2, <1>3, <1>4

(* The bytes of the cache are those of the input.                          *)
LEMMA CacheBytes ==
  ASSUME TypeOK, CacheMirrors, NEW i \in 1 .. Len(cache)
  PROVE  cache[i] = input[taken + i] /\ cache[i] \in Byte
  <1>0. Sane /\ cache = Slice(input, taken, at) /\ taken <= at /\ Len(cache) = at - taken
    BY Typed, CacheLength
  <1>1. /\ input \in Seq(Byte) /\ taken \in Nat /\ at \in Nat
        /\ taken <= at /\ at <= Len(input) /\ i \in 1 .. at - taken
    BY <1>0 DEF Sane
  <1>2. Slice(input, taken, at)[i] = input[taken + i]
    BY <1>1, SliceElements
  <1>3. cache[i] \in Byte
    BY <1>0, ElementOfSeq DEF Sane
  <1> QED BY <1>0, <1>2, <1>3

LEMMA InitKeeps == Init => ParserInv
  <1> SUFFICES ASSUME Init PROVE ParserInv
    OBVIOUS
  <1>1. /\ Cap \in Nat \ {0} /\ input \in Seq(Byte) /\ Len(input) \in Nat
    BY ParserAssumption, LenProperties DEF Init
  <1>2. PICK n \in 0 .. Len(input) :
          /\ n <= Cap
          /\ IF ShortReads THEN n > 0 \/ input = <<>> ELSE n = Least(Cap, Len(input))
          /\ at = n
          /\ cache = SubSeq(input, 1, n)
    BY DEF Init
  <1>3. cache = Slice(input, 0, at) /\ at \in Nat /\ at <= Len(input)
    BY <1>1, <1>2 DEF Slice
  <1>4. cache \in Seq(Byte) /\ Len(cache) = at
    <2>1. 0 \in Nat /\ 0 <= at
      BY <1>3
    <2> QED BY <1>1, <1>3, <2>1, SliceType
  <1>5. NeverStarves
    <2>1. n = 0 => Len(input) = 0
      BY <1>1, <1>2, EmptySeq DEF Least
    <2> QED BY <1>1, <1>2, <1>4, <2>1, EmptySeq DEF NeverStarves
  <1>6. TypeOK
    <2>1. /\ input \in Inputs /\ pc = "idle" /\ call = None
          /\ found = FALSE /\ target = None /\ taken = 0 /\ from = 0 /\ out = <<>>
      BY DEF Init
    <2>2. at \in 0 .. Len(input) /\ Len(cache) <= Cap
      BY <1>1, <1>2, <1>4
    <2>3. from \in 0 .. taken /\ taken \in Nat /\ out \in Seq(Byte)
      BY <2>1, EmptySeq
    <2> QED BY <1>4, <2>1, <2>2, <2>3 DEF TypeOK
  <1>7. CacheMirrors
    BY <1>3 DEF CacheMirrors, Init, Slice
  <1>8. CallInv /\ ConsumeReturns /\ BytesReturn /\ StringReturns
    BY DEF Init, CallInv, ConsumeReturns, BytesReturn, StringReturns, Returned
  <1> QED BY <1>5, <1>6, <1>7, <1>8 DEF ParserInv

-----------------------------------------------------------------------------
LEMMA BeginKeeps ==
  ASSUME ParserInv, NEW c \in Call, Begin(c)
  PROVE  ParserInv'
  <1>0. Sane /\ taken <= at
    BY Typed, CacheLength DEF ParserInv
  <1>1. /\ pc' = (IF c.op = "bytes" THEN "find" ELSE c.op)
        /\ call' = c /\ found' = FALSE /\ target' = None /\ from' = taken
        /\ out' = <<>> /\ UNCHANGED <<source, cache, taken>>
    BY DEF Begin, Goto
  <1>2. c.op \in {"consume", "bytes", "string"} /\ (c.op = "consume" => c.count \in Nat \ {0})
    BY CallType
  <1>3. out' = Text'
    BY <1>0, <1>1, SliceEmpty DEF Text, source, Slice, Sane
  <1>4. TypeOK'
    <2>1. from' \in 0 .. taken' /\ out' \in Seq(Byte) /\ call' \in Call \cup {None}
      BY <1>0, <1>1, EmptySeq DEF source, Sane
    <2>2. pc' \in {"idle", "consume", "find", "string", "topup", "search", "skip"}
      BY <1>1, <1>2
    <2> QED BY <1>1, <2>1, <2>2 DEF ParserInv, TypeOK, source
  <1>5. CacheMirrors' /\ NeverStarves'
    BY <1>1 DEF ParserInv, CacheMirrors, NeverStarves, source
  <1>6. pc' \in {"consume", "find", "string"}
    BY <1>1, <1>2
  <1>7. ConsumeReturns' /\ BytesReturn' /\ StringReturns'
    BY <1>6 DEF ConsumeReturns, BytesReturn, StringReturns, Returned
  <1>8. CallInv'
    <2>1. consumed' = 0
      BY <1>0, <1>1 DEF consumed, Sane
    <2>2. \A i \in 1 .. Len(out') : out'[i] \notin call'.targets
      BY <1>1, EmptySeq
    <2>3. pc' = "find" => call'.op \in {"bytes", "string"}
      BY <1>1, <1>2
    <2>4. pc' = "consume" => call'.op = "consume" /\ 0 < call'.count
      BY <1>1, <1>2
    <2>5. pc' = "string" => call'.op = "string"
      BY <1>1, <1>2
    <2> QED BY <1>1, <1>3, <1>6, <2>1, <2>2, <2>3, <2>4, <2>5 DEF CallInv
  <1> QED BY <1>4, <1>5, <1>7, <1>8 DEF ParserInv

LEMMA ConsumeKeeps ==
  ASSUME ParserInv, ConsumeLoop
  PROVE  ParserInv'
  <1>0. Sane /\ taken <= at /\ Len(cache) = at - taken
    BY Typed, CacheLength DEF ParserInv
  <1> DEFINE n == Least(Len(cache), call.count - consumed)
  <1>1. /\ call \in Call /\ call.op = "consume" /\ consumed < call.count
        /\ ~found /\ out = Text /\ call.count \in Nat
    BY CallType DEF ParserInv, CallInv, ConsumeLoop
  <1>2. consumed \in Nat /\ n \in 0 .. Len(cache) /\ consumed + n <= call.count
    BY <1>0, <1>1 DEF consumed, Least, Sane
  <1>3. /\ Pass(n, TRUE)
        /\ pc' = (IF consumed + n = call.count \/ cache' = <<>> THEN "idle" ELSE "consume")
        /\ UNCHANGED <<input, call, found, target, from>>
    BY DEF ConsumeLoop, Goto, result
  <1> HIDE DEF n
  <1>4. Passed(n, TRUE)
    BY <1>2, <1>3, PassMirrors DEF ParserInv
  <1>5. out' = Text' /\ out' \in Seq(Byte)
    BY <1>1, <1>2, <1>3, <1>4, CopiesText DEF ParserInv
  <1>6. TypeOK' /\ CacheMirrors' /\ NeverStarves'
    <2>1. /\ n \in Nat /\ taken' = taken + n /\ Refilled(taken')
          /\ UNCHANGED <<input, from>>
      BY <1>2, <1>3, <1>4 DEF Passed
    <2>2. /\ pc' \in Where /\ call' \in Call \cup {None}
          /\ found' \in BOOLEAN /\ target' \in Byte \cup {None}
      BY <1>1, <1>3 DEF ParserInv, TypeOK, Where
    <2> QED BY <2>1, <2>2, <1>5, Carries DEF ParserInv
  <1>7. consumed' = consumed + n
    BY <1>0, <1>2, <1>3, <1>4 DEF consumed, Passed, Sane
  <1>8. pc' = "idle" => consumed' = Least(call.count, Len(input) - from)
    <2> SUFFICES ASSUME pc' = "idle"
                 PROVE  consumed' = Least(call.count, Len(input) - from)
      OBVIOUS
    <2>1. /\ taken' \in Nat /\ at' \in Nat /\ taken' <= at' /\ at' <= Len(input)
          /\ cache' = <<>> => taken' = Len(input)
      BY <1>0, <1>2, <1>4, EmptySeq DEF Passed, Refilled, Sane
    <2>2. consumed' = taken' - from
      BY <1>3 DEF consumed
    <2>3. CASE consumed' = call.count
      BY <2>1, <2>2, <2>3, <1>0, <1>1 DEF Least, Sane
    <2>4. CASE cache' = <<>>
      <3>1. consumed' = Len(input) - from /\ consumed' <= call.count
        BY <2>1, <2>2, <2>4, <1>2, <1>7
      <3> QED BY <3>1, <1>0, <1>1 DEF Least, Sane
    <2>5. consumed' = call.count \/ cache' = <<>>
      BY <1>3, <1>7
    <2> QED BY <2>3, <2>4, <2>5
  <1>9. CallInv' /\ ConsumeReturns' /\ BytesReturn' /\ StringReturns'
    <2>1. pc' = "consume" => consumed' < call'.count
      BY <1>1, <1>2, <1>3, <1>7
    <2>2. pc' \in {"idle", "consume"} /\ call' = call
      BY <1>3
    <2>3. CallInv'
      BY <1>1, <1>3, <1>5, <2>1, <2>2 DEF CallInv
    <2>4. ConsumeReturns'
      BY <1>3, <1>5, <1>8, <2>2 DEF ConsumeReturns, Returned
    <2>5. BytesReturn' /\ StringReturns'
      BY <1>1, <2>2 DEF BytesReturn, StringReturns, Returned
    <2> QED BY <2>3, <2>4, <2>5
  <1> QED BY <1>6, <1>9 DEF ParserInv

(* The two searches stop at the end of the input.                          *)
LEMMA StarvedKeeps ==
  ASSUME ParserInv,
         NEW here \in {"find", "string"}, NEW there \in {"idle", "topup"},
         Starved(here, there),
         here = "find" => there = AfterFind,
         here = "string" => there = "idle"
  PROVE  ParserInv'
  <1>0. Sane /\ taken <= at /\ cache = Slice(input, taken, at)
    BY Typed, CacheLength DEF ParserInv
  <1>1. /\ pc = here /\ cache = <<>> /\ Refill(cache)
        /\ pc' = (IF cache' = <<>> THEN there ELSE here)
        /\ UNCHANGED <<input, call, found, target, taken, from, out>>
    BY DEF Starved, Goto, result
  <1>2. call \in Call /\ ~found /\ out = Text
    BY <1>1 DEF ParserInv, CallInv
  <1>3. Refilled(taken)
    BY <1>0, <1>1, RefillMirrors DEF ParserInv, Sane
  <1>4. TypeOK' /\ CacheMirrors' /\ NeverStarves'
    <2>1. /\ 0 \in Nat /\ taken' = taken + 0 /\ Refilled(taken')
          /\ UNCHANGED <<input, from>>
      BY <1>0, <1>1, <1>3 DEF Sane
    <2>2. /\ pc' \in Where /\ call' \in Call \cup {None} /\ out' \in Seq(Byte)
          /\ found' \in BOOLEAN /\ target' \in Byte \cup {None}
      BY <1>0, <1>1, <1>2 DEF ParserInv, TypeOK, Where, Sane
    <2> QED BY <2>1, <2>2, Carries DEF ParserInv
  <1>5. out' = Text' /\ ~found' /\ call' = call
    BY <1>1, <1>2 DEF Text
  <1>6. pc' # here => taken' = Len(input')
    BY <1>0, <1>1, <1>3, EmptySeq DEF Refilled, Sane
  <1>7. /\ call.op \in {"bytes", "string"}
        /\ here = "string" \/ there = "topup" => call.op = "string"
        /\ here = "find" /\ there = "idle" => call.op = "bytes"
    BY <1>1 DEF ParserInv, CallInv, AfterFind
  <1>8. call.op = "bytes" => \A i \in 1 .. Len(out) : out[i] \notin call.targets
    BY <1>1, <1>7 DEF ParserInv, CallInv
  <1>9. CallInv'
    <2>1. pc' \in {here, there} /\ out' = out /\ call' = call
      BY <1>1
    <2>2. pc' = "find" => call'.op \in {"bytes", "string"}
      BY <1>7, <2>1
    <2>3. pc' \in {"string", "topup", "search", "skip"} => call'.op = "string"
      BY <1>7, <2>1
    <2>4. pc' \notin {"consume", "skip"}
      BY <2>1
    <2> QED BY <1>2, <1>5, <1>8, <2>1, <2>2, <2>3, <2>4 DEF CallInv
  <1>10. ConsumeReturns'
    BY <1>5, <1>7 DEF ConsumeReturns, Returned
  <1>11. BytesReturn'
    <2> SUFFICES ASSUME pc' = "idle", call.op = "bytes" PROVE BytesReturn'
      BY <1>5 DEF BytesReturn, Returned
    <2>1. taken' = Len(input')
      BY <1>1, <1>6
    <2> QED BY <1>1, <1>5, <1>8, <2>1 DEF BytesReturn
  <1>12. StringReturns'
    <2> SUFFICES ASSUME pc' = "idle" PROVE StringReturns'
      BY DEF StringReturns, Returned
    <2>1. taken' = Len(input')
      BY <1>1, <1>6
    <2> QED BY <1>5, <2>1 DEF StringReturns
  <1> QED BY <1>4, <1>9, <1>10, <1>11, <1>12 DEF ParserInv

(* Bytes none of which is wanted keep the copied ones without a target.    *)
LEMMA StillNone ==
  ASSUME TypeOK, CacheMirrors, NEW n \in 0 .. Len(cache), Passed(n, TRUE),
         NEW targets,
         \A i \in 1 .. Len(out) : out[i] \notin targets,
         \A j \in 1 .. n : cache[j] \notin targets
  PROVE  \A i \in 1 .. Len(out') : out'[i] \notin targets
  <1> DEFINE more == Slice(input, taken, taken + n)
  <1>0. Sane /\ taken <= at /\ Len(cache) = at - taken
    BY Typed, CacheLength
  <1>1. /\ input \in Seq(Byte) /\ taken \in Nat /\ taken + n \in Nat
        /\ taken <= taken + n /\ taken + n <= Len(input) /\ (taken + n) - taken = n
    BY <1>0 DEF Sane
  <1>2. more \in Seq(Byte) /\ Len(more) = n
    BY <1>1, SliceType
  <1>3. ASSUME NEW j \in 1 .. n PROVE more[j] = cache[j]
    <2>1. more[j] = input[taken + j]
      BY <1>1, SliceElements, SMTT(30)
    <2>2. j \in 1 .. Len(cache)
      BY <1>0 DEF Sane
    <2> QED BY <2>1, <2>2, CacheBytes
  <1>4. out' = out \o more
    BY DEF Passed
  <1> HIDE DEF more
  <1>5. /\ Len(out') = Len(out) + n
        /\ \A i \in 1 .. Len(out) + n :
             out'[i] = IF i <= Len(out) THEN out[i] ELSE more[i - Len(out)]
    BY <1>0, <1>2, <1>4, ConcatProperties, ZenonT(60) DEF Sane
  <1> SUFFICES ASSUME NEW i \in 1 .. Len(out) + n
               PROVE  out'[i] \notin targets
    BY <1>5
  <1>6. CASE i <= Len(out)
    BY <1>0, <1>5, <1>6 DEF Sane
  <1>7. CASE ~(i <= Len(out))
    <2>1. i - Len(out) \in 1 .. n
      BY <1>0, <1>7 DEF Sane
    <2> QED BY <1>3, <1>5, <1>7, <2>1
  <1> QED BY <1>6, <1>7

(* A step that copies n bytes of the cache in one go.                      *)
LEMMA CopyCarries ==
  ASSUME ParserInv, out = Text, NEW n \in 0 .. Len(cache), Consume(n, TRUE),
         UNCHANGED <<input, call, from>>, call \in Call,
         pc' \in Where, found' \in BOOLEAN, target' \in Byte \cup {None}
  PROVE  /\ Passed(n, TRUE) /\ out' = Text'
         /\ TypeOK' /\ CacheMirrors' /\ NeverStarves'
  <1>1. Passed(n, TRUE)
    BY ConsumeMirrors DEF ParserInv
  <1>2. out' = Text' /\ out' \in Seq(Byte)
    BY <1>1, CopiesText DEF ParserInv
  <1>3. /\ n \in Nat /\ taken' = taken + n /\ Refilled(taken')
        /\ UNCHANGED <<input, from>> /\ call' \in Call \cup {None}
    BY <1>1, Typed DEF Passed, ParserInv, Sane
  <1> QED BY <1>1, <1>2, <1>3, Carries DEF ParserInv

LEMMA FindKeeps ==
  ASSUME ParserInv, FindUntil
  PROVE  ParserInv'
  <1>0. Sane /\ taken <= at /\ cache = Slice(input, taken, at) /\ Len(cache) = at - taken
    BY Typed, CacheLength DEF ParserInv
  <1>1. /\ pc = "find" /\ call \in Call /\ ~found /\ out = Text
        /\ call.op \in {"bytes", "string"}
        /\ call.op = "bytes" => \A i \in 1 .. Len(out) : out[i] \notin call.targets
        /\ UNCHANGED <<input, call, from>>
    BY DEF FindUntil, ParserInv, CallInv
  <1>2. ASSUME NEW i \in 1 .. Len(cache), cache[i] \in Wanted,
               \A j \in 1 .. i - 1 : cache[j] \notin Wanted,
               Consume(i - 1, TRUE), pc' = AfterFind,
               IF call.op = "string" THEN UNCHANGED result
               ELSE found' = TRUE /\ target' = cache[i]
        PROVE  ParserInv'
    <2>1. i - 1 \in 0 .. Len(cache)
      BY <1>0 DEF Sane
    <2>2. pc' \in {"idle", "topup"} /\ (pc' = "idle" <=> call.op = "bytes")
      BY <1>1, <1>2 DEF AfterFind
    <2>3. cache[i] = input[taken + i] /\ cache[i] \in Byte
      BY CacheBytes DEF ParserInv
    <2>4. found' \in BOOLEAN /\ target' \in Byte \cup {None}
      BY <1>2, <2>3 DEF result, ParserInv, TypeOK
    <2>5. /\ Passed(i - 1, TRUE) /\ out' = Text'
          /\ TypeOK' /\ CacheMirrors' /\ NeverStarves'
      BY <1>1, <1>2, <2>1, <2>2, <2>4, CopyCarries DEF Where
    <2>6. CASE call.op = "string"
      <3>1. pc' = "topup" /\ found' = found /\ call' = call
        BY <1>1, <1>2, <2>2, <2>6 DEF result
      <3>2. CallInv'
        BY <1>1, <2>5, <2>6, <3>1 DEF CallInv
      <3> QED BY <2>5, <3>1, <3>2
              DEF ParserInv, ConsumeReturns, BytesReturn, StringReturns, Returned
    <2>7. CASE call.op = "bytes"
      <3>1. pc' = "idle" /\ found' = TRUE /\ target' = cache[i] /\ call' = call
        BY <1>1, <1>2, <2>2, <2>7
      <3>2. \A k \in 1 .. Len(out') : out'[k] \notin call.targets
        BY <1>1, <1>2, <2>1, <2>5, <2>7, StillNone DEF Wanted, ParserInv
      <3>3. taken' = taken + (i - 1) /\ taken' < at' /\ at' <= Len(input)
        BY <1>0, <2>5 DEF Passed, Refilled, Sane
      <3>4. cache'[1] = cache[i]
        <4>1. taken \in Nat /\ i - 1 \in Nat /\ input \in Seq(Byte)
          BY <1>0 DEF Sane
        <4>2. taken' \in Nat
          BY <3>3, <4>1
        <4>3. at' \in Nat
          BY <2>5 DEF TypeOK
        <4>4. taken' <= at' /\ 1 \in 1 .. at' - taken'
          BY <3>3, <4>2, <4>3
        <4>5. Slice(input, taken', at')[1] = input[taken' + 1]
          BY <3>3, <4>1, <4>2, <4>3, <4>4, SliceElements
        <4>6. taken' + 1 = taken + i
          BY <3>3, <4>1
        <4>7. cache' = Slice(input, taken', at')
          BY <2>5 DEF Passed, Refilled
        <4> QED BY <2>3, <4>5, <4>6, <4>7
      <3>5. BytesReturn'
        BY <1>1, <1>2, <2>5, <2>7, <3>1, <3>2, <3>3, <3>4 DEF BytesReturn, Wanted
      <3>6. CallInv' /\ ConsumeReturns' /\ StringReturns'
        BY <2>7, <3>1 DEF CallInv, ConsumeReturns, StringReturns, Returned
      <3> QED BY <2>5, <3>5, <3>6 DEF ParserInv
    <2> QED BY <1>1, <2>6, <2>7
  <1>3. ASSUME \A j \in 1 .. Len(cache) : cache[j] \notin Wanted,
               Consume(Len(cache), TRUE), UNCHANGED <<result, pc>>
        PROVE  ParserInv'
    <2>1. /\ Len(cache) \in 0 .. Len(cache) /\ pc' = "find" /\ call' = call
          /\ found' = found /\ target' = target
      BY <1>0, <1>1, <1>3 DEF Sane, result
    <2>2. found' \in BOOLEAN /\ target' \in Byte \cup {None}
      BY <2>1 DEF ParserInv, TypeOK
    <2>3. /\ Passed(Len(cache), TRUE) /\ out' = Text'
          /\ TypeOK' /\ CacheMirrors' /\ NeverStarves'
      BY <1>1, <1>3, <2>1, <2>2, CopyCarries DEF Where
    <2>4. call.op = "bytes" => \A k \in 1 .. Len(out') : out'[k] \notin call.targets
      BY <1>1, <1>3, <2>1, <2>3, StillNone DEF Wanted, ParserInv
    <2>5. CallInv'
      BY <1>1, <2>1, <2>3, <2>4 DEF CallInv
    <2> QED BY <2>1, <2>3, <2>5
            DEF ParserInv, ConsumeReturns, BytesReturn, StringReturns, Returned
  <1> QED BY <1>2, <1>3 DEF FindUntil, Goto

LEMMA ReadUntilKeeps ==
  ASSUME ParserInv, ReadUntil
  PROVE  ParserInv'
  <1>1. /\ pc = "string" /\ pc' = "find"
        /\ UNCHANGED <<input, at, cache, call, found, target, taken, from, out>>
    BY DEF ReadUntil, Goto, source, result
  <1>2. TypeOK' /\ CacheMirrors' /\ NeverStarves'
    BY <1>1 DEF ParserInv, TypeOK, CacheMirrors, NeverStarves
  <1>3. CallInv'
    BY <1>1 DEF ParserInv, CallInv, Text
  <1> QED BY <1>1, <1>2, <1>3
          DEF ParserInv, ConsumeReturns, BytesReturn, StringReturns, Returned

LEMMA TopUpKeeps ==
  ASSUME ParserInv, TopUp
  PROVE  ParserInv'
  <1>0. Sane /\ taken <= at /\ cache = Slice(input, taken, at)
    BY Typed, CacheLength DEF ParserInv
  <1>1. /\ pc = "topup" /\ pc' = "search" /\ Refill(cache)
        /\ UNCHANGED <<input, call, found, target, taken, from, out>>
    BY DEF TopUp, Goto, result
  <1>2. call \in Call /\ call.op = "string" /\ ~found /\ out = Text
    BY <1>1 DEF ParserInv, CallInv
  <1>3. Refilled(taken)
    BY <1>0, <1>1, RefillMirrors DEF ParserInv, Sane
  <1>4. TypeOK' /\ CacheMirrors' /\ NeverStarves'
    <2>1. /\ 0 \in Nat /\ taken' = taken + 0 /\ Refilled(taken')
          /\ UNCHANGED <<input, from>>
      BY <1>0, <1>1, <1>3 DEF Sane
    <2>2. /\ pc' \in Where /\ call' \in Call \cup {None} /\ out' \in Seq(Byte)
          /\ found' \in BOOLEAN /\ target' \in Byte \cup {None}
      BY <1>0, <1>1, <1>2 DEF ParserInv, TypeOK, Where, Sane
    <2> QED BY <2>1, <2>2, Carries DEF ParserInv
  <1>5. CallInv'
    BY <1>1, <1>2 DEF CallInv, Text
  <1> QED BY <1>1, <1>4, <1>5
          DEF ParserInv, ConsumeReturns, BytesReturn, StringReturns, Returned

LEMMA SearchKeeps ==
  ASSUME ParserInv, Search
  PROVE  ParserInv'
  <1>0. Sane /\ taken <= at /\ cache = Slice(input, taken, at) /\ Len(cache) = at - taken
    BY Typed, CacheLength DEF ParserInv
  <1>1. /\ pc = "search" /\ call \in Call /\ call.op = "string" /\ ~found /\ out = Text
        /\ UNCHANGED <<input, call, found, target, from>>
    BY DEF Search, ParserInv, CallInv, result
  <1> DEFINE s == call.string
  <1>2. s \in Seq(Byte) /\ Len(s) \in Nat \ {0}
    BY <1>1, CallType
  <1>3. found' \in BOOLEAN /\ target' \in Byte \cup {None}
    BY <1>1 DEF ParserInv, TypeOK
  <1>4. ASSUME NEW i \in Hits(s, cache), Consume(i - 1, TRUE), pc' = "skip"
        PROVE  ParserInv'
    <2>1. /\ i \in 1 .. Len(cache) - Len(s) + 1 /\ IsAt(s, i, cache)
          /\ i - 1 \in 0 .. Len(cache)
      BY <1>0, <1>2 DEF Hits, Sane
    <2>2. /\ Passed(i - 1, TRUE) /\ out' = Text'
          /\ TypeOK' /\ CacheMirrors' /\ NeverStarves'
      BY <1>1, <1>3, <1>4, <2>1, CopyCarries DEF Where
    <2>3. /\ taken' = taken + (i - 1) /\ cache' = Slice(input, taken', at')
          /\ at <= at' /\ at' <= Len(input) /\ at' \in Nat
          /\ Len(cache') = at' - taken' /\ Len(s) <= at' - taken'
      <3>1. taken' = taken + (i - 1) /\ Refilled(taken')
        BY <2>2 DEF Passed
      <3>2. /\ cache' = Slice(input, taken', at')
            /\ at <= at' /\ at' <= Len(input) /\ at' \in Nat
            /\ Len(cache') = at' - taken'
        BY <3>1 DEF Refilled
      <3>3. /\ taken \in Nat /\ at \in Nat /\ i - 1 \in Nat /\ Len(s) \in Nat
            /\ i - 1 + Len(s) <= at - taken
        BY <1>0, <1>2, <2>1 DEF Sane
      <3>4. Len(s) <= at' - taken'
        BY <3>1, <3>2, <3>3
      <3> QED BY <3>1, <3>2, <3>4
    <2>4. Slice(cache, i - 1, i - 1 + Len(s)) = s
      <3>1. i - 1 + 1 = i /\ i - 1 + Len(s) = i + Len(s) - 1
        BY <1>2, <2>1
      <3> QED BY <2>1, <3>1 DEF IsAt, Slice
    <2>5. Slice(cache, i - 1, i - 1 + Len(s)) = Slice(input, taken', taken' + Len(s))
      <3>1. /\ input \in Seq(Byte) /\ taken \in Nat /\ at \in Nat
            /\ taken <= at /\ at <= Len(input)
            /\ i - 1 \in Nat /\ i - 1 + Len(s) \in Nat
            /\ i - 1 <= i - 1 + Len(s) /\ i - 1 + Len(s) <= at - taken
        BY <1>0, <1>2, <2>1 DEF Sane
      <3>2. Slice(Slice(input, taken, at), i - 1, i - 1 + Len(s))
              = Slice(input, taken + (i - 1), taken + (i - 1 + Len(s)))
        BY <3>1, SliceOfSlice
      <3>3. taken + (i - 1 + Len(s)) = taken' + Len(s)
        BY <1>2, <2>3, <3>1, SMTT(30)
      <3> QED BY <1>0, <2>3, <3>2, <3>3
    <2>6. Slice(cache', 0, Len(s)) = Slice(input, taken', taken' + Len(s))
      <3>1. /\ input \in Seq(Byte) /\ taken' \in Nat /\ at' \in Nat
            /\ taken' <= at' /\ at' <= Len(input)
            /\ 0 \in Nat /\ Len(s) \in Nat /\ 0 <= Len(s) /\ Len(s) <= at' - taken'
        BY <1>0, <1>2, <2>1, <2>3 DEF Sane
      <3>2. Slice(Slice(input, taken', at'), 0, Len(s))
              = Slice(input, taken' + 0, taken' + Len(s))
        BY <3>1, SliceOfSlice
      <3> QED BY <2>3, <3>1, <3>2
    <2>7. Len(s) <= Len(cache') /\ IsAt(s, 1, cache')
      <3>1. 1 + Len(s) - 1 = Len(s) /\ 0 + 1 = 1
        BY <1>2
      <3>2. Slice(cache', 0, Len(s)) = s
        BY <2>4, <2>5, <2>6
      <3>3. SubSeq(cache', 1, 1 + Len(s) - 1) = s
        BY <3>1, <3>2 DEF Slice
      <3> QED BY <2>3, <3>3 DEF IsAt
    <2>8. CallInv'
      BY <1>1, <1>4, <2>2, <2>7 DEF CallInv
    <2> QED BY <1>4, <2>2, <2>8
            DEF ParserInv, ConsumeReturns, BytesReturn, StringReturns, Returned
  <1>5. ASSUME Consume(Len(cache), TRUE), pc' = "string"
        PROVE  ParserInv'
    <2>1. Len(cache) \in 0 .. Len(cache)
      BY <1>0 DEF Sane
    <2>2. /\ Passed(Len(cache), TRUE) /\ out' = Text'
          /\ TypeOK' /\ CacheMirrors' /\ NeverStarves'
      BY <1>1, <1>3, <1>5, <2>1, CopyCarries DEF Where
    <2>3. CallInv'
      BY <1>1, <1>5, <2>2 DEF CallInv
    <2> QED BY <1>5, <2>2, <2>3
            DEF ParserInv, ConsumeReturns, BytesReturn, StringReturns, Returned
  <1> QED BY <1>4, <1>5 DEF Search, Goto

LEMMA SkipKeeps ==
  ASSUME ParserInv, Skip
  PROVE  ParserInv'
  <1>0. Sane /\ taken <= at /\ cache = Slice(input, taken, at) /\ Len(cache) = at - taken
    BY Typed, CacheLength DEF ParserInv
  <1> DEFINE s == call.string
  <1>1. /\ pc = "skip" /\ call \in Call /\ call.op = "string" /\ out = Text
        /\ Len(s) <= Len(cache) /\ IsAt(s, 1, cache)
        /\ Consume(Len(s), FALSE) /\ found' = TRUE /\ pc' = "idle"
        /\ UNCHANGED <<input, call, target, from>>
    BY DEF Skip, ParserInv, CallInv, Goto
  <1>2. s \in Seq(Byte) /\ Len(s) \in Nat \ {0}
    BY <1>1, CallType
  <1>3. Len(s) \in 0 .. Len(cache) /\ Len(s) \in Nat
    BY <1>0, <1>1, <1>2 DEF Sane
  <1>4. Passed(Len(s), FALSE)
    BY <1>1, <1>3, ConsumeMirrors DEF ParserInv
  <1>5. taken' = taken + Len(s) /\ Refilled(taken') /\ out' = out
    BY <1>4 DEF Passed
  <1>6. TypeOK' /\ CacheMirrors' /\ NeverStarves'
    <2>1. /\ pc' \in Where /\ call' \in Call \cup {None} /\ out' \in Seq(Byte)
          /\ found' \in BOOLEAN /\ target' \in Byte \cup {None}
      BY <1>0, <1>1, <1>5 DEF ParserInv, TypeOK, Where, Sane
    <2> QED BY <1>1, <1>3, <1>5, <2>1, Carries DEF ParserInv
  <1>7. Text' = out \o s
    <2>1. /\ input \in Seq(Byte) /\ taken \in Nat /\ at \in Nat /\ from \in Nat
          /\ taken <= at /\ at <= Len(input) /\ from <= taken
          /\ taken + Len(s) \in Nat /\ taken <= taken + Len(s)
          /\ taken + Len(s) <= Len(input)
          /\ 0 \in Nat /\ 0 <= Len(s) /\ Len(s) <= at - taken
      BY <1>0, <1>1, <1>2 DEF Sane
    <2>2. Slice(Slice(input, taken, at), 0, Len(s)) = Slice(input, taken + 0, taken + Len(s))
      BY <1>3, <2>1, SliceOfSlice
    <2>3. Slice(cache, 0, Len(s)) = s
      <3>1. 1 + Len(s) - 1 = Len(s)
        BY <1>2
      <3> QED BY <1>1, <3>1 DEF IsAt, Slice
    <2>4. Slice(input, taken, taken + Len(s)) = s
      BY <1>0, <2>1, <2>2, <2>3
    <2>5. Slice(input, from, taken) \o Slice(input, taken, taken + Len(s))
            = Slice(input, from, taken + Len(s))
      BY <2>1, SlicesJoin
    <2>6. Text = Slice(input, from, taken) /\ Text' = Slice(input, from, taken + Len(s))
      BY <1>1, <1>5 DEF Text, Slice
    <2> QED BY <1>1, <2>4, <2>5, <2>6
  <1>8. CallInv' /\ ConsumeReturns' /\ BytesReturn'
    BY <1>1 DEF CallInv, ConsumeReturns, BytesReturn, Returned
  <1>9. StringReturns'
    BY <1>1, <1>5, <1>7 DEF StringReturns
  <1> QED BY <1>6, <1>8, <1>9 DEF ParserInv

-----------------------------------------------------------------------------
LEMMA ParserStep ==
  ASSUME ParserInv, [Next]_vars
  PROVE  ParserInv'
  <1>1. ASSUME NEW c \in Call, Begin(c) PROVE ParserInv'
    BY <1>1, BeginKeeps
  <1>2. CASE ConsumeLoop
    BY <1>2, ConsumeKeeps
  <1>3. CASE Starved("find", AfterFind)
    <2>1. AfterFind \in {"idle", "topup"}
      BY DEF AfterFind
    <2> QED BY <1>3, <2>1, StarvedKeeps
  <1>4. CASE FindUntil
    BY <1>4, FindKeeps
  <1>5. CASE Starved("string", "idle")
    BY <1>5, StarvedKeeps
  <1>6. CASE ReadUntil
    BY <1>6, ReadUntilKeeps
  <1>7. CASE TopUp
    BY <1>7, TopUpKeeps
  <1>8. CASE Search
    BY <1>8, SearchKeeps
  <1>9. CASE Skip
    BY <1>9, SkipKeeps
  <1>10. CASE UNCHANGED vars
    BY <1>10 DEF vars, ParserInv, TypeOK, CacheMirrors, NeverStarves, CallInv,
                 ConsumeReturns, BytesReturn, StringReturns, Returned, Text,
                 consumed
  <1> QED BY <1>1, <1>2, <1>3, <1>4, <1>5, <1>6, <1>7, <1>8, <1>9, <1>10
          DEF Next, Run

(* The invariant holds throughout: the calls of StreamParser copy what the *)
(* source gives, byte for byte, in any pieces and with any cache.          *)
THEOREM ParserInvariant == Spec => []ParserInv
  <1>1. Init => ParserInv
    BY InitKeeps
  <1>2. ParserInv /\ [Next]_vars => ParserInv'
    BY ParserStep
  <1> QED BY <1>1, <1>2, PTL DEF Spec

(* The cache holds what was read and not yet taken (StreamParser.cc:59).   *)
THEOREM Mirrors == Spec => []CacheMirrors
  BY ParserInvariant, PTL DEF ParserInv

(* The cache never holds more than its size, and every call and its result *)
(* keep their types (StreamParser.hh:60).                                  *)
THEOREM ParserTypes == Spec => []TypeOK
  BY ParserInvariant, PTL DEF ParserInv

(* The cache is empty only at the end of the input: the assertion of       *)
(* ReadUntil and FindUntil, Size() > 0, holds (StreamParser.cc:89, 162).   *)
THEOREM CallsFeed == Spec => []NeverStarves
  BY ParserInvariant, PTL DEF ParserInv

(* What Consume, ReadUntil a byte, ReadUntilAny and ReadUntil a string     *)
(* have done when they return.                                             *)
THEOREM EachCallCopies == Spec => []CopiesExactly
  <1>1. ParserInv => CopiesExactly
    BY DEF ParserInv, CopiesExactly
  <1> QED BY <1>1, ParserInvariant, PTL
-----------------------------------------------------------------------------
(* The string is in the input behind its first p bytes, and not before in  *)
(* what the call may take; what looks like its first byte is near to it.   *)
IsThere(p) ==
  p + Len(call.string) <= Len(input) /\ Slice(input, p, p + Len(call.string)) = call.string
HereAt(p) ==
  /\ p \in Nat /\ from <= p /\ IsThere(p)
  /\ \A q \in from .. p - 1 : ~IsThere(q)
  /\ \A j \in from + 1 .. p : input[j] = call.string[1] => Near(j, p + Len(call.string))

(* Where that string is, for each place that the call can be at: it is not *)
(* passed over, it is what FindUntil stops at, and the cache topped up     *)
(* holds it whole.                                                         *)
Meets(p) ==
  /\ pc \in {"string", "find"} => taken <= p
  /\ pc \in {"topup", "search"} => taken <= p
  /\ pc = "topup" => p + Len(call.string) <= taken + Cap
  /\ pc = "search" => p + Len(call.string) <= at
  /\ pc = "skip" => taken = p
  /\ pc = "idle" => found /\ taken = p + Len(call.string)
FoundInv ==
  call # None /\ call.op = "string" /\ Len(call.string) <= Cap =>
    \A p : HereAt(p) => Meets(p)

LEMMA BeginMeets == ASSUME ParserInv, NEW c \in Call, Begin(c) PROVE FoundInv'
  <1>1. /\ call' = c /\ from' = taken /\ taken' = taken
        /\ pc' = (IF c.op = "bytes" THEN "find" ELSE c.op)
    BY DEF Begin, Goto
  <1>2. ASSUME c.op = "string", NEW p, HereAt(p)' PROVE Meets(p)'
    <2>1. pc' = "string" /\ taken' <= p
      BY <1>1, <1>2 DEF HereAt
    <2> QED BY <2>1 DEF Meets
  <1> QED BY <1>1, <1>2 DEF FoundInv

(* A step of a call for such a string, but for the one that begins it.     *)
Seeks == /\ ParserInv /\ FoundInv /\ UNCHANGED <<input, call, from>>
         /\ call \in Call /\ call.op = "string" /\ Len(call.string) <= Cap

LEMMA StepMeets ==
  ASSUME Seeks, \A p : HereAt(p) /\ Meets(p) => Meets(p)'
  PROVE  FoundInv'
  <1>1. \A p : HereAt(p)' => HereAt(p)
    BY DEF HereAt, IsThere, Seeks
  <1> QED BY <1>1, CallAssumption DEF FoundInv, Seeks

(* What is known of the string and of its place.                           *)
LEMMA Place ==
  ASSUME Seeks, NEW p, HereAt(p)
  PROVE  /\ Sane /\ taken <= at /\ Len(cache) = at - taken
         /\ cache = Slice(input, taken, at)
         /\ call.string \in Seq(Byte) /\ Len(call.string) \in Nat \ {0}
         /\ p \in Nat /\ p < Len(input) /\ p + Len(call.string) \in Nat
         /\ input[p + 1] = call.string[1]
  <1> DEFINE s == call.string
  <1>1. Sane /\ taken <= at /\ Len(cache) = at - taken /\ cache = Slice(input, taken, at)
    BY Typed, CacheLength DEF Seeks, ParserInv
  <1>2. s \in Seq(Byte) /\ Len(s) \in Nat \ {0}
    BY CallType DEF Seeks
  <1> HIDE DEF s
  <1>3. /\ p \in Nat /\ p + Len(s) <= Len(input) /\ Slice(input, p, p + Len(s)) = s
        /\ input \in Seq(Byte) /\ Len(input) \in Nat
    BY <1>1 DEF HereAt, IsThere, Sane, s
  <1>4. p < Len(input) /\ p + Len(s) \in Nat /\ p <= p + Len(s)
        /\ 1 \in 1 .. (p + Len(s)) - p
    BY <1>2, <1>3
  <1>5. Slice(input, p, p + Len(s))[1] = input[p + 1]
    BY <1>3, <1>4, SliceElements
  <1> QED BY <1>1, <1>2, <1>3, <1>4, <1>5 DEF s

(* A call that finds nothing more to read has not passed the string over.  *)
LEMMA StarvedMeets ==
  ASSUME Seeks, NEW here \in {"find", "string"}, NEW there, Starved(here, there)
  PROVE  FoundInv'
  <1>1. ASSUME NEW p, HereAt(p), Meets(p) PROVE FALSE
    <2>1. Sane /\ Len(cache) = at - taken /\ p \in Nat /\ p < Len(input) /\ taken <= at
      BY <1>1, Place
    <2>2. cache = <<>> /\ pc \in {"find", "string"}
      BY DEF Starved
    <2>3. at = Len(input) /\ taken <= p
      BY <1>1, <2>2 DEF Meets, Seeks, ParserInv, NeverStarves
    <2>4. Len(cache) = 0
      BY <2>2, EmptySeq
    <2> QED BY <2>1, <2>3, <2>4 DEF Sane
  <1> QED BY <1>1, StepMeets

(* The bytes without the string's first one do not reach into it.          *)
LEMMA NotInside ==
  ASSUME Seeks, NEW p, HereAt(p), taken <= p, NEW n \in 0 .. Len(cache),
         \A j \in 1 .. n : cache[j] # call.string[1]
  PROVE  taken + n <= p
  <1>1. Sane /\ p \in Nat /\ input[p + 1] = call.string[1]
    BY Place
  <1>2. taken \in Nat /\ n \in Nat /\ Len(cache) \in Nat
    BY <1>1 DEF Sane
  <1> SUFFICES ASSUME p < taken + n PROVE FALSE
    BY <1>1, <1>2
  <1> DEFINE k == p + 1 - taken
  <1>3. k \in 1 .. n /\ k \in 1 .. Len(cache) /\ taken + k = p + 1
    BY <1>1, <1>2
  <1> HIDE DEF k
  <1>4. cache[k] = input[p + 1]
    BY <1>3, CacheBytes DEF Seeks, ParserInv
  <1> QED BY <1>1, <1>3, <1>4

LEMMA FindMeets == ASSUME Seeks, FindUntil PROVE FoundInv'
  <1>1. pc = "find" /\ Wanted = {call.string[1]} /\ AfterFind = "topup"
    BY DEF FindUntil, Seeks, Wanted, AfterFind
  <1>2. ASSUME NEW p, HereAt(p), Meets(p) PROVE Meets(p)'
    <2>1. taken <= p
      BY <1>1, <1>2 DEF Meets
    <2>2. /\ Sane /\ p \in Nat /\ Len(cache) \in Nat /\ Len(call.string) \in Nat
          /\ \A j \in from + 1 .. p :
               input[j] = call.string[1] => Near(j, p + Len(call.string))
      BY <1>2, Place DEF HereAt, Sane
    <2>3. ASSUME NEW i \in 1 .. Len(cache), cache[i] \in Wanted,
                 \A j \in 1 .. i - 1 : cache[j] \notin Wanted,
                 Consume(i - 1, TRUE), pc' = AfterFind
          PROVE  Meets(p)'
      <3>1. i - 1 \in 0 .. Len(cache)
        BY <2>2
      <3>2. taken' = taken + (i - 1)
        BY <2>3, <3>1, ConsumeMirrors DEF Passed, Seeks, ParserInv
      <3>3. taken + (i - 1) <= p
        BY <1>1, <1>2, <2>1, <2>3, <3>1, NotInside
      <3>4. input[taken + i] = call.string[1]
        BY <1>1, <2>3, CacheBytes DEF Seeks, ParserInv
      <3>5. p + Len(call.string) <= taken' + Cap
        <4>1. /\ taken \in Nat /\ from \in Nat /\ from <= taken /\ Cap \in Nat
              /\ Len(call.string) <= Cap
          BY <2>2 DEF Sane, Seeks
        <4>2. CASE taken + (i - 1) = p
          BY <2>2, <3>2, <4>1, <4>2
        <4>3. CASE taken + (i - 1) < p
          <5>1. taken + i \in from + 1 .. p
            BY <2>2, <4>1, <4>3
          <5>2. Near(taken + i, p + Len(call.string))
            BY <2>2, <3>4, <5>1
          <5> QED BY <2>2, <3>2, <4>1, <5>2 DEF Near
        <4> QED BY <2>2, <3>3, <4>1, <4>2, <4>3
      <3>6. call' = call
        BY DEF Seeks
      <3> QED BY <1>1, <2>3, <3>2, <3>3, <3>5, <3>6 DEF Meets
    <2>4. ASSUME \A j \in 1 .. Len(cache) : cache[j] \notin Wanted,
                 Consume(Len(cache), TRUE), UNCHANGED <<result, pc>>
          PROVE  Meets(p)'
      <3>1. Len(cache) \in 0 .. Len(cache)
        BY <2>2
      <3>2. taken' = taken + Len(cache)
        BY <2>4, <3>1, ConsumeMirrors DEF Passed, Seeks, ParserInv
      <3>3. taken + Len(cache) <= p
        BY <1>1, <1>2, <2>1, <2>4, <3>1, NotInside
      <3>4. pc' = "find"
        BY <1>1, <2>4
      <3> QED BY <3>2, <3>3, <3>4 DEF Meets
    <2> QED BY <2>3, <2>4 DEF FindUntil, Goto
  <1> QED BY <1>2, StepMeets

LEMMA ReadUntilMeets == ASSUME Seeks, ReadUntil PROVE FoundInv'
  BY StepMeets DEF ReadUntil, Goto, Meets, Seeks

(* The source gives all it has, so the cache is full or the input at its   *)
(* end: the string is in it whole.                                         *)
LEMMA TopUpMeets == ASSUME Seeks, TopUp, ~ShortReads PROVE FoundInv'
  <1>1. pc = "topup" /\ pc' = "search" /\ Refill(cache) /\ taken' = taken
    BY DEF TopUp, Goto
  <1>2. ASSUME NEW p, HereAt(p), Meets(p) PROVE Meets(p)'
    <2>1. taken <= p /\ p + Len(call.string) <= taken + Cap
      BY <1>1, <1>2 DEF Meets
    <2>2. /\ Sane /\ Len(cache) = at - taken /\ p + Len(call.string) \in Nat
          /\ p + Len(call.string) <= Len(input)
      BY <1>2, Place DEF HereAt, IsThere
    <2>3. at' = at + Least(Cap - Len(cache), Len(input) - at)
      BY <1>1 DEF Refill, Reads
    <2>4. p + Len(call.string) <= at'
      <3>1. CASE Cap - Len(cache) <= Len(input) - at
        <4>1. at' = at + (Cap - Len(cache))
          BY <2>3, <3>1 DEF Least
        <4>2. at' = taken + Cap
          BY <2>2, <4>1 DEF Sane
        <4> QED BY <2>1, <4>2
      <3>2. CASE ~(Cap - Len(cache) <= Len(input) - at)
        <4>1. at' = Len(input)
          BY <2>2, <2>3, <3>2 DEF Least, Sane
        <4> QED BY <2>2, <4>1
      <3> QED BY <3>1, <3>2
    <2>5. call' = call
      BY DEF Seeks
    <2> QED BY <1>1, <2>1, <2>4, <2>5 DEF Meets
  <1> QED BY <1>2, StepMeets

(* Where the string is in the cache, it is in the input.                   *)
LEMMA HitsAreThere ==
  ASSUME Seeks, Sane, taken <= at, Len(cache) = at - taken,
         cache = Slice(input, taken, at), Len(call.string) \in Nat \ {0}, NEW i \in Nat \ {0}
  PROVE  /\ i \in Hits(call.string, cache) => IsThere(taken + (i - 1))
         /\ IsThere(taken + (i - 1)) /\ taken + (i - 1) + Len(call.string) <= at
              => i \in Hits(call.string, cache)
  <1> DEFINE s == call.string
             m == i - 1
             n == m + Len(s)
  <1>0. Len(s) \in Nat \ {0}
    OBVIOUS
  <1> HIDE DEF s
  <1>1. /\ m \in Nat /\ n \in Nat /\ m <= n /\ m + 1 = i /\ n = i + Len(s) - 1
        /\ taken \in Nat /\ at \in Nat /\ at <= Len(input) /\ input \in Seq(Byte)
        /\ Len(input) \in Nat /\ taken + m + Len(s) = taken + n /\ Len(s) \in Nat \ {0}
    BY <1>0 DEF Sane
  <1> HIDE DEF m, n
  <1>2. SubSeq(cache, i, i + Len(s) - 1) = Slice(cache, m, n)
    BY <1>1 DEF Slice
  <1>3. n <= at - taken => Slice(cache, m, n) = Slice(input, taken + m, taken + n)
    BY <1>1, SliceOfSlice
  <1>4. i \in 1 .. Len(cache) - Len(s) + 1 <=> n <= at - taken
    BY <1>1
  <1>5. i \in Hits(s, cache) <=> n <= at - taken /\ Slice(input, taken + m, taken + n) = s
    BY <1>2, <1>3, <1>4 DEF Hits, IsAt
  <1>6. IsThere(taken + m) <=> taken + n <= Len(input) /\ Slice(input, taken + m, taken + n) = s
    BY <1>1 DEF IsThere, s
  <1>7. n <= at - taken <=> taken + m + Len(s) <= at
    BY <1>1
  <1>8. n <= at - taken => taken + n <= Len(input)
    BY <1>1
  <1>9. /\ i \in Hits(s, cache) => IsThere(taken + m)
        /\ IsThere(taken + m) /\ taken + m + Len(s) <= at => i \in Hits(s, cache)
    BY <1>5, <1>6, <1>7, <1>8
  <1> QED BY <1>9 DEF m, s

LEMMA SearchMeets == ASSUME Seeks, Search PROVE FoundInv'
  <1>1. pc = "search" /\ UNCHANGED result
    BY DEF Search
  <1>2. ASSUME NEW p, HereAt(p), Meets(p) PROVE Meets(p)'
    <2> DEFINE s == call.string
               k == p - taken + 1
    <2>1. taken <= p /\ p + Len(s) <= at
      BY <1>1, <1>2 DEF Meets
    <2>2. /\ Sane /\ Len(cache) = at - taken /\ cache = Slice(input, taken, at)
          /\ taken <= at /\ Len(s) \in Nat \ {0} /\ p \in Nat
      BY <1>2, Place
    <2>3. /\ k \in Nat \ {0} /\ taken + (k - 1) = p /\ taken \in Nat /\ from \in Nat
          /\ from <= taken
      BY <2>1, <2>2 DEF Sane
    <2> HIDE DEF k
    <2>4. IsThere(p) /\ \A q \in from .. p - 1 : ~IsThere(q)
      BY <1>2 DEF HereAt
    <2>5. k \in Hits(s, cache)
      BY <2>1, <2>2, <2>3, <2>4, HitsAreThere
    <2>6. PICK i \in Hits(s, cache) :
            (\A j \in Hits(s, cache) : i <= j) /\ Consume(i - 1, TRUE) /\ pc' = "skip"
      BY <2>5 DEF Search, Goto
    <2>7. i \in Nat \ {0} /\ i <= k /\ i - 1 \in 0 .. Len(cache)
      <3>1. i <= k /\ i \in 1 .. Len(cache) - Len(s) + 1
        BY <2>5, <2>6 DEF Hits
      <3> QED BY <3>1, <2>2 DEF Sane
    <2>8. taken + (i - 1) = p
      <3>1. IsThere(taken + (i - 1))
        BY <2>2, <2>6, <2>7, HitsAreThere
      <3>2. taken + (i - 1) \notin from .. p - 1
        BY <2>4, <3>1
      <3> QED BY <2>2, <2>3, <2>7, <3>2
    <2>9. taken' = taken + (i - 1)
      BY <2>6, <2>7, ConsumeMirrors DEF Passed, Seeks, ParserInv
    <2> QED BY <2>6, <2>8, <2>9 DEF Meets
  <1> QED BY <1>2, StepMeets

LEMMA SkipMeets == ASSUME Seeks, Skip PROVE FoundInv'
  <1>1. /\ pc = "skip" /\ pc' = "idle" /\ found' = TRUE /\ call' = call
        /\ Consume(Len(call.string), FALSE) /\ Len(call.string) <= Len(cache)
    BY DEF Skip, Goto, Seeks, ParserInv, CallInv
  <1>2. ASSUME NEW p, HereAt(p), Meets(p) PROVE Meets(p)'
    <2>1. taken = p
      BY <1>1, <1>2 DEF Meets
    <2>2. Len(call.string) \in 0 .. Len(cache)
      BY <1>1, <1>2, Place DEF Sane
    <2>3. taken' = taken + Len(call.string)
      BY <1>1, <2>2, ConsumeMirrors DEF Passed, Seeks, ParserInv
    <2> QED BY <1>1, <2>1, <2>3 DEF Meets
  <1> QED BY <1>2, StepMeets

LEMMA FoundStep ==
  ASSUME ParserInv, FoundInv, [Next]_vars, ~ShortReads
  PROVE  FoundInv'
  <1>1. ASSUME NEW c \in Call, Begin(c) PROVE FoundInv'
    BY <1>1, BeginMeets
  <1>2. CASE UNCHANGED vars
    BY <1>2 DEF vars, source, result, FoundInv, HereAt, IsThere, Meets
  <1>3. CASE Run
    <2>1. call \in Call /\ UNCHANGED <<input, call, from>>
      BY <1>3 DEF Run, ParserInv, CallInv, ConsumeLoop, Starved, FindUntil, ReadUntil,
                  TopUp, Search, Skip, source
    <2> SUFFICES ASSUME call.op = "string", Len(call.string) <= Cap PROVE FoundInv'
      BY <2>1 DEF FoundInv
    <2>2. Seeks
      BY <2>1 DEF Seeks
    <2>3. ~ConsumeLoop
      BY DEF ConsumeLoop, ParserInv, CallInv
    <2> QED BY <1>3, <2>2, <2>3, StarvedMeets, FindMeets, ReadUntilMeets, TopUpMeets,
               SearchMeets, SkipMeets DEF Run
  <1> QED BY <1>1, <1>2, <1>3 DEF Next

(* What is in the rest of the input is in the input.                       *)
LEMMA RestIsThere ==
  ASSUME Sane, from <= Len(input), Len(call.string) \in Nat \ {0}, NEW i \in Nat \ {0}
  PROVE  i \in Hits(call.string, Drop(input, from)) <=> IsThere(from + (i - 1))
  <1> DEFINE s == call.string
             text == Slice(input, from, Len(input))
             m == i - 1
             n == m + Len(s)
  <1>0. Len(s) \in Nat \ {0}
    OBVIOUS
  <1> HIDE DEF s
  <1>1. /\ m \in Nat /\ n \in Nat /\ m <= n /\ m + 1 = i /\ n = i + Len(s) - 1
        /\ input \in Seq(Byte) /\ from \in Nat /\ Len(input) \in Nat
        /\ Len(input) <= Len(input)
        /\ from + m + Len(s) = from + n /\ Len(s) \in Nat \ {0}
    BY <1>0 DEF Sane
  <1> HIDE DEF m, n
  <1>2. text = Drop(input, from) /\ Len(text) = Len(input) - from
    BY <1>1, SliceType DEF Drop, Slice
  <1>3. SubSeq(text, i, i + Len(s) - 1) = Slice(text, m, n)
    BY <1>1 DEF Slice
  <1>4. n <= Len(input) - from => Slice(text, m, n) = Slice(input, from + m, from + n)
    BY <1>1, SliceOfSlice
  <1> HIDE DEF text
  <1>5. i \in 1 .. Len(text) - Len(s) + 1 <=> n <= Len(input) - from
    BY <1>1, <1>2
  <1>6. n <= Len(input) - from <=> from + n <= Len(input)
    BY <1>1
  <1>7. i \in Hits(s, text) <=>
          from + n <= Len(input) /\ Slice(input, from + m, from + n) = s
    BY <1>3, <1>4, <1>5, <1>6 DEF Hits, IsAt
  <1>8. IsThere(from + m) <=> from + n <= Len(input) /\ Slice(input, from + m, from + n) = s
    BY <1>1 DEF IsThere, s
  <1> QED BY <1>2, <1>7, <1>8 DEF m, s

LEMMA CleanMeets == ASSUME ParserInv, FoundInv PROVE CleanStringFound
  <1> DEFINE s == call.string
             text == Drop(input, from)
  <1> SUFFICES ASSUME Returned("string"), Len(s) <= Cap, NEW i \in Hits(s, text),
                      \A k \in Hits(s, text) : i <= k,
                      \A j \in 1 .. i - 1 : text[j] = s[1] => Near(j, i - 1 + Len(s))
               PROVE  found /\ consumed = i - 1 + Len(s)
    BY DEF CleanStringFound
  <1> DEFINE p == from + (i - 1)
  <1>1. /\ Sane /\ taken <= at /\ pc = "idle" /\ call # None /\ call.op = "string"
        /\ call \in Call /\ Len(s) <= Cap
    BY Typed, CacheLength DEF ParserInv, Returned, TypeOK
  <1>2. s \in Seq(Byte) /\ Len(s) \in Nat \ {0}
    BY <1>1, CallType
  <1>3. /\ input \in Seq(Byte) /\ from \in Nat /\ Len(input) \in Nat /\ from <= Len(input)
        /\ Len(input) <= Len(input) /\ Cap \in Nat /\ taken \in Nat
    BY <1>1 DEF Sane
  <1>4. text = Slice(input, from, Len(input)) /\ Len(text) = Len(input) - from
    BY <1>3, SliceType DEF Drop, Slice
  <1>5. /\ i \in Nat \ {0} /\ p \in Nat /\ from <= p /\ IsThere(p)
        /\ i <= Len(input) - from
    <2>1. i \in 1 .. Len(text) - Len(s) + 1
      BY DEF Hits
    <2>2. i \in Nat \ {0} /\ i <= Len(input) - from
      BY <1>2, <1>3, <1>4, <2>1
    <2> QED BY <1>1, <1>2, <1>3, <2>2, RestIsThere
  <1>6. ASSUME NEW q \in from .. p - 1 PROVE ~IsThere(q)
    <2> DEFINE k == q - from + 1
    <2>1. k \in Nat \ {0} /\ k < i /\ from + (k - 1) = q
      BY <1>3, <1>5
    <2>2. k \notin Hits(s, text)
      BY <1>5, <2>1
    <2> HIDE DEF k
    <2> QED BY <1>1, <1>2, <1>3, <2>1, <2>2, RestIsThere
  <1>7. ASSUME NEW j \in from + 1 .. p, input[j] = s[1] PROVE Near(j, p + Len(s))
    <2> DEFINE k == j - from
    <2>1. k \in 1 .. i - 1 /\ k \in 1 .. Len(input) - from /\ from + k = j /\ j \in Nat
      BY <1>3, <1>5
    <2> HIDE DEF k
    <2>2. text[k] = s[1]
      <3>1. Slice(input, from, Len(input))[k] = input[from + k]
        BY <1>3, <2>1, SliceElements
      <3> QED BY <1>4, <1>7, <2>1, <3>1
    <2>3. Near(k, i - 1 + Len(s))
      BY <2>1, <2>2
    <2>4. k \in Nat /\ Len(s) \in Nat
      BY <1>2, <2>1
    <2> HIDE DEF s
    <2> QED BY <1>3, <1>5, <2>1, <2>3, <2>4 DEF Near
  <1>8. HereAt(p)
    BY <1>5, <1>6, <1>7 DEF HereAt
  <1>9. found /\ taken = p + Len(s)
    BY <1>1, <1>8 DEF FoundInv, Meets
  <1>10. taken - from = i - 1 + Len(s)
    <2> HIDE DEF s
    <2> QED BY <1>2, <1>3, <1>5, <1>9
  <1> QED BY <1>9, <1>10 DEF consumed

(* A string that fits in the cache is found where it occurs first, however *)
(* the cache cuts it, when what looks like its first byte is near to it:   *)
(* for any input and cache, over a source that gives what it has           *)
(* (StreamParser::ReadUntil).                                              *)
THEOREM FindsCleanStrings == ASSUME ~ShortReads PROVE Spec => []CleanStringFound
  <1>1. Init => ParserInv /\ FoundInv
    BY InitKeeps DEF Init, FoundInv
  <1>2. ParserInv /\ FoundInv /\ [Next]_vars => ParserInv' /\ FoundInv'
    BY ParserStep, FoundStep
  <1>3. ParserInv /\ FoundInv => CleanStringFound
    BY CleanMeets
  <1> QED BY <1>1, <1>2, <1>3, PTL DEF Spec
-----------------------------------------------------------------------------
(* What the callers of the parser use.                                    *)
StringCall(s) == [op |-> "string", string |-> s]

LEMMA TextType ==
  ASSUME ParserInv
  PROVE  /\ input \in Seq(Byte) /\ Len(input) \in Nat
         /\ from \in Nat /\ taken \in Nat /\ from <= taken /\ taken <= Len(input)
         /\ Text = Slice(input, from, taken) /\ Len(Text) = taken - from
  <1>1. Sane /\ taken <= at
    BY Typed DEF ParserInv, CacheMirrors
  <1>2. /\ input \in Seq(Byte) /\ Len(input) \in Nat
        /\ from \in Nat /\ taken \in Nat /\ from <= taken /\ taken <= Len(input)
    BY <1>1 DEF Sane
  <1>3. Text = Slice(input, from, taken)
    BY DEF Text, Slice
  <1>4. Len(Slice(input, from, taken)) = taken - from
    BY <1>2, SliceType
  <1> QED BY <1>2, <1>3, <1>4

(* What is left of the input at a place.  SubSeq of a concatenation.       *)
Rest(pos) == Slice(input, pos, Len(input))

LEMMA RestSlice ==
  ASSUME input \in Seq(Byte), NEW i \in Nat, i <= Len(input),
         NEW m \in Nat, NEW n \in Nat, m <= n, n <= Len(input) - i
  PROVE  Slice(Rest(i), m, n) = Slice(input, i + m, i + n)
  <1> DEFINE j == Len(input)
  <1>1. j \in Nat /\ i <= j /\ j <= Len(input) /\ n <= j - i
    BY LenProperties
  <1> HIDE DEF j
  <1>2. Slice(Slice(input, i, j), m, n) = Slice(input, i + m, i + n)
    BY <1>1, SliceOfSlice
  <1> QED BY <1>2 DEF Rest, j

LEMMA FirstPart ==
  ASSUME NEW S, NEW a \in Seq(S), NEW b \in Seq(S)
  PROVE  /\ Slice(a \o b, 0, Len(a)) = a
         /\ Slice(a \o b, Len(a), Len(a) + Len(b)) = b
         /\ Len(a \o b) = Len(a) + Len(b) /\ a \o b \in Seq(S)
  <1> DEFINE c == a \o b
             m == Len(a)
             n == Len(b)
  <1>1. /\ c \in Seq(S) /\ Len(c) = m + n /\ m \in Nat /\ n \in Nat
        /\ \A i \in 1 .. m + n : c[i] = IF i <= m THEN a[i] ELSE b[i - m]
    BY ConcatProperties, LenProperties
  <1> HIDE DEF c
  <1>2. /\ Slice(c, 0, m) \in Seq(S) /\ Len(Slice(c, 0, m)) = m - 0
        /\ Slice(c, m, m + n) \in Seq(S) /\ Len(Slice(c, m, m + n)) = (m + n) - m
    <2>1. 0 \in Nat /\ 0 <= m /\ m <= Len(c) /\ m <= m + n /\ m + n <= Len(c) /\ m + n \in Nat
      BY <1>1
    <2>2. c \in Seq(S) /\ m \in Nat
      BY <1>1
    <2>3. Slice(c, 0, m) \in Seq(S) /\ Len(Slice(c, 0, m)) = m - 0
      BY <2>1, <2>2, SliceType
    <2>4. Slice(c, m, m + n) \in Seq(S) /\ Len(Slice(c, m, m + n)) = (m + n) - m
      BY <2>1, <2>2, SliceType
    <2> QED BY <2>3, <2>4
  <1>3. ASSUME NEW i \in 1 .. m PROVE Slice(c, 0, m)[i] = a[i]
    <2>1. 0 \in Nat /\ 0 <= m /\ m <= Len(c) /\ i \in 1 .. m - 0 /\ 0 + i = i
      BY <1>1
    <2>2. Slice(c, 0, m)[i] = c[0 + i]
      BY <1>1, <2>1, SliceElements
    <2> QED BY <1>1, <2>1, <2>2
  <1>4. ASSUME NEW i \in 1 .. n PROVE Slice(c, m, m + n)[i] = b[i]
    <2>1. m <= m + n /\ m + n <= Len(c) /\ i \in 1 .. (m + n) - m /\ m + n \in Nat
      BY <1>1
    <2>2. Slice(c, m, m + n)[i] = c[m + i]
      BY <1>1, <2>1, SliceElements
    <2>3. m + i \in 1 .. m + n /\ ~(m + i <= m) /\ (m + i) - m = i
      BY <1>1
    <2>4. c[m + i] = b[(m + i) - m]
      BY <1>1, <2>3
    <2> QED BY <2>2, <2>3, <2>4
  <1>5. Slice(c, 0, m) = a
    BY <1>1, <1>2, <1>3, SeqEqual
  <1>6. Slice(c, m, m + n) = b
    <2>1. Len(Slice(c, m, m + n)) = n
      BY <1>1, <1>2
    <2> QED BY <1>2, <1>4, <2>1, SeqEqual
  <1> QED BY <1>1, <1>5, <1>6 DEF c

(* Where what is left begins with some text, the text is taken with its    *)
(* length, and the other is left.                                          *)
LEMMA TextTaken ==
  ASSUME ParserInv, NEW a \in Seq(Byte), NEW b \in Seq(Byte),
         Rest(from) = a \o b, taken = from + Len(a)
  PROVE  Text = a /\ Rest(taken) = b
  <1>1. /\ input \in Seq(Byte) /\ Len(input) \in Nat /\ from \in Nat /\ taken \in Nat
        /\ from <= taken /\ taken <= Len(input) /\ Text = Slice(input, from, taken)
    BY TextType
  <1>2. Len(a) \in Nat /\ Len(b) \in Nat
    BY LenProperties
  <1>3. Len(a) + Len(b) = Len(input) - from
    <2>1. from <= Len(input) /\ Len(input) <= Len(input)
      BY <1>1
    <2>2. Len(Slice(input, from, Len(input))) = Len(input) - from
      BY <1>1, <2>1, SliceType
    <2>3. Len(a \o b) = Len(a) + Len(b)
      BY FirstPart
    <2> QED BY <2>2, <2>3 DEF Rest
  <1> DEFINE m == Len(a)
             n == Len(a) + Len(b)
  <1>4. /\ m \in Nat /\ n \in Nat /\ 0 <= m /\ m <= n /\ n <= Len(input) - from /\ 0 \in Nat
        /\ n <= n /\ from + 0 = from /\ from + n = Len(input) /\ from <= Len(input)
        /\ Len(input) <= Len(input) /\ m <= Len(input) - from /\ from + m = taken
    BY <1>1, <1>2, <1>3
  <1>5. Slice(a \o b, 0, m) = a /\ Slice(a \o b, m, n) = b
    BY FirstPart
  <1> HIDE DEF m, n
  <1>6. Slice(Rest(from), 0, m) = Slice(input, from + 0, from + m)
    BY <1>1, <1>4, RestSlice
  <1>7. Slice(Rest(from), m, n) = Slice(input, from + m, from + n)
    BY <1>1, <1>4, RestSlice
  <1> QED BY <1>1, <1>4, <1>5, <1>6, <1>7 DEF Rest

(* ReadUntil, before a text that the string ends: it copies the text.      *)
LEMMA ReadsText ==
  ASSUME ParserInv, FoundInv, NEW s, pc = "idle", call = StringCall(s), s \in Strings,
         Len(s) <= Cap, NEW a \in Seq(Byte), NEW b \in Seq(Byte),
         Rest(from) = a \o (s \o b),
         \A i \in Hits(s, a \o s) : i = Len(a) + 1,
         \A i \in 1 .. Len(a) : a[i] = s[1] => Near(i, Len(a) + Len(s))
  PROVE  out = a /\ Rest(taken) = b
  <1> DEFINE text == Drop(input, from)
             as == a \o s
             n == Len(a) + 1
  <1>1. /\ call \in Call /\ call # None /\ call.op = "string" /\ call.string = s
        /\ Returned("string")
    <2>1. call \in Call
      BY DEF Call, StringCall
    <2> QED BY <2>1, CallAssumption DEF StringCall, Returned
  <1>2. s \in Seq(Byte) /\ Len(s) \in Nat \ {0} /\ Len(a) \in Nat /\ Len(b) \in Nat
    BY ParserAssumption, LenProperties
  <1>3. text = as \o b /\ as \in Seq(Byte) /\ Len(as) = Len(a) + Len(s)
    <2>1. text = Rest(from)
      BY DEF Drop, Rest, Slice
    <2>2. a \o (s \o b) = as \o b
      BY <1>2, ConcatAssociative, SMTT(60)
    <2> QED BY <1>2, <2>1, <2>2, FirstPart
  <1>4. /\ Len(text) = Len(as) + Len(b)
        /\ \A k \in 1 .. Len(as) : text[k] = as[k]
    BY <1>2, <1>3, ConcatProperties
  <1>5. /\ \A k \in 1 .. Len(a) : as[k] = a[k]
        /\ Slice(as, Len(a), Len(a) + Len(s)) = s
    BY <1>2, ConcatProperties, FirstPart
  <1> HIDE DEF text, as
  <1>6. ASSUME NEW i \in 1 .. n
        PROVE  SubSeq(text, i, i + Len(s) - 1) = SubSeq(as, i, i + Len(s) - 1)
    <2>1. i + Len(s) - 1 \in 1 .. Len(as) /\ i \in 1 .. Len(as)
      BY <1>2, <1>3
    <2> QED BY <1>2, <1>3, <2>1, SubSeqOfConcat1
  <1>7. n \in Hits(s, text)
    <2>1. n \in 1 .. Len(text) - Len(s) + 1 /\ n + Len(s) - 1 = Len(a) + Len(s)
      BY <1>2, <1>3, <1>4
    <2>2. SubSeq(as, n, n + Len(s) - 1) = s /\ n \in 1 .. n
      <3>1. SubSeq(as, Len(a) + 1, Len(a) + Len(s)) = s
        BY <1>5 DEF Slice
      <3>2. n \in 1 .. n
        BY <1>2
      <3> QED BY <2>1, <3>1, <3>2
    <2> HIDE DEF n
    <2>3. SubSeq(text, n, n + Len(s) - 1) = s
      BY <1>6, <2>2
    <2> QED BY <2>1, <2>3 DEF Hits, IsAt
  <1>8. ASSUME NEW k \in Hits(s, text) PROVE n <= k
    <2> SUFFICES ASSUME k < n PROVE FALSE
      BY <1>2 DEF Hits
    <2>1. k \in 1 .. n /\ k \in 1 .. Len(as) - Len(s) + 1
      BY <1>2, <1>3 DEF Hits
    <2>2. k \in Hits(s, as)
      BY <1>6, <2>1 DEF Hits, IsAt
    <2> QED BY <1>2, <2>2 DEF as
  <1>9. ASSUME NEW j \in 1 .. n - 1, text[j] = s[1] PROVE Near(j, n - 1 + Len(s))
    <2>1. j \in 1 .. Len(a) /\ j \in 1 .. Len(as) /\ n - 1 + Len(s) = Len(a) + Len(s)
      BY <1>2, <1>3
    <2>2. a[j] = s[1]
      BY <1>4, <1>5, <1>9, <2>1
    <2> QED BY <2>1, <2>2
  <1>10. found /\ consumed = n - 1 + Len(s)
    <2>1. CleanStringFound
      BY CleanMeets
    <2>2. n \in Hits(call.string, Drop(input, from))
          /\ \A k \in Hits(call.string, Drop(input, from)) : n <= k
      BY <1>1, <1>7, <1>8 DEF text
    <2>3. \A j \in 1 .. n - 1 : Drop(input, from)[j] = call.string[1]
                                  => Near(j, n - 1 + Len(call.string))
      BY <1>1, <1>9 DEF text
    <2> HIDE DEF n
    <2> QED BY <1>1, <2>1, <2>2, <2>3 DEF CleanStringFound
  <1>11. from \in Nat /\ taken \in Nat /\ out \in Seq(Byte)
    BY TextType, Typed DEF Sane, ParserInv
  <1>12. taken = from + Len(as)
    BY <1>2, <1>3, <1>10, <1>11 DEF consumed
  <1>13. Text = as /\ Rest(taken) = b
    <2>1. Rest(from) = as \o b
      BY <1>3 DEF Rest, text, Drop, Slice
    <2> QED BY <1>3, <1>12, <2>1, TextTaken
  <1>14. Text = out \o s
    BY <1>1, <1>10 DEF ParserInv, StringReturns
  <1>15. out = a
    <2>1. out \o s = a \o s
      BY <1>13, <1>14 DEF as
    <2>2. /\ Slice(out \o s, 0, Len(out)) = out /\ Slice(a \o s, 0, Len(a)) = a
          /\ Len(out \o s) = Len(out) + Len(s) /\ Len(a \o s) = Len(a) + Len(s)
      BY <1>2, <1>11, FirstPart
    <2>3. Len(out) = Len(a)
      BY <1>2, <1>11, <2>1, <2>2, LenProperties
    <2> QED BY <2>1, <2>2, <2>3
  <1> QED BY <1>13, <1>15
=============================================================================
