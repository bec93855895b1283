--------------------------- MODULE FormDataProofs ---------------------------
(***************************************************************************)
(* Theorems about FormData, for any boundary, any sink capacity and any    *)
(* input: they rest on what StreamParserProofs shows of the parser.        *)
(***************************************************************************)
EXTENDS FormData, StreamParserProofs, WellFoundedInduction

TwoCall == [op |-> "consume", count |-> 2]

LEMMA Calls ==
  /\ StringCall(Delimiter) \in Call /\ StringCall(BlankLine) \in Call
  /\ StringCall(EndOfPart) \in Call /\ TwoCall \in Call
  BY FormAssumption DEF Call, StringCall, TwoCall

(* Which call Save is at, and what it has seen of the input before.        *)
StageInv ==
  /\ stage = "start" => pc = "idle" /\ from = 0 /\ taken = 0 /\ saved = <<>>
  /\ stage = "boundary" => call = StringCall(Delimiter) /\ from = 0 /\ saved = <<>>
  /\ stage = "ending" => call = TwoCall
  /\ stage = "headers" => call = StringCall(BlankLine)
  /\ stage = "file" =>
       /\ call = StringCall(EndOfPart) /\ name \in FileNames \cup {"outfile"}
       /\ BehindHeaders(from)
  /\ stage = "ending" /\ saved = <<>> =>
       input = <<>> \/ (Begins(Delimiter, input) /\ from = Len(Delimiter))

(* The files end before the call under way.                                *)
Before(k) == saved[k].from <= saved[k].upto /\ saved[k].upto <= taken
FilesInv ==
  \A k \in 1 .. Len(saved) : stage \in Stage => saved[k].upto <= from

FormInv == FormTypeOK /\ ParserInv /\ StageInv /\ OnlyForms /\ SavedInOrder /\ FilesInv

-----------------------------------------------------------------------------
(* Every step of Save is a step of the parser or leaves it alone.          *)
LEMMA FormIsParser ==
  ASSUME [FormNext]_fvars
  PROVE  [Next]_vars
  <1>1. CASE ReadBoundary
    BY <1>1, Calls DEF ReadBoundary, ReadUntilString, StringCall, Next
  <1>2. CASE CheckBoundary
    BY <1>2, Calls DEF CheckBoundary, ConsumeTwo, TwoCall, Next, Ends
  <1>3. CASE CheckEnding
    BY <1>3, Calls DEF CheckEnding, ReadUntilString, StringCall, Next, Ends
  <1>4. CASE OpenFile
    BY <1>4, Calls DEF OpenFile, ReadUntilString, StringCall, Next, Ends
  <1>5. CASE CloseFile
    BY <1>5, Calls DEF CloseFile, ConsumeTwo, TwoCall, Next
  <1>6. CASE Parse
    BY <1>6 DEF Parse, Next
  <1>7. CASE WriteFails
    BY <1>7 DEF WriteFails, Ends
  <1>8. CASE UNCHANGED fvars
    BY <1>8 DEF fvars
  <1> QED BY <1>1, <1>2, <1>3, <1>4, <1>5, <1>6, <1>7, <1>8 DEF FormNext, Save

LEMMA StrEmpty ==
  ASSUME TypeOK, Str = <<>>
  PROVE  out = <<>>
  <1>1. out \in Seq(Byte) /\ Len(out) \in Nat /\ SinkCap \in Nat \ {0}
    BY Typed, FormAssumption DEF Sane
  <1>2. Least(SinkCap, Len(out)) \in Nat /\ Least(SinkCap, Len(out)) <= Len(out)
    BY <1>1 DEF Least
  <1>3. Len(Slice(out, 0, Least(SinkCap, Len(out)))) = Least(SinkCap, Len(out))
    BY <1>1, <1>2, SliceType
  <1>4. Slice(out, 0, Least(SinkCap, Len(out))) = Str
    BY DEF Slice, Str
  <1>5. Least(SinkCap, Len(out)) = 0
    BY <1>3, <1>4, EmptySeq
  <1>6. Len(out) = 0
    BY <1>1, <1>5 DEF Least
  <1> QED BY <1>1, <1>6, EmptySeq

LEMMA StrOfTwo ==
  ASSUME TypeOK, Len(out) <= 2, Str = CRLF
  PROVE  out = CRLF
  <1>1. out \in Seq(Byte) /\ Len(out) \in Nat /\ SinkCap \in Nat \ {0}
    BY Typed, FormAssumption DEF Sane
  <1>2. Least(SinkCap, Len(out)) \in Nat /\ Least(SinkCap, Len(out)) <= Len(out)
    BY <1>1 DEF Least
  <1>3. Len(Slice(out, 0, Least(SinkCap, Len(out)))) = Least(SinkCap, Len(out))
    BY <1>1, <1>2, SliceType
  <1>4. Slice(out, 0, Least(SinkCap, Len(out))) = Str
    BY DEF Slice, Str
  <1>5. Len(CRLF) = 2
    BY DEF CRLF
  <1>6. Least(SinkCap, Len(out)) = 2
    BY <1>3, <1>4, <1>5
  <1>7. Len(out) = 2
    <2>1. Len(out) <= 2
      OBVIOUS
    <2>2. 2 <= Len(out)
      BY <1>2, <1>6
    <2>3. \A n \in Nat : n <= 2 /\ 2 <= n => n = 2
      OBVIOUS
    <2>4. Len(out) \in Nat
      BY <1>1
    <2> QED BY <2>1, <2>2, <2>3, <2>4
  <1>8. SubSeq(out, 1, 2) = out
    BY <1>1, <1>7, SubSeqFull
  <1> QED BY <1>6, <1>8 DEF Str

-----------------------------------------------------------------------------
LEMMA FormStarts == FormInit => FormInv
  <1> SUFFICES ASSUME FormInit PROVE FormInv
    OBVIOUS
  <1>1. ParserInv
    BY InitKeeps DEF FormInit
  <1>2. stage = "start" /\ name = None /\ saved = <<>> /\ Len(saved) = 0
        /\ pc = "idle" /\ from = 0 /\ taken = 0
    BY DEF FormInit, Init
  <1>3. FormTypeOK
    BY <1>1, <1>2 DEF FormTypeOK, ParserInv, Stage
  <1>4. StageInv /\ OnlyForms /\ SavedInOrder /\ FilesInv
    BY <1>2 DEF StageInv, OnlyForms, SavedInOrder, FilesInv
  <1> QED BY <1>1, <1>3, <1>4 DEF FormInv

(* A call is begun behind what the last one took.                          *)
LEMMA BeginIs ==
  ASSUME NEW c, Begin(c)
  PROVE  /\ pc = "idle" /\ call' = c /\ from' = taken /\ taken' = taken
         /\ out' = <<>> /\ input' = input
  BY DEF Begin, source

(* Run takes more of the input and leaves the call as it is.               *)
LEMMA RunTakes ==
  ASSUME ParserInv, Run
  PROVE  /\ pc # "idle" /\ call' = call /\ from' = from /\ input' = input
         /\ taken' \in Nat /\ taken <= taken'
  <1>0. Sane /\ taken <= at /\ cache = Slice(input, taken, at) /\ Len(cache) = at - taken
    BY Typed, CacheLength DEF ParserInv
  <1>1. ASSUME NEW n \in Nat, NEW sink \in BOOLEAN, Consume(n, sink)
        PROVE  taken' \in Nat /\ taken <= taken'
    BY <1>0, <1>1 DEF Consume, Pass, Sane
  <1>2. CASE ConsumeLoop
    <2>1. call \in Call /\ call.op = "consume" /\ consumed < call.count
      BY <1>2 DEF ConsumeLoop, ParserInv, CallInv
    <2>2. call.count \in Nat
      BY <2>1, CallType
    <2>3. taken' = taken + Least(Len(cache), call.count - consumed)
      BY <1>2 DEF ConsumeLoop, Pass
    <2>4. Least(Len(cache), call.count - consumed) \in Nat
      <3>1. Len(cache) \in Nat /\ consumed \in Nat
        BY <1>0 DEF Sane, consumed
      <3>2. call.count - consumed \in Nat
        BY <2>1, <2>2, <3>1
      <3> QED BY <3>1, <3>2 DEF Least
    <2> QED BY <1>0, <1>2, <2>3, <2>4 DEF ConsumeLoop, Sane
  <1>3. CASE FindUntil
    <2>1. Len(cache) \in Nat /\ \A i \in 1 .. Len(cache) : i - 1 \in Nat
      BY <1>0 DEF Sane
    <2> QED BY <1>1, <1>3, <2>1 DEF FindUntil
  <1>4. CASE Search
    <2>1. Len(cache) \in Nat /\ \A i \in Hits(call.string, cache) : i - 1 \in Nat
      BY <1>0 DEF Sane, Hits
    <2> QED BY <1>1, <1>4, <2>1 DEF Search
  <1>5. CASE Skip
    <2>1. call \in Call /\ call.op = "string"
      BY <1>5 DEF Skip, ParserInv, CallInv
    <2>2. Len(call.string) \in Nat
      BY <2>1, CallType
    <2> QED BY <1>1, <1>5, <2>2 DEF Skip
  <1>6. ASSUME Starved("find", AfterFind) \/ Starved("string", "idle") \/ ReadUntil \/ TopUp
        PROVE  /\ pc # "idle" /\ taken' = taken
               /\ UNCHANGED <<input, call, from>>
    BY <1>6 DEF Starved, ReadUntil, TopUp, source
  <1> QED BY <1>0, <1>2, <1>3, <1>4, <1>5, <1>6 DEF Run, Sane

File == [name : FileNames \cup {"outfile"}, body : Seq(Byte), from : Nat, upto : Nat]

LEMMA SavedType ==
  ASSUME FormTypeOK
  PROVE  saved \in Seq(File) /\ \A k \in 1 .. Len(saved) : saved[k] \in File
  <1>1. saved \in Seq(File)
    BY DEF FormTypeOK, File
  <1>2. ASSUME NEW k \in 1 .. Len(saved) PROVE saved[k] \in File
    <2> HIDE DEF File
    <2> QED BY <1>1, ElementOfSeq
  <1> QED BY <1>1, <1>2

(* A step that writes no file, and takes nothing back, keeps what was said *)
(* of the files.                                                           *)
LEMMA KeepsFiles ==
  ASSUME FormInv, saved' = saved, input' = input,
         taken' \in Nat, taken <= taken', from' \in Nat, from <= from',
         stage \in Stage \/ stage' \notin Stage
  PROVE  SavedInOrder' /\ FilesInv'
  <1>1. taken \in Nat /\ from \in Nat
    BY Typed DEF FormInv, FormTypeOK, Sane
  <1>2. \A k \in 1 .. Len(saved) : saved[k].upto \in Nat
    BY SavedType DEF FormInv, File
  <1>3. SavedInOrder'
    <2>1. ASSUME NEW k \in 1 .. Len(saved), saved[k].upto <= taken
          PROVE  saved[k].upto <= taken'
      BY <1>1, <1>2, <2>1
    <2>2. \A k \in 1 .. Len(saved) :
            BehindHeaders(saved[k].from) => BehindHeaders(saved[k].from)'
      BY DEF BehindHeaders
    <2> QED BY <2>1, <2>2 DEF FormInv, SavedInOrder
  <1>4. FilesInv'
    <2> SUFFICES ASSUME NEW k \in 1 .. Len(saved), stage' \in Stage
                 PROVE  saved[k].upto <= from'
      BY DEF FilesInv
    <2>1. saved[k].upto <= from
      BY DEF FormInv, FilesInv
    <2> QED BY <1>1, <1>2, <2>1
  <1> QED BY <1>3, <1>4

LEMMA FromType == ASSUME TypeOK PROVE from \in Nat /\ taken \in Nat /\ from <= taken
  BY Typed DEF Sane

LEMMA EndsKeeps ==
  ASSUME FormInv, NEW how \in Over, Ends(how)
  PROVE  FormInv'
  <1>1. UNCHANGED <<vars, name, saved>> /\ stage' = how /\ stage' \notin Stage
    BY DEF Ends, Over, Stage
  <1>2. ParserInv'
    BY <1>1, ParserStep DEF FormInv
  <1>3. FormTypeOK' /\ StageInv' /\ OnlyForms'
    BY <1>1, <1>2 DEF FormInv, FormTypeOK, StageInv, OnlyForms, ParserInv, Over, Stage,
                      vars
  <1>4. SavedInOrder' /\ FilesInv'
    <2>1. from \in Nat /\ taken \in Nat /\ from <= from /\ taken <= taken
      BY FromType DEF FormInv, FormTypeOK
    <2>2. from' = from /\ taken' = taken /\ input' = input /\ saved' = saved
      BY <1>1 DEF vars
    <2> QED BY <1>1, <2>1, <2>2, KeepsFiles
  <1> QED BY <1>2, <1>3, <1>4 DEF FormInv

LEMMA ParseKeeps ==
  ASSUME FormInv, Parse
  PROVE  FormInv'
  <1>1. UNCHANGED form /\ stage \in Stage
    BY DEF Parse
  <1>2. /\ pc # "idle" /\ call' = call /\ from' = from /\ input' = input
        /\ taken' \in Nat /\ taken <= taken'
    BY RunTakes DEF FormInv, Parse
  <1>3. ParserInv'
    BY FormIsParser, ParserStep DEF FormNext, FormInv
  <1>4. FormTypeOK' /\ StageInv' /\ OnlyForms'
    BY <1>1, <1>2, <1>3
       DEF FormInv, FormTypeOK, StageInv, OnlyForms, ParserInv, form, Stage, Begins, IsAt,
           BehindHeaders
  <1>5. SavedInOrder' /\ FilesInv'
    <2>1. from \in Nat /\ from <= from
      BY FromType DEF FormInv, FormTypeOK
    <2> QED BY <1>1, <1>2, <2>1, KeepsFiles DEF form
  <1> QED BY <1>3, <1>4, <1>5 DEF FormInv

Kept(k) ==
  LET f == saved[k]
      text == SubSeq(input, f.from + 1, f.upto)
  IN /\ f.from <= f.upto /\ f.upto <= taken /\ BehindHeaders(f.from)
     /\ \/ text = f.body \o EndOfPart
        \/ text = f.body /\ f.upto = Len(input)
     /\ k < Len(saved) => f.upto <= saved[k + 1].from

(* The next call of Save, when it writes no file.                          *)
LEMMA CallKeeps ==
  ASSUME FormInv, NEW c \in Call, Begin(c), saved' = saved, stage \in Stage,
         FormNext, FormTypeOK', StageInv', OnlyForms'
  PROVE  FormInv'
  <1>1. ParserInv'
    BY FormIsParser, ParserStep DEF FormInv
  <1>2. from' = taken /\ taken' = taken /\ input' = input
    BY BeginIs
  <1>3. from \in Nat /\ taken \in Nat /\ from <= taken /\ taken <= taken
    BY FromType DEF FormInv, FormTypeOK
  <1>4. SavedInOrder' /\ FilesInv'
    BY <1>2, <1>3, KeepsFiles
  <1> QED BY <1>1, <1>4 DEF FormInv

LEMMA ReadBoundaryKeeps ==
  ASSUME FormInv, ReadBoundary
  PROVE  FormInv'
  <1>1. /\ Begin(StringCall(Delimiter)) /\ stage = "start" /\ stage' = "boundary"
        /\ name' = name /\ saved' = saved
    BY DEF ReadBoundary, Returns, ReadUntilString, StringCall
  <1>2. call' = StringCall(Delimiter) /\ from' = taken /\ taken = 0 /\ saved = <<>>
    BY <1>1, BeginIs DEF FormInv, StageInv, StringCall
  <1>3. StringCall(Delimiter) \in Call /\ FormNext /\ stage \in Stage
    BY <1>1, Calls DEF FormNext, Save, Stage
  <1>4. ParserInv'
    BY <1>3, FormIsParser, ParserStep DEF FormInv
  <1>5. FormTypeOK' /\ StageInv' /\ OnlyForms'
    BY <1>1, <1>2, <1>4
       DEF FormInv, FormTypeOK, StageInv, OnlyForms, ParserInv, Stage
  <1> QED BY <1>1, <1>3, <1>5, CallKeeps


LEMMA CheckBoundaryKeeps ==
  ASSUME FormInv, CheckBoundary
  PROVE  FormInv'
  <1>1. stage = "boundary" /\ pc = "idle" /\ call = StringCall(Delimiter)
        /\ from = 0 /\ saved = <<>>
    BY DEF CheckBoundary, Returns, FormInv, StageInv
  <1>2. CASE Str # <<>>
    BY <1>2, EndsKeeps DEF CheckBoundary, Over
  <1>3. CASE Str = <<>>
    <2>1. /\ Begin(TwoCall) /\ stage' = "ending" /\ name' = name /\ saved' = saved
      BY <1>3 DEF CheckBoundary, ConsumeTwo, TwoCall
    <2>2. call' = TwoCall /\ from' = taken /\ input' = input
      BY <2>1, BeginIs
    <2>3. out = <<>>
      BY <1>3, StrEmpty DEF FormInv, FormTypeOK
    <2>4. IF found THEN Text = out \o Delimiter ELSE out = Text /\ taken = Len(input)
      <3>1. Returned("string")
        BY <1>1, Calls, CallAssumption DEF Returned, StringCall
      <3> QED BY <1>1, <3>1 DEF FormInv, ParserInv, StringReturns, StringCall
    <2>5. input \in Seq(Byte) /\ taken \in Nat /\ taken <= Len(input)
          /\ Delimiter \in Seq(Byte)
      <3>1. Delimiter \in Seq(Byte)
        BY FormAssumption, ParserAssumption
      <3>2. Sane /\ taken <= at
        BY Typed DEF FormInv, ParserInv, CacheMirrors
      <3> QED BY <3>1, <3>2 DEF Sane
    <2>6. Text = Slice(input, 0, taken) /\ Len(Text) = taken
      BY <1>1, <2>5, SliceType DEF Text, Slice
    <2>7. ASSUME found PROVE Begins(Delimiter, input) /\ taken = Len(Delimiter)
      <3>1. Text = Delimiter
        BY <2>3, <2>4, <2>5, <2>7, ConcatEmptySeq
      <3>2. taken = Len(Delimiter) /\ SubSeq(input, 1, Len(Delimiter)) = Delimiter
        <4>1. taken = Len(Delimiter)
          BY <2>6, <3>1
        <4>2. Slice(input, 0, Len(Delimiter)) = Delimiter /\ 0 + 1 = 1
          BY <2>6, <3>1, <4>1
        <4>3. SubSeq(input, 1, Len(Delimiter)) = Delimiter
          BY <4>2 DEF Slice
        <4> QED BY <4>1, <4>3
      <3>3. 1 + Len(Delimiter) - 1 = Len(Delimiter)
        BY <2>5, <3>2
      <3> QED BY <2>5, <3>2, <3>3 DEF Begins, IsAt
    <2>8. ASSUME ~found PROVE input = <<>>
      <3>1. Len(input) = 0
        BY <2>3, <2>4, <2>6, <2>8, EmptySeq
      <3> QED BY <2>5, <3>1, EmptySeq
    <2>9. input = <<>> \/ (Begins(Delimiter, input) /\ taken = Len(Delimiter))
      BY <2>7, <2>8
    <2>10. TwoCall \in Call /\ FormNext /\ stage \in Stage
      BY <1>1, Calls DEF FormNext, Save, Stage
    <2>11. ParserInv'
      BY <2>10, FormIsParser, ParserStep DEF FormInv
    <2>12. FormTypeOK' /\ StageInv' /\ OnlyForms'
      BY <1>1, <2>1, <2>2, <2>9, <2>11
         DEF FormInv, FormTypeOK, StageInv, OnlyForms, ParserInv, Stage, Begins, IsAt
    <2> QED BY <2>1, <2>10, <2>12, CallKeeps
  <1> QED BY <1>2, <1>3

LEMMA BeginsMore ==
  ASSUME ParserInv, Begins(Delimiter, input), from = Len(Delimiter), Text = CRLF
  PROVE  Begins(Delimiter \o CRLF, input)
  <1>1. /\ input \in Seq(Byte) /\ taken \in Nat /\ from \in Nat /\ from <= taken
        /\ Len(input) \in Nat /\ taken <= Len(input) /\ 0 \in Nat /\ 0 <= from
    BY TextType
  <1>2. Text = Slice(input, from, taken)
    BY TextType
  <1>3. Slice(input, 0, from) = Delimiter
    <2>1. SubSeq(input, 1, 1 + from - 1) = Delimiter /\ 1 + from - 1 = from /\ 0 + 1 = 1
      BY <1>1 DEF Begins, IsAt
    <2> QED BY <2>1 DEF Slice
  <1>5. Slice(input, 0, taken) = Delimiter \o CRLF
    <2>1. Slice(input, 0, from) \o Slice(input, from, taken) = Slice(input, 0, taken)
      <3>1. /\ input \in Seq(Byte) /\ 0 \in Nat /\ from \in Nat /\ taken \in Nat
            /\ 0 <= from /\ from <= taken /\ taken <= Len(input)
        BY <1>1
      <3> QED BY <3>1, SlicesJoin, ZenonT(30)
    <2> QED BY <1>2, <1>3, <2>1
  <1>6. Len(Delimiter \o CRLF) = taken
    <2>1. Len(Slice(input, 0, taken)) = taken - 0
      BY <1>1, SliceType
    <2> QED BY <1>1, <1>5, <2>1
  <1>7. SubSeq(input, 1, 1 + taken - 1) = Delimiter \o CRLF
    <2>1. 1 + taken - 1 = taken /\ 0 + 1 = 1
      BY <1>1
    <2> QED BY <1>5, <2>1 DEF Slice
  <1> DEFINE both == Delimiter \o CRLF
  <1>8. Len(both) = taken /\ SubSeq(input, 1, 1 + taken - 1) = both
    BY <1>6, <1>7
  <1> HIDE DEF both
  <1>9. Begins(both, input)
    BY <1>1, <1>8 DEF Begins, IsAt
  <1> QED BY <1>9 DEF both

LEMMA CheckEndingKeeps ==
  ASSUME FormInv, CheckEnding
  PROVE  FormInv'
  <1>1. stage = "ending" /\ pc = "idle" /\ call = TwoCall
    BY DEF CheckEnding, Returns, FormInv, StageInv
  <1>2. CASE Str # CRLF
    BY <1>2, EndsKeeps DEF CheckEnding, Over
  <1>3. CASE Str = CRLF
    <2>1. /\ Begin(StringCall(BlankLine)) /\ stage' = "headers"
          /\ name' = name /\ saved' = saved
      BY <1>3 DEF CheckEnding, ReadUntilString, StringCall
    <2>2. call' = StringCall(BlankLine) /\ from' = taken /\ input' = input
      BY <2>1, BeginIs
    <2>3. ParserInv
      BY DEF FormInv
    <2>4. out = Text /\ consumed = Least(2, Len(input) - from)
      <3>1. Returned("consume")
        BY <1>1, Calls, CallAssumption DEF Returned, TwoCall
      <3> QED BY <1>1, <3>1 DEF FormInv, ParserInv, ConsumeReturns, TwoCall
    <2>5. Len(out) <= 2
      <3>1. /\ from \in Nat /\ taken \in Nat /\ from <= taken /\ Len(input) \in Nat
            /\ from <= Len(input) /\ Len(Text) = taken - from
        BY <2>3, TextType
      <3>4. taken - from <= 2
        <4>1. taken - from = Least(2, Len(input) - from)
          BY <2>4 DEF consumed
        <4>2. Len(input) - from \in Nat
          BY <3>1
        <4> QED BY <4>1, <4>2 DEF Least
      <3> QED BY <2>4, <3>1, <3>4
    <2>6. Text = CRLF
      BY <1>3, <2>4, <2>5, StrOfTwo DEF FormInv, FormTypeOK
    <2>7. Begins(Delimiter \o CRLF, input)
      <3>1. CASE saved # <<>>
        BY <3>1 DEF FormInv, OnlyForms
      <3>2. CASE saved = <<>>
        <4>1. Len(input) # 0
          <5>1. input = <<>> => Len(input) = 0
            BY EmptySeq
          <5>2. Len(Text) = 2
            BY <2>6 DEF CRLF
          <5>3. Len(Text) = taken - from /\ taken <= Len(input)
                /\ from \in Nat /\ taken \in Nat /\ Len(input) \in Nat
            BY <2>3, TextType
          <5> QED BY <5>2, <5>3
        <4>2. Begins(Delimiter, input) /\ from = Len(Delimiter)
          BY <1>1, <3>2, <4>1, EmptySeq DEF FormInv, StageInv
        <4> QED BY <2>3, <2>6, <4>2, BeginsMore
      <3> QED BY <3>1, <3>2
    <2>8. StringCall(BlankLine) \in Call /\ FormNext /\ stage \in Stage
      BY <1>1, Calls DEF FormNext, Save, Stage
    <2>9. ParserInv'
      BY <2>8, FormIsParser, ParserStep DEF FormInv
    <2>10. FormTypeOK' /\ StageInv' /\ OnlyForms'
      BY <1>1, <2>1, <2>2, <2>7, <2>9
         DEF FormInv, FormTypeOK, StageInv, OnlyForms, ParserInv, Stage, Begins, IsAt
    <2> QED BY <2>1, <2>8, <2>10, CallKeeps
  <1> QED BY <1>2, <1>3

(* A set of places in a sequence has a greatest one.                       *)
LEMMA GreatestPlace ==
  ASSUME NEW n \in Nat, NEW S \in SUBSET (1 .. n), S # {}
  PROVE  \E i \in S : \A j \in S : j <= i
  <1> DEFINE T == {n - i : i \in S}
  <1>1. T \in SUBSET Nat
    OBVIOUS
  <1>2. T # {}
    OBVIOUS
  <1>3. \E m \in T : \A k \in T : m <= k
    <2> DEFINE less == OpToRel(<, Nat)
    <2>1. less = {ss \in Nat \X Nat : ss[1] < ss[2]}
      BY DEF OpToRel
    <2> HIDE DEF less
    <2>2. \E m \in T : \A k \in T : ~(<<k, m>> \in less)
      <3>1. IsWellFoundedOn(less, Nat)
        BY NatLessThanWellFounded DEF less
      <3> HIDE DEF T
      <3> QED BY <1>1, <1>2, <3>1, WFMin
    <2>3. \A k, m \in Nat : ~(<<k, m>> \in less) => m <= k
      BY <2>1
    <2> QED BY <1>1, <2>2, <2>3
  <1>4. PICK i \in S : \A j \in S : n - i <= n - j
    BY <1>3
  <1>5. \A j \in S : j <= i
    BY <1>4
  <1> QED BY <1>5

LEMMA FileNameType ==
  ASSUME TypeOK
  PROVE  FileName(Str) \in FileNames \cup {"outfile"}
  <1> DEFINE places == {i \in 1 .. Len(Str) : Str[i] \in FileNames}
  <1>1. Str \in Seq(Byte) /\ Len(Str) \in Nat
    <2>1. out \in Seq(Byte) /\ Len(out) \in Nat /\ SinkCap \in Nat \ {0}
      BY Typed, FormAssumption DEF Sane
    <2>2. Least(SinkCap, Len(out)) \in Nat /\ Least(SinkCap, Len(out)) <= Len(out)
      BY <2>1 DEF Least
    <2>3. Slice(out, 0, Least(SinkCap, Len(out))) \in Seq(Byte)
      BY <2>1, <2>2, SliceType
    <2>4. Str \in Seq(Byte)
      BY <2>3 DEF Slice, Str
    <2> QED BY <2>4, LenProperties
  <1>2. CASE places = {}
    BY <1>2 DEF FileName
  <1>3. CASE places # {}
    <2>1. PICK last \in places : \A j \in places : j <= last
      BY <1>1, <1>3, GreatestPlace
    <2>2. (CHOOSE i \in places : \A j \in places : j <= i) \in places
      BY <2>1
    <2> QED BY <1>3, <2>2 DEF FileName
  <1> QED BY <1>2, <1>3

LEMMA TailOf ==
  ASSUME NEW s \in Seq(Byte), NEW t \in Seq(Byte)
  PROVE  Len(s \o t) = Len(s) + Len(t) /\ Slice(s \o t, Len(s), Len(s) + Len(t)) = t
  <1>1. /\ s \o t \in Seq(Byte) /\ Len(s \o t) = Len(s) + Len(t)
        /\ Len(s) \in Nat /\ Len(t) \in Nat
    BY ConcatProperties, LenProperties
  <1>2. \A k \in 1 .. Len(t) : (s \o t)[Len(s) + k] = t[k]
    BY <1>1, ConcatProperties
  <1>0. PICK i, j \in Nat : i = Len(s) /\ j = Len(s) + Len(t)
    BY <1>1
  <1> DEFINE tail == Slice(s \o t, i, j)
  <1>3. i <= j /\ j <= Len(s \o t) /\ j - i = Len(t)
    BY <1>0, <1>1
  <1>4. tail \in Seq(Byte) /\ Len(tail) = Len(t)
    <2>1. tail \in Seq(Byte) /\ Len(tail) = j - i
      BY <1>1, <1>3, SliceType
    <2> QED BY <1>3, <2>1
  <1>5. \A k \in 1 .. Len(t) : tail[k] = (s \o t)[Len(s) + k]
    <2>1. \A k \in 1 .. j - i : tail[k] = (s \o t)[i + k]
      BY <1>1, <1>3, SliceElements
    <2> QED BY <1>0, <1>3, <2>1
  <1> HIDE DEF tail
  <1>6. tail = t
    BY <1>2, <1>4, <1>5, SeqEqual
  <1> QED BY <1>0, <1>1, <1>6 DEF tail

(* When the headers have been read, what follows is behind their end.      *)
LEMMA HeadersRead ==
  ASSUME FormInv, stage = "headers", pc = "idle"
  PROVE  BehindHeaders(taken)
  <1>1. call = StringCall(BlankLine) /\ Returned("string")
    BY Calls, CallAssumption DEF FormInv, StageInv, Returned, StringCall
  <1>2. IF found THEN Text = out \o BlankLine ELSE taken = Len(input)
    BY <1>1 DEF FormInv, ParserInv, StringReturns, StringCall
  <1>3. CASE ~found
    BY <1>2, <1>3 DEF BehindHeaders
  <1>4. CASE found
    <2>1. /\ from \in Nat /\ taken \in Nat /\ from <= taken /\ Len(input) \in Nat
          /\ taken <= Len(input) /\ Len(Text) = taken - from
      BY TextType DEF FormInv
    <2>2. out \in Seq(Byte) /\ Len(out) \in Nat /\ input \in Seq(Byte)
      BY Typed DEF FormInv, FormTypeOK, Sane
    <2>3. BlankLine \in Seq(Byte) /\ Len(BlankLine) \in Nat
      <3>1. BlankLine \in Seq(Byte)
        BY FormAssumption DEF BlankLine, CRLF
      <3> QED BY <3>1, LenProperties
    <2> DEFINE n == Len(out)
               m == Len(BlankLine)
    <2>4. Slice(input, from, taken) = out \o BlankLine /\ taken - from = n + m
      <3>1. Slice(input, from, taken) = out \o BlankLine
        BY <1>2, <1>4 DEF Text, Slice
      <3>2. Len(out \o BlankLine) = n + m
        BY <2>2, <2>3, TailOf
      <3> QED BY <1>2, <1>4, <2>1, <3>1, <3>2
    <2>5. Slice(Slice(input, from, taken), n, n + m) = Slice(input, from + n, taken)
      <3>1. n \in Nat /\ n + m \in Nat /\ n <= n + m /\ n + m <= taken - from
            /\ from + (n + m) = taken
        BY <2>1, <2>2, <2>3, <2>4
      <3> HIDE DEF n, m
      <3>2. Slice(Slice(input, from, taken), n, n + m) = Slice(input, from + n, from + (n + m))
        BY <2>1, <2>2, <3>1, SliceOfSlice
      <3> QED BY <3>1, <3>2
    <2>6. Slice(out \o BlankLine, n, n + m) = BlankLine
      BY <2>2, <2>3, TailOf
    <2>7. SubSeq(input, from + Len(out) + 1, taken) = BlankLine
      BY <2>4, <2>5, <2>6 DEF Slice
    <2>8. from + Len(out) \in 0 .. taken
      BY <2>1, <2>2, <2>3, <2>4
    <2> QED BY <2>7, <2>8 DEF BehindHeaders
  <1> QED BY <1>3, <1>4

LEMMA OpenFileKeeps ==
  ASSUME FormInv, OpenFile
  PROVE  FormInv'
  <1>1. stage = "headers" /\ pc = "idle"
    BY DEF OpenFile, Returns
  <1>2. CASE Ends("failed")
    BY <1>2, EndsKeeps DEF Over
  <1>3. CASE /\ ReadUntilString(EndOfPart)
             /\ stage' = "file" /\ name' = FileName(Str) /\ UNCHANGED saved
    <2>1. Begin(StringCall(EndOfPart))
      BY <1>3 DEF ReadUntilString, StringCall
    <2>2. call' = StringCall(EndOfPart) /\ from' = taken /\ input' = input
      BY <2>1, BeginIs
    <2>3. StringCall(EndOfPart) \in Call /\ FormNext /\ stage \in Stage
      BY <1>1, Calls DEF FormNext, Save, Stage
    <2>4. ParserInv'
      BY <2>3, FormIsParser, ParserStep DEF FormInv
    <2>5. name' \in FileNames \cup {"outfile"}
      <3>1. TypeOK
        BY DEF FormInv, FormTypeOK
      <3> QED BY <1>3, <3>1, FileNameType
    <2>6. BehindHeaders(from)'
      <3>1. BehindHeaders(taken)
        BY <1>1, HeadersRead
      <3> QED BY <2>2, <3>1 DEF BehindHeaders
    <2>7. FormTypeOK' /\ StageInv' /\ OnlyForms'
      BY <1>1, <1>3, <2>2, <2>4, <2>5, <2>6
         DEF FormInv, FormTypeOK, StageInv, OnlyForms, ParserInv, Stage, Begins, IsAt
    <2> QED BY <1>3, <2>1, <2>3, <2>7, CallKeeps
  <1> QED BY <1>2, <1>3 DEF OpenFile

LEMMA CloseFileKeeps ==
  ASSUME FormInv, CloseFile
  PROVE  FormInv'
  <1>1. /\ stage = "file" /\ pc = "idle" /\ call = StringCall(EndOfPart)
        /\ name \in FileNames \cup {"outfile"} /\ BehindHeaders(from)
    BY DEF CloseFile, Returns, FormInv, StageInv
  <1>2. /\ Begin(TwoCall) /\ stage' = "ending" /\ name' = name
        /\ saved' = Append(saved, Written)
    BY DEF CloseFile, ConsumeTwo, TwoCall
  <1>3. call' = TwoCall /\ from' = taken /\ taken' = taken /\ input' = input
    BY <1>2, BeginIs
  <1>4. TwoCall \in Call /\ FormNext /\ stage \in Stage
    BY <1>1, Calls DEF FormNext, Save, Stage
  <1>5. ParserInv'
    BY <1>4, FormIsParser, ParserStep DEF FormInv
  <1>6. IF found THEN Text = out \o EndOfPart ELSE out = Text /\ taken = Len(input)
    <2>1. Returned("string")
      BY <1>1, Calls, CallAssumption DEF Returned, StringCall
    <2> QED BY <1>1, <2>1 DEF FormInv, ParserInv, StringReturns, StringCall
  <1>7. from \in Nat /\ taken \in Nat /\ from <= taken
    BY FromType DEF FormInv, FormTypeOK
  <1>8. Written \in File /\ Written.from = from /\ Written.upto = taken /\ Written.body = out
    BY <1>1, <1>7, Typed DEF Written, File, FormInv, FormTypeOK, Sane
  <1>9. saved \in Seq(File) /\ \A k \in 1 .. Len(saved) : saved[k] \in File
    BY SavedType DEF FormInv
  <1>0. PICK n \in Nat : n = Len(saved)
    BY <1>9, LenProperties
  <1>10. /\ n \in Nat /\ saved' \in Seq(File) /\ Len(saved') = n + 1
         /\ \A k \in 1 .. n : saved'[k] = saved[k]
         /\ saved'[n + 1] = Written
    <2> HIDE DEF File
    <2> QED BY <1>0, <1>2, <1>8, <1>9, AppendProperties
  <1>11. \A k \in 1 .. n : saved[k].upto \in Nat
    BY <1>0, <1>9 DEF File
  <1>12. Begins(Delimiter \o CRLF, input)
    BY <1>1 DEF FormInv, OnlyForms
  <1>13. FormTypeOK'
    BY <1>2, <1>5, <1>10 DEF FormInv, FormTypeOK, ParserInv, Stage, File
  <1>14. StageInv' /\ OnlyForms'
    <2>1. saved' # <<>>
      BY <1>10, EmptySeq
    <2> QED BY <1>2, <1>3, <1>12, <2>1 DEF StageInv, OnlyForms, Stage, Begins, IsAt
  <1>15. SavedInOrder'
    <2>1. \A k \in 1 .. n : Kept(k)
      BY <1>0 DEF FormInv, SavedInOrder, Kept
    <2>2. ASSUME NEW k \in 1 .. n PROVE Kept(k)'
      <3>1. Kept(k) /\ saved'[k] = saved[k]
        BY <2>1, <1>10
      <3>2. k < n => saved'[k + 1] = saved[k + 1]
        BY <1>10
      <3>3. k = n => saved'[k + 1] = Written /\ saved[k].upto <= from
        BY <1>0, <1>4, <1>10 DEF FormInv, FilesInv
      <3>4. /\ saved[k].from <= saved[k].upto /\ saved[k].upto <= taken
            /\ BehindHeaders(saved[k].from)
            /\ \/ SubSeq(input, saved[k].from + 1, saved[k].upto) = saved[k].body \o EndOfPart
               \/ /\ SubSeq(input, saved[k].from + 1, saved[k].upto) = saved[k].body
                  /\ saved[k].upto = Len(input)
        BY <3>1 DEF Kept
      <3>5. saved[k].upto <= saved'[k + 1].from
        <4>1. CASE k < n
          BY <1>0, <3>1, <3>2, <4>1 DEF Kept
        <4>2. CASE k = n
          BY <1>8, <3>3, <4>2
        <4> QED BY <1>10, <4>1, <4>2
      <3>6. BehindHeaders(saved[k].from)'
        BY <1>3, <3>1, <3>4 DEF BehindHeaders
      <3> QED BY <1>3, <3>1, <3>4, <3>5, <3>6 DEF Kept
    <2>3. Kept(n + 1)'
      <3>1. ~(n + 1 < n + 1) /\ Len(saved') = n + 1
        BY <1>10
      <3>2. \/ SubSeq(input, from + 1, taken) = out \o EndOfPart
            \/ SubSeq(input, from + 1, taken) = out /\ taken = Len(input)
        BY <1>6 DEF Text
      <3>3. /\ saved'[n + 1].from = from /\ saved'[n + 1].upto = taken
            /\ saved'[n + 1].body = out
        BY <1>8, <1>10
      <3>4. /\ saved'[n + 1].from <= saved'[n + 1].upto
            /\ saved'[n + 1].upto <= taken'
        BY <1>3, <1>7, <3>3
      <3>5. \/ SubSeq(input', saved'[n + 1].from + 1, saved'[n + 1].upto)
                 = saved'[n + 1].body \o EndOfPart
            \/ /\ SubSeq(input', saved'[n + 1].from + 1, saved'[n + 1].upto)
                    = saved'[n + 1].body
               /\ saved'[n + 1].upto = Len(input')
        BY <1>3, <3>2, <3>3
      <3>6. BehindHeaders(saved[n + 1].from)'
        BY <1>1, <1>3, <3>3 DEF BehindHeaders
      <3> QED BY <3>1, <3>4, <3>5, <3>6 DEF Kept
    <2>4. \A k \in 1 .. n + 1 : k \in 1 .. n \/ k = n + 1
      BY <1>10
    <2>5. \A k \in 1 .. Len(saved') : Kept(k)'
      BY <1>10, <2>2, <2>3, <2>4
    <2> QED BY <2>5 DEF SavedInOrder, Kept
  <1>16. FilesInv'
    <2> SUFFICES ASSUME NEW k \in 1 .. n + 1
                 PROVE  saved'[k].upto <= from'
      BY <1>10 DEF FilesInv
    <2>1. CASE k \in 1 .. n
      <3>1. saved[k].upto <= from
        BY <1>0, <1>4, <2>1 DEF FormInv, FilesInv
      <3> QED BY <1>3, <1>7, <1>10, <1>11, <2>1, <3>1
    <2>2. CASE k = n + 1
      BY <1>3, <1>7, <1>8, <1>10, <2>2
    <2> QED BY <1>10, <2>1, <2>2
  <1> QED BY <1>5, <1>13, <1>14, <1>15, <1>16 DEF FormInv

-----------------------------------------------------------------------------
(* The invariant of the form holds throughout, that of the parser in it.   *)
THEOREM FormInvariant == FormSpec => [](FormTypeOK /\ FormInv)
  <1>1. FormInit => FormInv
    BY FormStarts
  <1>2. FormInv /\ [FormNext]_fvars => FormInv'
    <2> SUFFICES ASSUME FormInv, [FormNext]_fvars PROVE FormInv'
      OBVIOUS
    <2>1. CASE ReadBoundary
      BY <2>1, ReadBoundaryKeeps
    <2>2. CASE CheckBoundary
      BY <2>2, CheckBoundaryKeeps
    <2>3. CASE CheckEnding
      BY <2>3, CheckEndingKeeps
    <2>4. CASE OpenFile
      BY <2>4, OpenFileKeeps
    <2>5. CASE CloseFile
      BY <2>5, CloseFileKeeps
    <2>6. CASE Parse
      BY <2>6, ParseKeeps
    <2>7. CASE WriteFails
      BY <2>7, EndsKeeps DEF WriteFails, Over
    <2>8. CASE UNCHANGED fvars
      <3>1. ParserInv'
        BY FormIsParser, ParserStep DEF FormInv
      <3>2. UNCHANGED <<vars, stage, name, saved>>
        BY <2>8 DEF fvars, form
      <3>3. FormTypeOK' /\ StageInv' /\ OnlyForms' /\ SavedInOrder' /\ FilesInv'
        BY <3>1, <3>2 DEF FormInv, FormTypeOK, StageInv, OnlyForms, SavedInOrder,
                          FilesInv, ParserInv, vars, Begins, IsAt, BehindHeaders
      <3> QED BY <3>1, <3>3 DEF FormInv
    <2> QED BY <2>1, <2>2, <2>3, <2>4, <2>5, <2>6, <2>7, <2>8 DEF FormNext, Save
  <1>3. FormInv => FormTypeOK /\ FormInv
    BY DEF FormInv
  <1> QED BY <1>1, <1>2, <1>3, PTL DEF FormSpec

(* FormData.cc:56: nothing is saved of an input that does not begin with   *)
(* the boundary and a line end.                                            *)
THEOREM SavesOnlyForms == FormSpec => []OnlyForms
  BY FormInvariant, PTL DEF FormInv

(* FormData.cc:78: a file is a piece of the input from the end of some     *)
(* headers, also of ones longer than a StringStream, up to the end of a    *)
(* part or of the input, and no two files overlap, whatever is posted.     *)
THEOREM SavesInOrder == FormSpec => []SavedInOrder
  BY FormInvariant, PTL DEF FormInv

-----------------------------------------------------------------------------
(* Consume(2), before a text of two bytes and more.                        *)
LEMMA ConsumesTwo ==
  ASSUME ParserInv, pc = "idle", call = TwoCall,
         NEW a \in Seq(Byte), Len(a) = 2, NEW b \in Seq(Byte), Rest(from) = a \o b
  PROVE  out = a /\ Rest(taken) = b
  <1>1. Returned("consume")
    BY Calls, CallAssumption DEF Returned, TwoCall
  <1>2. out = Text /\ consumed = Least(2, Len(input) - from)
    BY <1>1 DEF ParserInv, ConsumeReturns, TwoCall
  <1>3. /\ input \in Seq(Byte) /\ Len(input) \in Nat /\ from \in Nat /\ taken \in Nat
        /\ from <= taken /\ taken <= Len(input)
    BY TextType
  <1>4. Len(a) + Len(b) = Len(input) - from /\ Len(b) \in Nat
    <2>1. from <= Len(input) /\ Len(input) <= Len(input)
      BY <1>3
    <2>2. Len(Slice(input, from, Len(input))) = Len(input) - from
      BY <1>3, <2>1, SliceType
    <2>3. Len(a \o b) = Len(a) + Len(b)
      BY FirstPart
    <2> QED BY <2>2, <2>3, LenProperties DEF Rest
  <1>5. taken = from + Len(a)
    BY <1>2, <1>3, <1>4 DEF consumed, Least
  <1> QED BY <1>2, <1>5, TextTaken

(* A StringStream keeps all of a text that it has the space for.           *)
LEMMA StrFits ==
  ASSUME ParserInv, Len(out) <= SinkCap
  PROVE  Str = out
  <1>1. out \in Seq(Byte) /\ Len(out) \in Nat /\ SinkCap \in Nat
    BY Typed, FormAssumption DEF Sane, ParserInv
  <1>2. Least(SinkCap, Len(out)) = Len(out)
    BY <1>1 DEF Least
  <1>3. SubSeq(out, 1, Len(out)) = out
    BY <1>1, SubSeqFull
  <1> QED BY <1>2, <1>3 DEF Str
-----------------------------------------------------------------------------
(* What the cache and the streams must hold: any end that Save looks for,  *)
(* as ReadUntil's assertion says (StreamParser.cc:151), a line end; and    *)
(* the source gives what it is asked for as long as it has it.             *)
Fits == ~ShortReads /\ Len(EndOfPart) <= Cap /\ 2 <= SinkCap

(* What follows the headers of the kth part of a form.                     *)
BodyOn(f, k) == f.parts[k].body \o (EndOfPart \o f.rest[k])

(* For a form that ends plainly: where in it each stage begins its call,   *)
(* and the files of all the parts before.                                  *)
FormKept(f) ==
  LET k == Len(saved)
  IN /\ stage # "refused"
     /\ k \in 0 .. Len(f.parts)
     /\ \A j \in 1 .. k : /\ saved[j].name = FileName(f.parts[j].headers)
                          /\ saved[j].body = f.parts[j].body
     /\ stage = "ending" => Rest(from) = f.rest[k]
     /\ stage \in {"headers", "file"} => k + 1 \in 1 .. Len(f.parts)
     /\ stage = "headers" =>
          Rest(from) = f.parts[k + 1].headers \o (BlankLine \o BodyOn(f, k + 1))
     /\ stage = "file" =>
          Rest(from) = BodyOn(f, k + 1) /\ name = FileName(f.parts[k + 1].headers)
     /\ stage = "done" => k = Len(f.parts)

PartInv == \A f \in Forms : Clean(f) /\ input = Encode(f) => FormKept(f)

(* A text and one behind it: its beginning is that of the first.           *)
LEMMA Joined ==
  ASSUME NEW a \in Seq(Byte), NEW b \in Seq(Byte), 1 <= Len(a)
  PROVE  a \o b \in Seq(Byte) /\ Len(a \o b) = Len(a) + Len(b) /\ (a \o b)[1] = a[1]
  <1>1. 1 \in 1 .. Len(a) + Len(b)
    BY LenProperties
  <1> QED BY <1>1, ConcatProperties

LEMMA Texts ==
  ASSUME Fits
  PROVE  /\ {Delimiter, CRLF, BlankLine, EndOfPart, <<Dash, Dash>>} \subseteq Seq(Byte)
         /\ {Delimiter, BlankLine, EndOfPart} \subseteq Strings
         /\ Len(CRLF) = 2 /\ Len(<<Dash, Dash>>) = 2 /\ CRLF # <<Dash, Dash>>
         /\ Len(Delimiter) <= Cap /\ Len(BlankLine) <= Cap
         /\ BlankLine[1] = CR /\ EndOfPart[1] = CR
  <1>1. CR \in Byte /\ LF \in Byte /\ Dash \in Byte /\ Boundary \in Seq(Byte)
        /\ Len(Boundary) \in Nat /\ Dash # CR
    BY FormAssumption, LenProperties
  <1>2. /\ CRLF \in Seq(Byte) /\ Len(CRLF) = 2 /\ CRLF[1] = CR /\ CRLF[2] = LF
        /\ <<Dash, Dash>> \in Seq(Byte) /\ Len(<<Dash, Dash>>) = 2
        /\ CRLF # <<Dash, Dash>>
    BY <1>1 DEF CRLF
  <1>3. Delimiter \in Seq(Byte) /\ Len(Delimiter) = 2 + Len(Boundary)
    BY <1>1, <1>2, ConcatProperties DEF Delimiter
  <1> HIDE DEF CRLF, Delimiter
  <1>4. BlankLine \in Seq(Byte) /\ Len(BlankLine) = 4 /\ BlankLine[1] = CR
    <2>1. 1 <= Len(CRLF)
      BY <1>2
    <2>2. /\ CRLF \o CRLF \in Seq(Byte) /\ Len(CRLF \o CRLF) = Len(CRLF) + Len(CRLF)
          /\ (CRLF \o CRLF)[1] = CRLF[1]
      BY <1>2, <2>1, Joined
    <2> QED BY <1>2, <2>2 DEF BlankLine
  <1>5. /\ EndOfPart \in Seq(Byte) /\ Len(EndOfPart) = 4 + Len(Boundary)
        /\ EndOfPart[1] = CR
    <2>1. 1 <= Len(CRLF)
      BY <1>2
    <2>2. /\ CRLF \o Delimiter \in Seq(Byte)
          /\ Len(CRLF \o Delimiter) = Len(CRLF) + Len(Delimiter)
          /\ (CRLF \o Delimiter)[1] = CRLF[1]
      <3>1. CRLF \in Seq(Byte) /\ Delimiter \in Seq(Byte)
        BY <1>2, <1>3
      <3> QED BY <2>1, <3>1, Joined, ZenonT(60)
    <2> QED BY <1>1, <1>2, <1>3, <2>2 DEF EndOfPart
  <1>6. Len(Delimiter) <= Cap /\ Len(BlankLine) <= Cap
    <2>1. Len(EndOfPart) <= Cap /\ Cap \in Nat
      BY ParserAssumption DEF Fits
    <2> QED BY <1>1, <1>3, <1>4, <1>5, <2>1
  <1> QED BY <1>2, <1>3, <1>4, <1>5, <1>6, FormAssumption

(* The parts of a form, and what is left behind each.                      *)
LEMMA FormTexts ==
  ASSUME Fits, NEW f \in Forms
  PROVE  /\ Len(f.parts) \in Nat
         /\ f.rest[Len(f.parts)] = <<Dash, Dash>> \o CRLF
         /\ \A k \in 0 .. Len(f.parts) : f.rest[k] \in Seq(Byte)
         /\ \A k \in 1 .. Len(f.parts) :
              /\ f.parts[k].headers \in Seq(Byte) /\ f.parts[k].body \in Seq(Byte)
              /\ BodyOn(f, k) \in Seq(Byte)
              /\ f.rest[k - 1] = CRLF \o (f.parts[k].headers \o (BlankLine \o BodyOn(f, k)))
  <1> DEFINE Part == [headers : Seq(Byte), body : Seq(Byte)]
             n == Len(f.parts)
  <1>1. f.parts \in Seq(Part) /\ n \in Nat
    BY FormsAssumption, LenProperties
  <1>2. /\ f.rest \in [0 .. n -> Seq(Byte)] /\ f.rest[n] = <<Dash, Dash>> \o CRLF
        /\ \A k \in 1 .. n : f.rest[k - 1] = PartOf(f.parts[k], f.rest[k])
    BY FormsAssumption
  <1>3. CRLF \in Seq(Byte) /\ BlankLine \in Seq(Byte) /\ EndOfPart \in Seq(Byte)
    BY Texts
  <1>4. ASSUME NEW k \in 1 .. n
        PROVE  /\ f.parts[k].headers \in Seq(Byte) /\ f.parts[k].body \in Seq(Byte)
               /\ BodyOn(f, k) \in Seq(Byte)
               /\ f.rest[k - 1] = CRLF \o (f.parts[k].headers \o (BlankLine \o BodyOn(f, k)))
    <2> DEFINE h == f.parts[k].headers
               b == f.parts[k].body
               r == f.rest[k]
    <2>1. h \in Seq(Byte) /\ b \in Seq(Byte)
      <3>1. f.parts[k] \in Part
        <4> HIDE DEF Part
        <4> QED BY <1>1, ElementOfSeq
      <3> QED BY <3>1
    <2>2. r \in Seq(Byte)
      <3>1. k \in 0 .. n
        BY <1>1
      <3> QED BY <1>2, <3>1
    <2>3. BodyOn(f, k) = b \o (EndOfPart \o r)
      BY DEF BodyOn
    <2>4. f.rest[k - 1] = CRLF \o (h \o (BlankLine \o BodyOn(f, k)))
      BY <1>2 DEF PartOf, BodyOn
    <2> HIDE DEF h, b, r
    <2>5. EndOfPart \o r \in Seq(Byte)
      BY <1>3, <2>2, ConcatProperties
    <2>6. b \o (EndOfPart \o r) \in Seq(Byte)
      BY <2>1, <2>5, ConcatProperties
    <2> QED BY <2>1, <2>3, <2>4, <2>6 DEF h, b
  <1> QED BY <1>1, <1>2, <1>4

(* The files are as many as before, and so is each.                        *)
LEMMA FormStarts2 == FormInit => PartInv
  <1> SUFFICES ASSUME FormInit, NEW f \in Forms PROVE FormKept(f)
    BY DEF PartInv
  <1>1. stage = "start" /\ saved = <<>> /\ Len(saved) = 0
    BY DEF FormInit
  <1>2. Len(f.parts) \in Nat
    BY FormsAssumption, LenProperties
  <1> QED BY <1>1, <1>2 DEF FormKept

(* What Save knows at a step, of a form that ends plainly.                 *)
Posted(f) ==
  /\ Fits /\ FormInv /\ FoundInv /\ FormKept(f)
  /\ f \in Forms /\ Clean(f) /\ input = Encode(f)

LEMMA PostedStep ==
  ASSUME Fits, FormInv, FoundInv, PartInv, input' = input,
         \A f \in Forms : Posted(f) => FormKept(f)'
  PROVE  PartInv'
  BY DEF PartInv, Posted, Encode, Clean

LEMMA BoundaryKept ==
  ASSUME NEW f, Posted(f), CheckBoundary
  PROVE  FormKept(f)'
  <1>1. stage = "boundary" /\ pc = "idle" /\ call = StringCall(Delimiter)
        /\ from = 0 /\ saved = <<>> /\ ParserInv /\ FoundInv
    BY DEF CheckBoundary, Returns, FormInv, StageInv, Posted
  <1>2. f \in Forms /\ Fits /\ input = Delimiter \o f.rest[0]
    BY DEF Posted, Encode
  <1>3. /\ Delimiter \in Seq(Byte) /\ Delimiter \in Strings /\ Len(Delimiter) <= Cap
        /\ f.rest[0] \in Seq(Byte) /\ <<>> \in Seq(Byte) /\ Len(<<>>) = 0
        /\ Delimiter \o f.rest[0] \in Seq(Byte) /\ Len(Delimiter) \in Nat
    <2>1. 0 \in 0 .. Len(f.parts)
      BY <1>2, FormTexts
    <2> QED BY <1>2, <2>1, Texts, FormTexts, EmptySeq, ConcatProperties, LenProperties
  <1>4. Rest(from) = <<>> \o (Delimiter \o f.rest[0])
    <2>1. input \in Seq(Byte) /\ 0 + 1 = 1
      BY TextType, <1>1
    <2>2. SubSeq(input, 0 + 1, Len(input)) = input
      BY <2>1, SubSeqFull
    <2>3. Rest(from) = input
      BY <1>1, <2>2 DEF Rest, Slice
    <2> QED BY <1>2, <1>3, <2>3, ConcatEmptySeq
  <1>5. \A i \in Hits(Delimiter, <<>> \o Delimiter) : i = Len(<<>>) + 1
    <2>1. <<>> \o Delimiter = Delimiter
      BY <1>3, ConcatEmptySeq
    <2>2. \A i \in Hits(Delimiter, Delimiter) : i = 1
      BY <1>3 DEF Hits
    <2> QED BY <1>3, <2>1, <2>2
  <1>6. \A i \in 1 .. Len(<<>>) : <<>>[i] = Delimiter[1] => Near(i, Len(<<>>) + Len(Delimiter))
    BY <1>3
  <1>7. out = <<>> /\ Rest(taken) = f.rest[0]
    BY <1>1, <1>3, <1>4, <1>5, <1>6, ReadsText
  <1>8. Str = <<>>
    <2>1. Len(out) <= SinkCap
      BY <1>3, <1>7, FormAssumption
    <2> QED BY <1>1, <1>7, <2>1, StrFits
  <1>9. Begin(TwoCall) /\ stage' = "ending" /\ saved' = saved
    BY <1>8 DEF CheckBoundary, ConsumeTwo, TwoCall
  <1>10. from' = taken /\ input' = input
    BY <1>9, BeginIs
  <1>11. Len(saved') = 0 /\ Rest(from') = f.rest[0] /\ Rest(from)' = f.rest[0]
    BY <1>1, <1>7, <1>9, <1>10 DEF Rest
  <1>12. Len(f.parts) \in Nat
    BY <1>2, FormTexts
  <1> QED BY <1>9, <1>11, <1>12 DEF FormKept

LEMMA EndingKept ==
  ASSUME NEW f, Posted(f), CheckEnding
  PROVE  FormKept(f)'
  <1> DEFINE k == Len(saved)
             n == Len(f.parts)
  <1>1. stage = "ending" /\ pc = "idle" /\ call = TwoCall /\ ParserInv
    BY DEF CheckEnding, Returns, FormInv, StageInv, Posted
  <1>2. /\ f \in Forms /\ Fits /\ k \in 0 .. n /\ Rest(from) = f.rest[k]
        /\ \A j \in 1 .. k : /\ saved[j].name = FileName(f.parts[j].headers)
                             /\ saved[j].body = f.parts[j].body
    BY <1>1 DEF Posted, FormKept
  <1>3. n \in Nat
    BY <1>2, FormTexts
  <1>4. ASSUME Len(out) = 2 PROVE Str = out
    BY <1>1, <1>2, <1>4, StrFits DEF Fits
  <1>5. CASE k = n
    <2>1. /\ Rest(from) = <<Dash, Dash>> \o CRLF /\ <<Dash, Dash>> \in Seq(Byte)
          /\ CRLF \in Seq(Byte) /\ Len(<<Dash, Dash>>) = 2 /\ CRLF # <<Dash, Dash>>
      BY <1>2, <1>5, FormTexts, Texts
    <2>2. out = <<Dash, Dash>>
      BY <1>1, <2>1, ConsumesTwo
    <2>3. Str # CRLF
      BY <1>4, <2>1, <2>2
    <2>4. stage' = "done" /\ saved' = saved
      BY <2>3 DEF CheckEnding, Ends
    <2> QED BY <1>2, <1>5, <2>4 DEF FormKept
  <1>6. CASE k # n
    <2> DEFINE more == f.parts[k + 1].headers \o (BlankLine \o BodyOn(f, k + 1))
    <2>1. k + 1 \in 1 .. n /\ (k + 1) - 1 = k
      BY <1>2, <1>3, <1>6
    <2>2. f.rest[k] = CRLF \o more /\ more \in Seq(Byte)
      <3>1. /\ f.rest[(k + 1) - 1] = CRLF \o more
            /\ f.parts[k + 1].headers \in Seq(Byte) /\ BodyOn(f, k + 1) \in Seq(Byte)
        BY <1>2, <2>1, FormTexts
      <3>2. BlankLine \in Seq(Byte)
        BY <1>2, Texts
      <3> QED BY <2>1, <3>1, <3>2, ConcatProperties
    <2> HIDE DEF more
    <2>3. CRLF \in Seq(Byte) /\ Len(CRLF) = 2
      BY <1>2, Texts
    <2>4. out = CRLF /\ Rest(taken) = more
      BY <1>1, <1>2, <2>2, <2>3, ConsumesTwo
    <2>5. Str = CRLF
      BY <1>4, <2>3, <2>4
    <2>6. Begin(StringCall(BlankLine)) /\ stage' = "headers" /\ saved' = saved
      BY <2>5 DEF CheckEnding, ReadUntilString, StringCall, Ends
    <2>7. from' = taken /\ input' = input
      BY <2>6, BeginIs
    <2>8. Rest(from)' = more
      BY <2>4, <2>7 DEF Rest
    <2> QED BY <1>2, <2>1, <2>6, <2>8 DEF FormKept, more
  <1> QED BY <1>5, <1>6

LEMMA HeadersKept ==
  ASSUME NEW f, Posted(f), OpenFile
  PROVE  FormKept(f)'
  <1> DEFINE k == Len(saved)
             h == f.parts[k + 1].headers
  <1>1. stage = "headers" /\ pc = "idle" /\ call = StringCall(BlankLine) /\ ParserInv
    BY DEF OpenFile, Returns, FormInv, StageInv, Posted
  <1>2. /\ f \in Forms /\ Fits /\ k \in 0 .. Len(f.parts) /\ k + 1 \in 1 .. Len(f.parts)
        /\ Rest(from) = h \o (BlankLine \o BodyOn(f, k + 1))
        /\ \A j \in 1 .. k : /\ saved[j].name = FileName(f.parts[j].headers)
                             /\ saved[j].body = f.parts[j].body
    BY <1>1 DEF Posted, FormKept
  <1>3. EndsPlainly(h, BlankLine) /\ Len(h) <= SinkCap
    BY <1>2 DEF Posted, Clean
  <1>4. h \in Seq(Byte) /\ BodyOn(f, k + 1) \in Seq(Byte)
    BY <1>2, FormTexts
  <1>5. BlankLine \in Strings /\ Len(BlankLine) <= Cap /\ BlankLine[1] = CR
    BY <1>2, Texts
  <1> HIDE DEF h
  <1>6. out = h /\ Rest(taken) = BodyOn(f, k + 1)
    <2>1. /\ \A i \in Hits(BlankLine, h \o BlankLine) : i = Len(h) + 1
          /\ \A i \in 1 .. Len(h) : h[i] = BlankLine[1] => Near(i, Len(h) + Len(BlankLine))
      BY <1>3, <1>5 DEF EndsPlainly
    <2> QED BY <1>1, <1>2, <1>4, <1>5, <2>1, ReadsText DEF Posted
  <1>7. CASE Ends("failed")
    BY <1>2, <1>7 DEF Ends, FormKept
  <1>8. CASE /\ ReadUntilString(EndOfPart)
             /\ stage' = "file" /\ name' = FileName(Str) /\ UNCHANGED saved
    <2>1. Begin(StringCall(EndOfPart))
      BY <1>8 DEF ReadUntilString, StringCall
    <2>2. from' = taken /\ input' = input
      BY <2>1, BeginIs
    <2>3. Str = h
      BY <1>1, <1>3, <1>6, StrFits
    <2>4. Rest(from)' = BodyOn(f, k + 1)
      BY <1>6, <2>2 DEF Rest
    <2> QED BY <1>2, <1>8, <2>3, <2>4 DEF FormKept, h
  <1> QED BY <1>7, <1>8 DEF OpenFile

LEMMA FileKept ==
  ASSUME NEW f, Posted(f), CloseFile
  PROVE  FormKept(f)'
  <1> DEFINE k == Len(saved)
             b == f.parts[k + 1].body
  <1>1. stage = "file" /\ pc = "idle" /\ call = StringCall(EndOfPart) /\ ParserInv
    BY DEF CloseFile, Returns, FormInv, StageInv, Posted
  <1>2. /\ f \in Forms /\ Fits /\ k \in 0 .. Len(f.parts) /\ k + 1 \in 1 .. Len(f.parts)
        /\ Rest(from) = b \o (EndOfPart \o f.rest[k + 1])
        /\ name = FileName(f.parts[k + 1].headers)
        /\ \A j \in 1 .. k : /\ saved[j].name = FileName(f.parts[j].headers)
                             /\ saved[j].body = f.parts[j].body
    BY <1>1 DEF Posted, FormKept, BodyOn
  <1>3. EndsPlainly(b, EndOfPart)
    BY <1>2 DEF Posted, Clean
  <1>4. b \in Seq(Byte) /\ f.rest[k + 1] \in Seq(Byte)
    <2>1. k + 1 \in 0 .. Len(f.parts)
      BY <1>2
    <2> QED BY <1>2, <2>1, FormTexts
  <1>5. EndOfPart \in Strings /\ Len(EndOfPart) <= Cap /\ EndOfPart[1] = CR
    BY <1>2, Texts DEF Fits
  <1> HIDE DEF b
  <1>6. out = b /\ Rest(taken) = f.rest[k + 1]
    <2>1. /\ \A i \in Hits(EndOfPart, b \o EndOfPart) : i = Len(b) + 1
          /\ \A i \in 1 .. Len(b) : b[i] = EndOfPart[1] => Near(i, Len(b) + Len(EndOfPart))
      BY <1>3, <1>5 DEF EndsPlainly
    <2> QED BY <1>1, <1>2, <1>4, <1>5, <2>1, ReadsText DEF Posted
  <1>7. Begin(TwoCall) /\ stage' = "ending" /\ saved' = Append(saved, Written)
    BY DEF CloseFile, ConsumeTwo, TwoCall
  <1>8. from' = taken /\ input' = input
    BY <1>7, BeginIs
  <1>9. /\ Len(saved') = k + 1 /\ saved'[k + 1] = Written
        /\ \A j \in 1 .. k : saved'[j] = saved[j]
    <2>1. saved \in Seq(File) /\ FormTypeOK /\ name \in FileNames \cup {"outfile"}
      BY <1>1, SavedType DEF Posted, FormInv, StageInv
    <2>2. Written \in File
      BY <2>1, Typed DEF Written, File, FormTypeOK, Sane
    <2> HIDE DEF File
    <2> QED BY <1>7, <2>1, <2>2, AppendProperties
  <1>10. Written.name = FileName(f.parts[k + 1].headers) /\ Written.body = b
    BY <1>2, <1>6 DEF Written
  <1>11. Rest(from)' = f.rest[k + 1]
    BY <1>6, <1>8 DEF Rest
  <1>12. ASSUME NEW j \in 1 .. k + 1
         PROVE  /\ saved'[j].name = FileName(f.parts[j].headers)
                /\ saved'[j].body = f.parts[j].body
    <2>1. CASE j = k + 1
      BY <1>9, <1>10, <2>1 DEF b
    <2>2. CASE j # k + 1
      <3>1. j \in 1 .. k
        BY <1>2, <2>2
      <3> QED BY <1>2, <1>9, <3>1
    <2> QED BY <2>1, <2>2
  <1>13. Len(saved') \in 0 .. Len(f.parts)
    BY <1>2, <1>9
  <1> HIDE DEF k
  <1> QED BY <1>7, <1>9, <1>11, <1>12, <1>13 DEF FormKept

LEMMA FormStep2 ==
  ASSUME Fits, FormInv, FoundInv, PartInv, [FormNext]_fvars
  PROVE  PartInv'
  <1>1. CASE ReadBoundary
    <2>1. stage' = "boundary" /\ saved' = saved /\ input' = input
      BY <1>1 DEF ReadBoundary, ReadUntilString, Begin, source
    <2>2. ASSUME NEW f, Posted(f) PROVE FormKept(f)'
      BY <2>1, <2>2 DEF Posted, FormKept
    <2> QED BY <2>1, <2>2, PostedStep
  <1>2. ASSUME CheckBoundary \/ CheckEnding \/ OpenFile \/ CloseFile PROVE PartInv'
    <2>1. input' = input
      BY <1>2 DEF CheckBoundary, CheckEnding, OpenFile, CloseFile, ConsumeTwo,
                  ReadUntilString, Begin, Ends, source, vars
    <2> QED BY <1>2, <2>1, PostedStep, BoundaryKept, EndingKept, HeadersKept, FileKept
  <1>3. CASE Parse
    <2>1. from' = from /\ input' = input /\ stage' = stage /\ saved' = saved /\ name' = name
      BY <1>3, RunTakes DEF Parse, FormInv, form
    <2>2. ASSUME NEW f, Posted(f) PROVE FormKept(f)'
      BY <2>1, <2>2 DEF Posted, FormKept, Rest, BodyOn
    <2> QED BY <2>1, <2>2, PostedStep
  <1>4. CASE WriteFails
    <2>1. input' = input /\ stage' = "failed" /\ saved' = saved
      BY <1>4 DEF WriteFails, Ends, vars, source
    <2>2. ASSUME NEW f, Posted(f) PROVE FormKept(f)'
      BY <2>1, <2>2 DEF Posted, FormKept
    <2> QED BY <2>1, <2>2, PostedStep
  <1>5. CASE UNCHANGED fvars
    <2>1. from' = from /\ input' = input /\ stage' = stage /\ saved' = saved /\ name' = name
      BY <1>5 DEF fvars, vars, form, source
    <2>2. ASSUME NEW f, Posted(f) PROVE FormKept(f)'
      BY <2>1, <2>2 DEF Posted, FormKept, Rest, BodyOn
    <2> QED BY <2>1, <2>2, PostedStep
  <1> QED BY <1>1, <1>2, <1>3, <1>4, <1>5 DEF FormNext, Save

(* FormData::Save saves a form part by part, as it was posted, and each of *)
(* its strings is found where it first occurs, however the cache cuts it:  *)
(* for every form whose carriage returns are near to the ends they look    *)
(* like, any boundary and any cache that holds it.                         *)
THEOREM FindsCleanForms == ASSUME Fits PROVE FormSpec => []CleanFound
  <1>1. FormInit => FormInv /\ FoundInv /\ PartInv
    BY FormStarts, FormStarts2 DEF FormInit, Init, FoundInv
  <1>2. FormInv /\ FoundInv /\ PartInv /\ [FormNext]_fvars => FoundInv' /\ PartInv'
    BY FormIsParser, FoundStep, FormStep2 DEF FormInv, Fits
  <1>3. FormInv /\ FoundInv /\ PartInv => CleanFound
    <2> SUFFICES ASSUME FormInv, FoundInv, PartInv PROVE CleanFormSaved
      BY CleanMeets DEF FormInv, CleanFound
    <2> SUFFICES ASSUME stage \in {"done", "refused"}, NEW f \in Forms,
                        input = Encode(f), Clean(f)
                 PROVE  stage = "done" /\ SavedFiles = FilesOf(f.parts)
      BY DEF CleanFormSaved
    <2>1. FormKept(f)
      BY DEF PartInv
    <2>2. stage = "done" /\ Len(saved) = Len(f.parts)
      BY <2>1 DEF FormKept
    <2>3. \A j \in 1 .. Len(f.parts) : /\ saved[j].name = FileName(f.parts[j].headers)
                                       /\ saved[j].body = f.parts[j].body
      BY <2>1, <2>2 DEF FormKept
    <2> QED BY <2>2, <2>3 DEF SavedFiles, FilesOf
  <1>4. FormSpec => []FormInv
    BY FormInvariant, PTL
  <1> QED BY <1>1, <1>2, <1>3, <1>4, PTL DEF FormSpec
=============================================================================
