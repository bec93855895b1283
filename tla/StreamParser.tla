---------------------------- MODULE StreamParser ----------------------------
(***************************************************************************)
(* StreamParser: bytes come from a Source through a cache of Cap bytes and *)
(* are copied to a Sink until a byte or a string is found.  The caller     *)
(* makes one call at a time (Call); each iteration of a loop of the code   *)
(* is a step, because each may read from the source.                       *)
(***************************************************************************)
EXTENDS Naturals, Sequences

CONSTANTS
  Byte,         \* the bytes of the input
  Cap,          \* sizeof(m_cache)
  Inputs,       \* the inputs to parse
  Counts,       \* the arguments of Consume
  Targets,      \* the sets of bytes to read until, one byte or any of some
  Strings,      \* the strings to read until
  ShortReads,   \* whether the source may return less than it was asked for
  None          \* no byte, no call

ASSUME ParserAssumption ==
  /\ Cap \in Nat \ {0}
  /\ Inputs \subseteq Seq(Byte)
  /\ Counts \subseteq Nat \ {0}
  /\ Targets \subseteq SUBSET Byte
  /\ \A s \in Strings : s \in Seq(Byte) /\ Len(s) > 0
  /\ ShortReads \in BOOLEAN
  /\ None \notin Byte

VARIABLES
  input,    \* all the source will ever give
  at,       \* how many bytes have been read from it
  cache,    \* the bytes in m_cache up to m_end
  pc,       \* where the parser is, "idle" between calls
  call,     \* the call under way, or the last one
  found,    \* Result::found
  target,   \* Result::target
  taken,    \* how many bytes have left the cache
  from,     \* history: taken when the call began
  out       \* what the call has written to its sink

source == <<input, at>>
result == <<found, target>>
vars   == <<input, at, cache, pc, call, found, target, taken, from, out>>

Call == [op : {"consume"}, count : Counts]
   \cup [op : {"bytes"}, targets : Targets]
   \cup [op : {"string"}, string : Strings]

ASSUME CallAssumption == None \notin Call

Least(m, n) == IF m <= n THEN m ELSE n
Drop(s, n) == SubSeq(s, n + 1, Len(s))
consumed == taken - from      \* Result::consumed

-----------------------------------------------------------------------------
(* Refill: the source gives what it has, up to the free part of the cache. *)
ReadsTooMany(c) ==   \* mutant: asks for a whole cache, whatever is in it
  LET most == Least(Cap, Len(input) - at)
  IN IF ShortReads /\ most > 0 THEN 1 .. most ELSE {most}

Reads(c) ==
  LET most == Least(Cap - Len(c), Len(input) - at)
  IN IF ShortReads /\ most > 0 THEN 1 .. most ELSE {most}

RefillLosesOne(c) ==   \* mutant: overwrites the last byte of a part-filled cache
  \E n \in Reads(c) :
    /\ cache' = IF n > 0 /\ Len(c) > 1
                  THEN SubSeq(c, 1, Len(c) - 1) \o SubSeq(input, at + 1, at + n)
                  ELSE c \o SubSeq(input, at + 1, at + n)
    /\ at' = at + n

Refill(c) ==
  \E n \in Reads(c) :
    /\ cache' = c \o SubSeq(input, at + 1, at + n)
    /\ at' = at + n

(* One pass of Consume's loop: n bytes leave the cache, for the sink or    *)
(* for DevNull, and an empty cache is filled again at once.                *)
PassLazy(n, sink) ==   \* mutant: the empty cache is not filled again
  /\ out' = IF sink THEN out \o SubSeq(cache, 1, n) ELSE out
  /\ taken' = taken + n
  /\ cache' = Drop(cache, n) /\ UNCHANGED at

Pass(n, sink) ==
  /\ out' = IF sink THEN out \o SubSeq(cache, 1, n) ELSE out
  /\ taken' = taken + n
  /\ IF n = Len(cache) THEN Refill(<<>>) ELSE cache' = Drop(cache, n) /\ UNCHANGED at

(* Consume(n) for a part of the cache is one pass, or none.                *)
Consume(n, sink) ==
  IF n = 0 THEN UNCHANGED <<at, cache, taken, out>> ELSE Pass(n, sink)

Goto(there) == pc' = there

-----------------------------------------------------------------------------
(* The caller's side.                                                      *)
Begin(c) ==
  /\ pc = "idle"
  /\ call' = c
  /\ Goto(IF c.op = "bytes" THEN "find" ELSE c.op)
  /\ found' = FALSE /\ target' = None
  /\ from' = taken /\ out' = <<>>
  /\ UNCHANGED <<source, cache, taken>>

(* Consume, called for more bytes than the cache may hold.                 *)
ConsumeForEver ==   \* mutant: does not stop at the end of the input
  /\ pc = "consume"
  /\ LET n == Least(Len(cache), call.count - consumed)
     IN /\ Pass(n, TRUE)
        /\ Goto(IF consumed + n = call.count THEN "idle" ELSE "consume")
  /\ UNCHANGED <<input, call, result, from>>

ConsumeOnce ==   \* mutant: gives what the cache holds and no more
  /\ pc = "consume"
  /\ Pass(Least(Len(cache), call.count - consumed), TRUE)
  /\ Goto("idle")
  /\ UNCHANGED <<input, call, result, from>>

ConsumeLoop ==
  /\ pc = "consume"
  /\ LET n == Least(Len(cache), call.count - consumed)
     IN /\ Pass(n, TRUE)
        /\ Goto(IF consumed + n = call.count \/ cache' = <<>> THEN "idle" ELSE "consume")
  /\ UNCHANGED <<input, call, result, from>>

(* Both ReadUntil and FindUntil begin their loops with this: an empty      *)
(* cache that cannot be filled ends the loop.                              *)
Starved(here, there) ==
  /\ pc = here
  /\ cache = <<>>
  /\ Refill(cache)
  /\ Goto(IF cache' = <<>> THEN there ELSE here)
  /\ UNCHANGED <<input, call, result, taken, from, out>>

(* FindUntil, for one of several bytes or for the first of a string.       *)
Wanted == IF call.op = "string" THEN {call.string[1]} ELSE call.targets
AfterFind == IF call.op = "string" THEN "topup" ELSE "idle"

FindUntilOvershoots ==   \* mutant: the byte that was found is consumed too
  /\ pc = "find"
  /\ cache # <<>>
  /\ \/ \E i \in 1 .. Len(cache) :
          /\ cache[i] \in Wanted
          /\ \A j \in 1 .. i - 1 : cache[j] \notin Wanted
          /\ Consume(i, TRUE)
          /\ IF call.op = "string" THEN UNCHANGED result
             ELSE found' = TRUE /\ target' = cache[i]
          /\ Goto(AfterFind)
     \/ /\ \A j \in 1 .. Len(cache) : cache[j] \notin Wanted
        /\ Consume(Len(cache), TRUE)
        /\ UNCHANGED <<result, pc>>
  /\ UNCHANGED <<input, call, from>>

FindUntil ==
  /\ pc = "find"
  /\ cache # <<>>
  /\ \/ \E i \in 1 .. Len(cache) :
          /\ cache[i] \in Wanted
          /\ \A j \in 1 .. i - 1 : cache[j] \notin Wanted
          /\ Consume(i - 1, TRUE)
          /\ IF call.op = "string" THEN UNCHANGED result
             ELSE found' = TRUE /\ target' = cache[i]
          /\ Goto(AfterFind)
     \/ /\ \A j \in 1 .. Len(cache) : cache[j] \notin Wanted
        /\ Consume(Len(cache), TRUE)
        /\ UNCHANGED <<result, pc>>
  /\ UNCHANGED <<input, call, from>>

(* ReadUntil for a string: skip to its first byte, fill the cache, search. *)
ReadUntil ==
  /\ pc = "string"
  /\ cache # <<>>
  /\ Goto("find")
  /\ UNCHANGED <<source, cache, call, result, taken, from, out>>

TopUpNot ==   \* mutant: the cache is not filled before the search
  /\ pc = "topup"
  /\ Goto("search")
  /\ UNCHANGED <<source, cache, call, result, taken, from, out>>

TopUp ==
  /\ pc = "topup"
  /\ Refill(cache)
  /\ Goto("search")
  /\ UNCHANGED <<input, call, result, taken, from, out>>

IsAt(s, i, text) == SubSeq(text, i, i + Len(s) - 1) = s
Hits(s, text) == {i \in 1 .. Len(text) - Len(s) + 1 : IsAt(s, i, text)}

(* std::search gives the first place of the string in the cache, or its    *)
(* end; what is before that is consumed, then the string itself is skipped.*)
(* A string longer than the cache is in no cache: ReadUntil's assertion    *)
(* stops a build that has assertions, another one searches to the end.     *)
Search ==
  /\ pc = "search"
  /\ LET hits == Hits(call.string, cache)
     IN \/ \E i \in hits :
             /\ \A j \in hits : i <= j
             /\ Consume(i - 1, TRUE)
             /\ Goto("skip")
        \/ /\ hits = {}
           /\ Consume(Len(cache), TRUE)
           /\ Goto("string")
  /\ UNCHANGED <<input, call, result, from>>

SkipShort ==   \* mutant: leaves the last byte of the string in the cache
  /\ pc = "skip"
  /\ Consume(Len(call.string) - 1, FALSE)
  /\ found' = TRUE
  /\ Goto("idle")
  /\ UNCHANGED <<input, call, target, from>>

Skip ==
  /\ pc = "skip"
  /\ Consume(Len(call.string), FALSE)
  /\ found' = TRUE
  /\ Goto("idle")
  /\ UNCHANGED <<input, call, target, from>>

Run ==
  \/ ConsumeLoop
  \/ Starved("find", AfterFind) \/ FindUntil
  \/ Starved("string", "idle") \/ ReadUntil \/ TopUp \/ Search \/ Skip

(* The constructor fills the cache.                                        *)
Init ==
  /\ input \in Inputs
  /\ \E n \in 0 .. Len(input) :
       /\ n <= Cap
       /\ IF ShortReads THEN n > 0 \/ input = <<>> ELSE n = Least(Cap, Len(input))
       /\ at = n
       /\ cache = SubSeq(input, 1, n)
  /\ pc = "idle" /\ call = None
  /\ found = FALSE /\ target = None
  /\ taken = 0 /\ from = 0 /\ out = <<>>

Next == (\E c \in Call : Begin(c)) \/ Run

Spec == Init /\ [][Next]_vars
FairSpec == Spec /\ WF_vars(Run)

-----------------------------------------------------------------------------
(* Every variable stays in its type; the cache never holds more than Cap.  *)
TypeOK ==
  /\ input \in Inputs
  /\ at \in 0 .. Len(input)
  /\ cache \in Seq(Byte) /\ Len(cache) <= Cap
  /\ pc \in {"idle", "consume", "find", "string", "topup", "search", "skip"}
  /\ call \in Call \cup {None}
  /\ found \in BOOLEAN /\ target \in Byte \cup {None}
  /\ taken \in Nat /\ from \in 0 .. taken
  /\ out \in Seq(Byte)

(* No byte is lost, repeated or reordered on the way through the cache:    *)
(* it holds what was read and not yet taken, whatever the reads' sizes.    *)
CacheMirrors == taken <= at /\ cache = SubSeq(input, taken + 1, at)

(* The cache is empty only at the end of the input, so the code's          *)
(* assert(Size() > 0) holds and an idle parser shows the next byte.        *)
NeverStarves == cache = <<>> => at = Len(input)

(* What the call that has returned took from the input.                    *)
Text == SubSeq(input, from + 1, taken)
Returned(op) == pc = "idle" /\ call # None /\ call.op = op

(* Consume copies as many bytes as it was asked for, fewer only at the end.*)
ConsumeReturns ==
  Returned("consume") =>
    out = Text /\ consumed = Least(call.count, Len(input) - from)

(* ReadUntil a byte, and ReadUntilAny, copy everything before the first    *)
(* such byte and leave it as the next one; without one, the whole input.   *)
BytesReturn ==
  Returned("bytes") =>
    /\ out = Text
    /\ \A i \in 1 .. Len(out) : out[i] \notin call.targets
    /\ IF found THEN taken < at /\ target = cache[1] /\ target \in call.targets
                ELSE taken = Len(input)

(* ReadUntil a string that says it found it has copied what is before an   *)
(* occurrence and skipped that; otherwise it has copied the whole input.   *)
StringReturns ==
  Returned("string") =>
    IF found THEN Text = out \o call.string ELSE out = Text /\ taken = Len(input)

(* So each call that returns has taken from the input exactly what it      *)
(* promises, however the reads and the refills cut it (Consume, ReadUntil, *)
(* ReadUntilAny).                                                          *)
CopiesExactly == ConsumeReturns /\ BytesReturn /\ StringReturns

(* A string that fits in the cache is found, the first time it occurs, even*)
(* when the cache ends in its middle: the refill brings the rest.  For that*)
(* every byte before it that looks like its first one must be no further   *)
(* than a cache from its end.                                              *)
Near(j, end) == end - j < Cap
CleanStringFound ==
  Returned("string") /\ Len(call.string) <= Cap =>
    LET str  == call.string
        text == Drop(input, from)
        hits == Hits(str, text)
    IN \A i \in hits :
         /\ \A k \in hits : i <= k
         /\ \A j \in 1 .. i - 1 : text[j] = str[1] => Near(j, i - 1 + Len(str))
         => found /\ consumed = i - 1 + Len(str)

(* The inductive invariant of the proofs: where the parser is says which   *)
(* call it serves, and so far that has copied all it took.                 *)
CallInv ==
  /\ pc # "idle" => call \in Call /\ ~found /\ out = Text
  /\ pc = "consume" => call.op = "consume" /\ consumed < call.count
  /\ pc = "find" => call.op \in {"bytes", "string"}
  /\ pc \in {"string", "topup", "search", "skip"} => call.op = "string"
  /\ pc = "find" /\ call.op = "bytes" =>
       \A i \in 1 .. Len(out) : out[i] \notin call.targets
  /\ pc = "skip" => Len(call.string) <= Len(cache) /\ IsAt(call.string, 1, cache)
ParserInv ==
  /\ TypeOK /\ CacheMirrors /\ NeverStarves
  /\ CallInv /\ ConsumeReturns /\ BytesReturn /\ StringReturns

(* Every call returns, at the end of the input too.                        *)
CallsReturn == pc # "idle" ~> pc = "idle"
=============================================================================
