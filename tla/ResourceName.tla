----------------------------- MODULE ResourceName -----------------------------
(***************************************************************************)
(* From the URI of a request to the name of a resource: UriChar,           *)
(* UriCharIterator, the constructor of Resource and the check whether a    *)
(* URI is the name's own spelling.  A text is a sequence of characters; a  *)
(* run of letters that is never taken apart counts as one.                 *)
(***************************************************************************)
EXTENDS Naturals, SequencesExt

CONSTANTS
  Octet,     \* two hexadecimal digits -> the character they stand for
  WbRoot,    \* Cfg::wb_root
  MainPage   \* Cfg::main_page

Char == STRING
Text == Seq(Char)
Has(t, chars) == \E i \in DOMAIN t : t[i] \in chars

(* Characters that need no escape, and the blank. *)
Marked == {"-", "_", ".", "!", "~", "*", "'", "(", ")", " "}
Nul == "NUL"

(* A pair of digits has no character that means something in a path.  The  *)
(* two names of the configuration are spelled as they are meant.           *)
ASSUME NameAssumption ==
  /\ Marked \cup {"%", "/", "?", "2", "0"} \subseteq Char
  /\ DOMAIN Octet \subseteq Text /\ \A d \in DOMAIN Octet : Octet[d] \in Char
  /\ \A d \in DOMAIN Octet : Len(d) = 2 /\ ~Has(d, {"%", "/", "?", " ", "_"})
  /\ WbRoot \in Text /\ Len(WbRoot) > 1 /\ ~Has(WbRoot, {"%", "?"})
  /\ WbRoot[1] = "/" /\ WbRoot[Len(WbRoot)] # "/"
  /\ MainPage \in Text \ {<<>>, <<".">>} /\ ~Has(MainPage, {"%", "/", "?", " "})

(* The UriChar at i: a percent sign takes two more characters, whatever    *)
(* they are, or as many as there are.                                      *)
Piece(u, i) ==
  LET end == IF u[i] = "%" THEN i + 2 ELSE i
  IN SubSeq(u, i, IF end <= Len(u) THEN end ELSE Len(u))
Letter(p) ==
  IF p[1] # "%" THEN p[1] ELSE IF Tail(p) \in DOMAIN Octet THEN Octet[Tail(p)] ELSE Nul
IsEscape(p) == p[1] = "%" /\ Letter(p) \notin Marked

(* CharMap<src, target>. *)
Mapped(c, src, target) == IF c = src THEN target ELSE c
Decoded(p, src, target) == IF IsEscape(p) THEN p ELSE <<Mapped(Letter(p), src, target)>>

(* A text made piece by piece, where next says which piece comes after.    *)
Chain(n, text, next) ==
  LET from[i \in Nat] == IF i \in 1 .. n THEN text[i] \o from[next[i]] ELSE <<>>
  IN from[1]

DecodePercent(u, src, target) ==
  Chain(Len(u), [i \in DOMAIN u |-> Decoded(Piece(u, i), src, target)],
                [i \in DOMAIN u |-> i + Len(Piece(u, i))])

------------------------------------------------------------------------------
(* boost::filesystem::path, for texts without two slashes in a row. *)
Slashes(t) == {i \in DOMAIN t : t[i] = "/"}
Cut(t) == IF Slashes(t) = {} THEN 0 ELSE CHOOSE i \in Slashes(t) : \A j \in Slashes(t) : j <= i
Filename(t) ==
  IF t = <<"/">> THEN t
  ELSE IF t # <<>> /\ Cut(t) = Len(t) THEN <<".">> ELSE SubSeq(t, Cut(t) + 1, Len(t))
ParentPath(t) ==
  IF t = <<"/">> THEN <<>> ELSE IF Cut(t) = 1 THEN <<"/">> ELSE SubSeq(t, 1, Cut(t) - 1)
Join(t, u) ==
  IF t = <<>> \/ Last(t) = "/" \/ (u # <<>> /\ u[1] = "/") \/ u = <<>>
  THEN t \o u ELSE t \o <<"/">> \o u
Extension(t) ==
  LET f == Filename(t)
      dots == {i \in DOMAIN f : f[i] = "."}
  IN IF dots = {} \/ f = <<".">> THEN <<>>
     ELSE SubSeq(f, CHOOSE i \in dots : \A j \in dots : j <= i, Len(f))
(* Element by element, where a slash at the end makes an element "." *)
SamePath(s, t) ==
  LET whole(p) == IF p # <<"/">> /\ p # <<>> /\ Last(p) = "/" THEN p \o <<".">> ELSE p
  IN whole(s) = whole(t)

(* What the file system finds: the names on the way down. *)
EndOfName(t, i) ==
  CHOOSE j \in i .. Len(t) + 1 :
    (j \in Slashes(t) \/ j = Len(t) + 1) /\ \A k \in i .. j - 1 : k \notin Slashes(t)
Named(name) == IF name \in {<<>>, <<".">>} THEN <<>> ELSE <<name>>
Names(t) ==
  Chain(Len(t), [i \in DOMAIN t |-> Named(SubSeq(t, i, EndOfName(t, i) - 1))],
                [i \in DOMAIN t |-> EndOfName(t, i) + 1])

------------------------------------------------------------------------------
(* Resource::m_path for a URI, where dirs are the directories of the data. *)
Path(u, dirs) ==
  LET path == DecodePercent(SubSeq(u, Len(WbRoot) + 1, Len(u)), " ", "_")
  IN IF Filename(path) \in {<<>>, <<".">>} \/ Names(path) \in dirs
     THEN Join(path, MainPage) ELSE path

\* mutant: the URL spells an underscore as an escaped blank
UrlPathEscaped(path) ==
  LET url == Join(WbRoot, path)
  IN FlattenSeq([i \in DOMAIN url |-> IF url[i] = "_" THEN <<"%", "2", "0">> ELSE <<url[i]>>])

UrlPath(path) == Join(WbRoot, path)
CheckRedir(path, u) == ~SamePath(UrlPath(path), DecodePercent(u, " ", " "))

(* FCGIRequest: the URI without the query; without a query a question mark *)
(* stays where it is.                                                      *)
\* mutant: the query is not cut off
SansQueryURIWhole(uri, query) == uri

SansQueryURI(uri, query) ==
  LET result == SubSeq(uri, 1, Len(uri) - Len(query))
  IN IF query # <<>> /\ result # <<>> /\ Last(result) = "?" THEN Front(result) ELSE result
(* SeeOther. *)
Location(url, query) == IF query # <<>> THEN url \o <<"?">> \o query ELSE url
=============================================================================
