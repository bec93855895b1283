--------------------------------- MODULE Site ---------------------------------
(***************************************************************************)
(* RootServer from its start to its answers: the redirect of Work, the     *)
(* handlers that only read, and a browser that follows redirects and the   *)
(* links of a directory's listing while another user saves pages.  What a  *)
(* save does in detail is the subject of PageStore.                        *)
(***************************************************************************)
EXTENDS ResourceName, Startup

CONSTANTS
  Typed,     \* what a user may type behind the root: spelling and meaning
  Queries,   \* and the queries
  HostDirs,  \* directories of the machine, outside the data
  LibFile,   \* files of lib, as names on the way down
  StoredType, \* types that stored metadata has: names on the way down -> type
  FirstData, \* what the data may be at first: directories and files
  NewFiles,  \* files other users may save
  MaxSaves   \* bound: how many of them

(* A name of the data: what it decodes to is the name of a page.           *)
PageName(name) ==
  /\ name \in Text \ {<<>>} /\ ~Has(name, {"/", "?"})
  /\ DecodePercent(name, " ", "_") # <<".">>
(* And one in which a percent sign begins an escape.                       *)
Escaped(name) ==
  \A i \in DOMAIN name :
    name[i] = "%" => i + 2 <= Len(name) /\ SubSeq(name, i + 1, i + 2) \in DOMAIN Octet
Tree(ds, fs) ==
  /\ <<>> \in ds /\ ds \cap fs = {}
  /\ \A p \in ds \cup fs :
       /\ p \in Seq(Text) /\ \A k \in DOMAIN p : PageName(p[k])
       /\ \A n \in 0 .. Len(p) - 1 : SubSeq(p, 1, n) \in ds
  /\ \A p \in ds : \A k \in DOMAIN p : Escaped(p[k])

ASSUME SiteAssumption ==
  /\ \A t \in Typed :
       /\ t.spelling \in Text /\ ~Has(t.spelling, {"?"})
       /\ t.means = DecodePercent(t.spelling, " ", "_")
  /\ \A first \in FirstData : Tree(first.dirs, first.files)
  /\ \A p \in NewFiles : p # <<>> /\ Tree({SubSeq(p, 1, n) : n \in 0 .. Len(p) - 1}, {p})
  /\ Queries \subseteq Text /\ "prop" \in Char /\ MaxSaves \in Nat

VARIABLES
  dirs, files, \* the data, as names on the way down
  request,     \* the URI and query that is asked for, or NoRequest
  reply,       \* the answer the browser shows
  want,        \* what the user is after: and how it was asked for (a history)
  saves        \* files saved so far

siteVars == <<dirs, files, request, reply, want, saves>>
vars == <<startVars, siteVars>>

NoRequest == [uri |-> <<>>, query |-> <<>>]
NoWant == [names |-> <<>>, query |-> <<>>, via |-> "typed", open |-> FALSE]
Nothing == [kind |-> "none", names |-> <<>>, query |-> <<>>, to |-> <<>>, links |-> {}]

(* A web server takes the query to begin behind the first question mark.   *)
Ask(uri) ==
  LET marks == {i \in DOMAIN uri : uri[i] = "?"}
  IN [uri |-> uri,
      query |-> IF marks = {} THEN <<>>
                ELSE SubSeq(uri, 1 + CHOOSE i \in marks : \A j \in marks : i <= j, Len(uri))]

Init ==
  /\ StartInit
  /\ \E first \in FirstData : dirs = first.dirs /\ files = first.files
  /\ request = NoRequest /\ reply = Nothing
  /\ want = NoWant /\ saves = 0

------------------------------------------------------------------------------
IsLibFile(path) == Names(path) \in LibFile
Html == <<"text", "/", "html">>
(* Cfg::MimeType, which takes the name below the root of the site for one  *)
(* below "/".                                                              *)
DeducedType(path) ==
  IF path[1] = "/" /\ Names(path) \in HostDirs THEN <<"inode", "/", "directory">>
  ELSE IF Extension(path) \in DOMAIN cfg.mime THEN cfg.mime[Extension(path)] ELSE Html
(* Resource::Type: what the metadata says, and a save keeps, comes first.  *)
MimeType(path) ==
  IF Names(path) \in DOMAIN StoredType THEN StoredType[Names(path)] ELSE DeducedType(path)

Answer(kind, path, query) ==
  [Nothing EXCEPT !.kind = kind, !.names = Names(path), !.query = query]

DefaultPage(path, query) ==
  Answer(IF IsLibFile(path) THEN "lib" ELSE IF MimeType(path) = Html THEN "index" ELSE "file",
         path, query)

(* What an older version stored under "%20" or a blank, in any name on the *)
(* way down, is renamed first.  The rename throws, and ends the process,   *)
(* where the directory of the new name does not exist.  The underscores of *)
(* data.path are replaced as well: one that is not plain makes the older   *)
(* path one of another directory, and nothing is found.                    *)
Unblanked(name, blank) ==
  Chain(Len(name), [i \in DOMAIN name |-> IF name[i] = "_" THEN blank ELSE <<name[i]>>],
                   [i \in DOMAIN name |-> i + 1])
Older(names, blank) == [k \in DOMAIN names |-> Unblanked(names[k], blank)]
OlderOf(names) ==
  LET found == {s \in {<<"%", "2", "0">>, <<" ">>} :
                  cfg.plain /\ Older(names, s) \in dirs \cup files}
  IN {Older(names, s) : s \in {s \in found : s = <<" ">> => Cardinality(found) = 1}}
Moved(p, old, new) ==
  IF IsPrefix(old, p) THEN new \o SubSeq(p, Len(old) + 1, Len(p)) ELSE p
Rename(old, names, path, query) ==
  IF Front(names) \notin dirs
  THEN pc' = "dead" /\ reply' = Nothing /\ UNCHANGED <<dirs, files>>
  ELSE /\ dirs' = {Moved(p, old, names) : p \in dirs}
       /\ files' = {Moved(p, old, names) : p \in files}
       /\ reply' = Answer("file", path, query)
       /\ UNCHANGED pc
Load(path, query) ==
  \E names \in {Names(path)} :
     \/ /\ names \in dirs \cup files \/ IsLibFile(path) \/ OlderOf(names) = {}
        /\ reply' = Answer(IF names \in dirs \cup files THEN "file"
                           ELSE IF IsLibFile(path) THEN "lib" ELSE "newpage", path, query)
        /\ UNCHANGED <<pc, dirs, files>>
     \/ /\ names \notin dirs \cup files /\ ~IsLibFile(path)
        /\ \E old \in OlderOf(names) : Rename(old, names, path, query)

\* mutant: the link of a directory is its own name
LinkToBare(path, name) ==
  LET target == Join(ParentPath(path), name)
      isDir == Names(target) \in dirs
  IN [href |-> UrlPath(target) \o (IF isDir \/ MimeType(target) = Html THEN <<>> ELSE <<"?", "prop">>),
      class |-> IF isDir THEN Directory ELSE CssMimeType(MimeType(target)),
      entry |-> Names(target),
      shown |-> Append(Names(ParentPath(path)), DecodePercent(name, " ", "_"))]

(* A link of ServeIndex: to the resource of an entry beside path, whose    *)
(* name is shown and found with "_" for a blank.                           *)
LinkTo(path, name) ==
  LET sibling == Path(Join(ParentPath(UrlPath(path)), name), dirs)
      entry == Append(Names(ParentPath(path)), name)
      query == IF entry \in dirs \/ MimeType(sibling) = Html THEN <<>> ELSE <<"prop">>
  IN [href |-> Location(UrlPath(sibling), query),
      class |-> IF entry \in dirs THEN Directory ELSE CssMimeType(MimeType(sibling)),
      entry |-> entry,
      shown |-> Append(Names(ParentPath(path)), DecodePercent(name, " ", "_"))]
ParentLink(path) ==
  LET above == Names(ParentPath(ParentPath(path)))
  IN [href |-> ParentPath(ParentPath(UrlPath(path))) \o <<"/">> \o MainPage,
      class |-> Directory, entry |-> above, shown |-> above]
ServeIndex(path, query) ==
  LET in == Names(ParentPath(path))
      names == {n \in UNION {Range(p) : p \in dirs \cup files} : Append(in, n) \in dirs \cup files}
      up == IF ParentPath(path) # <<"/">> THEN {ParentLink(path)} ELSE {}
  IN [Answer("listing", path, query) EXCEPT
        !.links = up \cup (IF in \in dirs
                           THEN {LinkTo(path, n) : n \in names} ELSE {})]

(* RootServer::Work; the query up to the first separator names the handler.*)
HandlerName(query) == IF query = <<>> THEN "" ELSE query[1]
Work ==
  \E query \in {request.query} : \E sans \in {SansQueryURI(request.uri, query)} :
  \E path \in {Path(sans, dirs)} :
     IF HandlerName(query) = "data" /\ ~CheckRedir(path, sans) THEN Load(path, query)
     ELSE /\ reply' =
               IF CheckRedir(path, sans)
               THEN [Answer("redirect", path, query) EXCEPT !.to = Location(UrlPath(path), query)]
               ELSE CASE HandlerName(query) = "" -> DefaultPage(path, query)
                      [] HandlerName(query) \in {"prop", "page"} -> Answer("index", path, query)
                      [] HandlerName(query) = "index" -> ServeIndex(path, query)
                      [] HandlerName(query) \in {"mime", "var", "meta", "stats"} ->
                           Answer(HandlerName(query), path, query)
                      [] OTHER -> Answer("notfound", path, query)
          /\ UNCHANGED <<pc, dirs, files>>

Handle ==
  /\ pc = "serve" /\ request # NoRequest
  /\ Work
  /\ request' = NoRequest
  /\ UNCHANGED <<json, cfg, log, said, own, html, css, want, saves>>

------------------------------------------------------------------------------
AtRest == pc = "serve" /\ request = NoRequest /\ reply.kind # "redirect"

Type ==
  /\ AtRest /\ reply = Nothing
  /\ \E t \in Typed, q \in Queries :
       /\ request' = Ask(Location(WbRoot \o t.spelling, q))
       /\ want' = [names |-> Names(t.means), query |-> q, via |-> "typed",
                   open |-> Filename(t.means) \in {<<>>, <<".">>}]
  /\ UNCHANGED <<startVars, dirs, files, reply, saves>>

(* The user has seen the answer. *)
Close ==
  /\ AtRest /\ reply # Nothing
  /\ reply' = Nothing /\ want' = NoWant
  /\ UNCHANGED <<startVars, dirs, files, request, saves>>

Follow ==
  /\ pc = "serve" /\ request = NoRequest /\ reply.kind = "redirect"
  /\ request' = Ask(reply.to)
  /\ UNCHANGED <<startVars, dirs, files, reply, want, saves>>

FollowLink ==
  /\ AtRest /\ reply.kind = "listing"
  /\ \E link \in reply.links :
       /\ request' = Ask(link.href)
       /\ want' = [names |-> link.shown, query |-> Ask(link.href).query,
                   via |-> IF link.shown = link.entry THEN "link" ELSE "renamed",
                   open |-> link.class = Directory]
  /\ reply' = Nothing
  /\ UNCHANGED <<startVars, dirs, files, saves>>

(* Another user saves a page, with the directories above it.  Where one of *)
(* them is a file the save throws, and where the page is a directory it    *)
(* has another name.                                                       *)
\* mutant: the directories above are not there
SaveNoParents ==
  /\ pc = "serve" /\ saves < MaxSaves
  /\ \E p \in NewFiles :
       /\ p \notin dirs
       /\ files' = files \cup {p}
       /\ UNCHANGED dirs
  /\ saves' = saves + 1
  /\ UNCHANGED <<startVars, request, reply, want>>

Save ==
  /\ pc = "serve" /\ saves < MaxSaves
  /\ \E p \in NewFiles :
       LET above == {SubSeq(p, 1, n) : n \in 0 .. Len(p) - 1}
       IN /\ above \cap files = {} /\ p \notin dirs
          /\ files' = files \cup {p}
          /\ dirs' = dirs \cup above
  /\ saves' = saves + 1
  /\ UNCHANGED <<startVars, request, reply, want>>

Next ==
  \/ StartNext /\ UNCHANGED siteVars
  \/ Handle \/ Type \/ Close \/ Follow \/ FollowLink \/ Save

Spec == Init /\ [][Next]_vars
(* The threads answer, which only Handle does, and a browser follows a     *)
(* redirect by itself.                                                     *)
Answered == request # NoRequest /\ request' = NoRequest
Redirected == reply.kind = "redirect" /\ request = NoRequest /\ request' = Ask(reply.to)
FairSpec == Spec /\ WF_request(Answered) /\ WF_request(Redirected)

------------------------------------------------------------------------------
SiteTypeOK ==
  /\ pc \in {"config", "log", "server", "serve", "dead"}
  /\ Tree(dirs, files)
  /\ request.uri # <<>> => IsPrefix(WbRoot, request.uri)
  /\ reply.kind # "none" => pc = "serve" /\ html
  /\ saves \in 0 .. MaxSaves

(* However a name is spelled and whatever is saved meanwhile, a browser    *)
(* that follows the redirects comes to an answer (Work, Resource,          *)
(* CheckRedir, SansQueryURI).                                              *)
RedirectsSettle == reply.kind = "redirect" ~> reply.kind # "redirect"

(* The answer is about what the user asked for: two spellings of one name  *)
(* meet, two names do not, only what is a directory, or was asked for as   *)
(* one, is answered by its main page, and the query has come through every *)
(* redirect.  A link in a listing shows its entry and needs no redirect,   *)
(* except to a main page that is itself a directory, unless the entry has  *)
(* another name by then.  Where text/html is one of the configured types,  *)
(* the style sheet knows the link's class, unless it is that of a type     *)
(* that only stored metadata has (Resource, Work, SeeOther, ServeIndex,    *)
(* GenerateMimeCss).                                                       *)
Mains(k) == [i \in 1 .. k |-> MainPage]
Reaches(names) ==
  \E k \in 0 .. Len(names) :
    /\ names = want.names \o Mains(k)
    /\ \A j \in 0 .. k - 1 : want.names \o Mains(j) \in dirs \/ (j = 0 /\ want.open)
AnswersWhatWasAsked ==
  /\ reply.kind # "none" => reply.query = want.query /\ Reaches(reply.names)
  /\ reply.kind # "none" /\ want.via = "link" =>
       \/ reply.kind \in {"index", "lib"}
       \/ reply.kind = "redirect" /\ Front(reply.names) \in dirs \ {want.names}
       \/ reply.kind = "file" /\ want.open
  /\ \A link \in reply.links :
       Html \in Range(cfg.mime) =>
         link.class \in DOMAIN css \cup {CssMimeType(t) : t \in Range(StoredType)}
=============================================================================
