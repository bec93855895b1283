----------------------------- MODULE WebClient ------------------------------
(***************************************************************************)
(* The browser's side of WebWrite, lib/webwrite.js: one page of HTML whose *)
(* content, properties and menu are replaced by answers to asynchronous    *)
(* requests.  The address bar moves when a request is sent, the document   *)
(* when it is answered; the server answers in any order.                   *)
(***************************************************************************)
EXTENDS Naturals, Sequences, SequencesExt

CONSTANTS
  Page,          \* the pages and files of the site
  Html,          \* those of type text/html
  MainPage,      \* the page the logo leads to
  DirOf,         \* page -> its directory
  NoPage,        \* no page: nothing has been put into #content or #menu
  FirstStored,   \* the pages the server has at first
  FirstAddress,  \* bound: the addresses at which the browser may start
  MaxMoves,      \* bound: how often the user does something
  MaxFailures    \* bound: how many requests fail

Dir     == {DirOf[p] : p \in Page}
Query   == {"", "prop", "page"}
Address == [page : Page, query : Query]

ASSUME ClientAssumption ==
  /\ Html \subseteq Page /\ FirstStored \subseteq Page /\ MainPage \in Html
  /\ FirstAddress \subseteq Address
  /\ NoPage \notin Page
  /\ MaxMoves \in Nat /\ MaxFailures \in Nat

VARIABLES
  history,      \* window.history, addresses of pages of the site
  here,         \* the place in history that document.location shows
  pending,      \* class -> its requests out, in the order they were sent
  started,      \* the answer to ?var has set wb_base
  content,      \* #content: the page its text is of, the directory its links are in
  editing,      \* #content is contenteditable and has an editor
  view,         \* what is shown: #content ("blank" until it is filled) or #prop, then
                \* with the page it names and the page its link leads to
  menu,         \* #menu: the directory listed and the pages in the list
  unitialized,  \* #menu still has the class of that name
  stored,       \* the pages the server has
  late,         \* whether an answer of this class came out of turn, or never
  moves,        \* how often the user has done something
  failures      \* how many requests have failed

browser == <<history, here>>
server  == <<stored, failures>>
vars    == <<browser, pending, started, content, editing, view, menu,
             unitialized, server, late, moves>>

Kind    == {"var", "data", "meta", "index", "post", "upload"}
Request == [kind : Kind, page : Page, empty : BOOLEAN,
            handled : BOOLEAN, listed : SUBSET Page]

address == history[here]

(* Requests whose answers replace one another in the document are of one  *)
(* class: "data" and "meta" are loads.                                     *)
Class == {"var", "load", "menu", "post", "upload"}
Replaced == {"load", "menu"}

(* A URL that begins with '?' is relative to the address.                  *)
Ask(kind, a) == [kind |-> kind, page |-> a.page, empty |-> FALSE,
                 handled |-> FALSE, listed |-> {}]

-----------------------------------------------------------------------------
(* Requests that are sent together, and what is out then: rest and these.  *)
(* An answer of a class in overtaken came before an older one.             *)
Asked(load, menu_) ==
  [c \in Class |-> CASE c = "load" -> load [] c = "menu" -> menu_ [] OTHER -> <<>>]
Only(class, request) == [c \in Class |-> IF c = class THEN <<request>> ELSE <<>>]

Exchange(rest, overtaken, requests) ==
  /\ pending' = [c \in Class |-> rest[c] \o requests[c]]
  /\ late' = [c \in Replaced |->
                (late[c] \/ c \in overtaken) /\ (rest[c] # <<>> \/ requests[c] = <<>>)]

Send(requests) == Exchange(pending, {}, requests)

Without(c, i) == [pending EXCEPT ![c] = RemoveAt(@, i)]
Answered(c, i, requests) == Exchange(Without(c, i), IF i > 1 THEN {c} ELSE {}, requests)

(* Load(): what is asked for depends on the query of the new address.      *)
View(a) == CASE a.query = ""     -> <<Ask("data", a)>>
             [] a.query = "prop" -> <<Ask("meta", a)>>
             [] OTHER            -> <<>>

ReloadMenu(a) == <<Ask("index", a)>>

LoadRequests(a, sameDir) ==
  Asked(View(a), IF ~sameDir \/ unitialized THEN ReloadMenu(a) ELSE <<>>)

LoadAsksFirst(a, sameDir) ==   \* mutant: asks before the address is pushed
  /\ history' = Append(SubSeq(history, 1, here), a)
  /\ here' = here + 1
  /\ Send(LoadRequests(address, sameDir))
  /\ UNCHANGED <<started, content, editing, view, menu, unitialized, server>>

(* Load(href): the address is pushed before anything is asked for.         *)
Load(a, sameDir) ==
  /\ history' = Append(SubSeq(history, 1, here), a)
  /\ here' = here + 1
  /\ Send(LoadRequests(a, sameDir))
  /\ UNCHANGED <<started, content, editing, view, menu, unitialized, server>>

(* Load(""): the address is left alone, but compared with "/".             *)
Reload ==
  /\ Send(LoadRequests(address, FALSE))
  /\ UNCHANGED <<browser, started, content, editing, view, menu, unitialized,
                 server>>

FollowPathLate(p, query) ==   \* mutant: compares directories after the push
  Load([page |-> p, query |-> query], TRUE)

(* The path of a menu item or of the logo is compared with the path of the *)
(* address; the URL of any other link is never equal to a path.            *)
FollowPath(p, query) ==
  Load([page |-> p, query |-> query], DirOf[p] = DirOf[address.page])

FollowMenu ==
  \E p \in menu.listed : FollowPath(p, IF p \in Html THEN "" ELSE "prop")

FollowLogo == started /\ FollowPath(MainPage, "")

FollowLink ==
  /\ started /\ view.shows = "content" /\ content.page # NoPage
  /\ \E p \in Page : Load([page |-> p, query |-> ""], FALSE)

(* #prop_button, and #meta_name on the sheet: a file's opens a window, and *)
(* with no address to lead to the page is loaded once more.                *)
PressProperties ==
  \/ view.shows = "content" /\ Load([address EXCEPT !.query = "prop"], FALSE)
  \/ /\ view.shows = "sheet" /\ view.page \in Html
     /\ IF view.href = NoPage THEN Reload
        ELSE Load([page |-> view.href, query |-> ""], FALSE)

(* popstate: Load() and then the menu once more.                           *)
PopState ==
  \E h \in {here - 1, here + 1} \cap DOMAIN history :
    /\ here' = h
    /\ Send([LoadRequests(history[h], TRUE) EXCEPT !["menu"] = @ \o ReloadMenu(history[h])])
    /\ UNCHANGED <<history, started, content, editing, view, menu, unitialized, server>>

-----------------------------------------------------------------------------
(* InitViewer() shows the content, and the button leads to the sheet.      *)
NoSheet(shows) == [shows |-> shows, page |-> NoPage, href |-> NoPage]
InitViewer == view' = NoSheet("content")

ToggleEdit ==
  /\ editing' = ~editing
  /\ (editing /\ InitViewer) \/ (~editing /\ UNCHANGED view)
  /\ UNCHANGED <<browser, pending, started, content, menu, unitialized,
                 server, late>>

(* SaveDoc(): what the editor holds, be it nothing, goes to the address.   *)
SaveDoc ==
  /\ editing
  /\ \E empty \in BOOLEAN : Send(Only("post", [Ask("post", address) EXCEPT !.empty = empty]))
  /\ UNCHANGED <<browser, started, content, editing, view, menu, unitialized,
                 server>>

(* A file dropped on the upload dialog goes next to the page of the address. *)
DropFile ==
  /\ \E f \in Page \ Html :
       /\ DirOf[f] = DirOf[address.page]
       /\ Send(Only("upload", Ask("upload", [page |-> f])))
  /\ UNCHANGED <<browser, started, content, editing, view, menu, unitialized,
                 server>>

-----------------------------------------------------------------------------
(* The server takes a request; only these depend on or change what it has. *)
(* Saving an empty text removes the page.                                  *)
Listing(p) == {q \in stored : DirOf[q] = DirOf[p]}

Serve(c, i) ==
  LET r == pending[c][i]
  IN  /\ ~r.handled /\ c \in {"menu", "post", "upload"}
      /\ pending' = [pending EXCEPT ![c][i] =
                       [r EXCEPT !.handled = TRUE,
                                 !.listed = IF c = "menu" THEN Listing(r.page) ELSE {}]]
      /\ stored' = IF c = "menu" THEN stored
                   ELSE IF r.empty THEN stored \ {r.page}
                   ELSE stored \cup {r.page}
      /\ UNCHANGED <<browser, started, content, editing, view, menu,
                     unitialized, late, failures>>

(* The functions that receive the answers.                                 *)
ReceiveVar(i) ==
  /\ started' = TRUE
  /\ Answered("var", i, LoadRequests(address, TRUE))
  /\ UNCHANGED <<browser, content, editing, view, menu, unitialized, server>>

ReceiveData(i) ==
  LET r == pending["load"][i]
  IN  /\ r.kind = "data"
      /\ content' = [page |-> r.page, base |-> DirOf[address.page]]
      /\ InitViewer
      /\ Answered("load", i, Asked(<<>>, <<>>))
      /\ UNCHANGED <<browser, started, editing, menu, unitialized, server>>

InitPropertiesQuery(i) ==   \* mutant: the link keeps the query of the address
  LET r == pending["load"][i]
  IN  /\ r.kind = "meta"
      /\ view' = [shows |-> "sheet", page |-> r.page, href |-> address]
      /\ Answered("load", i, Asked(<<>>, <<>>))
      /\ UNCHANGED <<browser, started, content, editing, menu, unitialized, server>>

(* InitProperties(): the link is the address without its query, or nothing *)
(* if the address has none by now.                                         *)
InitProperties(i) ==
  LET r == pending["load"][i]
  IN  /\ r.kind = "meta"
      /\ view' = [shows |-> "sheet", page |-> r.page,
                  href |-> IF address.query = "" THEN NoPage ELSE address.page]
      /\ Answered("load", i, Asked(<<>>, <<>>))
      /\ UNCHANGED <<browser, started, content, editing, menu, unitialized, server>>

ReceiveIndex(i) ==
  LET r == pending["menu"][i]
  IN  /\ r.handled
      /\ menu' = [dir |-> DirOf[r.page], listed |-> r.listed]
      /\ unitialized' = FALSE
      /\ Answered("menu", i, Asked(<<>>, <<>>))
      /\ UNCHANGED <<browser, started, content, editing, view, server>>

ReceivePosted(c, i) ==
  /\ pending[c][i].handled
  /\ Answered(c, i, Asked(<<>>, ReloadMenu(address)))
  /\ UNCHANGED <<browser, started, content, editing, view, menu, unitialized,
                 server>>

Receive(c, i) ==
  \/ c = "var" /\ ReceiveVar(i)
  \/ c = "load" /\ (ReceiveData(i) \/ InitProperties(i))
  \/ c = "menu" /\ ReceiveIndex(i)
  \/ c \in {"post", "upload"} /\ ReceivePosted(c, i)

(* A request fails, before the server takes it or after.  load() calls its *)
(* function all the same; the others have no function for it.              *)
Fail(c, i) ==
  /\ failures < MaxFailures
  /\ failures' = failures + 1
  /\ pending' = Without(c, i)
  /\ late' = [d \in Replaced |-> late[d] \/ c \in {d, "var"}
                                   \/ (d = "menu" /\ c # "load")]
  /\ IF pending[c][i].kind = "data" THEN InitViewer ELSE UNCHANGED view
  /\ unitialized' = (unitialized /\ c # "menu")
  /\ UNCHANGED <<browser, started, content, editing, menu, stored>>

-----------------------------------------------------------------------------
User ==
  \/ FollowMenu \/ FollowLogo \/ FollowLink \/ PressProperties \/ PopState
  \/ ToggleEdit \/ SaveDoc \/ DropFile

Move == moves < MaxMoves /\ moves' = moves + 1 /\ User

Answer(c, i) == (Serve(c, i) \/ Receive(c, i) \/ Fail(c, i)) /\ UNCHANGED moves

Next == Move \/ \E c \in Class : \E i \in DOMAIN pending[c] : Answer(c, i)

(* main() asks for ?var and has nothing to show yet.                       *)
Init ==
  /\ history \in {<<a>> : a \in FirstAddress} /\ here = 1
  /\ pending = Only("var", Ask("var", address)) /\ started = FALSE
  /\ content = [page |-> NoPage, base |-> DirOf[address.page]] /\ editing = FALSE
  /\ view = NoSheet("blank")
  /\ menu = [dir |-> NoPage, listed |-> {}] /\ unitialized = TRUE
  /\ stored = FirstStored
  /\ late = [c \in Replaced |-> FALSE] /\ failures = 0 /\ moves = 0

Spec == Init /\ [][Next]_vars

-----------------------------------------------------------------------------
ClientTypeOK ==
  /\ history \in Seq(Address) /\ moves \in 0 .. MaxMoves /\ here \in DOMAIN history
  /\ pending \in [Class -> Seq(Request)]
  /\ started \in BOOLEAN /\ editing \in BOOLEAN /\ unitialized \in BOOLEAN
  /\ content \in [page : Page \cup {NoPage}, base : Dir]
  /\ view \in [shows : {"blank", "content", "sheet"},
               page : Page \cup {NoPage}, href : Page \cup {NoPage}]
  /\ menu \in [dir : Dir \cup {NoPage}, listed : SUBSET Page]
  /\ stored \subseteq Page
  /\ late \in [Replaced -> BOOLEAN] /\ failures \in 0 .. MaxFailures

(* Every request of the class is answered, and in turn.                    *)
Settled(c) == ~late[c] /\ pending[c] = <<>> /\ pending["var"] = <<>>

(* The document shows the page of the address: its text with links in its  *)
(* directory, or its properties with a link to it.                         *)
Shown ==
  /\ address.query = "" =>
       /\ view.shows = "content"
       /\ content = [page |-> address.page, base |-> DirOf[address.page]]
  /\ address.query = "prop" =>
       \/ view.shows = "content"
       \/ view.page = address.page /\ view.href = address.page

(* However fast the user moves between pages and through the history, the  *)
(* document ends up with the page of the address if answers came in turn.  *)
SettlesOnAddress == Settled("load") => Shown

(* The menu then lists the address's directory as the server has it, every *)
(* page that was saved or uploaded included.                               *)
MenuSettles ==
  Settled("menu") /\ pending["post"] = <<>> /\ pending["upload"] = <<>> =>
    menu = [dir |-> DirOf[address.page], listed |-> Listing(address.page)]

(* So the browser comes to rest on what the address names, in the document *)
(* and beside it (Load, ReloadMenu, the answers to both).                  *)
PageSettles == SettlesOnAddress /\ MenuSettles
=============================================================================
