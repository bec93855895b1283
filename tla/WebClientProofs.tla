--------------------------- MODULE WebClientProofs ---------------------------
(***************************************************************************)
(* Theorems about the client: for any site, any moves of the user, any     *)
(* order of the answers and any failures, the document comes to rest on    *)
(* what the address names.                                                 *)
(***************************************************************************)
EXTENDS WebClient, SequenceTheorems, TLAPS

Latest(queue) == queue[Len(queue)]

(* The last load sent asks for what the address names.  Until it is        *)
(* answered nothing is said of the document; before ?var is answered the   *)
(* client has not asked for anything.                                      *)
AsksForAddress(r) ==
  /\ address.query = "" => r.kind = "data" /\ r.page = address.page
  /\ address.query = "prop" => r.kind = "meta" /\ r.page = address.page
LoadInv ==
  pending["var"] = <<>> /\ ~late["load"] =>
    IF pending["load"] = <<>> THEN Shown ELSE AsksForAddress(Latest(pending["load"]))

(* The last reload of the menu is about the address's directory, and what  *)
(* the server has answered it is still so: a post or an upload that        *)
(* changes it is followed by another.  A menu that was never filled is     *)
(* filled by the first Load.                                               *)
ListsDirectory(r) ==
  /\ DirOf[r.page] = DirOf[address.page]
  /\ r.handled => r.listed = Listing(r.page)
MenuShown == menu = [dir |-> DirOf[address.page], listed |-> Listing(address.page)]
MenuInv ==
  ~late["menu"] /\ pending["post"] = <<>> /\ pending["upload"] = <<>> =>
    IF pending["menu"] = <<>> THEN MenuShown \/ (unitialized /\ pending["var"] # <<>>)
    ELSE ListsDirectory(Latest(pending["menu"]))

ClientInv == ClientTypeOK /\ LoadInv /\ MenuInv

------------------------------------------------------------------------------
(* Queues: what is left of one, and the last request of one.               *)
LEMMA Removed ==
  ASSUME NEW S, NEW queue \in Seq(S), NEW i \in DOMAIN queue
  PROVE  /\ RemoveAt(queue, i) \in Seq(S)
         /\ Len(RemoveAt(queue, i)) = Len(queue) - 1
         /\ i # Len(queue) => Latest(RemoveAt(queue, i)) = Latest(queue)
  <1>1. i \in 1 .. Len(queue) /\ Len(queue) \in Nat
    OBVIOUS
  <1> DEFINE left == SubSeq(queue, 1, i - 1)
             right == SubSeq(queue, i + 1, Len(queue))
  <1>2. left \in Seq(S) /\ Len(left) = i - 1
    BY <1>1
  <1>3. right \in Seq(S) /\ Len(right) = Len(queue) - i
    BY <1>1
  <1>4. i # Len(queue) => right[Len(right)] = queue[Len(queue)]
    <2>1. \A k \in 1 .. Len(queue) - i : right[k] = queue[k + i]
      BY <1>1
    <2>2. i # Len(queue) => Len(queue) - i \in 1 .. Len(queue) - i /\ (Len(queue) - i) + i = Len(queue)
      BY <1>1
    <2> HIDE DEF right, left
    <2>3. i # Len(queue) => right[Len(queue) - i] = queue[(Len(queue) - i) + i]
      BY <2>1, <2>2
    <2> QED BY <1>3, <2>2, <2>3
  <1>5. RemoveAt(queue, i) = left \o right
    BY DEF RemoveAt
  <1> HIDE DEF left, right
  <1> QED BY <1>1, <1>2, <1>3, <1>4, <1>5 DEF Latest

LEMMA Joined ==
  ASSUME NEW S, NEW q \in Seq(S), NEW r \in Seq(S)
  PROVE  /\ q \o r \in Seq(S)
         /\ r = <<>> => q \o r = q
         /\ r # <<>> => q \o r # <<>> /\ Latest(q \o r) = Latest(r)
         /\ q # <<>> => q \o r # <<>>
  <1>1. Len(q) \in Nat /\ Len(r) \in Nat /\ q \o r \in Seq(S) /\ Len(q \o r) = Len(q) + Len(r)
    OBVIOUS
  <1>2. r # <<>> => Len(r) > 0 /\ (q \o r)[Len(q) + Len(r)] = r[Len(r)]
    BY EmptySeq, <1>1
  <1> QED BY <1>1, <1>2 DEF Latest

LEMMA Single == ASSUME NEW x PROVE <<x>> # <<>> /\ Latest(<<x>>) = x
  BY DEF Latest

------------------------------------------------------------------------------
Requests == [Class -> Seq(Request)]

LEMMA AskTypes ==
  ASSUME NEW kind \in Kind, NEW a \in [page : Page] \cup Address
  PROVE  Ask(kind, a) \in Request
  BY DEF Ask, Request, Address

LEMMA AskedTypes ==
  ASSUME NEW load \in Seq(Request), NEW menu_ \in Seq(Request)
  PROVE  /\ Asked(load, menu_) \in Requests
         /\ Asked(load, menu_)["load"] = load /\ Asked(load, menu_)["menu"] = menu_
         /\ \A c \in Class \ Replaced : Asked(load, menu_)[c] = <<>>
  BY DEF Asked, Requests, Class, Replaced

LEMMA OnlyTypes ==
  ASSUME NEW class \in Class, NEW r \in Request
  PROVE  /\ Only(class, r) \in Requests /\ Only(class, r)[class] = <<r>>
         /\ \A c \in Class \ {class} : Only(class, r)[c] = <<>>
  BY DEF Only, Requests

LEMMA ViewTypes ==
  ASSUME NEW a \in Address
  PROVE  View(a) \in Seq(Request) /\ ReloadMenu(a) \in Seq(Request)
  <1>1. Ask("data", a) \in Request /\ Ask("meta", a) \in Request /\ Ask("index", a) \in Request
    BY AskTypes DEF Kind
  <1>2. /\ <<Ask("data", a)>> \in Seq(Request) /\ <<Ask("meta", a)>> \in Seq(Request)
        /\ <<Ask("index", a)>> \in Seq(Request) /\ <<>> \in Seq(Request)
    BY <1>1
  <1>3. View(a) = <<Ask("data", a)>> \/ View(a) = <<Ask("meta", a)>> \/ View(a) = <<>>
    BY DEF View
  <1>4. View(a) \in Seq(Request)
    BY <1>2, <1>3
  <1> QED BY <1>2, <1>4 DEF ReloadMenu

LEMMA MenuAsks ==
  ASSUME NEW a \in Address
  PROVE  ReloadMenu(a) # <<>> /\ Latest(ReloadMenu(a)) = Ask("index", a)
  BY DEF ReloadMenu, Latest

LEMMA ViewAsks ==
  ASSUME NEW a \in Address
  PROVE  /\ a.query = "" => View(a) # <<>> /\ Latest(View(a)) = Ask("data", a)
         /\ a.query = "prop" => View(a) # <<>> /\ Latest(View(a)) = Ask("meta", a)
         /\ a.query \notin {"", "prop"} => View(a) = <<>>
  BY DEF View, Latest

LEMMA LoadTypes ==
  ASSUME NEW a \in Address, NEW sameDir \in BOOLEAN
  PROVE  /\ LoadRequests(a, sameDir) \in Requests
         /\ LoadRequests(a, sameDir)["load"] = View(a)
         /\ LoadRequests(a, sameDir)["menu"] =
              IF ~sameDir \/ unitialized THEN ReloadMenu(a) ELSE <<>>
         /\ \A c \in Class \ Replaced : LoadRequests(a, sameDir)[c] = <<>>
  <1> DEFINE menu_ == IF ~sameDir \/ unitialized THEN ReloadMenu(a) ELSE <<>>
  <1>1. View(a) \in Seq(Request) /\ menu_ \in Seq(Request)
    <2>1. <<>> \in Seq(Request) /\ View(a) \in Seq(Request) /\ ReloadMenu(a) \in Seq(Request)
      BY ViewTypes
    <2> QED BY <2>1
  <1>2. LoadRequests(a, sameDir) = Asked(View(a), menu_)
    BY DEF LoadRequests
  <1>3. menu_ = IF ~sameDir \/ unitialized THEN ReloadMenu(a) ELSE <<>>
    OBVIOUS
  <1> HIDE DEF menu_
  <1>4. /\ Asked(View(a), menu_) \in Requests
        /\ Asked(View(a), menu_)["load"] = View(a) /\ Asked(View(a), menu_)["menu"] = menu_
        /\ \A c \in Class \ Replaced : Asked(View(a), menu_)[c] = <<>>
    BY <1>1, AskedTypes
  <1> QED BY <1>2, <1>3, <1>4

(* What is out after an exchange.                                          *)
LEMMA Exchanged ==
  ASSUME NEW rest \in Requests, NEW overtaken \in SUBSET Class, NEW requests \in Requests,
         late \in [Replaced -> BOOLEAN], Exchange(rest, overtaken, requests)
  PROVE  /\ pending' \in Requests /\ late' \in [Replaced -> BOOLEAN]
         /\ \A c \in Class :
              /\ requests[c] = <<>> => pending'[c] = rest[c]
              /\ requests[c] # <<>> => pending'[c] # <<>> /\ Latest(pending'[c]) = Latest(requests[c])
              /\ rest[c] # <<>> => pending'[c] # <<>>
         /\ \A c \in Replaced : requests[c] = <<>> => late'[c] = (late[c] \/ c \in overtaken)
  <1>1. \A c \in Class : pending'[c] = rest[c] \o requests[c]
    BY DEF Exchange
  <1>2. pending' = [c \in Class |-> rest[c] \o requests[c]]
    BY DEF Exchange
  <1>3. \A c \in Class : rest[c] \in Seq(Request) /\ requests[c] \in Seq(Request)
    BY DEF Requests
  <1>4. pending' \in Requests
    BY <1>2, <1>3, Joined DEF Requests
  <1>5. late' = [c \in Replaced |->
                  (late[c] \/ c \in overtaken) /\ (rest[c] # <<>> \/ requests[c] = <<>>)]
    BY DEF Exchange
  <1>6. late' \in [Replaced -> BOOLEAN]
    BY <1>5
  <1>7. \A c \in Replaced : requests[c] = <<>> => late'[c] = (late[c] \/ c \in overtaken)
    BY <1>5
  <1>8. ASSUME NEW c \in Class
        PROVE  /\ requests[c] = <<>> => pending'[c] = rest[c]
               /\ requests[c] # <<>> => pending'[c] # <<>> /\ Latest(pending'[c]) = Latest(requests[c])
               /\ rest[c] # <<>> => pending'[c] # <<>>
    <2>1. rest[c] \in Seq(Request) /\ requests[c] \in Seq(Request) /\ pending'[c] = rest[c] \o requests[c]
      BY <1>1, <1>3
    <2> HIDE DEF Exchange
    <2> DEFINE q == rest[c]
               r == requests[c]
    <2>2. q \in Seq(Request) /\ r \in Seq(Request) /\ pending'[c] = q \o r
      BY <2>1
    <2> HIDE DEF q, r
    <2>3. /\ r = <<>> => pending'[c] = q
          /\ r # <<>> => pending'[c] # <<>> /\ Latest(pending'[c]) = Latest(r)
          /\ q # <<>> => pending'[c] # <<>>
      BY <2>2, Joined
    <2> QED BY <2>3 DEF q, r
  <1> QED BY <1>4, <1>6, <1>7, <1>8

LEMMA Sent ==
  ASSUME pending \in Requests, late \in [Replaced -> BOOLEAN],
         NEW requests \in Requests, Send(requests)
  PROVE  /\ pending' \in Requests /\ late' \in [Replaced -> BOOLEAN]
         /\ \A c \in Class : /\ requests[c] = <<>> => pending'[c] = pending[c]
                             /\ pending[c] # <<>> => pending'[c] # <<>>
         /\ \A c \in Replaced : requests[c] = <<>> => late'[c] = late[c]
  <1>1. PICK overtaken \in SUBSET Class : overtaken = {}
    OBVIOUS
  <1>2. Exchange(pending, overtaken, requests)
    BY <1>1 DEF Send
  <1>3. pending' \in Requests /\ late' \in [Replaced -> BOOLEAN]
    BY <1>2, Exchanged
  <1>4. \A c \in Class : requests[c] = <<>> => pending'[c] = pending[c]
    BY <1>2, Exchanged
  <1>5. \A c \in Class : pending[c] # <<>> => pending'[c] # <<>>
    BY <1>2, Exchanged
  <1>6. \A c \in Replaced : requests[c] = <<>> => late'[c] = (late[c] \/ c \in overtaken)
    BY <1>2, Exchanged
  <1>7. \A c \in Replaced : requests[c] = <<>> => late'[c] = late[c]
    BY <1>1, <1>6
  <1> QED BY <1>3, <1>4, <1>5, <1>7

LEMMA WithoutTypes ==
  ASSUME pending \in Requests, NEW c \in Class, NEW i \in DOMAIN pending[c]
  PROVE  /\ Without(c, i) \in Requests
         /\ \A d \in Class \ {c} : Without(c, i)[d] = pending[d]
         /\ Without(c, i)[c] = RemoveAt(pending[c], i)
         /\ pending[c] # <<>>
         /\ i \in 1 .. Len(pending[c]) /\ pending[c][i] \in Request
         /\ Without(c, i)[c] # <<>> /\ i = 1 => Latest(Without(c, i)[c]) = Latest(pending[c])
         /\ Without(c, i)[c] = <<>> => i = 1 /\ pending[c][i] = Latest(pending[c])
  <1>1. pending[c] \in Seq(Request)
    BY DEF Requests
  <1>2. RemoveAt(pending[c], i) \in Seq(Request) /\ Len(RemoveAt(pending[c], i)) = Len(pending[c]) - 1
        /\ (i # Len(pending[c]) => Latest(RemoveAt(pending[c], i)) = Latest(pending[c]))
    BY <1>1, Removed
  <1>3. i \in 1 .. Len(pending[c]) /\ pending[c] # <<>> /\ pending[c][i] \in Request
    BY <1>1
  <1>4. RemoveAt(pending[c], i) # <<>> => Len(pending[c]) > 1
    BY <1>1, <1>2, EmptySeq
  <1>5. RemoveAt(pending[c], i) = <<>> => Len(pending[c]) = 1
    BY <1>1, <1>2
  <1>6. Without(c, i)[c] = RemoveAt(pending[c], i) /\ Without(c, i) \in Requests
        /\ \A d \in Class \ {c} : Without(c, i)[d] = pending[d]
    BY <1>2 DEF Without, Requests
  <1> QED BY <1>1, <1>2, <1>3, <1>4, <1>5, <1>6 DEF Latest

------------------------------------------------------------------------------
(* Where the address stays and nothing of a class is answered.             *)
LEMMA LoadKept ==
  ASSUME LoadInv, UNCHANGED <<history, here, content, view>>,
         pending'["load"] = pending["load"], pending'["var"] = pending["var"],
         late["load"] => late'["load"]
  PROVE  LoadInv'
  BY DEF LoadInv, Shown, AsksForAddress, address

LEMMA MenuKept ==
  ASSUME MenuInv, UNCHANGED <<history, here, menu, unitialized, stored>>,
         pending'["menu"] = pending["menu"],
         pending["var"] # <<>> => pending'["var"] # <<>>,
         pending["post"] # <<>> => pending'["post"] # <<>>,
         pending["upload"] # <<>> => pending'["upload"] # <<>>,
         late["menu"] => late'["menu"]
  PROVE  MenuInv'
  BY DEF MenuInv, MenuShown, ListsDirectory, Listing, address

(* A new address: what it names is asked for last.                         *)
LEMMA Navigates ==
  ASSUME ClientInv, NEW a \in Address, address' = a,
         NEW rest \in Requests, \A c \in Class \ {"var"} : rest[c] = pending[c],
         NEW requests \in Requests, requests["load"] = View(a),
         \A c \in Class \ Replaced : requests[c] = <<>>,
         \/ requests["menu"] # <<>> /\ Latest(requests["menu"]) = Ask("index", a)
         \/ requests["menu"] = <<>> /\ ~unitialized /\ DirOf[a.page] = DirOf[address.page],
         NEW overtaken \in SUBSET (Class \ Replaced), Exchange(rest, overtaken, requests),
         UNCHANGED <<menu, unitialized, stored>>
  PROVE  LoadInv' /\ MenuInv'
  <1>1. late \in [Replaced -> BOOLEAN] /\ overtaken \in SUBSET Class
    BY DEF ClientInv, ClientTypeOK
  <1>2. /\ \A c \in Class :
             /\ requests[c] = <<>> => pending'[c] = rest[c]
             /\ requests[c] # <<>> => pending'[c] # <<>> /\ Latest(pending'[c]) = Latest(requests[c])
        /\ \A c \in Replaced : requests[c] = <<>> => late'[c] = (late[c] \/ c \in overtaken)
    BY <1>1, Exchanged
  <1>3. LoadInv'
    <2>1. ASSUME NEW kind, View(a) # <<>>, Latest(View(a)) = Ask(kind, a),
                 a.query = "" => kind = "data", a.query = "prop" => kind = "meta"
          PROVE  LoadInv'
      <3>1. pending'["load"] # <<>> /\ Latest(pending'["load"]) = Ask(kind, a)
        BY <1>2, <2>1 DEF Class
      <3>2. Ask(kind, a).kind = kind /\ Ask(kind, a).page = a.page
        BY DEF Ask
      <3>3. AsksForAddress(Latest(pending["load"]))'
        BY <2>1, <3>1, <3>2 DEF AsksForAddress, Latest
      <3> QED BY <3>1, <3>3 DEF LoadInv
    <2>2. CASE a.query \notin {"", "prop"}
      BY <2>2 DEF LoadInv, Shown, AsksForAddress
    <2>3. CASE a.query = ""
      BY <2>1, <2>3, ViewAsks
    <2>4. CASE a.query = "prop"
      BY <2>1, <2>4, ViewAsks
    <2> QED BY <2>2, <2>3, <2>4
  <1>4. CASE requests["menu"] # <<>> /\ Latest(requests["menu"]) = Ask("index", a)
    <2>1. pending'["menu"] # <<>> /\ Latest(pending'["menu"]) = Ask("index", a)
      BY <1>2, <1>4 DEF Class
    <2>2. ListsDirectory(Latest(pending["menu"]))'
      BY <2>1 DEF ListsDirectory, Ask, Latest
    <2> QED BY <1>3, <2>1, <2>2 DEF MenuInv
  <1>5. CASE requests["menu"] = <<>> /\ ~unitialized /\ DirOf[a.page] = DirOf[address.page]
    <2>1. /\ pending'["menu"] = pending["menu"] /\ pending'["post"] = pending["post"]
          /\ pending'["upload"] = pending["upload"] /\ late'["menu"] = late["menu"]
      <3>1. rest["menu"] = pending["menu"] /\ rest["post"] = pending["post"] /\ rest["upload"] = pending["upload"]
        BY DEF Class
      <3>2. requests["post"] = <<>> /\ requests["upload"] = <<>> /\ "menu" \notin overtaken
        BY DEF Class, Replaced
      <3>3. "menu" \in Class /\ "post" \in Class /\ "upload" \in Class /\ "menu" \in Replaced
        BY DEF Class, Replaced
      <3>4. late'["menu"] = (late["menu"] \/ "menu" \in overtaken) /\ late["menu"] \in BOOLEAN
        BY <1>1, <1>2, <1>5, <3>3
      <3> QED BY <1>2, <1>5, <3>1, <3>2, <3>3, <3>4
    <2>2. DirOf[address'.page] = DirOf[address.page] /\ Listing(address'.page) = Listing(address.page)
      BY <1>5 DEF Listing
    <2>3. (\A p : Listing(p)' = Listing(p)) /\ Listing(address.page)' = Listing(address.page)
      BY <2>2 DEF Listing
    <2> QED BY <1>3, <1>5, <2>1, <2>2, <2>3 DEF ClientInv, MenuInv, MenuShown, ListsDirectory, Latest
  <1> QED BY <1>3, <1>4, <1>5

------------------------------------------------------------------------------
(* What every action is asked to keep.                                     *)
LEMMA AddressTypes ==
  ASSUME ClientTypeOK
  PROVE  address \in Address /\ address.page \in Page /\ pending \in Requests
         /\ late \in [Replaced -> BOOLEAN]
  <1>1. history \in Seq(Address) /\ here \in DOMAIN history
    BY DEF ClientTypeOK
  <1>2. address \in Address
    BY <1>1 DEF address
  <1>3. address.page \in Page
    BY <1>2 DEF Address
  <1> QED BY <1>2, <1>3 DEF ClientTypeOK, Requests

LEMMA LoadStep ==
  ASSUME ClientInv, moves' \in 0 .. MaxMoves, NEW a \in Address, NEW sameDir \in BOOLEAN,
         sameDir => DirOf[a.page] = DirOf[address.page], Load(a, sameDir)
  PROVE  ClientInv'
  <1> DEFINE requests == LoadRequests(a, sameDir)
  <1>1. /\ pending \in Requests /\ late \in [Replaced -> BOOLEAN] /\ requests \in Requests
        /\ Exchange(pending, {}, requests)
    BY AddressTypes, LoadTypes DEF ClientInv, Load, Send
  <1>2. /\ requests["load"] = View(a) /\ \A c \in Class \ Replaced : requests[c] = <<>>
        /\ requests["menu"] = IF ~sameDir \/ unitialized THEN ReloadMenu(a) ELSE <<>>
    BY LoadTypes
  <1> HIDE DEF requests
  <1>3. /\ history' \in Seq(Address) /\ here' \in DOMAIN history' /\ address' = a
    <2>1. history \in Seq(Address) /\ here \in 1 .. Len(history)
      BY DEF ClientInv, ClientTypeOK
    <2>2. SubSeq(history, 1, here) \in Seq(Address) /\ Len(SubSeq(history, 1, here)) = here
      BY <2>1
    <2>3. history' = Append(SubSeq(history, 1, here), a) /\ here' = here + 1
      BY DEF Load
    <2> QED BY <2>1, <2>2, <2>3 DEF address
  <1>4. pending' \in Requests /\ late' \in [Replaced -> BOOLEAN]
    BY <1>1, Exchanged
  <1>5. UNCHANGED <<started, content, editing, view, menu, unitialized, stored, failures>>
    BY DEF Load, server
  <1>6. ClientTypeOK'
    BY <1>3, <1>4, <1>5 DEF ClientInv, ClientTypeOK, Requests
  <1>7. LoadInv' /\ MenuInv'
    <2>1. \/ requests["menu"] # <<>> /\ Latest(requests["menu"]) = Ask("index", a)
          \/ requests["menu"] = <<>> /\ ~unitialized /\ DirOf[a.page] = DirOf[address.page]
      BY <1>2, MenuAsks
    <2> QED BY <1>1, <1>2, <1>3, <1>5, <2>1, Navigates
  <1> QED BY <1>6, <1>7 DEF ClientInv

LEMMA ReloadStep ==
  ASSUME ClientInv, moves' \in 0 .. MaxMoves, Reload
  PROVE  ClientInv'
  <1> DEFINE requests == LoadRequests(address, FALSE)
  <1>1. /\ pending \in Requests /\ late \in [Replaced -> BOOLEAN] /\ requests \in Requests
        /\ Exchange(pending, {}, requests) /\ address \in Address /\ address' = address
    BY AddressTypes, LoadTypes DEF ClientInv, Reload, Send, address, browser
  <1>2. /\ requests["load"] = View(address) /\ \A c \in Class \ Replaced : requests[c] = <<>>
        /\ requests["menu"] = ReloadMenu(address)
    BY <1>1, LoadTypes
  <1> HIDE DEF requests
  <1>3. pending' \in Requests /\ late' \in [Replaced -> BOOLEAN]
    BY <1>1, Exchanged
  <1>4. UNCHANGED <<history, here, started, content, editing, view, menu, unitialized, stored, failures>>
    BY DEF Reload, server, browser
  <1>5. ClientTypeOK'
    BY <1>3, <1>4 DEF ClientInv, ClientTypeOK, Requests
  <1>6. LoadInv' /\ MenuInv'
    BY <1>1, <1>2, <1>4, MenuAsks, Navigates
  <1> QED BY <1>5, <1>6 DEF ClientInv

LEMMA PopStep ==
  ASSUME ClientInv, moves' \in 0 .. MaxMoves, PopState
  PROVE  ClientInv'
  <1>1. PICK h \in DOMAIN history :
          /\ here' = h
          /\ Send([LoadRequests(history[h], TRUE) EXCEPT !["menu"] = @ \o ReloadMenu(history[h])])
          /\ UNCHANGED <<history, started, content, editing, view, menu, unitialized, server>>
    BY DEF PopState
  <1> DEFINE a == history[h]
             load == LoadRequests(a, TRUE)
             requests == [load EXCEPT !["menu"] = @ \o ReloadMenu(a)]
  <1>2. a \in Address /\ address' = a /\ here' \in DOMAIN history'
    BY <1>1 DEF ClientInv, ClientTypeOK, address
  <1>3. /\ load \in Requests /\ load["load"] = View(a)
        /\ \A c \in Class \ Replaced : load[c] = <<>>
    BY <1>2, LoadTypes
  <1>4. Exchange(pending, {}, requests)
    BY <1>1 DEF Send
  <1>5. ReloadMenu(a) \in Seq(Request) /\ ReloadMenu(a) # <<>> /\ Latest(ReloadMenu(a)) = Ask("index", a)
    BY <1>2, ViewTypes, MenuAsks
  <1> HIDE DEF a, load
  <1>6. /\ requests["menu"] = load["menu"] \o ReloadMenu(a) /\ load["menu"] \in Seq(Request)
        /\ \A c \in Class \ {"menu"} : requests[c] = load[c]
    BY <1>3 DEF Requests, Class
  <1>7. /\ requests["menu"] \in Seq(Request) /\ requests["menu"] # <<>>
        /\ Latest(requests["menu"]) = Ask("index", a)
    BY <1>5, <1>6, Joined
  <1>8. /\ requests \in Requests /\ requests["load"] = View(a)
        /\ \A c \in Class \ Replaced : requests[c] = <<>>
    BY <1>3, <1>6, <1>7 DEF Requests, Class, Replaced
  <1> HIDE DEF requests
  <1>9. pending \in Requests /\ late \in [Replaced -> BOOLEAN]
    BY AddressTypes DEF ClientInv
  <1>10. pending' \in Requests /\ late' \in [Replaced -> BOOLEAN]
    BY <1>4, <1>8, <1>9, Exchanged
  <1>11. UNCHANGED <<history, started, content, editing, view, menu, unitialized, stored, failures>>
    BY <1>1 DEF server
  <1>12. ClientTypeOK'
    BY <1>2, <1>10, <1>11 DEF ClientInv, ClientTypeOK, Requests
  <1>13. LoadInv' /\ MenuInv'
    BY <1>2, <1>4, <1>7, <1>8, <1>9, <1>11, Navigates
  <1> QED BY <1>12, <1>13 DEF ClientInv

(* The editor, a post and an upload leave the address and the document.    *)
LEMMA EditStep ==
  ASSUME ClientInv, moves' \in 0 .. MaxMoves, ToggleEdit
  PROVE  ClientInv'
  <1>1. /\ UNCHANGED <<history, here, pending, started, content, menu, unitialized, stored, failures, late>>
        /\ editing' \in BOOLEAN
        /\ view' = NoSheet("content") \/ view' = view
    BY DEF ToggleEdit, InitViewer, browser, server
  <1>2. ClientTypeOK'
    BY <1>1 DEF ClientInv, ClientTypeOK, NoSheet
  <1>3. LoadInv'
    <2>1. Shown => Shown'
      <3>1. address' = address /\ content' = content
        BY <1>1 DEF address
      <3>2. view'.shows = "content" \/ view' = view
        BY <1>1 DEF NoSheet
      <3> QED BY <3>1, <3>2 DEF Shown
    <2> QED BY <1>1, <2>1 DEF ClientInv, LoadInv, AsksForAddress, address
  <1>4. MenuInv'
    BY <1>1, MenuKept DEF ClientInv
  <1> QED BY <1>2, <1>3, <1>4 DEF ClientInv

LEMMA PostStep ==
  ASSUME ClientInv, moves' \in 0 .. MaxMoves,
         NEW class \in {"post", "upload"}, NEW r \in Request, Send(Only(class, r)),
         UNCHANGED <<browser, started, content, editing, view, menu, unitialized, server>>
  PROVE  ClientInv'
  <1> DEFINE requests == Only(class, r)
  <1>1. /\ requests \in Requests /\ \A c \in Class \ {class} : requests[c] = <<>>
        /\ class \in Class /\ Send(requests)
    BY OnlyTypes DEF Class
  <1> HIDE DEF requests
  <1>2. pending \in Requests /\ late \in [Replaced -> BOOLEAN]
    BY AddressTypes DEF ClientInv
  <1>3. /\ pending' \in Requests /\ late' \in [Replaced -> BOOLEAN]
        /\ \A c \in Class : /\ requests[c] = <<>> => pending'[c] = pending[c]
                            /\ pending[c] # <<>> => pending'[c] # <<>>
        /\ \A c \in Replaced : requests[c] = <<>> => late'[c] = late[c]
    BY <1>1, <1>2, Sent
  <1>4. /\ \A c \in {"var", "load", "menu"} : c \in Class /\ requests[c] = <<>>
        /\ "load" \in Replaced /\ "menu" \in Replaced
    BY <1>1 DEF Class, Replaced
  <1>5. UNCHANGED <<history, here, started, content, editing, view, menu, unitialized, stored, failures>>
    BY DEF browser, server
  <1>6. ClientTypeOK'
    BY <1>3, <1>5 DEF ClientInv, ClientTypeOK, Requests
  <1>7. LoadInv'
    BY <1>3, <1>4, <1>5, LoadKept DEF ClientInv
  <1>8. MenuInv'
    <2>1. pending["post"] # <<>> => pending'["post"] # <<>>
      BY <1>3 DEF Class
    <2>2. pending["upload"] # <<>> => pending'["upload"] # <<>>
      BY <1>3 DEF Class
    <2> QED BY <1>3, <1>4, <1>5, <2>1, <2>2, MenuKept DEF ClientInv
  <1> QED BY <1>6, <1>7, <1>8 DEF ClientInv

------------------------------------------------------------------------------
(* A request is answered: the others of its class stay in order.  If it    *)
(* was not the oldest, the class is late.                                  *)
LEMMA Taken ==
  ASSUME pending \in Requests, late \in [Replaced -> BOOLEAN],
         NEW c \in Class, NEW i \in DOMAIN pending[c],
         NEW requests \in Requests, Answered(c, i, requests)
  PROVE  /\ pending' \in Requests /\ late' \in [Replaced -> BOOLEAN]
         /\ \A d \in Class \ {c} : requests[d] = <<>> => pending'[d] = pending[d]
         /\ \A d \in Class : requests[d] # <<>> =>
              pending'[d] # <<>> /\ Latest(pending'[d]) = Latest(requests[d])
         /\ \A d \in Replaced \ {c} : requests[d] = <<>> => late'[d] = late[d]
         /\ c \in Replaced /\ requests[c] = <<>> /\ ~late'[c] =>
              /\ ~late[c]
              /\ pending'[c] = <<>> => pending[c][i] = Latest(pending[c])
              /\ pending'[c] # <<>> => Latest(pending'[c]) = Latest(pending[c])
  <1> DEFINE rest == Without(c, i)
  <1>1. PICK overtaken \in SUBSET Class : overtaken = IF i > 1 THEN {c} ELSE {}
    OBVIOUS
  <1>2. Exchange(rest, overtaken, requests)
    BY <1>1 DEF Answered
  <1>3. rest \in Requests
    BY WithoutTypes
  <1>4. \A d \in Class \ {c} : rest[d] = pending[d]
    BY WithoutTypes
  <1>5. /\ rest[c] # <<>> /\ i = 1 => Latest(rest[c]) = Latest(pending[c])
        /\ rest[c] = <<>> => pending[c][i] = Latest(pending[c])
        /\ pending[c] \in Seq(Request) /\ i \in 1 .. Len(pending[c])
    BY WithoutTypes DEF Requests
  <1> HIDE DEF rest
  <1>6. pending' \in Requests /\ late' \in [Replaced -> BOOLEAN]
    BY <1>2, <1>3, Exchanged
  <1>7. \A d \in Class : requests[d] = <<>> => pending'[d] = rest[d]
    BY <1>2, <1>3, Exchanged
  <1>8. \A d \in Class : requests[d] # <<>> =>
              pending'[d] # <<>> /\ Latest(pending'[d]) = Latest(requests[d])
    BY <1>2, <1>3, Exchanged
  <1>9. \A d \in Replaced : requests[d] = <<>> => late'[d] = (late[d] \/ d \in overtaken)
    BY <1>2, <1>3, Exchanged
  <1>10. \A d \in Replaced \ {c} : requests[d] = <<>> => late'[d] = late[d]
    BY <1>1, <1>9
  <1>11. ASSUME c \in Replaced, requests[c] = <<>>, ~late'[c]
         PROVE  /\ ~late[c]
                /\ pending'[c] = <<>> => pending[c][i] = Latest(pending[c])
                /\ pending'[c] # <<>> => Latest(pending'[c]) = Latest(pending[c])
    <2>1. ~late[c] /\ c \notin overtaken
      BY <1>9, <1>11
    <2>2. i = 1
      BY <1>1, <1>5, <2>1
    <2>3. pending'[c] = rest[c]
      BY <1>7, <1>11
    <2> QED BY <1>5, <2>1, <2>2, <2>3
  <1> QED BY <1>4, <1>6, <1>7, <1>8, <1>10, <1>11

LEMMA NothingAsked ==
  ASSUME NEW c \in Class PROVE Asked(<<>>, <<>>) \in Requests /\ Asked(<<>>, <<>>)[c] = <<>>
  BY DEF Asked, Requests

(* The answer to ?var: the address is loaded for the first time.           *)
LEMMA VarStep ==
  ASSUME ClientInv, UNCHANGED moves, NEW i \in DOMAIN pending["var"], ReceiveVar(i)
  PROVE  ClientInv'
  <1> DEFINE requests == LoadRequests(address, TRUE)
             rest == Without("var", i)
  <1>1. PICK overtaken \in SUBSET (Class \ Replaced) : overtaken = IF i > 1 THEN {"var"} ELSE {}
    BY DEF Class, Replaced
  <1>2. Exchange(rest, overtaken, requests)
    BY <1>1 DEF ReceiveVar, Answered
  <1>3. /\ address \in Address /\ address' = address /\ pending \in Requests
        /\ late \in [Replaced -> BOOLEAN] /\ "var" \in Class
    BY AddressTypes DEF ClientInv, ReceiveVar, browser, address, Class
  <1>4. /\ requests \in Requests /\ requests["load"] = View(address)
        /\ \A c \in Class \ Replaced : requests[c] = <<>>
        /\ requests["menu"] = IF unitialized THEN ReloadMenu(address) ELSE <<>>
    BY <1>3, LoadTypes
  <1>5. rest \in Requests /\ \A c \in Class \ {"var"} : rest[c] = pending[c]
    BY <1>3, WithoutTypes
  <1> HIDE DEF requests, rest
  <1>6. pending' \in Requests /\ late' \in [Replaced -> BOOLEAN]
    BY <1>2, <1>3, <1>4, <1>5, Exchanged
  <1>7. UNCHANGED <<history, here, content, editing, view, menu, unitialized, stored, failures>>
        /\ started' = TRUE
    BY DEF ReceiveVar, browser, server
  <1>8. ClientTypeOK'
    BY <1>6, <1>7 DEF ClientInv, ClientTypeOK, Requests
  <1>9. LoadInv' /\ MenuInv'
    <2>1. \/ requests["menu"] # <<>> /\ Latest(requests["menu"]) = Ask("index", address)
          \/ requests["menu"] = <<>> /\ ~unitialized
      BY <1>3, <1>4, MenuAsks
    <2> QED BY <1>2, <1>3, <1>4, <1>5, <1>7, <2>1, Navigates
  <1> QED BY <1>8, <1>9 DEF ClientInv

(* The answer to a load.  If it was the last one out and none overtook     *)
(* another, it is what the address names.                                  *)
LEMMA LoadAnswered ==
  ASSUME ClientInv, NEW i \in DOMAIN pending["load"], Answered("load", i, Asked(<<>>, <<>>)),
         UNCHANGED <<history, here, menu, unitialized, stored>>,
         AsksForAddress(pending["load"][i]) => Shown'
  PROVE  /\ pending' \in Requests /\ late' \in [Replaced -> BOOLEAN]
         /\ pending["load"][i] \in Request
         /\ LoadInv' /\ MenuInv'
  <1> DEFINE requests == Asked(<<>>, <<>>)
  <1>1. requests \in Requests /\ \A c \in Class : requests[c] = <<>>
    BY NothingAsked DEF Class
  <1> HIDE DEF requests
  <1>2. pending \in Requests /\ late \in [Replaced -> BOOLEAN] /\ Answered("load", i, requests)
        /\ "load" \in Class /\ "load" \in Replaced /\ address' = address
    BY AddressTypes DEF ClientInv, Class, Replaced, requests, address
  <1>3. pending' \in Requests /\ late' \in [Replaced -> BOOLEAN]
    BY <1>1, <1>2, Taken
  <1>4. \A c \in Class \ {"load"} : pending'[c] = pending[c]
    BY <1>1, <1>2, Taken
  <1>5. \A c \in Replaced \ {"load"} : late'[c] = late[c]
    <2>1. Replaced \subseteq Class
      BY DEF Replaced, Class
    <2> QED BY <1>1, <1>2, <2>1, Taken
  <1>6. ~late'["load"] =>
          /\ ~late["load"]
          /\ pending'["load"] = <<>> => pending["load"][i] = Latest(pending["load"])
          /\ pending'["load"] # <<>> => Latest(pending'["load"]) = Latest(pending["load"])
    BY <1>1, <1>2, Taken
  <1>7. pending["load"][i] \in Request /\ pending["load"] # <<>>
    BY <1>2, WithoutTypes
  <1>8. LoadInv'
    <2> SUFFICES ASSUME pending'["var"] = <<>>, ~late'["load"]
                 PROVE  IF pending'["load"] = <<>> THEN Shown' ELSE AsksForAddress(Latest(pending["load"]))'
      BY DEF LoadInv
    <2>1. pending["var"] = <<>>
      BY <1>4 DEF Class
    <2>2. AsksForAddress(Latest(pending["load"]))
      BY <1>6, <1>7, <2>1 DEF ClientInv, LoadInv
    <2>3. CASE pending'["load"] = <<>>
      BY <1>6, <2>2, <2>3
    <2>4. CASE pending'["load"] # <<>>
      <3>1. Latest(pending'["load"]) = Latest(pending["load"])
        BY <1>6, <2>4
      <3> QED BY <1>2, <2>2, <2>4, <3>1 DEF AsksForAddress, Latest
    <2> QED BY <2>3, <2>4
  <1>9. MenuInv'
    <2>1. /\ pending'["menu"] = pending["menu"] /\ pending'["var"] = pending["var"]
          /\ pending'["post"] = pending["post"] /\ pending'["upload"] = pending["upload"]
          /\ late'["menu"] = late["menu"]
      BY <1>4, <1>5 DEF Class, Replaced
    <2> QED BY <2>1, MenuKept DEF ClientInv
  <1> QED BY <1>3, <1>7, <1>8, <1>9

LEMMA DataStep ==
  ASSUME ClientInv, UNCHANGED moves, NEW i \in DOMAIN pending["load"], ReceiveData(i)
  PROVE  ClientInv'
  <1>1. /\ Answered("load", i, Asked(<<>>, <<>>))
        /\ UNCHANGED <<history, here, started, editing, menu, unitialized, stored, failures>>
        /\ content' = [page |-> pending["load"][i].page, base |-> DirOf[address.page]]
        /\ view' = NoSheet("content")
        /\ pending["load"][i].kind = "data" /\ address' = address
    BY DEF ReceiveData, InitViewer, browser, server, address
  <1>2. AsksForAddress(pending["load"][i]) => Shown'
    BY <1>1 DEF AsksForAddress, Shown, NoSheet
  <1>3. /\ pending' \in Requests /\ late' \in [Replaced -> BOOLEAN]
        /\ pending["load"][i] \in Request /\ LoadInv' /\ MenuInv'
    BY <1>1, <1>2, LoadAnswered
  <1>4. content' \in [page : Page \cup {NoPage}, base : Dir] /\ view' \in
          [shows : {"blank", "content", "sheet"}, page : Page \cup {NoPage}, href : Page \cup {NoPage}]
    BY <1>1, <1>3, AddressTypes DEF ClientInv, Request, Dir, NoSheet
  <1>5. ClientTypeOK'
    BY <1>1, <1>3, <1>4 DEF ClientInv, ClientTypeOK, Requests
  <1> QED BY <1>3, <1>5 DEF ClientInv

LEMMA SheetStep ==
  ASSUME ClientInv, UNCHANGED moves, NEW i \in DOMAIN pending["load"], InitProperties(i)
  PROVE  ClientInv'
  <1>1. /\ Answered("load", i, Asked(<<>>, <<>>))
        /\ UNCHANGED <<history, here, started, content, editing, menu, unitialized, stored, failures>>
        /\ view' = [shows |-> "sheet", page |-> pending["load"][i].page,
                    href |-> IF address.query = "" THEN NoPage ELSE address.page]
        /\ pending["load"][i].kind = "meta" /\ address' = address
    BY DEF InitProperties, browser, server, address
  <1>2. AsksForAddress(pending["load"][i]) => Shown'
    BY <1>1 DEF AsksForAddress, Shown
  <1>3. /\ pending' \in Requests /\ late' \in [Replaced -> BOOLEAN]
        /\ pending["load"][i] \in Request /\ LoadInv' /\ MenuInv'
    BY <1>1, <1>2, LoadAnswered
  <1>4. view' \in
          [shows : {"blank", "content", "sheet"}, page : Page \cup {NoPage}, href : Page \cup {NoPage}]
    BY <1>1, <1>3, AddressTypes DEF ClientInv, Request
  <1>5. ClientTypeOK'
    BY <1>1, <1>3, <1>4 DEF ClientInv, ClientTypeOK, Requests
  <1> QED BY <1>3, <1>5 DEF ClientInv

(* The answer to a reload of the menu.                                     *)
LEMMA IndexStep ==
  ASSUME ClientInv, UNCHANGED moves, NEW i \in DOMAIN pending["menu"], ReceiveIndex(i)
  PROVE  ClientInv'
  <1> DEFINE requests == Asked(<<>>, <<>>)
             r == pending["menu"][i]
  <1>1. requests \in Requests /\ \A c \in Class : requests[c] = <<>>
    BY NothingAsked DEF Class
  <1>2. /\ Answered("menu", i, requests) /\ r.handled
        /\ UNCHANGED <<history, here, started, content, editing, view, stored, failures>>
        /\ menu' = [dir |-> DirOf[r.page], listed |-> r.listed] /\ unitialized' = FALSE
        /\ address' = address
    BY DEF ReceiveIndex, browser, server, address
  <1> HIDE DEF requests
  <1>3. pending \in Requests /\ late \in [Replaced -> BOOLEAN]
        /\ "menu" \in Class /\ "menu" \in Replaced
    BY AddressTypes DEF ClientInv, Class, Replaced
  <1>4. pending' \in Requests /\ late' \in [Replaced -> BOOLEAN]
    BY <1>1, <1>2, <1>3, Taken
  <1>5. \A c \in Class \ {"menu"} : pending'[c] = pending[c]
    BY <1>1, <1>2, <1>3, Taken
  <1>6. late'["load"] = late["load"]
    <2>1. "load" \in Replaced \ {"menu"} /\ "load" \in Class
      BY DEF Replaced, Class
    <2> QED BY <1>1, <1>2, <1>3, <2>1, Taken
  <1>7. ~late'["menu"] =>
          /\ ~late["menu"]
          /\ pending'["menu"] = <<>> => r = Latest(pending["menu"])
          /\ pending'["menu"] # <<>> => Latest(pending'["menu"]) = Latest(pending["menu"])
    BY <1>1, <1>2, <1>3, Taken
  <1>8. r \in Request /\ pending["menu"] # <<>>
    BY <1>3, WithoutTypes
  <1> HIDE DEF r
  <1>9. ClientTypeOK'
    <2>1. menu' \in [dir : Dir \cup {NoPage}, listed : SUBSET Page]
      BY <1>2, <1>8 DEF Request, Dir
    <2> QED BY <1>2, <1>4, <2>1 DEF ClientInv, ClientTypeOK, Requests
  <1>10. LoadInv'
    <2>1. pending'["load"] = pending["load"] /\ pending'["var"] = pending["var"]
      BY <1>5 DEF Class
    <2> QED BY <1>2, <1>6, <2>1, LoadKept DEF ClientInv
  <1>11. MenuInv'
    <2> SUFFICES ASSUME ~late'["menu"], pending'["post"] = <<>>, pending'["upload"] = <<>>
                 PROVE  IF pending'["menu"] = <<>> THEN MenuShown'
                        ELSE ListsDirectory(Latest(pending["menu"]))'
      BY DEF MenuInv
    <2>1. pending["post"] = <<>> /\ pending["upload"] = <<>>
      BY <1>5 DEF Class
    <2>2. ListsDirectory(Latest(pending["menu"]))
      BY <1>7, <1>8, <2>1 DEF ClientInv, MenuInv
    <2>3. CASE pending'["menu"] = <<>>
      <3>1. DirOf[r.page] = DirOf[address.page] /\ r.listed = Listing(r.page)
        BY <1>2, <1>7, <2>2, <2>3 DEF ListsDirectory
      <3>2. Listing(r.page) = Listing(address.page) /\ Listing(address.page)' = Listing(address.page)
        BY <1>2, <3>1 DEF Listing
      <3> QED BY <1>2, <2>3, <3>1, <3>2 DEF MenuShown
    <2>4. CASE pending'["menu"] # <<>>
      <3>1. Latest(pending'["menu"]) = Latest(pending["menu"])
        BY <1>7, <2>4
      <3>2. \A q : ListsDirectory(q) => ListsDirectory(q)'
        BY <1>2 DEF ListsDirectory, Listing
      <3> QED BY <2>2, <2>4, <3>1, <3>2 DEF Latest
    <2> QED BY <2>3, <2>4
  <1> QED BY <1>9, <1>10, <1>11 DEF ClientInv

(* What was saved or uploaded is followed by a reload of the menu.         *)
LEMMA PostedStep ==
  ASSUME ClientInv, UNCHANGED moves, NEW c \in {"post", "upload"},
         NEW i \in DOMAIN pending[c], ReceivePosted(c, i)
  PROVE  ClientInv'
  <1> DEFINE requests == Asked(<<>>, ReloadMenu(address))
  <1>1. /\ pending \in Requests /\ late \in [Replaced -> BOOLEAN] /\ address \in Address
        /\ c \in Class /\ c \notin Replaced
    BY AddressTypes DEF ClientInv, Class, Replaced
  <1>2. <<>> \in Seq(Request) /\ ReloadMenu(address) \in Seq(Request)
    BY <1>1, ViewTypes
  <1>3. /\ requests \in Requests /\ requests["load"] = <<>>
        /\ requests["menu"] = ReloadMenu(address) /\ requests["menu"] # <<>>
        /\ Latest(requests["menu"]) = Ask("index", address)
        /\ \A d \in Class \ Replaced : requests[d] = <<>>
    BY <1>1, <1>2, AskedTypes, MenuAsks, ZenonT(60)
  <1>4. /\ Answered(c, i, requests)
        /\ UNCHANGED <<history, here, started, content, editing, view, menu, unitialized, stored, failures>>
        /\ address' = address
    BY DEF ReceivePosted, browser, server, address
  <1> HIDE DEF requests
  <1>5. pending' \in Requests /\ late' \in [Replaced -> BOOLEAN]
    BY <1>1, <1>3, <1>4, Taken
  <1>6. pending'["load"] = pending["load"] /\ pending'["var"] = pending["var"]
    <2>1. /\ "load" \in Class \ {c} /\ "var" \in Class \ {c}
          /\ requests["load"] = <<>> /\ requests["var"] = <<>>
      BY <1>1, <1>3 DEF Class, Replaced
    <2> QED BY <1>1, <1>3, <1>4, <2>1, Taken
  <1>7. late'["load"] = late["load"]
    <2>1. "load" \in Replaced \ {c}
      BY DEF Replaced
    <2> QED BY <1>1, <1>3, <1>4, <2>1, Taken
  <1>8. pending'["menu"] # <<>> /\ Latest(pending'["menu"]) = Ask("index", address)
    <2>1. "menu" \in Class
      BY DEF Class
    <2> QED BY <1>1, <1>3, <1>4, <2>1, Taken
  <1>9. ClientTypeOK'
    BY <1>4, <1>5 DEF ClientInv, ClientTypeOK, Requests
  <1>10. LoadInv'
    BY <1>4, <1>6, <1>7, LoadKept DEF ClientInv
  <1>11. MenuInv'
    <2>1. ListsDirectory(Latest(pending["menu"]))'
      BY <1>4, <1>8 DEF ListsDirectory, Ask, Latest
    <2> QED BY <1>8, <2>1 DEF MenuInv
  <1> QED BY <1>9, <1>10, <1>11 DEF ClientInv

(* The server takes a request.  A save or an upload that changes what a    *)
(* menu should list is still out then.                                     *)
LEMMA ServeStep ==
  ASSUME ClientInv, UNCHANGED moves, NEW c \in Class, NEW i \in DOMAIN pending[c], Serve(c, i)
  PROVE  ClientInv'
  <1>1. PICK r : r = pending[c][i]
    OBVIOUS
  <1>2. /\ pending \in Requests /\ pending[c] \in Seq(Request) /\ i \in 1 .. Len(pending[c])
        /\ r \in Request /\ pending[c] # <<>>
    BY <1>1, AddressTypes, WithoutTypes DEF ClientInv, Requests
  <1>3. r.page \in Page /\ stored \subseteq Page
    BY <1>2 DEF Request, ClientInv, ClientTypeOK
  <1>4. PICK listed \in SUBSET Page : listed = IF c = "menu" THEN Listing(r.page) ELSE {}
    BY <1>3 DEF Listing
  <1>5. PICK served \in Request :
          /\ served = [r EXCEPT !.handled = TRUE, !.listed = listed]
          /\ served.page = r.page /\ served.handled = TRUE /\ served.listed = listed
    <2> DEFINE s == [r EXCEPT !.handled = TRUE, !.listed = listed]
    <2>1. s \in Request /\ s.page = r.page /\ s.handled = TRUE /\ s.listed = listed
      BY <1>2 DEF Request
    <2> QED BY <2>1
  <1>6. pending' = [pending EXCEPT ![c] = [pending[c] EXCEPT ![i] = served]]
    BY <1>1, <1>4, <1>5 DEF Serve
  <1>7. /\ c \in {"menu", "post", "upload"}
        /\ UNCHANGED <<history, here, started, content, editing, view, menu, unitialized, late, failures>>
        /\ stored' \in {stored, stored \ {r.page}, stored \cup {r.page}}
        /\ c = "menu" => stored' = stored
        /\ address' = address
    BY <1>1 DEF Serve, browser, address
  <1>8. /\ pending'[c] = [pending[c] EXCEPT ![i] = served]
        /\ \A d \in Class \ {c} : pending'[d] = pending[d]
    BY <1>2, <1>6 DEF Requests
  <1>9. /\ pending'[c] \in Seq(Request) /\ Len(pending'[c]) = Len(pending[c]) /\ pending'[c] # <<>>
        /\ \A k \in 1 .. Len(pending[c]) : pending'[c][k] = IF k = i THEN served ELSE pending[c][k]
    BY <1>2, <1>8
  <1>10. pending' \in Requests
    BY <1>2, <1>6, <1>8, <1>9 DEF Requests
  <1>11. ClientTypeOK'
    BY <1>7, <1>3, <1>10 DEF ClientInv, ClientTypeOK, Requests
  <1>12. LoadInv'
    <2>1. pending'["load"] = pending["load"] /\ pending'["var"] = pending["var"]
      BY <1>7, <1>8 DEF Class
    <2> QED BY <1>7, <2>1, LoadKept DEF ClientInv
  <1>13. CASE c = "menu"
    <2>1. /\ pending'["var"] = pending["var"] /\ pending'["post"] = pending["post"]
          /\ pending'["upload"] = pending["upload"]
      BY <1>8, <1>13 DEF Class
    <2>2. \A q : ListsDirectory(q) => ListsDirectory(q)'
      BY <1>7, <1>13 DEF ListsDirectory, Listing
    <2>3. ListsDirectory(r) => ListsDirectory(served)'
      BY <1>4, <1>5, <1>13, <1>7 DEF ListsDirectory, Listing
    <2>4. ListsDirectory(Latest(pending["menu"])) => ListsDirectory(Latest(pending["menu"]))'
      BY <1>1, <1>2, <1>9, <1>13, <2>2, <2>3 DEF Latest
    <2>5. MenuInv'
      BY <1>2, <1>9, <1>13, <1>7, <2>1, <2>4 DEF ClientInv, MenuInv
    <2> QED BY <1>11, <1>12, <2>5 DEF ClientInv
  <1>14. CASE c \in {"post", "upload"}
    <2>1. MenuInv'
      BY <1>9, <1>14 DEF MenuInv
    <2> QED BY <1>11, <1>12, <2>1 DEF ClientInv
  <1> QED BY <1>13, <1>14, <1>7

(* A failure makes everything late that the answer would have brought.     *)
LEMMA FailStep ==
  ASSUME ClientInv, UNCHANGED moves, NEW c \in Class, NEW i \in DOMAIN pending[c], Fail(c, i)
  PROVE  ClientInv'
  <1>1. /\ failures < MaxFailures /\ failures' = failures + 1
        /\ pending' = Without(c, i)
        /\ view' = NoSheet("content") \/ view' = view
        /\ unitialized' = (unitialized /\ c # "menu")
        /\ UNCHANGED <<history, here, started, content, editing, menu, stored>>
        /\ address' = address
    BY DEF Fail, InitViewer, browser, address
  <1>2. late' = [d \in Replaced |-> late[d] \/ c \in {d, "var"} \/ (d = "menu" /\ c # "load")]
    BY DEF Fail
  <1>3. /\ late' \in [Replaced -> BOOLEAN]
        /\ late["load"] \/ c \in {"load", "var"} => late'["load"]
        /\ late["menu"] \/ c # "load" => late'["menu"]
    <2>1. late \in [Replaced -> BOOLEAN]
      BY AddressTypes DEF ClientInv
    <2> QED BY <1>2, <2>1 DEF Replaced
  <1>4. pending' \in Requests /\ \A d \in Class \ {c} : pending'[d] = pending[d]
    BY <1>1, AddressTypes, WithoutTypes DEF ClientInv
  <1>5. ClientTypeOK'
    BY <1>1, <1>3, <1>4, ClientAssumption DEF ClientInv, ClientTypeOK, Requests, NoSheet
  <1>6. LoadInv'
    <2>1. CASE c \in {"load", "var"}
      BY <1>3, <2>1 DEF LoadInv
    <2>2. CASE c \notin {"load", "var"}
      <3>1. /\ pending'["load"] = pending["load"] /\ pending'["var"] = pending["var"]
            /\ late["load"] => late'["load"]
        BY <1>3, <1>4, <2>2 DEF Class
      <3>2. view'.shows = "content" \/ view' = view
        BY <1>1 DEF NoSheet
      <3>3. Shown => Shown'
        BY <1>1, <3>2 DEF Shown
      <3> QED BY <1>1, <3>1, <3>3 DEF ClientInv, LoadInv, AsksForAddress, Latest
    <2> QED BY <2>1, <2>2
  <1>7. MenuInv'
    <2>1. CASE c # "load"
      BY <1>3, <2>1 DEF MenuInv
    <2>2. CASE c = "load"
      <3>1. /\ pending'["menu"] = pending["menu"] /\ pending'["var"] = pending["var"]
            /\ pending'["post"] = pending["post"] /\ pending'["upload"] = pending["upload"]
            /\ late["menu"] => late'["menu"]
        BY <1>3, <1>4, <2>2 DEF Class
      <3>2. unitialized' = unitialized
        BY <1>1, <2>2 DEF ClientInv, ClientTypeOK
      <3> QED BY <1>1, <3>1, <3>2, MenuKept DEF ClientInv
    <2> QED BY <2>1, <2>2
  <1> QED BY <1>5, <1>6, <1>7 DEF ClientInv

------------------------------------------------------------------------------
LEMMA ClientInits == Init => ClientInv
  <1> SUFFICES ASSUME Init PROVE ClientInv
    OBVIOUS
  <1>1. PICK a \in FirstAddress : history = <<a>> /\ here = 1
    BY DEF Init
  <1>2. a \in Address /\ address = a /\ history \in Seq(Address) /\ here \in DOMAIN history
    BY <1>1, ClientAssumption DEF address
  <1>3. a.page \in Page
    BY <1>2 DEF Address
  <1> DEFINE r == Ask("var", a)
  <1>4. r \in Request /\ "var" \in Class
    BY <1>2, AskTypes DEF Kind, Class
  <1>5. pending = Only("var", r)
    BY <1>2 DEF Init
  <1> HIDE DEF r
  <1>6. pending \in Requests /\ pending["var"] = <<r>> /\ \A c \in Class \ {"var"} : pending[c] = <<>>
    BY <1>4, <1>5, OnlyTypes
  <1>7. late \in [Replaced -> BOOLEAN] /\ unitialized = TRUE
    BY DEF Init
  <1>8. ClientTypeOK
    <2>1. /\ content = [page |-> NoPage, base |-> DirOf[a.page]] /\ view = NoSheet("blank")
          /\ menu = [dir |-> NoPage, listed |-> {}] /\ stored = FirstStored
          /\ started = FALSE /\ editing = FALSE /\ failures = 0 /\ moves = 0
      BY <1>2 DEF Init
    <2>2. content \in [page : Page \cup {NoPage}, base : Dir] /\ view \in
            [shows : {"blank", "content", "sheet"}, page : Page \cup {NoPage}, href : Page \cup {NoPage}]
      BY <1>3, <2>1 DEF Dir, NoSheet
    <2>3. menu \in [dir : Dir \cup {NoPage}, listed : SUBSET Page] /\ stored \subseteq Page
      BY <2>1, ClientAssumption
    <2>4. failures \in 0 .. MaxFailures /\ moves \in 0 .. MaxMoves
      BY <2>1, ClientAssumption
    <2> QED BY <1>2, <1>6, <1>7, <2>1, <2>2, <2>3, <2>4 DEF ClientTypeOK, Requests
  <1>9. LoadInv
    BY <1>6 DEF LoadInv
  <1>10. MenuInv
    <2>1. pending["menu"] = <<>> /\ pending["var"] # <<>>
      BY <1>6 DEF Class
    <2> QED BY <1>7, <2>1 DEF MenuInv
  <1> QED BY <1>8, <1>9, <1>10 DEF ClientInv

LEMMA UserSteps == ASSUME ClientInv, moves' \in 0 .. MaxMoves, User PROVE ClientInv'
  <1>1. address \in Address /\ address.page \in Page
    BY AddressTypes DEF ClientInv
  <1>2. ASSUME NEW p \in Page, NEW query \in Query, NEW sameDir \in BOOLEAN,
               sameDir => DirOf[p] = DirOf[address.page],
               Load([page |-> p, query |-> query], sameDir)
        PROVE  ClientInv'
    <2>1. [page |-> p, query |-> query] \in Address
      BY DEF Address
    <2> QED BY <1>2, <2>1, LoadStep
  <1>3. "" \in Query /\ "prop" \in Query
    BY DEF Query
  <1>4. ASSUME NEW p \in Page, NEW query \in Query, FollowPath(p, query) PROVE ClientInv'
    BY <1>2, <1>4 DEF FollowPath
  <1>5. CASE FollowMenu
    <2>1. menu.listed \subseteq Page
      BY DEF ClientInv, ClientTypeOK
    <2> QED BY <1>3, <1>4, <1>5, <2>1 DEF FollowMenu
  <1>6. CASE FollowLogo
    <2>1. MainPage \in Page
      BY ClientAssumption
    <2> QED BY <1>3, <1>4, <1>6, <2>1 DEF FollowLogo
  <1>7. CASE FollowLink
    BY <1>2, <1>3, <1>7 DEF FollowLink
  <1>8. CASE PressProperties
    <2>1. CASE view.shows = "content" /\ Load([address EXCEPT !.query = "prop"], FALSE)
      <3>1. [address EXCEPT !.query = "prop"] \in Address
        BY <1>1, <1>3 DEF Address
      <3> QED BY <2>1, <3>1, LoadStep
    <2>2. CASE Reload
      BY <2>2, ReloadStep
    <2>3. CASE view.href # NoPage /\ Load([page |-> view.href, query |-> ""], FALSE)
      <3>1. view.href \in Page
        BY <2>3 DEF ClientInv, ClientTypeOK
      <3> QED BY <1>2, <1>3, <2>3, <3>1
    <2> QED BY <1>8, <2>1, <2>2, <2>3 DEF PressProperties
  <1>9. CASE PopState
    BY <1>9, PopStep
  <1>10. CASE ToggleEdit
    BY <1>10, EditStep
  <1>11. CASE SaveDoc
    <2>1. PICK empty \in BOOLEAN : Send(Only("post", [Ask("post", address) EXCEPT !.empty = empty]))
      BY <1>11 DEF SaveDoc
    <2>2. [Ask("post", address) EXCEPT !.empty = empty] \in Request
      BY <1>1 DEF Ask, Request, Kind
    <2>3. UNCHANGED <<browser, started, content, editing, view, menu, unitialized, server>>
      BY <1>11 DEF SaveDoc
    <2> QED BY <2>1, <2>2, <2>3, PostStep
  <1>12. CASE DropFile
    <2>1. PICK f \in Page \ Html : Send(Only("upload", Ask("upload", [page |-> f])))
      BY <1>12 DEF DropFile
    <2>2. Ask("upload", [page |-> f]) \in Request
      BY DEF Ask, Request, Kind
    <2>3. UNCHANGED <<browser, started, content, editing, view, menu, unitialized, server>>
      BY <1>12 DEF DropFile
    <2> QED BY <2>1, <2>2, <2>3, PostStep
  <1> QED BY <1>5, <1>6, <1>7, <1>8, <1>9, <1>10, <1>11, <1>12 DEF User

LEMMA ClientSteps == ClientInv /\ [Next]_vars => ClientInv'
  <1> SUFFICES ASSUME ClientInv, [Next]_vars PROVE ClientInv'
    OBVIOUS
  <1>1. CASE Move
    <2>1. moves' \in 0 .. MaxMoves /\ User
      BY <1>1, ClientAssumption DEF Move, ClientInv, ClientTypeOK
    <2> QED BY <2>1, UserSteps
  <1>2. ASSUME NEW c \in Class, NEW i \in DOMAIN pending[c], Answer(c, i) PROVE ClientInv'
    <2>1. UNCHANGED moves
      BY <1>2 DEF Answer
    <2>2. CASE Serve(c, i)
      BY <2>1, <2>2, ServeStep
    <2>3. CASE Fail(c, i)
      BY <2>1, <2>3, FailStep
    <2>4. CASE Receive(c, i)
      BY <2>1, <2>4, VarStep, DataStep, SheetStep, IndexStep, PostedStep DEF Receive
    <2> QED BY <1>2, <2>2, <2>3, <2>4 DEF Answer
  <1>3. CASE UNCHANGED vars
    <2>1. UNCHANGED <<history, here, pending, started, content, editing, view, menu, unitialized,
                      stored, failures, late, moves>>
      BY <1>3 DEF vars, browser, server
    <2>2. ClientTypeOK'
      BY <2>1 DEF ClientInv, ClientTypeOK
    <2> QED BY <2>1, <2>2, LoadKept, MenuKept DEF ClientInv
  <1> QED BY <1>1, <1>2, <1>3 DEF Next

(* The client's state stays in its type: no request or page is about       *)
(* anything but pages of the site (webwrite.js).                           *)
THEOREM ClientTypes == Spec => []ClientTypeOK
  <1>1. ClientInv => ClientTypeOK
    BY DEF ClientInv
  <1> QED BY <1>1, ClientInits, ClientSteps, PTL DEF Spec

(* However fast the user moves, saves and uploads, and whatever fails, if  *)
(* the answers came in turn the document shows the page of the address and *)
(* the menu its directory as the server has it (Load, ReloadMenu,          *)
(* InitProperties).                                                        *)
THEOREM SettlesOnPage == Spec => []PageSettles
  <1>1. ClientInv => PageSettles
    BY DEF ClientInv, LoadInv, MenuInv, MenuShown, PageSettles, SettlesOnAddress, MenuSettles, Settled
  <1> QED BY <1>1, ClientInits, ClientSteps, PTL DEF Spec
=============================================================================
