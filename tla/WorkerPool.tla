----------------------------- MODULE WorkerPool -----------------------------
(***************************************************************************)
(* The process of webwrite: main() starts the worker threads and joins     *)
(* them, each Thread() takes a request under the accept mutex and hands it *)
(* to RootServer::Work, which counts calls and time in the shared Handler  *)
(* records that RootServer::ServeStats reads.                              *)
(***************************************************************************)
EXTENDS Naturals, Sequences, FiniteSets

CONSTANTS
  Workers,      \* Cfg::thread, the number of worker threads
  Handlers,     \* how many handlers the table m_srv has
  Stats,        \* the place of ServeStats in the table
  Nobody,       \* no thread holds the accept mutex
  NoReq,        \* the thread has no request
  MaxElapse,    \* bound: the time a handler takes
  MaxErrors,    \* bound: how often FCGX_Accept_r() fails
  MaxRequests   \* bound: how many requests clients send

ASSUME PoolAssumption ==
  /\ Workers \in Nat
  /\ Handlers \in Nat
  /\ Stats \in 1 .. Handlers
  /\ MaxElapse \in Nat /\ MaxErrors \in Nat /\ MaxRequests \in Nat
  /\ Nobody \notin 1 .. Workers

VARIABLES
  process,    \* what main() does, or how it ended
  created,    \* how many threads main() has started
  joined,     \* how many it has joined, in the order it started them
  pc,         \* thread -> the call it makes next
  mutex,      \* the thread that holds accept_mutex, or Nobody
  backlog,    \* the requests at the listening socket
  arrived,    \* how many requests clients have sent so far
  req,        \* thread -> the request it serves
  answered,   \* the requests that have been answered
  count,      \* handler -> Handler::count
  elapse,     \* handler -> Handler::elapse
  cursor,     \* thread -> the handler its ServeStats is at
  got,        \* thread -> the count it has read there
  report,     \* thread -> handler -> what its last ServeStats reported
  errors      \* how often FCGX_Accept_r() has failed

main    == <<process, created, joined>>
socket  == <<backlog, arrived, answered, errors>>
stats   == <<count, elapse>>
reading == <<cursor, got, report>>
vars    == <<main, pc, mutex, socket, req, stats, reading>>

Thread  == 1 .. Workers
Handler == 1 .. Handlers
Route   == {"invalid", "redirect", "notfound", "handler"}
Id      == 1 .. MaxRequests    \* requests are numbered as they arrive

(* Only a request that Work hands to a handler has one.                    *)
Request == {r \in [id : Id, route : Route, handler : Handler] :
              r.route # "handler" => r.handler = Stats}

ASSUME NoReqAssumption == NoReq \notin Request

Label == {"none", "lock", "accept", "unlock", "resource", "work", "call",
          "count", "time", "elapse", "bump", "finish", "gone"}

At(t, here) == process \in {"starting", "joining"} /\ pc[t] = here
Goto(t, there) == pc' = [pc EXCEPT ![t] = there]
HandlerOf(t) == req[t].handler

-----------------------------------------------------------------------------
(* main(): start the threads, join them in turn, return.                   *)
StartThreadOneMore ==   \* mutant: starts a thread more than is configured
  /\ process = "starting"
  /\ IF created <= Workers
       THEN /\ created' = created + 1
            /\ pc' = [pc EXCEPT ![created + 1] = "lock"]
            /\ UNCHANGED process
       ELSE process' = "joining" /\ UNCHANGED <<created, pc>>
  /\ UNCHANGED <<joined, mutex, socket, req, stats, reading>>

StartThread ==
  /\ process = "starting"
  /\ IF created < Workers
       THEN /\ created' = created + 1
            /\ pc' = [pc EXCEPT ![created + 1] = "lock"]
            /\ UNCHANGED process
       ELSE process' = "joining" /\ UNCHANGED <<created, pc>>
  /\ UNCHANGED <<joined, mutex, socket, req, stats, reading>>

JoinDetached ==   \* mutant: does not wait for the thread
  /\ process = "joining"
  /\ joined < Workers
  /\ joined' = joined + 1
  /\ UNCHANGED <<process, created, pc, mutex, socket, req, stats, reading>>

Join ==
  /\ process = "joining"
  /\ joined < Workers
  /\ pc[joined + 1] = "gone"
  /\ joined' = joined + 1
  /\ UNCHANGED <<process, created, pc, mutex, socket, req, stats, reading>>

Return ==
  /\ process = "joining"
  /\ joined = Workers
  /\ process' = "returned"
  /\ UNCHANGED <<created, joined, pc, mutex, socket, req, stats, reading>>

Main == StartThread \/ Join \/ Return

(* An exception no one catches, and a thread that main() cannot start.     *)
Terminate ==
  /\ process' = "terminated"
  /\ pc' = [t \in Thread |-> "none"]
  /\ req' = [t \in Thread |-> NoReq]
  /\ UNCHANGED <<created, joined, mutex, socket, stats, reading>>

StartFails == process = "starting" /\ created < Workers /\ Terminate

-----------------------------------------------------------------------------
(* Thread(): FCGX_Accept_r() blocks with the mutex held until a request is *)
(* there; the library takes requests from the socket in turn.              *)
LockNot(t) ==   \* mutant: the accept mutex is not taken
  /\ At(t, "lock")
  /\ mutex' = t
  /\ Goto(t, "accept")
  /\ UNCHANGED <<main, socket, req, stats, reading>>

Lock(t) ==
  /\ At(t, "lock")
  /\ mutex = Nobody
  /\ mutex' = t
  /\ Goto(t, "accept")
  /\ UNCHANGED <<main, socket, req, stats, reading>>

Accept(t) ==
  /\ At(t, "accept")
  /\ backlog # <<>>
  /\ req' = [req EXCEPT ![t] = Head(backlog)]
  /\ backlog' = Tail(backlog)
  /\ Goto(t, "unlock")
  /\ UNCHANGED <<main, mutex, arrived, answered, errors, stats, reading>>

AcceptFails(t) ==
  /\ At(t, "accept")
  /\ errors < MaxErrors
  /\ errors' = errors + 1
  /\ Goto(t, "unlock")
  /\ UNCHANGED <<main, mutex, backlog, arrived, answered, req, stats, reading>>

UnlockLate(t) ==   \* mutant: a thread that leaves keeps the mutex
  /\ At(t, "unlock")
  /\ IF req[t] = NoReq
       THEN Goto(t, "gone") /\ UNCHANGED mutex
       ELSE Goto(t, "resource") /\ mutex' = Nobody
  /\ UNCHANGED <<main, socket, req, stats, reading>>

Unlock(t) ==
  /\ At(t, "unlock")
  /\ mutex' = Nobody
  /\ Goto(t, IF req[t] = NoReq THEN "gone" ELSE "resource")
  /\ UNCHANGED <<main, socket, req, stats, reading>>

(* Resource::Resource throws when the URI is not below wb_root.            *)
MakeResource(t) ==
  /\ At(t, "resource")
  /\ IF req[t].route = "invalid"
       THEN Terminate
       ELSE /\ Goto(t, "work")
            /\ UNCHANGED <<main, mutex, socket, req, stats, reading>>

FinishStale(t) ==   \* mutant: the thread keeps the request it has answered
  /\ At(t, "finish")
  /\ answered' = answered \cup {req[t]}
  /\ Goto(t, "lock")
  /\ UNCHANGED <<main, mutex, backlog, arrived, errors, req, stats, reading>>

(* FCGX_Finish_r() sends the answer.                                       *)
Finish(t) ==
  /\ At(t, "finish")
  /\ answered' = answered \cup {req[t]}
  /\ req' = [req EXCEPT ![t] = NoReq]
  /\ Goto(t, "lock")
  /\ UNCHANGED <<main, mutex, backlog, arrived, errors, stats, reading>>

-----------------------------------------------------------------------------
(* RootServer::Work: redirect, or call the handler of the method and query.*)
WorkCountsAll(t) ==   \* mutant: redirects go into the statistics too
  /\ At(t, "work")
  /\ Goto(t, IF req[t].route = "notfound" THEN "finish"
             ELSE IF req[t].route = "handler" /\ HandlerOf(t) = Stats THEN "count"
             ELSE "call")
  /\ cursor' = [cursor EXCEPT ![t] = 1]
  /\ UNCHANGED <<main, mutex, socket, req, stats, got, report>>

Work(t) ==
  /\ At(t, "work")
  /\ Goto(t, IF req[t].route # "handler" THEN "finish"
             ELSE IF HandlerOf(t) = Stats THEN "count" ELSE "call")
  /\ cursor' = [cursor EXCEPT ![t] = 1]
  /\ UNCHANGED <<main, mutex, socket, req, stats, got, report>>

(* Any other handler: it returns or it throws.                             *)
Call(t) ==
  /\ At(t, "call")
  /\ \/ /\ Goto(t, "elapse")
        /\ UNCHANGED <<main, mutex, socket, req, stats, reading>>
     \/ Terminate

(* Two atomic additions, the time before the count.                        *)
RecordCountFirst(t) ==   \* mutant: the count before the time
  \/ /\ At(t, "elapse")
     /\ count' = [count EXCEPT ![HandlerOf(t)] = @ + 1]
     /\ Goto(t, "bump")
     /\ UNCHANGED <<main, mutex, socket, req, elapse, reading>>
  \/ /\ At(t, "bump")
     /\ \E time \in 1 .. MaxElapse :
          elapse' = [elapse EXCEPT ![HandlerOf(t)] = @ + time]
     /\ Goto(t, "finish")
     /\ UNCHANGED <<main, mutex, socket, req, count, reading>>

AddTime(t) ==
  /\ At(t, "elapse")
  /\ \E time \in 1 .. MaxElapse :
       elapse' = [elapse EXCEPT ![HandlerOf(t)] = @ + time]
  /\ Goto(t, "bump")
  /\ UNCHANGED <<main, mutex, socket, req, count, reading>>

AddCount(t) ==
  /\ At(t, "bump")
  /\ count' = [count EXCEPT ![HandlerOf(t)] = @ + 1]
  /\ Goto(t, "finish")
  /\ UNCHANGED <<main, mutex, socket, req, elapse, reading>>

Record(t) == AddTime(t) \/ AddCount(t)

-----------------------------------------------------------------------------
(* RootServer::ServeStats: of each handler the count, then the time.       *)
ReadCount(t) ==
  /\ At(t, "count")
  /\ got' = [got EXCEPT ![t] = count[cursor[t]]]
  /\ Goto(t, "time")
  /\ UNCHANGED <<main, mutex, socket, req, stats, cursor, report>>

ReadTime(t) ==
  /\ At(t, "time")
  /\ report' = [report EXCEPT ![t][cursor[t]] =
                  [count |-> got[t], elapse |-> elapse[cursor[t]]]]
  /\ IF cursor[t] < Handlers
       THEN cursor' = [cursor EXCEPT ![t] = @ + 1] /\ Goto(t, "count")
       ELSE Goto(t, "elapse") /\ UNCHANGED cursor
  /\ UNCHANGED <<main, mutex, socket, req, stats, got>>

-----------------------------------------------------------------------------
(* A client's request reaches the socket, whatever the server does.        *)
Arrive ==
  /\ arrived < MaxRequests
  /\ arrived' = arrived + 1
  /\ \E r \in Request : r.id = arrived' /\ backlog' = Append(backlog, r)
  /\ UNCHANGED <<main, pc, mutex, answered, errors, req, stats, reading>>

Serve(t) ==
  \/ Lock(t) \/ Accept(t) \/ Unlock(t) \/ MakeResource(t) \/ Work(t) \/ Call(t)
  \/ ReadCount(t) \/ ReadTime(t) \/ Record(t) \/ Finish(t)

Next ==
  \/ Main \/ StartFails \/ Arrive
  \/ \E t \in Thread : Serve(t) \/ AcceptFails(t)

Init ==
  /\ process = "starting" /\ created = 0 /\ joined = 0
  /\ pc = [t \in Thread |-> "none"]
  /\ mutex = Nobody
  /\ backlog = <<>> /\ arrived = 0 /\ answered = {} /\ errors = 0
  /\ req = [t \in Thread |-> NoReq]
  /\ count = [h \in Handler |-> 0] /\ elapse = [h \in Handler |-> 0]
  /\ cursor = [t \in Thread |-> 1] /\ got = [t \in Thread |-> 0]
  /\ report = [t \in Thread |-> [h \in Handler |-> [count |-> 0, elapse |-> 0]]]

Spec == Init /\ [][Next]_vars

(* The system lets every thread that can go on go on.                      *)
FairSpec == Spec /\ WF_vars(Main) /\ \A t \in Thread : WF_vars(Serve(t))

-----------------------------------------------------------------------------
(* Every variable stays in its type; no thread is started beyond Workers.  *)
TypeOK ==
  /\ process \in {"starting", "joining", "returned", "terminated"}
  /\ created \in 0 .. Workers /\ joined \in 0 .. Workers
  /\ pc \in [Thread -> Label]
  /\ mutex \in Thread \cup {Nobody}
  /\ backlog \in Seq(Request) /\ arrived \in 0 .. MaxRequests
  /\ answered \subseteq Request /\ errors \in Nat
  /\ req \in [Thread -> Request \cup {NoReq}]
  /\ count \in [Handler -> Nat] /\ elapse \in [Handler -> Nat]
  /\ cursor \in [Thread -> Handler] /\ got \in [Thread -> Nat]
  /\ report \in [Thread -> [Handler -> [count : Nat, elapse : Nat]]]

(* At most one thread is in FCGX_Accept_r(), as main.cc's mutex is for.    *)
AcceptExclusive ==
  \A t, u \in Thread : pc[t] = "accept" /\ pc[u] = "accept" => t = u

(* A report never counts a call whose time is missing from it, so that the *)
(* average it gives is never below the shortest call: Work adds the time   *)
(* before the count, ServeStats reads the count before the time.           *)
ReportCovers ==
  \A t \in Thread, h \in Handler : report[t][h].count <= report[t][h].elapse

(* The counter of a handler is the number of its calls that returned: none *)
(* is lost between threads, and a redirect or an unknown query adds none.  *)
Handled(r, h) == r.route = "handler" /\ r.handler = h
CountExact ==
  process \in {"starting", "joining"} =>
    \A h \in Handler :
      count[h] = Cardinality({r \in answered : Handled(r, h)})
               + Cardinality({t \in Thread : pc[t] = "finish" /\ Handled(req[t], h)})

(* main() returns, and destroys the server and the mutex on its stack,     *)
(* only when no thread can use them any more.                              *)
ReturnsAlone ==
  process = "returned" => \A t \in Thread : pc[t] = "gone" /\ req[t] = NoReq

(* The pool implements RequestService.                                     *)
Service == INSTANCE RequestService WITH
  waiting <- backlog,
  serving <- {req[t] : t \in Thread} \ {NoReq},
  running <- process \in {"starting", "joining"}
KeepsService == Service!Spec

(* A request that reached the socket is taken, whichever threads have left *)
(* after an error, unless all have or the process has ended.               *)
Abandoned ==
  \/ process \in {"returned", "terminated"}
  \/ \A t \in Thread : pc[t] \in {"unlock", "gone"} /\ req[t] = NoReq
EveryRequestTaken ==
  \A id \in Id :
    (\E i \in DOMAIN backlog : backlog[i].id = id)
      ~> (Abandoned \/ \A i \in DOMAIN backlog : backlog[i].id # id)
=============================================================================
