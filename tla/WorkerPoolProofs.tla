-------------------------- MODULE WorkerPoolProofs --------------------------
(***************************************************************************)
(* Theorems about WorkerPool, for any number of workers, handlers and      *)
(* requests.                                                               *)
(***************************************************************************)
EXTENDS WorkerPool, FiniteSetTheorems, SequenceTheorems, TLAPS

Working == {"resource", "work", "call", "count", "time", "elapse", "bump", "finish"}
Free    == {"none", "lock", "accept", "gone"}
Called  == {"call", "count", "time", "elapse", "bump"}

(* A thread's label tells whether it has a request, and of which route.    *)
LabelInv ==
  \A t \in Thread :
    /\ pc[t] \in Working => req[t] \in Request
    /\ pc[t] \in Free => req[t] = NoReq
    /\ pc[t] \in Called => req[t].route = "handler"

(* The mutex belongs to the thread that is between Lock and Unlock.        *)
MutexInv == \A t \in Thread : pc[t] \in {"accept", "unlock"} => mutex = t

(* Threads that main() has not started, and those it has joined.           *)
MainInv ==
  /\ \A t \in Thread : t > created => pc[t] = "none"
  /\ process = "starting" => joined = 0
  /\ process # "terminated" => \A t \in Thread : t <= joined => pc[t] = "gone"
  /\ process = "returned" => joined = Workers
  /\ process = "terminated" => \A t \in Thread : pc[t] = "none"

(* The requests at the socket are the last that arrived, in order; the     *)
(* others were taken once each.                                            *)
Gone == arrived - Len(backlog)
IdInv ==
  /\ Gone \in Nat
  /\ \A i \in 1 .. Len(backlog) : backlog[i].id = Gone + i
  /\ \A t \in Thread : req[t] # NoReq => req[t].id <= Gone
  /\ \A r \in answered : r.id <= Gone
  /\ \A t \in Thread : req[t] # NoReq => \A r \in answered : r.id # req[t].id
  /\ \A t, u \in Thread : req[t] # NoReq /\ req[u] # NoReq /\ t # u => req[t].id # req[u].id

(* The calls whose time is recorded and that are not counted yet, and the  *)
(* counted ones that are not answered yet.                                 *)
Bumping(h)   == {t \in Thread : pc[t] = "bump" /\ HandlerOf(t) = h}
Finishing(h) == {t \in Thread : pc[t] = "finish" /\ Handled(req[t], h)}
Served(h)    == {r \in answered : Handled(r, h)}

CoverInv == \A h \in Handler : count[h] + Cardinality(Bumping(h)) <= elapse[h]
CountInv ==
  process # "terminated" =>
    \A h \in Handler : count[h] = Cardinality(Served(h)) + Cardinality(Finishing(h))

(* A report that has read a count will read a time that covers it.         *)
ReadInv == \A t \in Thread : pc[t] = "time" => got[t] <= elapse[cursor[t]]

PoolInv ==
  /\ TypeOK /\ IsFiniteSet(answered)
  /\ LabelInv /\ MutexInv /\ MainInv /\ IdInv
  /\ CoverInv /\ CountInv /\ ReadInv /\ ReportCovers

-----------------------------------------------------------------------------
(* The sets of threads and requests that are counted are finite.           *)
LEMMA ThreadsFinite ==
  ASSUME NEW S \in SUBSET Thread
  PROVE  IsFiniteSet(S) /\ Cardinality(S) \in Nat
  <1>1. IsFiniteSet(Thread)
    BY FS_Interval, PoolAssumption DEF Thread
  <1> QED BY <1>1, FS_Subset, FS_CardinalityType

LEMMA Cards ==
  ASSUME PoolInv, NEW h \in Handler
  PROVE  /\ IsFiniteSet(Bumping(h)) /\ Cardinality(Bumping(h)) \in Nat
         /\ IsFiniteSet(Finishing(h)) /\ Cardinality(Finishing(h)) \in Nat
         /\ IsFiniteSet(Served(h)) /\ Cardinality(Served(h)) \in Nat
  <1>1. Bumping(h) \in SUBSET Thread /\ Finishing(h) \in SUBSET Thread
    BY DEF Bumping, Finishing
  <1>2. Served(h) \in SUBSET answered /\ IsFiniteSet(answered)
    BY DEF Served, PoolInv
  <1> QED BY <1>1, <1>2, ThreadsFinite, FS_Subset, FS_CardinalityType

(* What a thread that moves to another label does to those sets.           *)
LEMMA Moved ==
  ASSUME PoolInv, NEW t \in Thread, NEW there, Goto(t, there), UNCHANGED req,
         NEW h \in Handler
  PROVE  /\ Bumping(h)' = IF there = "bump" /\ HandlerOf(t) = h
                            THEN Bumping(h) \cup {t} ELSE Bumping(h) \ {t}
         /\ Finishing(h)' = IF there = "finish" /\ Handled(req[t], h)
                              THEN Finishing(h) \cup {t} ELSE Finishing(h) \ {t}
  <1>1. pc \in [Thread -> Label]
    BY DEF PoolInv, TypeOK
  <1>2. pc'[t] = there /\ \A u \in Thread : u # t => pc'[u] = pc[u]
    BY <1>1 DEF Goto
  <1> QED BY <1>2 DEF Bumping, Finishing, HandlerOf, Handled

LEMMA SetsKept ==
  ASSUME UNCHANGED <<pc, req, answered>>, NEW h \in Handler
  PROVE  UNCHANGED <<Bumping(h), Finishing(h), Served(h)>>
  BY DEF Bumping, Finishing, Served, Handled, HandlerOf

-----------------------------------------------------------------------------
(* A thread that goes on with its request disturbs no label but its own.   *)
LEMMA GoesOn ==
  ASSUME PoolInv, NEW t \in Thread, NEW there \in Working, Goto(t, there),
         pc[t] \in Working, there \in Called => req[t].route = "handler",
         UNCHANGED <<main, mutex, socket, req>>
  PROVE  /\ pc' \in [Thread -> Label]
         /\ IsFiniteSet(answered)'
         /\ LabelInv' /\ MutexInv' /\ MainInv' /\ IdInv'
  <1>1. pc \in [Thread -> Label] /\ there \in Label
    BY DEF PoolInv, TypeOK, Working, Label
  <1>2. pc'[t] = there /\ \A u \in Thread : u # t => pc'[u] = pc[u]
    BY <1>1 DEF Goto
  <1>3. LabelInv'
    BY <1>2 DEF PoolInv, LabelInv, Working, Free, Called
  <1>4. MutexInv'
    BY <1>2 DEF PoolInv, MutexInv, Working
  <1>5. MainInv'
    BY <1>2 DEF PoolInv, MainInv, Working, main
  <1>6. IdInv'
    BY DEF PoolInv, IdInv, Gone, socket
  <1> QED BY <1>1, <1>3, <1>4, <1>5, <1>6 DEF Goto, PoolInv, socket


-----------------------------------------------------------------------------
(* The actions of main(), and the end of the process.                      *)
LEMMA TerminateKeeps ==
  ASSUME PoolInv, Terminate
  PROVE  PoolInv'
  <1>1. TypeOK'
    BY DEF PoolInv, TypeOK, Terminate, Label, socket, stats, reading
  <1>2. LabelInv' /\ MutexInv' /\ ReadInv'
    BY DEF Terminate, LabelInv, MutexInv, ReadInv, Working, Free, Called
  <1>3. MainInv'
    BY DEF PoolInv, MainInv, Terminate
  <1>4. IdInv'
    BY DEF PoolInv, IdInv, Gone, Terminate, socket
  <1>5. CoverInv'
    <2> SUFFICES ASSUME NEW h \in Handler
                 PROVE  (count[h] + Cardinality(Bumping(h)) <= elapse[h])'
      BY DEF CoverInv
    <2>1. Bumping(h)' = {}
      BY DEF Bumping, Terminate
    <2>2. count[h] \in Nat /\ elapse[h] \in Nat
      BY DEF PoolInv, TypeOK
    <2>3. count[h] + Cardinality(Bumping(h)) <= elapse[h]
      BY DEF PoolInv, CoverInv
    <2> QED BY <2>1, <2>2, <2>3, Cards, FS_EmptySet DEF Terminate, stats
  <1>6. CountInv' /\ ReportCovers' /\ IsFiniteSet(answered)'
    BY DEF CountInv, Terminate, PoolInv, ReportCovers, reading, socket
  <1> QED BY <1>1, <1>2, <1>3, <1>4, <1>5, <1>6 DEF PoolInv

LEMMA MainKeeps ==
  ASSUME PoolInv, Main
  PROVE  PoolInv'
  <1>1. UNCHANGED <<mutex, socket, req, stats, reading>>
    BY DEF Main, StartThread, Join, Return
  <1>2. UNCHANGED pc \/ (/\ process = "starting" /\ created + 1 \in Thread /\ pc[created + 1] = "none"
                         /\ pc' = [pc EXCEPT ![created + 1] = "lock"])
    <2>1. CASE StartThread
      BY <2>1, PoolAssumption DEF StartThread, PoolInv, TypeOK, MainInv, Thread
    <2> QED BY <2>1 DEF Main, Join, Return
  <1>3. TypeOK'
    <2>1. pc' \in [Thread -> Label]
      BY <1>2 DEF PoolInv, TypeOK, Label
    <2>2. process' \in {"starting", "joining", "returned", "terminated"}
      BY DEF PoolInv, TypeOK, Main, StartThread, Join, Return
    <2>3. created \in Nat /\ joined \in Nat /\ Workers \in Nat
          /\ created <= Workers /\ joined <= Workers
      BY PoolAssumption DEF PoolInv, TypeOK
    <2>4. created' = created \/ (created < Workers /\ created' = created + 1)
      BY DEF Main, StartThread, Join, Return
    <2>5. joined' = joined \/ (joined < Workers /\ joined' = joined + 1)
      BY DEF Main, StartThread, Join, Return
    <2>6. created' \in 0 .. Workers /\ joined' \in 0 .. Workers
      BY <2>3, <2>4, <2>5
    <2> QED BY <1>1, <2>1, <2>2, <2>6 DEF PoolInv, TypeOK, socket, stats, reading
  <1>4. LabelInv' /\ MutexInv' /\ ReadInv'
    BY <1>1, <1>2 DEF PoolInv, TypeOK, LabelInv, MutexInv, ReadInv, Working, Free, Called, reading, stats
  <1>5. MainInv'
    <2> created \in Nat /\ joined \in Nat /\ Workers \in Nat /\ Thread = 1 .. Workers
        /\ pc \in [Thread -> Label]
      BY PoolAssumption DEF PoolInv, TypeOK, Thread
    <2>1. CASE StartThread
      <3>1. CASE created < Workers
        <4>1. /\ process = "starting" /\ process' = "starting" /\ created' = created + 1
              /\ joined' = joined /\ pc' = [pc EXCEPT ![created + 1] = "lock"]
          BY <2>1, <3>1 DEF StartThread
        <4>2. joined = 0
          BY <4>1 DEF PoolInv, MainInv
        <4>3. \A t \in Thread : t > created' => pc'[t] = "none"
          BY <4>1 DEF PoolInv, MainInv
        <4> QED BY <4>1, <4>2, <4>3 DEF MainInv
      <3>2. CASE ~(created < Workers)
        BY <2>1, <3>2 DEF PoolInv, MainInv, StartThread
      <3> QED BY <3>1, <3>2
    <2>2. CASE Join
      <3>1. /\ process = "joining" /\ joined' = joined + 1 /\ pc[joined + 1] = "gone"
            /\ UNCHANGED <<process, created, pc>>
        BY <2>2 DEF Join
      <3>2. \A t \in Thread : t <= joined' => pc[t] = "gone"
        BY <3>1 DEF PoolInv, MainInv
      <3> QED BY <3>1, <3>2 DEF PoolInv, MainInv
    <2>3. CASE Return
      BY <2>3 DEF PoolInv, MainInv, Return
    <2> QED BY <2>1, <2>2, <2>3 DEF Main
  <1>6. IdInv' /\ IsFiniteSet(answered)' /\ ReportCovers'
    BY <1>1 DEF PoolInv, IdInv, Gone, socket, ReportCovers, reading
  <1>7. \A h \in Handler : UNCHANGED <<Bumping(h), Finishing(h), Served(h)>>
    BY <1>1, <1>2 DEF PoolInv, TypeOK, Bumping, Finishing, Served, socket, HandlerOf, Handled
  <1>8. CoverInv' /\ CountInv'
    <2>1. process # "terminated"
      BY DEF Main, StartThread, Join, Return
    <2> QED BY <1>1, <1>7, <2>1 DEF PoolInv, CoverInv, CountInv, stats
  <1> QED BY <1>3, <1>4, <1>5, <1>6, <1>8 DEF PoolInv

-----------------------------------------------------------------------------
(* The actions of a thread that takes a request.                           *)
LEMMA LockKeeps ==
  ASSUME PoolInv, NEW t \in Thread, Lock(t)
  PROVE  PoolInv'
  <1>1. /\ pc \in [Thread -> Label] /\ pc[t] = "lock" /\ mutex = Nobody /\ mutex' = t
        /\ pc' = [pc EXCEPT ![t] = "accept"] /\ process # "terminated"
        /\ UNCHANGED <<main, socket, req, stats, reading>>
    BY DEF PoolInv, TypeOK, Lock, At, Goto
  <1>2. Nobody \notin Thread
    BY PoolAssumption DEF Thread
  <1>3. TypeOK'
    BY <1>1 DEF PoolInv, TypeOK, Label, main, socket, stats, reading
  <1>4. LabelInv' /\ MutexInv' /\ ReadInv'
    BY <1>1, <1>2 DEF PoolInv, LabelInv, MutexInv, ReadInv, Working, Free, Called, stats, reading
  <1>5. MainInv'
    BY <1>1 DEF PoolInv, MainInv, main
  <1>6. IdInv' /\ IsFiniteSet(answered)' /\ ReportCovers'
    BY <1>1 DEF PoolInv, IdInv, Gone, socket, ReportCovers, reading
  <1>7. \A h \in Handler : UNCHANGED <<Bumping(h), Finishing(h), Served(h)>>
    BY <1>1 DEF Bumping, Finishing, Served, socket, HandlerOf, Handled
  <1>8. CoverInv' /\ CountInv'
    BY <1>1, <1>7 DEF PoolInv, CoverInv, CountInv, stats, main
  <1> QED BY <1>3, <1>4, <1>5, <1>6, <1>8 DEF PoolInv


LEMMA Ids == ASSUME NEW r \in Request PROVE r.id \in Nat /\ r # NoReq
  BY NoReqAssumption, PoolAssumption DEF Request, Id

LEMMA AcceptKeeps ==
  ASSUME PoolInv, NEW t \in Thread, Accept(t)
  PROVE  PoolInv'
  <1> DEFINE first == Head(backlog)
  <1>1. /\ pc \in [Thread -> Label] /\ pc[t] = "accept" /\ pc' = [pc EXCEPT ![t] = "unlock"]
        /\ req' = [req EXCEPT ![t] = first] /\ backlog # <<>> /\ backlog' = Tail(backlog)
        /\ UNCHANGED <<main, mutex, arrived, answered, errors, stats, reading>>
    BY DEF PoolInv, TypeOK, Accept, At, Goto
  <1>2. /\ backlog \in Seq(Request) /\ Len(backlog) \in Nat \ {0}
        /\ first = backlog[1] /\ first \in Request
        /\ Tail(backlog) \in Seq(Request) /\ Len(Tail(backlog)) = Len(backlog) - 1
        /\ \A i \in 1 .. Len(backlog) - 1 : Tail(backlog)[i] = backlog[i + 1]
    BY <1>1, EmptySeq, HeadTailProperties, LenProperties, ElementOfSeq DEF PoolInv, TypeOK
  <1> HIDE DEF first
  <1>3. TypeOK'
    BY <1>1, <1>2 DEF PoolInv, TypeOK, Label, main, stats, reading
  <1>4. LabelInv' /\ MutexInv' /\ ReadInv'
    BY <1>1 DEF PoolInv, LabelInv, MutexInv, ReadInv, Working, Free, Called, stats, reading
  <1>5. MainInv'
    BY <1>1 DEF PoolInv, MainInv, main
  <1>6. IdInv'
    <2>1. Gone \in Nat /\ Gone' = Gone + 1 /\ first.id = Gone + 1
      BY <1>1, <1>2 DEF PoolInv, TypeOK, IdInv, Gone
    <2>2. \A i \in 1 .. Len(backlog') : backlog'[i].id = Gone' + i
      BY <1>1, <1>2, <2>1 DEF PoolInv, IdInv
    <2>3. \A r \in Request : r.id \in Nat
      BY Ids
    <2>4. /\ req \in [Thread -> Request \cup {NoReq}] /\ answered \subseteq Request
          /\ answered' = answered
      BY <1>1 DEF PoolInv, TypeOK
    <2>5. req'[t] = first /\ \A u \in Thread : u # t => req'[u] = req[u]
      BY <1>1, <2>4
    <2>6. \A u \in Thread : req[u] # NoReq => req[u].id <= Gone /\ req[u].id \in Nat
      BY <2>3, <2>4 DEF PoolInv, IdInv
    <2>7. \A r \in answered : r.id <= Gone /\ r.id \in Nat
      BY <2>3, <2>4 DEF PoolInv, IdInv
    <2>8. \A u \in Thread : req'[u] # NoReq => req'[u].id <= Gone'
      BY <2>1, <2>5, <2>6
    <2>9. \A r \in answered' : r.id <= Gone'
      BY <2>1, <2>4, <2>7
    <2>10. \A u \in Thread : req'[u] # NoReq => \A r \in answered' : r.id # req'[u].id
      BY <2>1, <2>4, <2>5, <2>7 DEF PoolInv, IdInv
    <2>11. \A u, v \in Thread : req'[u] # NoReq /\ req'[v] # NoReq /\ u # v => req'[u].id # req'[v].id
      BY <2>1, <2>5, <2>6 DEF PoolInv, IdInv
    <2>12. Gone' \in Nat
      BY <2>1
    <2> QED BY <2>2, <2>8, <2>9, <2>10, <2>11, <2>12 DEF IdInv
  <1>7. IsFiniteSet(answered)' /\ ReportCovers'
    BY <1>1 DEF PoolInv, ReportCovers, reading
  <1>8. \A h \in Handler : UNCHANGED <<Bumping(h), Finishing(h), Served(h)>>
    BY <1>1 DEF Bumping, Finishing, Served, HandlerOf, Handled, PoolInv, TypeOK
  <1>9. CoverInv' /\ CountInv'
    BY <1>1, <1>8 DEF PoolInv, CoverInv, CountInv, stats, main
  <1> QED BY <1>3, <1>4, <1>5, <1>6, <1>7, <1>9 DEF PoolInv

LEMMA AcceptFailsKeeps ==
  ASSUME PoolInv, NEW t \in Thread, AcceptFails(t)
  PROVE  PoolInv'
  <1>1. /\ pc \in [Thread -> Label] /\ pc[t] = "accept" /\ pc' = [pc EXCEPT ![t] = "unlock"]
        /\ UNCHANGED <<main, mutex, backlog, arrived, answered, req, stats, reading>>
    BY DEF PoolInv, TypeOK, AcceptFails, At, Goto
  <1>2. errors' \in Nat
    BY DEF AcceptFails, PoolInv, TypeOK
  <1>3. TypeOK'
    BY <1>1, <1>2 DEF PoolInv, TypeOK, Label, main, stats, reading
  <1>4. LabelInv' /\ MutexInv' /\ ReadInv'
    BY <1>1 DEF PoolInv, LabelInv, MutexInv, ReadInv, Working, Free, Called, stats, reading
  <1>5. MainInv'
    BY <1>1 DEF PoolInv, MainInv, main
  <1>6. IdInv' /\ IsFiniteSet(answered)' /\ ReportCovers'
    BY <1>1 DEF PoolInv, IdInv, Gone, ReportCovers, reading
  <1>7. \A h \in Handler : UNCHANGED <<Bumping(h), Finishing(h), Served(h)>>
    BY <1>1 DEF Bumping, Finishing, Served, HandlerOf, Handled
  <1>8. CoverInv' /\ CountInv'
    BY <1>1, <1>7 DEF PoolInv, CoverInv, CountInv, stats, main
  <1> QED BY <1>3, <1>4, <1>5, <1>6, <1>8 DEF PoolInv

LEMMA UnlockKeeps ==
  ASSUME PoolInv, NEW t \in Thread, Unlock(t)
  PROVE  PoolInv'
  <1> DEFINE there == IF req[t] = NoReq THEN "gone" ELSE "resource"
  <1>1. /\ pc \in [Thread -> Label] /\ pc[t] = "unlock" /\ pc' = [pc EXCEPT ![t] = there]
        /\ mutex' = Nobody
        /\ UNCHANGED <<main, socket, req, stats, reading>>
    BY DEF PoolInv, TypeOK, Unlock, At, Goto
  <1>2. req[t] \in Request \cup {NoReq}
    BY DEF PoolInv, TypeOK
  <1>3. TypeOK'
    BY <1>1 DEF PoolInv, TypeOK, Label, main, socket, stats, reading
  <1>4. LabelInv' /\ ReadInv'
    BY <1>1, <1>2 DEF PoolInv, LabelInv, ReadInv, Working, Free, Called, stats, reading
  <1>5. MutexInv'
    <2>1. mutex = t
      BY <1>1 DEF PoolInv, MutexInv
    <2> QED BY <1>1, <2>1 DEF PoolInv, MutexInv
  <1>6. MainInv'
    BY <1>1 DEF PoolInv, MainInv, main
  <1>7. IdInv' /\ IsFiniteSet(answered)' /\ ReportCovers'
    BY <1>1 DEF PoolInv, IdInv, Gone, socket, ReportCovers, reading
  <1>8. \A h \in Handler : UNCHANGED <<Bumping(h), Finishing(h), Served(h)>>
    BY <1>1 DEF Bumping, Finishing, Served, HandlerOf, Handled, socket
  <1>9. CoverInv' /\ CountInv'
    BY <1>1, <1>8 DEF PoolInv, CoverInv, CountInv, stats, main
  <1> QED BY <1>3, <1>4, <1>5, <1>6, <1>7, <1>9 DEF PoolInv

(* A thread that leaves the labels counted, or comes to none of them.      *)
LEMMA CountsKept ==
  ASSUME PoolInv, NEW t \in Thread, NEW there, Goto(t, there),
         pc[t] \notin {"bump", "finish"}, there \notin {"bump", "finish"},
         UNCHANGED <<main, socket, req, stats>>
  PROVE  CoverInv' /\ CountInv'
  <1>1. \A h \in Handler : UNCHANGED <<Bumping(h), Finishing(h), Served(h)>>
    BY DEF Bumping, Finishing, Served, HandlerOf, Handled, socket, Goto, PoolInv, TypeOK
  <1> QED BY <1>1 DEF PoolInv, CoverInv, CountInv, stats, main

-----------------------------------------------------------------------------
(* The actions of a thread that has a request.                             *)
LEMMA MakeResourceKeeps ==
  ASSUME PoolInv, NEW t \in Thread, MakeResource(t)
  PROVE  PoolInv'
  <1>1. CASE req[t].route = "invalid"
    BY <1>1, TerminateKeeps DEF MakeResource
  <1>2. CASE req[t].route # "invalid"
    <2>1. /\ pc[t] = "resource" /\ Goto(t, "work")
          /\ UNCHANGED <<main, mutex, socket, req, stats, reading>>
      BY <1>2 DEF MakeResource, At
    <2>2. /\ pc' \in [Thread -> Label] /\ IsFiniteSet(answered)'
          /\ LabelInv' /\ MutexInv' /\ MainInv' /\ IdInv'
      BY <2>1, GoesOn DEF Working, Called
    <2>3. CoverInv' /\ CountInv'
      BY <2>1, CountsKept
    <2>4. TypeOK' /\ ReportCovers'
      BY <2>1, <2>2 DEF PoolInv, TypeOK, ReportCovers, main, socket, stats, reading
    <2>5. ReadInv'
      BY <2>1 DEF PoolInv, TypeOK, ReadInv, Goto, stats, reading
    <2> QED BY <2>2, <2>3, <2>4, <2>5 DEF PoolInv
  <1> QED BY <1>1, <1>2

LEMMA WorkKeeps ==
  ASSUME PoolInv, NEW t \in Thread, Work(t)
  PROVE  PoolInv'
  <1> DEFINE there == IF req[t].route # "handler" THEN "finish"
                      ELSE IF HandlerOf(t) = Stats THEN "count" ELSE "call"
  <1>1. /\ pc[t] = "work" /\ Goto(t, there) /\ cursor' = [cursor EXCEPT ![t] = 1]
        /\ UNCHANGED <<main, mutex, socket, req, stats, got, report>>
    BY DEF Work, At
  <1>2. there \in Working /\ (there \in Called => req[t].route = "handler")
    BY DEF Working, Called
  <1>3. /\ pc' \in [Thread -> Label] /\ IsFiniteSet(answered)'
        /\ LabelInv' /\ MutexInv' /\ MainInv' /\ IdInv'
    BY <1>1, <1>2, GoesOn DEF Working
  <1>4. \A h \in Handler : UNCHANGED <<Bumping(h), Finishing(h), Served(h)>>
    BY <1>1 DEF Bumping, Finishing, Served, HandlerOf, Handled, socket, Goto, PoolInv, TypeOK
  <1>5. CoverInv' /\ CountInv'
    BY <1>1, <1>4 DEF PoolInv, CoverInv, CountInv, stats, main
  <1>6. 1 \in Handler
    BY PoolAssumption DEF Handler
  <1>7. TypeOK' /\ ReportCovers'
    BY <1>1, <1>3, <1>6 DEF PoolInv, TypeOK, ReportCovers, main, socket, stats
  <1>8. ReadInv'
    BY <1>1 DEF PoolInv, TypeOK, ReadInv, Goto, stats
  <1> QED BY <1>3, <1>5, <1>7, <1>8 DEF PoolInv

LEMMA CallKeeps ==
  ASSUME PoolInv, NEW t \in Thread, Call(t)
  PROVE  PoolInv'
  <1>1. CASE Terminate
    BY <1>1, TerminateKeeps
  <1>2. CASE Goto(t, "elapse") /\ UNCHANGED <<main, mutex, socket, req, stats, reading>>
    <2>1. pc[t] = "call" /\ req[t].route = "handler"
      BY DEF Call, At, PoolInv, LabelInv, Called
    <2>2. /\ pc' \in [Thread -> Label] /\ IsFiniteSet(answered)'
          /\ LabelInv' /\ MutexInv' /\ MainInv' /\ IdInv'
      BY <1>2, <2>1, GoesOn DEF Working
    <2>3. CoverInv' /\ CountInv'
      BY <1>2, <2>1, CountsKept
    <2>4. TypeOK' /\ ReportCovers'
      BY <1>2, <2>2 DEF PoolInv, TypeOK, ReportCovers, main, socket, stats, reading
    <2>5. ReadInv'
      BY <1>2 DEF PoolInv, TypeOK, ReadInv, Goto, stats, reading
    <2> QED BY <2>2, <2>3, <2>4, <2>5 DEF PoolInv
  <1> QED BY <1>1, <1>2 DEF Call

LEMMA AddTimeKeeps ==
  ASSUME PoolInv, NEW t \in Thread, AddTime(t)
  PROVE  PoolInv'
  <1>1. PICK time \in 1 .. MaxElapse : elapse' = [elapse EXCEPT ![HandlerOf(t)] = @ + time]
    BY DEF AddTime
  <1>2. /\ pc[t] = "elapse" /\ Goto(t, "bump")
        /\ UNCHANGED <<main, mutex, socket, req, count, reading>>
    BY DEF AddTime, At
  <1>3. req[t].route = "handler" /\ HandlerOf(t) \in Handler
    BY <1>2 DEF PoolInv, LabelInv, Called, Working, HandlerOf, Request
  <1>4. elapse \in [Handler -> Nat] /\ time \in Nat \ {0}
    BY PoolAssumption, SMTT(30) DEF PoolInv, TypeOK
  <1>5. /\ elapse' \in [Handler -> Nat]
        /\ elapse'[HandlerOf(t)] >= elapse[HandlerOf(t)] + 1
        /\ \A h \in Handler : elapse'[h] >= elapse[h]
    BY <1>1, <1>3, <1>4
  <1>6. /\ pc' \in [Thread -> Label] /\ IsFiniteSet(answered)'
        /\ LabelInv' /\ MutexInv' /\ MainInv' /\ IdInv'
    BY <1>2, <1>3, GoesOn DEF Working
  <1>7. TypeOK'
    BY <1>2, <1>5, <1>6 DEF PoolInv, TypeOK, main, socket, reading
  <1>8. ReportCovers'
    BY <1>2 DEF PoolInv, ReportCovers, reading
  <1>9. ReadInv'
    <2>1. \A u \in Thread : got[u] \in Nat /\ cursor[u] \in Handler
      BY DEF PoolInv, TypeOK
    <2>2. \A u \in Thread : pc'[u] = "time" => pc[u] = "time"
      BY <1>2 DEF Goto, PoolInv, TypeOK
    <2>3. \A u \in Thread : pc[u] = "time" => got[u] <= elapse[cursor[u]]
      BY DEF PoolInv, ReadInv
    <2>4. \A u \in Thread : pc[u] = "time" => got[u] <= elapse'[cursor[u]]
      BY <1>4, <1>5, <2>1, <2>3
    <2> QED BY <1>2, <2>2, <2>4 DEF ReadInv, reading
  <1>10. ASSUME NEW h \in Handler
         PROVE  /\ Bumping(h)' = IF HandlerOf(t) = h THEN Bumping(h) \cup {t} ELSE Bumping(h) \ {t}
                /\ Finishing(h)' = Finishing(h) \ {t}
                /\ t \notin Bumping(h) /\ t \notin Finishing(h)
    BY <1>2, Moved DEF Bumping, Finishing
  <1>11. CoverInv'
    <2> SUFFICES ASSUME NEW h \in Handler
                 PROVE  count'[h] + Cardinality(Bumping(h)') <= elapse'[h]
      BY DEF CoverInv
    <2>1. /\ count[h] \in Nat /\ elapse[h] \in Nat /\ elapse'[h] \in Nat /\ count' = count
          /\ IsFiniteSet(Bumping(h)) /\ Cardinality(Bumping(h)) \in Nat
          /\ count[h] + Cardinality(Bumping(h)) <= elapse[h]
      BY <1>2, <1>5, Cards DEF PoolInv, TypeOK, CoverInv
    <2>2. CASE HandlerOf(t) = h
      <3>1. Cardinality(Bumping(h)') = Cardinality(Bumping(h)) + 1
        BY <1>10, <2>1, <2>2, FS_AddElement
      <3>2. elapse'[h] >= elapse[h] + 1
        BY <1>5, <2>2
      <3> QED BY <2>1, <3>1, <3>2
    <2>3. CASE HandlerOf(t) # h
      <3>1. Bumping(h)' = Bumping(h)
        BY <1>10, <2>3
      <3>2. elapse'[h] >= elapse[h]
        BY <1>5
      <3> QED BY <2>1, <3>1, <3>2
    <2> QED BY <2>2, <2>3
  <1>12. CountInv'
    <2>1. \A h \in Handler : Finishing(h)' = Finishing(h)
      BY <1>10
    <2> QED BY <1>2, <2>1 DEF PoolInv, CountInv, Served, Handled, socket, main
  <1> QED BY <1>6, <1>7, <1>8, <1>9, <1>11, <1>12 DEF PoolInv

LEMMA AddCountKeeps ==
  ASSUME PoolInv, NEW t \in Thread, AddCount(t)
  PROVE  PoolInv'
  <1>1. /\ pc[t] = "bump" /\ Goto(t, "finish") /\ process # "terminated"
        /\ count' = [count EXCEPT ![HandlerOf(t)] = @ + 1]
        /\ UNCHANGED <<main, mutex, socket, req, elapse, reading>>
    BY DEF AddCount, At
  <1>2. req[t].route = "handler" /\ HandlerOf(t) \in Handler
    BY <1>1 DEF PoolInv, LabelInv, Called, Working, HandlerOf, Request
  <1>3. /\ count \in [Handler -> Nat] /\ count' \in [Handler -> Nat]
        /\ count'[HandlerOf(t)] = count[HandlerOf(t)] + 1
        /\ \A h \in Handler : h # HandlerOf(t) => count'[h] = count[h]
    <2>1. count \in [Handler -> Nat]
      BY DEF PoolInv, TypeOK
    <2> QED BY <1>1, <1>2, <2>1
  <1>4. /\ pc' \in [Thread -> Label] /\ IsFiniteSet(answered)'
        /\ LabelInv' /\ MutexInv' /\ MainInv' /\ IdInv'
    BY <1>1, <1>2, GoesOn DEF Working, Called
  <1>5. TypeOK'
    BY <1>1, <1>3, <1>4 DEF PoolInv, TypeOK, main, socket, reading
  <1>6. ReportCovers' /\ ReadInv'
    BY <1>1 DEF PoolInv, TypeOK, ReportCovers, ReadInv, reading, Goto
  <1>7. ASSUME NEW h \in Handler
        PROVE  /\ Bumping(h)' = Bumping(h) \ {t}
               /\ Finishing(h)' = IF HandlerOf(t) = h THEN Finishing(h) \cup {t}
                                  ELSE Finishing(h) \ {t}
               /\ t \notin Finishing(h) /\ (t \in Bumping(h) <=> HandlerOf(t) = h)
    <2>1. Handled(req[t], h) <=> HandlerOf(t) = h
      BY <1>2 DEF Handled, HandlerOf
    <2>2. UNCHANGED req
      BY <1>1
    <2>3. /\ Bumping(h)' = Bumping(h) \ {t}
          /\ Finishing(h)' = IF Handled(req[t], h) THEN Finishing(h) \cup {t} ELSE Finishing(h) \ {t}
      BY <1>1, <2>2, Moved
    <2>4. t \notin Finishing(h) /\ (t \in Bumping(h) <=> HandlerOf(t) = h)
      BY <1>1 DEF Bumping, Finishing
    <2> QED BY <2>1, <2>3, <2>4
  <1>8. CoverInv'
    <2> SUFFICES ASSUME NEW h \in Handler
                 PROVE  count'[h] + Cardinality(Bumping(h)') <= elapse'[h]
      BY DEF CoverInv
    <2>1. /\ count[h] \in Nat /\ elapse[h] \in Nat /\ elapse' = elapse
          /\ IsFiniteSet(Bumping(h)) /\ Cardinality(Bumping(h)) \in Nat
          /\ count[h] + Cardinality(Bumping(h)) <= elapse[h]
      BY <1>1, Cards DEF PoolInv, TypeOK, CoverInv
    <2>2. CASE HandlerOf(t) = h
      <3>1. Cardinality(Bumping(h)') = Cardinality(Bumping(h)) - 1
        BY <1>7, <2>1, <2>2, FS_RemoveElement
      <3>2. count'[h] = count[h] + 1
        BY <1>3, <2>2
      <3> QED BY <2>1, <3>1, <3>2
    <2>3. CASE HandlerOf(t) # h
      <3>1. Bumping(h)' = Bumping(h) /\ count'[h] = count[h]
        BY <1>3, <1>7, <2>3
      <3> QED BY <2>1, <3>1
    <2> QED BY <2>2, <2>3
  <1>9. CountInv'
    <2> SUFFICES ASSUME NEW h \in Handler
                 PROVE  count'[h] = Cardinality(Served(h)') + Cardinality(Finishing(h)')
      BY DEF CountInv
    <2>1. /\ count[h] \in Nat /\ Served(h)' = Served(h) /\ Cardinality(Served(h)) \in Nat
          /\ IsFiniteSet(Finishing(h)) /\ Cardinality(Finishing(h)) \in Nat
          /\ count[h] = Cardinality(Served(h)) + Cardinality(Finishing(h))
      BY <1>1, Cards DEF PoolInv, TypeOK, CountInv, Served, socket, Handled
    <2>2. CASE HandlerOf(t) = h
      <3>1. Cardinality(Finishing(h)') = Cardinality(Finishing(h)) + 1
        BY <1>7, <2>1, <2>2, FS_AddElement
      <3>2. count'[h] = count[h] + 1
        BY <1>3, <2>2
      <3> QED BY <2>1, <3>1, <3>2
    <2>3. CASE HandlerOf(t) # h
      <3>1. Finishing(h)' = Finishing(h) /\ count'[h] = count[h]
        BY <1>3, <1>7, <2>3
      <3> QED BY <2>1, <3>1
    <2> QED BY <2>2, <2>3
  <1> QED BY <1>4, <1>5, <1>6, <1>8, <1>9 DEF PoolInv

LEMMA ReadCountKeeps ==
  ASSUME PoolInv, NEW t \in Thread, ReadCount(t)
  PROVE  PoolInv'
  <1>1. /\ pc[t] = "count" /\ Goto(t, "time") /\ got' = [got EXCEPT ![t] = count[cursor[t]]]
        /\ UNCHANGED <<main, mutex, socket, req, stats, cursor, report>>
    BY DEF ReadCount, At
  <1>2. req[t].route = "handler"
    BY <1>1 DEF PoolInv, LabelInv, Called
  <1>3. /\ pc' \in [Thread -> Label] /\ IsFiniteSet(answered)'
        /\ LabelInv' /\ MutexInv' /\ MainInv' /\ IdInv'
    BY <1>1, <1>2, GoesOn DEF Working
  <1>4. CoverInv' /\ CountInv'
    BY <1>1, CountsKept
  <1>5. /\ cursor[t] \in Handler /\ count[cursor[t]] \in Nat /\ elapse[cursor[t]] \in Nat
        /\ got \in [Thread -> Nat]
    BY DEF PoolInv, TypeOK
  <1>6. count[cursor[t]] <= elapse[cursor[t]]
    <2>1. /\ Cardinality(Bumping(cursor[t])) \in Nat
          /\ count[cursor[t]] + Cardinality(Bumping(cursor[t])) <= elapse[cursor[t]]
      BY <1>5, Cards DEF PoolInv, CoverInv
    <2> QED BY <1>5, <2>1
  <1>7. TypeOK' /\ ReportCovers'
    BY <1>1, <1>3, <1>5 DEF PoolInv, TypeOK, ReportCovers, main, socket, stats
  <1>8. ReadInv'
    <2>1. \A u \in Thread : u # t => got'[u] = got[u] /\ (pc'[u] = "time" => pc[u] = "time")
      BY <1>1, <1>5 DEF Goto, PoolInv, TypeOK
    <2>2. got'[t] = count[cursor[t]]
      BY <1>1, <1>5
    <2>3. \A u \in Thread : pc'[u] = "time" => got'[u] <= elapse[cursor[u]]
      BY <1>6, <2>1, <2>2 DEF PoolInv, ReadInv
    <2> QED BY <1>1, <2>3 DEF ReadInv, stats
  <1> QED BY <1>3, <1>4, <1>7, <1>8 DEF PoolInv

LEMMA ReadTimeKeeps ==
  ASSUME PoolInv, NEW t \in Thread, ReadTime(t)
  PROVE  PoolInv'
  <1> DEFINE there == IF cursor[t] < Handlers THEN "count" ELSE "elapse"
             entry == [count |-> got[t], elapse |-> elapse[cursor[t]]]
  <1>1. /\ pc[t] = "time" /\ Goto(t, there) /\ report' = [report EXCEPT ![t][cursor[t]] = entry]
        /\ cursor' = IF cursor[t] < Handlers THEN [cursor EXCEPT ![t] = @ + 1] ELSE cursor
        /\ UNCHANGED <<main, mutex, socket, req, stats, got>>
    BY DEF ReadTime, At
  <1>2. req[t].route = "handler"
    BY <1>1 DEF PoolInv, LabelInv, Called
  <1>3. there \in Working /\ there \notin {"bump", "finish", "time"}
    BY DEF Working
  <1>4. /\ pc' \in [Thread -> Label] /\ IsFiniteSet(answered)'
        /\ LabelInv' /\ MutexInv' /\ MainInv' /\ IdInv'
    BY <1>1, <1>2, <1>3, GoesOn DEF Working
  <1>5. CoverInv' /\ CountInv'
    BY <1>1, <1>3, CountsKept
  <1>6. /\ cursor \in [Thread -> Handler] /\ got[t] \in Nat /\ elapse[cursor[t]] \in Nat
        /\ report \in [Thread -> [Handler -> [count : Nat, elapse : Nat]]]
    BY DEF PoolInv, TypeOK
  <1>7. cursor' \in [Thread -> Handler]
    <2>1. cursor[t] < Handlers => cursor[t] + 1 \in Handler
      BY <1>6, PoolAssumption DEF Handler
    <2> QED BY <1>1, <1>6, <2>1
  <1>8. entry \in [count : Nat, elapse : Nat] /\ entry.count <= entry.elapse
    BY <1>1, <1>6 DEF PoolInv, ReadInv
  <1> HIDE DEF entry
  <1>9. /\ report' \in [Thread -> [Handler -> [count : Nat, elapse : Nat]]]
        /\ \A u \in Thread, h \in Handler :
             report'[u][h] = IF u = t /\ h = cursor[t] THEN entry ELSE report[u][h]
    BY <1>1, <1>6, <1>8
  <1>10. TypeOK'
    BY <1>1, <1>4, <1>7, <1>9 DEF PoolInv, TypeOK, main, socket, stats
  <1>11. ReportCovers'
    BY <1>8, <1>9 DEF PoolInv, ReportCovers
  <1>12. ReadInv'
    <2>1. pc'[t] # "time"
      BY <1>1, <1>3 DEF Goto, PoolInv, TypeOK
    <2>2. \A u \in Thread : u # t => pc'[u] = pc[u] /\ cursor'[u] = cursor[u]
      BY <1>1, <1>6 DEF Goto, PoolInv, TypeOK
    <2> QED BY <1>1, <2>1, <2>2 DEF PoolInv, ReadInv, stats
  <1> QED BY <1>4, <1>5, <1>10, <1>11, <1>12 DEF PoolInv

(* The request of t, answered for the first time, moves from Finishing to  *)
(* Served.                                                                 *)
LEMMA FinishKeeps ==
  ASSUME PoolInv, NEW t \in Thread, Finish(t)
  PROVE  PoolInv'
  <1>1. /\ pc[t] = "finish" /\ pc' = [pc EXCEPT ![t] = "lock"] /\ process # "terminated"
        /\ req' = [req EXCEPT ![t] = NoReq] /\ answered' = answered \cup {req[t]}
        /\ UNCHANGED <<main, mutex, backlog, arrived, errors, stats, reading>>
    BY DEF Finish, At, Goto
  <1>2. /\ pc \in [Thread -> Label] /\ req \in [Thread -> Request \cup {NoReq}]
        /\ answered \subseteq Request /\ IsFiniteSet(answered)
    BY DEF PoolInv, TypeOK
  <1>3. req[t] \in Request /\ req[t] # NoReq
    BY <1>1, Ids DEF PoolInv, LabelInv, Working
  <1>4. /\ pc'[t] = "lock" /\ req'[t] = NoReq
        /\ \A u \in Thread : u # t => pc'[u] = pc[u] /\ req'[u] = req[u]
    BY <1>1, <1>2
  <1>5. TypeOK'
    BY <1>1, <1>2, <1>3 DEF PoolInv, TypeOK, Label, main, stats, reading
  <1>6. LabelInv' /\ MutexInv' /\ ReadInv'
    BY <1>1, <1>4 DEF PoolInv, LabelInv, MutexInv, ReadInv, Working, Free, Called, stats, reading
  <1>7. MainInv'
    BY <1>1, <1>4 DEF PoolInv, MainInv, main
  <1>8. IsFiniteSet(answered)' /\ ReportCovers'
    BY <1>1, <1>2, FS_AddElement DEF PoolInv, ReportCovers, reading
  <1>9. IdInv'
    <2>1. Gone' = Gone /\ backlog' = backlog
      BY <1>1 DEF Gone
    <2>2. \A r \in answered' : r.id <= Gone
      BY <1>1, <1>3 DEF PoolInv, IdInv
    <2>3. \A u \in Thread : req'[u] # NoReq => u # t /\ req'[u] = req[u] /\ req[u] # NoReq
      BY <1>4
    <2>4. \A u \in Thread : req'[u] # NoReq => \A r \in answered' : r.id # req'[u].id
      BY <1>1, <1>3, <2>3 DEF PoolInv, IdInv
    <2>5. \A u, v \in Thread : req'[u] # NoReq /\ req'[v] # NoReq /\ u # v => req'[u].id # req'[v].id
      BY <2>3 DEF PoolInv, IdInv
    <2>6. /\ Gone \in Nat /\ \A i \in 1 .. Len(backlog) : backlog[i].id = Gone + i
          /\ \A u \in Thread : req'[u] # NoReq => req'[u].id <= Gone
      BY <2>3 DEF PoolInv, IdInv
    <2> QED BY <2>1, <2>2, <2>4, <2>5, <2>6 DEF IdInv
  <1>10. req[t] \notin answered
    BY <1>3 DEF PoolInv, IdInv
  <1>11. ASSUME NEW h \in Handler
         PROVE  /\ Bumping(h)' = Bumping(h) /\ Finishing(h)' = Finishing(h) \ {t}
                /\ Served(h)' = IF Handled(req[t], h) THEN Served(h) \cup {req[t]} ELSE Served(h)
                /\ (t \in Finishing(h) <=> Handled(req[t], h)) /\ req[t] \notin Served(h)
    <2>1. Bumping(h)' = Bumping(h) /\ Finishing(h)' = Finishing(h) \ {t}
      BY <1>1, <1>4 DEF Bumping, Finishing, Handled, HandlerOf
    <2>2. Served(h)' = IF Handled(req[t], h) THEN Served(h) \cup {req[t]} ELSE Served(h)
      BY <1>1 DEF Served, Handled
    <2>3. (t \in Finishing(h) <=> Handled(req[t], h)) /\ req[t] \notin Served(h)
      BY <1>1, <1>10 DEF Finishing, Served
    <2> QED BY <2>1, <2>2, <2>3
  <1>12. CoverInv'
    BY <1>1, <1>11 DEF PoolInv, CoverInv, stats
  <1>13. CountInv'
    <2> SUFFICES ASSUME NEW h \in Handler
                 PROVE  count'[h] = Cardinality(Served(h)') + Cardinality(Finishing(h)')
      BY DEF CountInv
    <2>1. /\ count' = count
          /\ IsFiniteSet(Finishing(h)) /\ Cardinality(Finishing(h)) \in Nat
          /\ IsFiniteSet(Served(h)) /\ Cardinality(Served(h)) \in Nat
          /\ count[h] = Cardinality(Served(h)) + Cardinality(Finishing(h))
      BY <1>1, Cards DEF PoolInv, CountInv, stats
    <2>2. CASE Handled(req[t], h)
      <3>1. Cardinality(Finishing(h)') = Cardinality(Finishing(h)) - 1
        BY <1>11, <2>1, <2>2, FS_RemoveElement
      <3>2. Cardinality(Served(h)') = Cardinality(Served(h)) + 1
        BY <1>11, <2>1, <2>2, FS_AddElement
      <3> QED BY <2>1, <3>1, <3>2
    <2>3. CASE ~Handled(req[t], h)
      <3>1. Finishing(h)' = Finishing(h) /\ Served(h)' = Served(h)
        BY <1>11, <2>3
      <3> QED BY <2>1, <3>1
    <2> QED BY <2>2, <2>3
  <1> QED BY <1>5, <1>6, <1>7, <1>8, <1>9, <1>12, <1>13 DEF PoolInv

(* A request that arrives has the number after those at the socket.        *)
LEMMA ArriveKeeps ==
  ASSUME PoolInv, Arrive
  PROVE  PoolInv'
  <1>1. PICK r \in Request : r.id = arrived' /\ backlog' = Append(backlog, r)
    BY DEF Arrive
  <1>2. /\ arrived' = arrived + 1 /\ arrived < MaxRequests
        /\ UNCHANGED <<main, pc, mutex, answered, errors, req, stats, reading>>
    BY DEF Arrive
  <1>3. /\ backlog \in Seq(Request) /\ arrived \in Nat /\ Len(backlog) \in Nat
        /\ arrived' \in 0 .. MaxRequests
    BY <1>2, PoolAssumption, LenProperties DEF PoolInv, TypeOK
  <1>4. /\ backlog' \in Seq(Request) /\ Len(backlog') = Len(backlog) + 1
        /\ \A i \in 1 .. Len(backlog) : backlog'[i] = backlog[i]
        /\ backlog'[Len(backlog) + 1] = r
    BY <1>1, <1>3, AppendProperties
  <1>5. TypeOK'
    BY <1>2, <1>3, <1>4 DEF PoolInv, TypeOK, main, stats, reading
  <1>6. LabelInv' /\ MutexInv' /\ ReadInv' /\ MainInv'
    BY <1>2 DEF PoolInv, LabelInv, MutexInv, ReadInv, MainInv, main, stats, reading
  <1>7. IdInv'
    <2>1. Gone' = Gone /\ Gone \in Nat
      BY <1>2, <1>3, <1>4 DEF PoolInv, IdInv, Gone
    <2>2. \A i \in 1 .. Len(backlog) : backlog'[i].id = Gone + i
      BY <1>4 DEF PoolInv, IdInv
    <2>3. backlog'[Len(backlog) + 1].id = Gone + (Len(backlog) + 1)
      BY <1>1, <1>2, <1>3, <1>4 DEF Gone
    <2>4. \A i \in 1 .. Len(backlog') : i \in 1 .. Len(backlog) \/ i = Len(backlog) + 1
      BY <1>3, <1>4
    <2>5. \A i \in 1 .. Len(backlog') : backlog'[i].id = Gone' + i
      BY <2>1, <2>2, <2>3, <2>4
    <2> QED BY <1>2, <2>1, <2>5 DEF PoolInv, IdInv
  <1>8. IsFiniteSet(answered)' /\ ReportCovers'
    BY <1>2 DEF PoolInv, ReportCovers, reading
  <1>9. \A h \in Handler : UNCHANGED <<Bumping(h), Finishing(h), Served(h)>>
    BY <1>2 DEF Bumping, Finishing, Served, HandlerOf, Handled
  <1>10. CoverInv' /\ CountInv'
    BY <1>2, <1>9 DEF PoolInv, CoverInv, CountInv, stats, main
  <1> QED BY <1>5, <1>6, <1>7, <1>8, <1>10 DEF PoolInv

-----------------------------------------------------------------------------
LEMMA InitOK == Init => PoolInv
  <1> SUFFICES ASSUME Init PROVE PoolInv
    OBVIOUS
  <1>1. Workers \in Nat /\ 1 \in Handler /\ MaxRequests \in Nat /\ 0 \in 0 .. Workers /\ 0 \in 0 .. MaxRequests
    BY PoolAssumption DEF Handler
  <1>2. TypeOK
    BY <1>1 DEF Init, TypeOK, Label
  <1>3. LabelInv /\ MutexInv /\ ReadInv /\ ReportCovers
    BY DEF Init, LabelInv, MutexInv, ReadInv, ReportCovers, Working, Free, Called
  <1>4. MainInv
    BY <1>1 DEF Init, MainInv, Thread
  <1>5. IdInv /\ IsFiniteSet(answered)
    BY FS_EmptySet DEF Init, IdInv, Gone
  <1>6. ASSUME NEW h \in Handler PROVE Bumping(h) = {} /\ Finishing(h) = {} /\ Served(h) = {}
    BY DEF Init, Bumping, Finishing, Served
  <1>7. \A h \in Handler : count[h] = 0 /\ elapse[h] = 0
    BY DEF Init
  <1>8. Cardinality({}) = 0
    BY FS_EmptySet
  <1>9. CoverInv /\ CountInv
    <2>1. ASSUME NEW h \in Handler
          PROVE  /\ count[h] + Cardinality(Bumping(h)) <= elapse[h]
                 /\ count[h] = Cardinality(Served(h)) + Cardinality(Finishing(h))
      <3>1. Cardinality(Bumping(h)) = 0 /\ Cardinality(Served(h)) = 0 /\ Cardinality(Finishing(h)) = 0
        BY <1>6, <1>8, Zenon
      <3> QED BY <1>7, <3>1
    <2> QED BY <2>1 DEF CoverInv, CountInv
  <1> QED BY <1>2, <1>3, <1>4, <1>5, <1>9 DEF PoolInv

LEMMA NextOK == PoolInv /\ [Next]_vars => PoolInv'
  <1> SUFFICES ASSUME PoolInv, [Next]_vars PROVE PoolInv'
    OBVIOUS
  <1>1. CASE UNCHANGED vars
    <2>1. UNCHANGED <<main, pc, mutex, socket, req, stats, reading>>
      BY <1>1 DEF vars
    <2>2. TypeOK' /\ IsFiniteSet(answered)' /\ LabelInv' /\ MutexInv' /\ MainInv' /\ IdInv'
      BY <2>1 DEF PoolInv, TypeOK, LabelInv, MutexInv, MainInv, IdInv, Gone, main, socket, stats, reading
    <2>3. \A h \in Handler : UNCHANGED <<Bumping(h), Finishing(h), Served(h)>>
      BY <2>1, SetsKept DEF socket
    <2>4. CoverInv' /\ CountInv' /\ ReadInv' /\ ReportCovers'
      BY <2>1, <2>3 DEF PoolInv, CoverInv, CountInv, ReadInv, ReportCovers, main, stats, reading
    <2> QED BY <2>2, <2>4 DEF PoolInv
  <1>2. CASE Main
    BY <1>2, MainKeeps
  <1>3. CASE StartFails
    BY <1>3, TerminateKeeps DEF StartFails
  <1>4. CASE Arrive
    BY <1>4, ArriveKeeps
  <1>5. ASSUME NEW t \in Thread, Serve(t) \/ AcceptFails(t) PROVE PoolInv'
    BY <1>5, LockKeeps, AcceptKeeps, AcceptFailsKeeps, UnlockKeeps, MakeResourceKeeps, WorkKeeps,
       CallKeeps, ReadCountKeeps, ReadTimeKeeps, AddTimeKeeps, AddCountKeeps, FinishKeeps
       DEF Serve, Record
  <1> QED BY <1>1, <1>2, <1>3, <1>4, <1>5 DEF Next

(* Whatever main(), the threads and the clients do, the invariant holds:   *)
(* it names what each label says about its thread, where each request is,  *)
(* and which calls the counters of a handler contain.                      *)
THEOREM PoolInvariant == Spec => []PoolInv
  <1>1. Init => PoolInv
    BY InitOK
  <1>2. PoolInv /\ [Next]_vars => PoolInv'
    BY NextOK
  <1> QED BY <1>1, <1>2, PTL DEF Spec

(* main() and Thread() keep every variable in its type, and no thread is   *)
(* started beyond those configured.                                        *)
THEOREM PoolTypes == Spec => []TypeOK
  <1>1. PoolInv => TypeOK
    BY DEF PoolInv
  <1> QED BY <1>1, PoolInvariant, PTL

(* However many threads there are, one at most is in FCGX_Accept_r().      *)
THEOREM OneAccepts == Spec => []AcceptExclusive
  <1>1. PoolInv => AcceptExclusive
    BY DEF PoolInv, MutexInv, AcceptExclusive
  <1> QED BY <1>1, PoolInvariant, PTL

(* However many handlers and calls there are, ServeStats never reports a   *)
(* count whose time is missing: the time goes in before the count, and the *)
(* count is read before the time.                                          *)
THEOREM ReportsCover == Spec => []ReportCovers
  <1>1. PoolInv => ReportCovers
    BY DEF PoolInv
  <1> QED BY <1>1, PoolInvariant, PTL

(* While the process runs, the counter of a handler is the number of its   *)
(* calls that returned.                                                    *)
THEOREM CountsExact == Spec => []CountExact
  <1>1. PoolInv => CountExact
    BY DEF PoolInv, CountInv, CountExact, Served, Finishing
  <1> QED BY <1>1, PoolInvariant, PTL

LEMMA AllGone ==
  ASSUME PoolInv, process # "terminated", joined = Workers
  PROVE  \A t \in Thread : pc[t] = "gone" /\ req[t] = NoReq
  <1>1. \A t \in Thread : t <= joined
    BY PoolAssumption DEF Thread
  <1> QED BY <1>1 DEF PoolInv, MainInv, LabelInv, Free

(* main() returns only when no thread can use the server any more.         *)
THEOREM MainReturnsAlone == Spec => []ReturnsAlone
  <1>1. PoolInv => ReturnsAlone
    BY AllGone DEF PoolInv, MainInv, ReturnsAlone
  <1> QED BY <1>1, PoolInvariant, PTL

-----------------------------------------------------------------------------
(* The steps of the pool as steps of RequestService.                       *)
Serving == {req[t] : t \in Thread} \ {NoReq}
Running == process \in {"starting", "joining"}
Outside == <<backlog, Serving, answered, Running>>

LEMMA EndsService ==
  ASSUME Terminate
  PROVE  Service!End
  <1>1. Running' = FALSE /\ UNCHANGED <<backlog, answered>>
    BY DEF Terminate, Running, socket
  <1>2. Serving' = {}
    BY DEF Terminate, Serving
  <1> QED BY <1>1, <1>2 DEF Service!End, Serving, Running

LEMMA ReturnEnds ==
  ASSUME PoolInv, Return
  PROVE  Service!End
  <1>1. process = "joining" /\ joined = Workers /\ process' = "returned" /\ UNCHANGED <<socket, req>>
    BY DEF Return
  <1>2. \A t \in Thread : req[t] = NoReq
    BY <1>1, AllGone
  <1>3. Running' = FALSE /\ Serving' = {} /\ UNCHANGED <<backlog, answered>>
    BY <1>1, <1>2 DEF Running, Serving, socket
  <1> QED BY <1>3 DEF Service!End, Serving, Running

(* The request taken is the next in order, and was not taken before.       *)
LEMMA AcceptTakes ==
  ASSUME PoolInv, NEW t \in Thread, Accept(t)
  PROVE  Service!Take
  <1> DEFINE first == Head(backlog)
  <1>1. /\ Running /\ backlog # <<>> /\ backlog' = Tail(backlog) /\ UNCHANGED <<answered, main>>
        /\ req' = [req EXCEPT ![t] = first] /\ pc[t] = "accept"
    BY DEF Accept, At, Running
  <1>2. /\ req \in [Thread -> Request \cup {NoReq}] /\ answered \subseteq Request
        /\ req[t] = NoReq
    BY <1>1 DEF PoolInv, TypeOK, LabelInv, Free
  <1>3. first \in Request /\ first.id = Gone + 1 /\ Gone \in Nat
    <2>1. Len(backlog) \in Nat \ {0} /\ first = backlog[1] /\ first \in Request
      BY <1>1, EmptySeq, HeadTailProperties, LenProperties, ElementOfSeq DEF PoolInv, TypeOK
    <2>2. 1 \in 1 .. Len(backlog)
      BY <2>1
    <2> QED BY <2>1, <2>2 DEF PoolInv, IdInv
  <1> HIDE DEF first
  <1>4. first # NoReq
    BY <1>3, Ids
  <1>5. first \notin answered
    BY <1>3 DEF PoolInv, IdInv
  <1>6. first \notin Serving
    BY <1>3 DEF PoolInv, IdInv, Serving
  <1>7. req'[t] = first /\ \A u \in Thread : u # t => req'[u] = req[u]
    BY <1>1, <1>2
  <1>8. Serving' = Serving \cup {first}
    BY <1>2, <1>4, <1>7 DEF Serving
  <1>9. Running' = Running
    BY <1>1 DEF Running, main
  <1> QED BY <1>1, <1>5, <1>6, <1>8, <1>9 DEF Service!Take, Serving, Running, first

(* The request answered was in service and was not answered before.        *)
LEMMA FinishAnswers ==
  ASSUME PoolInv, NEW t \in Thread, Finish(t)
  PROVE  \E r \in Request : Service!Answer(r)
  <1>1. /\ Running /\ answered' = answered \cup {req[t]} /\ UNCHANGED <<backlog, main>>
        /\ req' = [req EXCEPT ![t] = NoReq] /\ pc[t] = "finish"
    BY DEF Finish, At, Running
  <1>2. req \in [Thread -> Request \cup {NoReq}] /\ req[t] \in Request /\ req[t] # NoReq
    BY <1>1, Ids DEF PoolInv, TypeOK, LabelInv, Working
  <1>3. req[t] \in Serving /\ req[t] \notin answered
    BY <1>2 DEF PoolInv, IdInv, Serving
  <1>4. req'[t] = NoReq /\ \A u \in Thread : u # t => req'[u] = req[u]
    BY <1>1, <1>2
  <1>5. \A u \in Thread : u # t => req[u] # req[t]
    BY <1>2 DEF PoolInv, IdInv
  <1>6. Serving' = Serving \ {req[t]}
    BY <1>2, <1>4, <1>5 DEF Serving
  <1>7. Running' = Running
    BY <1>1 DEF Running, main
  <1>8. PICK r \in Request : r = req[t]
    BY <1>2
  <1> QED BY <1>1, <1>3, <1>6, <1>7, <1>8 DEF Service!Answer, Serving, Running

LEMMA ArriveArrives ==
  ASSUME Arrive
  PROVE  \E r \in Request : Service!Arrive(r)
  <1>1. PICK r \in Request : backlog' = Append(backlog, r)
    BY DEF Arrive
  <1>2. UNCHANGED <<req, answered, process>>
    BY DEF Arrive, main
  <1> QED BY <1>1, <1>2 DEF Service!Arrive

LEMMA StepServes ==
  ASSUME PoolInv, [Next]_vars
  PROVE  Service!Next \/ UNCHANGED Outside
  <1>1. CASE UNCHANGED <<process, backlog, req, answered>>
    BY <1>1 DEF Outside, Serving, Running
  <1>2. CASE UNCHANGED vars
    BY <1>1, <1>2 DEF vars, main, socket
  <1>3. CASE Main
    <2>1. CASE Return
      BY <2>1, ReturnEnds DEF Service!Next
    <2>2. CASE StartThread \/ Join
      <3>1. Running /\ Running' /\ UNCHANGED <<socket, req>>
        BY <2>2 DEF StartThread, Join, Running
      <3> QED BY <3>1 DEF Outside, Serving, socket, Running
    <2> QED BY <1>3, <2>1, <2>2 DEF Main
  <1>4. CASE StartFails
    BY <1>4, EndsService DEF StartFails, Service!Next
  <1>5. CASE Arrive
    BY <1>5, ArriveArrives DEF Service!Next
  <1>6. ASSUME NEW t \in Thread, Serve(t) \/ AcceptFails(t)
        PROVE  Service!Next \/ UNCHANGED Outside
    <2>1. CASE Accept(t)
      BY <2>1, AcceptTakes DEF Service!Next
    <2>2. CASE Finish(t)
      BY <2>2, FinishAnswers DEF Service!Next
    <2>3. CASE Terminate
      BY <2>3, EndsService DEF Service!Next
    <2>4. CASE UNCHANGED <<main, backlog, req, answered>>
      BY <1>1, <2>4 DEF main
    <2>5. Lock(t) \/ Unlock(t) \/ AcceptFails(t) => UNCHANGED <<main, backlog, req, answered>>
      BY DEF Lock, Unlock, AcceptFails, socket
    <2>6. MakeResource(t) \/ Call(t) => Terminate \/ UNCHANGED <<main, backlog, req, answered>>
      BY DEF MakeResource, Call, socket
    <2>7. Work(t) \/ Record(t) => UNCHANGED <<main, backlog, req, answered>>
      BY DEF Work, Record, AddTime, AddCount, socket
    <2>8. ReadCount(t) \/ ReadTime(t) => UNCHANGED <<main, backlog, req, answered>>
      BY DEF ReadCount, ReadTime, socket
    <2> QED BY <1>6, <2>1, <2>2, <2>3, <2>4, <2>5, <2>6, <2>7, <2>8 DEF Serve
  <1> QED BY <1>2, <1>3, <1>4, <1>5, <1>6 DEF Next

(* The threads of the pool together take the requests in the order they    *)
(* came, each once, answer none twice, and forget none they took while the *)
(* process runs.                                                           *)
THEOREM PoolServes == Spec => KeepsService
  <1>1. Init => Service!Init
    BY DEF Init, Service!Init
  <1>2. PoolInv /\ [Next]_vars => Service!Next \/ UNCHANGED Outside
    BY StepServes
  <1>3. PoolInv /\ [Next]_vars => [Service!Next]_<<backlog, {req[t] : t \in Thread} \ {NoReq}, answered, process \in {"starting", "joining"}>>
    BY <1>2 DEF Outside, Serving, Running
  <1> QED BY <1>1, <1>3, PoolInvariant, PTL DEF Spec, KeepsService, Service!Spec

=============================================================================
