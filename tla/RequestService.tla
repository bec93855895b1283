--------------------------- MODULE RequestService ---------------------------
(***************************************************************************)
(* What the pool of worker threads promises to the clients: requests are   *)
(* taken in the order they came, each by one worker, and each is answered  *)
(* at most once, after it was taken.  Until the server ends, by returning  *)
(* or with an exception, a request that was taken is never forgotten.      *)
(***************************************************************************)
EXTENDS Sequences

CONSTANT Request

VARIABLES
  waiting,    \* the requests not taken yet, in the order they came
  serving,    \* the requests some worker is working on
  answered,   \* the requests that have been answered
  running     \* the server has not ended

Init == waiting = <<>> /\ serving = {} /\ answered = {} /\ running = TRUE

Arrive(r) ==
  /\ waiting' = Append(waiting, r)
  /\ UNCHANGED <<serving, answered, running>>

Take ==
  /\ running = TRUE /\ waiting # <<>>
  /\ Head(waiting) \notin serving \cup answered
  /\ serving' = serving \cup {Head(waiting)}
  /\ waiting' = Tail(waiting)
  /\ UNCHANGED <<answered, running>>

Answer(r) ==
  /\ running = TRUE /\ r \in serving \ answered
  /\ serving' = serving \ {r}
  /\ answered' = answered \cup {r}
  /\ UNCHANGED <<waiting, running>>

(* Only a server that fails ends with requests in service. *)
End ==
  /\ running' = FALSE
  /\ serving' = {}
  /\ UNCHANGED <<waiting, answered>>

Next == (\E r \in Request : Arrive(r) \/ Answer(r)) \/ Take \/ End

Spec == Init /\ [][Next]_<<waiting, serving, answered, running>>
=============================================================================
