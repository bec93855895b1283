------------------------------ MODULE JsonTree ------------------------------
(***************************************************************************)
(* Json.cc: values of json-c, counted references to them, and the C++      *)
(* variables that each own one reference.  json_object_put frees a value   *)
(* whose count falls to zero and puts what it holds in turn; those calls   *)
(* are steps of their own here, taken before anything else happens.  A     *)
(* call that throws leaves everything as it was and is no step.            *)
(***************************************************************************)
EXTENDS Naturals, FiniteSets, SequencesExt

CONSTANTS
  Obj,    \* the memory: as many values as there may be at a time
  Var,    \* the C++ variables of type Json
  Value,  \* what a scalar may be
  MaxItems, \* bound: elements of an array
  None    \* no value; a variable that is not in scope

ASSUME JsonAssumption ==
  IsFiniteSet(Obj) /\ IsFiniteSet(Var) /\ None \notin Obj /\ MaxItems \in Nat

VARIABLES
  heap,    \* value -> its type, count, text, and the values it holds: the
           \* members of an object by name, the elements of an array by place
  var,     \* C++ variable -> the value it owns a reference to, or None
  copies,  \* the references a map or vector of AsObject or AsArray owns
  puts,    \* calls of json_object_put to come
  lost     \* values a call forgot (not a variable of the program)

jsonVars == <<heap, var, copies, puts, lost>>

Type == {"object", "array", "scalar"}
Freed == [type |-> "freed", refs |-> 0, held |-> <<>>, text |-> None]
Node(type, held, text) == [type |-> type, refs |-> 1, held |-> held, text |-> text]

Live == {x \in Obj : heap[x].type # "freed"}
Spare == Obj \ Live
Fresh == CHOOSE x \in Spare : TRUE
Lowest(S) == CHOOSE x \in S : \A y \in S : x <= y

InScope(v) == var[v] # None
Is(v, type) == InScope(v) /\ heap[var[v]].type = type
At(f, k) == IF k \in DOMAIN f THEN {f[k]} ELSE {}
HeldBy(x) ==
  LET held == heap[x].held
      places == SetToSeq(DOMAIN held)
  IN [i \in DOMAIN places |-> held[places[i]]]

(* json_object_get for every reference in the sequence xs. *)
Times(x, f) == Cardinality({i \in DOMAIN f : f[i] = x})
GetAll(h, xs) == [x \in Obj |-> [h[x] EXCEPT !.refs = @ + Times(x, xs)]]

JsonInit ==
  /\ heap = [x \in Obj |-> Freed]
  /\ var = [v \in Var |-> None]
  /\ copies = <<>>
  /\ puts = <<>>
  /\ lost = {}

------------------------------------------------------------------------------
(* One call of json_object_put. *)
Release ==
  LET x == Head(puts)
  IN /\ puts # <<>>
     /\ IF heap[x].refs > 1
        THEN heap' = [heap EXCEPT ![x].refs = @ - 1] /\ puts' = Tail(puts)
        ELSE heap' = [heap EXCEPT ![x] = Freed] /\ puts' = HeldBy(x) \o Tail(puts)
     /\ UNCHANGED <<var, copies, lost>>

(* The constructors that make a value.  Without memory they throw. *)
New(v, node) ==
  /\ ~InScope(v) /\ Spare # {}
  /\ heap' = [GetAll(heap, node.held) EXCEPT ![Fresh] = node]
  /\ var' = [var EXCEPT ![v] = Fresh]
  /\ UNCHANGED <<copies, puts, lost>>

NewObject(v) == New(v, Node("object", <<>>, None))
NewScalar(v, text) == New(v, Node("scalar", <<>>, text))
NewArray(v, ws) ==
  /\ \A i \in DOMAIN ws : InScope(ws[i])
  /\ New(v, Node("array", [i \in DOMAIN ws |-> var[ws[i]]], None))

(* The destructor. *)
Destroy(v) ==
  /\ InScope(v)
  /\ var' = [var EXCEPT ![v] = None]
  /\ puts' = <<var[v]>>
  /\ UNCHANGED <<heap, copies, lost>>

(* A variable that comes into scope owns a reference to x.                 *)
Own(v, x) ==
  /\ ~InScope(v)
  /\ heap' = GetAll(heap, <<x>>)
  /\ var' = [var EXCEPT ![v] = x]
  /\ UNCHANGED <<copies, puts, lost>>

(* Json tmp(x); v.Swap(tmp); and tmp's destructor.                         *)
Replace(v, x) ==
  /\ InScope(v)
  /\ heap' = GetAll(heap, <<x>>)
  /\ var' = [var EXCEPT ![v] = x]
  /\ puts' = <<var[v]>>
  /\ UNCHANGED <<copies, lost>>

Copy(v, w) == InScope(w) /\ Own(v, var[w])
Assign(v, w) == InScope(w) /\ Replace(v, var[w])
Swap(v, w) ==
  /\ InScope(v) /\ InScope(w)
  /\ var' = [var EXCEPT ![v] = var[w], ![w] = var[v]]
  /\ UNCHANGED <<heap, copies, puts, lost>>

Member(w, k) == IF Is(w, "object") THEN At(heap[var[w]].held, k) ELSE {}
Item(w, i) == IF Is(w, "array") THEN At(heap[var[w]].held, i) ELSE {}
Subscript(v, w, k) == \E x \in Member(w, k) : Own(v, x)
Index(v, w, i) == \E x \in Item(w, i) : Own(v, x)
Get(w, k, v) == \E x \in Member(w, k) : Replace(v, x)

(* The element FindInArray returns: the first whose member k is text. *)
Found(w, k, text) ==
  LET items == heap[var[w]].held
      hits == {i \in DOMAIN items : /\ heap[items[i]].type = "object"
                                    /\ \E x \in At(heap[items[i]].held, k) : heap[x].text = text}
  IN IF Is(w, "array") /\ hits # {} THEN {items[Lowest(hits)]} ELSE {}
FindInArray(v, w, k, text) == \E x \in Found(w, k, text) : Own(v, x) \/ Replace(v, x)

(* The values that hold x, and those that hold them. *)
Holders[n \in Nat, x \in Obj] ==
  IF n = 0 THEN {x}
  ELSE {x} \cup UNION {Holders[n - 1, y] : y \in
         {z \in Live : x \in Range(heap[z].held)}}
(* No caller makes a value hold itself. *)
MayHold(v, w) == InScope(v) /\ InScope(w) /\ var[w] \notin Holders[Cardinality(Obj), var[v]]

\* mutant: without json_object_get of the new member
AddMemberSteals(v, k, w) ==
  /\ Is(v, "object") /\ MayHold(v, w)
  /\ LET old == heap[var[v]].held
     IN /\ heap' = [heap EXCEPT ![var[v]].held =
                      [j \in DOMAIN old \cup {k} |-> IF j = k THEN var[w] ELSE old[j]]]
        /\ puts' = IF k \in DOMAIN old THEN <<old[k]>> ELSE <<>>
  /\ UNCHANGED <<var, copies, lost>>

(* json_object_object_add puts the member it replaces. *)
AddMember(v, k, w) ==
  /\ Is(v, "object") /\ MayHold(v, w)
  /\ LET old == heap[var[v]].held
     IN /\ heap' = [GetAll(heap, <<var[w]>>) EXCEPT
                      ![var[v]].held = [j \in DOMAIN old \cup {k} |->
                                             IF j = k THEN var[w] ELSE old[j]]]
        /\ puts' = IF k \in DOMAIN old THEN <<old[k]>> ELSE <<>>
  /\ UNCHANGED <<var, copies, lost>>

AddItem(v, w) ==
  /\ Is(v, "array") /\ MayHold(v, w) /\ Len(heap[var[v]].held) < MaxItems
  /\ heap' = [GetAll(heap, <<var[w]>>) EXCEPT
                ![var[v]].held = Append(heap[var[v]].held, var[w])]
  /\ UNCHANGED <<var, copies, puts, lost>>

(* AsObject and AsArray: a container with a reference to all that w holds. *)
AsContainer(w) ==
  /\ InScope(w) /\ copies = <<>>
  /\ copies' = HeldBy(var[w])
  /\ heap' = GetAll(heap, copies')
  /\ UNCHANGED <<var, puts, lost>>
DropContainer ==
  /\ copies # <<>>
  /\ puts' = copies
  /\ copies' = <<>>
  /\ UNCHANGED <<heap, var, lost>>

(* json_tokener makes the object of fields and hands over its reference.   *)
(* Json::Parse keeps it in v; what it kept before is forgotten.            *)
Document(fields, held) ==
  [x \in Obj |->
     IF x = Fresh THEN Node("object", held, None)
     ELSE IF x \in Range(held)
     THEN Node("scalar", <<>>, fields[CHOOSE k \in DOMAIN fields : held[k] = x])
     ELSE heap[x]]
Tokenize(v, fields) ==
  LET places == Injection(DOMAIN fields, Spare \ {Fresh})
  IN /\ Spare # {} /\ places # {}
     /\ heap' = Document(fields, CHOOSE held \in places : TRUE)
     /\ var' = [var EXCEPT ![v] = Fresh]
     /\ lost' = lost \cup ({var[v]} \ {None})
     /\ UNCHANGED <<copies, puts>>

------------------------------------------------------------------------------
(* Any calls a program may make of the class. *)
JsonCall(names, keys) ==
  /\ puts = <<>>
  /\ \E v, w \in names :
       \/ NewObject(v)
       \/ \E text \in Value : NewScalar(v, text)
       \/ NewArray(v, <<>>) \/ NewArray(v, <<w, w>>)
       \/ Destroy(v)
       \/ Copy(v, w)
       \/ Assign(v, w)
       \/ Swap(v, w)
       \/ \E k \in keys : Subscript(v, w, k) \/ Get(w, k, v) \/ AddMember(v, k, w)
       \/ \E i \in 1 .. MaxItems : Index(v, w, i)
       \/ \E k \in keys, text \in Value : FindInArray(v, w, k, text)
       \/ AddItem(v, w)
       \/ AsContainer(w)
       \/ DropContainer

------------------------------------------------------------------------------
(* The references to x that somebody will put one day: of the variables,  *)
(* of a container, of the calls to come, and of the values that hold x.    *)
Slots == UNION {{y} \X DOMAIN heap[y].held : y \in Obj}
HeldAt == [s \in Slots |-> heap[s[1]].held[s[2]]]
Owners(x) == Times(x, var) + Times(x, copies) + Times(x, puts) + Times(x, HeldAt)

(* Through any sequence of copies, assignments, insertions and            *)
(* replacements a value lives exactly as long as somebody owns a reference *)
(* to it: none is freed early and none is left over (Json's constructors,  *)
(* destructor, operator=, Get, Add).  Only a value lost by Json::Parse     *)
(* stays, with a count of one too many.                                    *)
CountsExact ==
  \A x \in Obj : heap[x].refs = Owners(x) + (IF x \in lost THEN 1 ELSE 0)
=============================================================================
