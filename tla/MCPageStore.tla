----------------------------- MODULE MCPageStore -----------------------------
(***************************************************************************)
(* Small instances of PageStore and its inductive invariant for TLC.       *)
(***************************************************************************)
EXTENDS PageStoreInv, TLC

CONSTANTS t1, t2, p1, p2

(* The threads are interchangeable, and no run here asks for liveness.     *)
Threads == Permutations(Thread)

(* A bound: in one behaviour the clock goes on or a call fails unnoticed.  *)
OneEvent == failures + now < 3
=============================================================================
