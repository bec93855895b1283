---------------------------- MODULE MCWorkerPool ----------------------------
(***************************************************************************)
(* A small instance of WorkerPool for TLC.                                 *)
(***************************************************************************)
EXTENDS WorkerPool
=============================================================================
