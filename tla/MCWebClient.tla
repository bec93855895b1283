---------------------------- MODULE MCWebClient -----------------------------
(***************************************************************************)
(* A site for TLC: a page and a file in the root, a page below it.         *)
(***************************************************************************)
EXTENDS WebClient

CONSTANTS main, file, sub, root, below

DirOfPage == [p \in {main, file, sub} |-> IF p = sub THEN below ELSE root]

SomeAddresses == {[page |-> main, query |-> ""], [page |-> file, query |-> "prop"],
                  [page |-> sub, query |-> "page"]}
=============================================================================
