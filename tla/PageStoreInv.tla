---------------------------- MODULE PageStoreInv ----------------------------
(***************************************************************************)
(* The inductive invariant behind the safety properties of PageStore.      *)
(***************************************************************************)
EXTENDS PageStore

(* What ties a thread's label to the rest of its state and to its file.    *)
WriteLabel == {"dump", "copy"}
MetaLabel  == {"metawrite1", "metawrite2"}
LabelsOf(op) ==
  CASE op = "save"   -> SaveLabel \cup {"reply"}
    [] op = "meta"   -> {"metaexists", "loadmeta", "stat", "metaopen2",
                         "metawrite2", "reply"}
    [] op = "load"   -> LoadLabel \cup {"reply"}
    [] op = "upload" -> {"create", "copy", "reply"}

ThreadInv(t) ==
  /\ IF Busy(t) THEN /\ server = "up"
                     /\ req[t] \in Request /\ was[t] \in Was
                     /\ pc[t] \in LabelsOf(req[t].op)
                ELSE req[t] = NoReq /\ ~solo[t]
  /\ pc[t] \in SaveLabel \ {"loadmeta", "stat"} => seen[t] \in Meta

(* A descriptor stays with the page of its thread, wherever the file goes. *)
FdInv(t) ==
  /\ pc[t] \in WriteLabel =>
       /\ fd[t] \in FilePath \cup {Orphan}
       /\ fd[t] \in FilePath => PageOf(fd[t]) = PageAt(t) /\ Exists(fd[t])
  /\ pc[t] \in MetaLabel => fd[t] \in {MetaPath(PageAt(t)), Orphan}
  /\ pc[t] \notin WriteLabel \cup MetaLabel => fd[t] = NoFd

(* From Update on, the posted content is in the archive. *)
Stored == {"size", "metaopen1", "metawrite1", "resize", "metaopen2",
           "metawrite2", "remove", "removemeta", "reply"}
ArchiveInv(t) ==
  pc[t] \in Stored => Confirmed(t) \subseteq archive

ControlInv == \A t \in Thread : ThreadInv(t) /\ FdInv(t) /\ ArchiveInv(t)

-----------------------------------------------------------------------------
(* Why the three hold: a request that is still alone on its page shares it *)
(* with no other, and each label says what the page's files look like.     *)
Alone(t) == \A u \in Thread \ {t} : Busy(u) => PageAt(u) # PageAt(t)

SoloSaveInv(t) ==
  LET p == PageAt(t)
      body == req[t].body
  IN /\ pc[t] \in {"loadmeta", "stat", "attic"} => Found(p) = was[t]
     /\ pc[t] = "stat" => was[t].sequence = 0
     /\ pc[t] \in {"attic", "fopen", "dump", "update", "size", "metaopen1"} =>
          seen[t].sequence = was[t].sequence
     /\ pc[t] \notin {"loadmeta", "stat", "attic"} /\ was[t].body # NoFile =>
          \E m \in Time : BodyAt(AtticPath(p, m)) = was[t].body
     /\ pc[t] \in {"metawrite1", "resize", "metaopen2", "metawrite2"} /\ body # Empty =>
          seen[t].sequence > was[t].sequence
     /\ pc[t] = "dump" =>
          fd[t] = DataPath(p) /\ BodyAt(DataPath(p)) = Empty
     /\ pc[t] \in {"update", "size", "metaopen1", "metawrite1", "resize",
                   "metaopen2", "metawrite2", "remove"} =>
          BodyAt(DataPath(p)) = body
     /\ pc[t] \in {"metaopen1", "metawrite1", "metaopen2", "metawrite2"} => body # Empty
     /\ pc[t] \in {"remove", "removemeta"} => body = Empty
     /\ pc[t] = "removemeta" => ~Exists(DataPath(p))
     /\ pc[t] \in MetaLabel => fd[t] = MetaPath(p)
     /\ pc[t] = "reply" => SavedAt(t)

SoloLoadInv(t) ==
  LET p == PageAt(t)
  IN /\ pc[t] = "find" => Found(p) = was[t]
     /\ pc[t] \in LoadLabel \ {"find"} =>
          was[t].body = NoFile /\ ~Exists(DataPath(p))
     /\ pc[t] = "move20" => Exists(<<"percent20", p, 0>>)
     /\ pc[t] \in {"findspace", "movespace"} => ~Exists(<<"percent20", p, 0>>)
     /\ pc[t] = "movespace" => Exists(<<"space", p, 0>>)
     /\ pc[t] = "reply" => LoadedAt(t)

(* The labels a request for a library page never reaches.                  *)
Guarded == SaveLabel \cup (LoadLabel \ {"find"}) \cup {"metaexists"}

SoloOK(t) ==
  solo[t] => /\ Alone(t)
             /\ pc[t] \in Guarded => PageAt(t) \notin LibPage
             /\ Solo(t, "save") => SoloSaveInv(t)
             /\ Solo(t, "load") => SoloLoadInv(t)

SoloInv == \A t \in Thread : SoloOK(t)

IInv == TypeOK /\ ControlInv /\ ArchivedAck /\ SoloInv
=============================================================================
