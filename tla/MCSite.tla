-------------------------------- MODULE MCSite --------------------------------
(***************************************************************************)
(* A small instance of Site: names of up to three letters, escapes and     *)
(* slashes, four states of the data, configurations that are complete or   *)
(* miss a key.                                                             *)
(***************************************************************************)
EXTENDS Site

OctetOf ==
  (<<"2", "0">> :> " ") @@ (<<"2", "7">> :> "'") @@ (<<"5", "F">> :> "_") @@ (<<"5", "f">> :> "_")
  @@ (<<"4", "1">> :> "A")
Root == <<"/", "webwrite">>
Main == <<"main">>

Token ==
  {[spelling |-> <<c>>, means |-> <<c>>] : c \in {"/", "a", "_", "sub"}} \cup
  {[spelling |-> <<"%", "2", "0">>, means |-> <<"_">>],
   [spelling |-> <<"%", "2", "7">>, means |-> <<"'">>],
   [spelling |-> <<"%", "4", "1">>, means |-> <<"%", "4", "1">>],
   [spelling |-> <<".", "js">>, means |-> <<".", "js">>]}
OneSlash(t) == \A i \in 1 .. Len(t.means) - 1 : t.means[i] # "/" \/ t.means[i + 1] # "/"
Tokens(n) ==
  {[spelling |-> FlattenSeq([i \in 1 .. n |-> f[i].spelling]),
    means |-> FlattenSeq([i \in 1 .. n |-> f[i].means])] : f \in [1 .. n -> Token]}
TypedNames == {t \in Tokens(0) \cup Tokens(1) \cup Tokens(2) \cup Tokens(3) : OneSlash(t)}
  \cup {[spelling |-> <<"/", "%", "2", "0", "/", "a">>, means |-> <<"/", "_", "/", "a">>],
        [spelling |-> <<"/", "a", "/", "_", "/", "a">>, means |-> <<"/", "a", "/", "_", "/", "a">>]}
SomeQueries == {<<>>, <<"prop">>, <<"index">>, <<"data">>, <<"else", "=", "1">>}

Host == {<< <<"a">> >>}
Lib == {<< <<"sub", ".", "js">> >>}
Sub == << <<"sub">> >>
SubMain == << <<"sub">>, Main >>
Stored == (SubMain :> <<"text", "/", "plain">>)
          @@ (<< <<"sub">>, <<"a", ".", "js">> >> :> <<"text", "/", "html">>)
FirstTrees ==
  {[dirs |-> {<<>>}, files |-> {<< <<"sub">> >>}],
   [dirs |-> {<<>>, Sub}, files |-> {SubMain, << <<"a">> >>, << <<"a", " ", "a">> >>,
                                      << <<"sub">>, <<"a", ".", "js">> >>}],
   [dirs |-> {<<>>, Sub, SubMain, Append(SubMain, Main)},
    files |-> {SubMain \o <<Main, <<"a">> >>, << <<"%", "2", "0">> >>}],
   [dirs |-> {<<>>, << <<" ">> >>}, files |-> {<< <<" ">>, <<"a">> >>}]}
Saved == {SubMain, << Main, <<"a">> >>}

Mime == (<<".", "js">> :> <<"application", "/", "javascript">>)
        @@ (<<".", "html">> :> <<"text", "/", "html">>)
Keys == Range(Required)
Full == [keys |-> Keys, mime |-> Mime, plain |-> TRUE, level |-> "debug", file |-> TRUE]
SomeConfigs ==
  {NoFile, Full} \cup {[Full EXCEPT !.keys = Keys \ {k}] : k \in {"wb_root", "mime"}} \cup
  {[Full EXCEPT !.keys = Keys \cup OptionalKey, !.plain = FALSE, !.level = "verbose", !.file = FALSE]}
SomeIcons == {Directory, <<"text", "-", "html">>}
=============================================================================
