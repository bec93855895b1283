------------------------------- MODULE Startup -------------------------------
(***************************************************************************)
(* main() up to the threads: the configuration, the logs and what the      *)
(* constructor of RootServer prepares.  An exception of the program is     *)
(* logged and ends the process; any other one only ends it.                *)
(***************************************************************************)
EXTENDS Naturals, SequencesExt

CONSTANTS
  Configs,      \* what the configuration file may hold, NoFile among it
  NoFile,       \* no such file, or nothing that Json::Parse takes
  NoIndex,      \* no lib/index.html
  Placeholders, \* how many values it wants, or NoIndex
  Icons         \* the classes with an icon of their own in lib/icons

(* A configuration: the keys that are there, with values that matter here; *)
(* of data.path it is whether the path is plain, that is has no underscore.*)
Required ==
  <<"wb_root", "lib.path", "lib.redir", "data.path", "data.redir", "meta.path",
    "meta.redir", "attic.path", "attic.redir", "log", "mime">>
OptionalKey == {"name", "socket", "main_page", "dep_uri", "thread", "log.level", "log.file"}
Level == {"debug", "verbose", "other"}

VARIABLES
  pc,     \* the call of main() that comes next
  json,   \* the configuration file
  cfg,    \* TheInst(), or NoFile
  log,    \* LogBase::Inst(): sink -> severities it lets pass; <<>> is MockLog
  said,   \* sinks that have the message of the exception
  own,    \* whether what ended the start was an exception of the program
  html,   \* the index page is ready
  css     \* class -> its icon in the style sheet

startVars == <<pc, json, cfg, log, said, own, html, css>>

Severity == {"debug", "verbose", "info", "warning", "error", "critical"}

\* mutant: a new log lets nothing pass
CommonLogNone == {}

CommonLog == {"info", "warning", "error", "critical"}

(* MockLog writes everything to stderr; CompositeLog passes all on.        *)
Sinks(s) ==
  IF log = <<>> THEN {"stderr"} ELSE {sink \in DOMAIN log : s \in log[sink]}

StartInit ==
  /\ json \in Configs
  /\ pc = "config" /\ cfg = NoFile /\ log = <<>> /\ said = {} /\ own = FALSE
  /\ html = FALSE /\ css = <<>>

Throw ==
  /\ pc' = "dead" /\ own' = TRUE
  /\ said' = Sinks("critical")
  /\ UNCHANGED <<json, cfg, log, html, css>>
ThrowForeign ==
  /\ pc' = "dead"
  /\ UNCHANGED <<json, cfg, log, said, own, html, css>>

(* Cfg::Init: TheInst() gets all of the configuration or nothing of it.    *)
Missing == {i \in DOMAIN Required : Required[i] \notin json.keys}
Optional(key, value, default) == IF key \in json.keys THEN value ELSE default
ConfigInit ==
  /\ pc = "config"
  /\ IF json = NoFile \/ Missing # {} THEN Throw
     ELSE /\ cfg' = [mime |-> json.mime, plain |-> json.plain,
                     level |-> Optional("log.level", json.level, "debug"),
                     file |-> Optional("log.file", json.file, TRUE)]
          /\ pc' = "log"
          /\ UNCHANGED <<json, log, said, own, html, css>>

(* InitLog: stderr always, and the file when it has a name.  A file that   *)
(* does not open is a log that writes nothing.                             *)
Console ==
  CommonLog \cup (IF cfg.level = "debug" THEN {"verbose", "debug"}
                  ELSE IF cfg.level = "verbose" THEN {"verbose"} ELSE {})
InitLog ==
  /\ pc = "log"
  /\ \E opens \in BOOLEAN :
       log' = [sink \in {"stderr"} \cup (IF cfg.file /\ opens THEN {"file"} ELSE {}) |->
                 IF sink = "stderr" THEN Console ELSE Severity]
  /\ pc' = "server"
  /\ UNCHANGED <<json, cfg, said, own, html, css>>

(* A MIME type and its style class are sequences of pieces.                *)
CssMimeType(mime) ==
  [i \in DOMAIN mime |-> IF mime[i] \in {"/", "+", "."} THEN "-" ELSE mime[i]]
Directory == <<"inode", "-", "directory">>
OctetStream == <<"application", "-", "octet", "-", "stream">>
GenerateMimeCss ==
  [class \in {CssMimeType(m) : m \in Range(cfg.mime)} \cup {Directory, OctetStream} |->
     IF class \in Icons THEN class ELSE OctetStream]

(* The page is made of lib/index.html, where boost::format puts two values.*)
IndexHtml(n) == IF n = NoIndex THEN "throws" ELSE IF n = 2 THEN "html" ELSE "throws foreign"

(* RootServer's constructor: the style sheet, then the index page.         *)
MakeServer ==
  /\ pc = "server"
  /\ \E n \in Placeholders :
       \/ IndexHtml(n) = "throws" /\ Throw
       \/ IndexHtml(n) = "throws foreign" /\ ThrowForeign
       \/ /\ IndexHtml(n) = "html"
          /\ css' = GenerateMimeCss /\ html' = TRUE
          /\ pc' = "serve"
          /\ UNCHANGED <<json, cfg, log, said, own>>

StartNext == ConfigInit \/ InitLog \/ MakeServer

------------------------------------------------------------------------------
(* The server runs only with all of a configuration, an index page and a   *)
(* style sheet; a start that an exception of the program ends has said why *)
(* on stderr, whether the logs were set up already or not, and in the log  *)
(* file where there is one (main, Cfg::Init, InitLog, CommonLog).          *)
StartSound ==
  /\ pc = "serve" =>
       /\ json # NoFile /\ Missing = {} /\ cfg.mime = json.mime
       /\ html /\ Directory \in DOMAIN css
  /\ pc = "dead" /\ own =>
       "stderr" \in said /\ (log # <<>> /\ "file" \in DOMAIN log => "file" \in said)
=============================================================================
